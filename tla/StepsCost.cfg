CONSTANTS
    r1 = r1
    r2 = r2
    t1 = t1
    t2 = t2
    None = None
    NoCost = NoCost
    Runners = {r1}
    MaxAttempts = 1
    DirectIds = {}
    Tasks = {t1}
    DependsOn <- Chain
    MaxChildren = 1
    Shares <- UnpricedShares
    Usages <- PricedUsages
    Limit <- PricedLimit
    Demands <- MCDemands
    MaxRetries = 0
    MaxFaults = 0

SPECIFICATION Spec

INVARIANT
    CostNeverOversubscribed

CHECK_DEADLOCK FALSE

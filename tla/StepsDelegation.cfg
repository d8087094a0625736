CONSTANTS
    r1 = r1
    r2 = r2
    t1 = t1
    t2 = t2
    None = None
    NoCost = NoCost
    Runners = {r1, r2}
    MaxAttempts = 1
    DirectIds = {}
    Tasks = {t1, t2}
    DependsOn <- Chain
    MaxChildren = 2
    Shares <- MCShares
    Usages <- MCUsages
    Limit <- MCLimit
    Demands <- MCDemands
    MaxRetries = 1
    MaxFaults = 1

SPECIFICATION Spec
SYMMETRY RunnerSymmetry
VIEW CurrentView

INVARIANTS
    DelegationPaid

PROPERTY
    NothingUndone

CHECK_DEADLOCK FALSE

CONSTANTS
    r1 = r1
    r2 = r2
    t1 = t1
    t2 = t2
    None = None
    NoCost = NoCost
    Runners = {r1, r2}
    MaxAttempts = 2
    DirectIds = {1}
    Tasks = {}
    DependsOn <- Chain
    MaxChildren = 0
    Shares <- MCShares
    Usages <- MCUsages
    Limit <- MCLimit
    Demands <- MCDemands
    MaxRetries = 1
    MaxFaults = 1

SPECIFICATION Spec
SYMMETRY RunnerSymmetry
VIEW CurrentView

INVARIANTS
    NeverOversubscribed
    CalledOnceAndPaid
    EndTogether
    OnlyLostAttemptsLinger
    RetriesFollowFailures

PROPERTY
    MeterKept

CHECK_DEADLOCK FALSE

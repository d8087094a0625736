\* A commit of another thread is delivered before the initial value.
CONSTANTS
    p = p
    q = q
    a = a
    b = b
    Broken = Broken
    Roots = {a, b}
    Threads = {t1, t2}
    t1 = t1
    t2 = t2
    Initial <- MCInitial
    Policy <- MCPolicy
    Mutations <- MCMutations
    Specs <- MCSpecs
    MaxMutations = 3
    MaxCommits = 3
    MaxSubs = 1
    MaxLeaves = 3
    MaxRegistered = 1
SPECIFICATION Spec
SYMMETRY ThreadSymmetry
PROPERTY InitialFirst
CHECK_DEADLOCK FALSE

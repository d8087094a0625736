SPECIFICATION Spec
CONSTANTS
    Sessions = {s1}
    EventCapacity = 3
    ExecutionCapacity = 1
    TurnLimit = 1
    MaxPrompts = 2
    MaxJournal = 1
    MaxRestarts = 1
INVARIANT
    AnsweredHasEnded
CHECK_DEADLOCK FALSE

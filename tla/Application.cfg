SPECIFICATION FairSpec
CONSTANTS
    Sessions = {s1}
    EventCapacity = 3
    ExecutionCapacity = 1
    TurnLimit = 1
    MaxPrompts = 2
    MaxJournal = 1
    MaxRestarts = 1
INVARIANTS
    ProjectionFollowsJournal
    NoUpdateLost
    AnswerIsTrue
PROPERTIES
    NothingAfterTheAnswer
    PromptsAnswered
CHECK_DEADLOCK FALSE

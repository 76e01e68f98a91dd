CONSTANTS
    MaxAsks = 2
    MaxConns = 2
    MaxRest = 1
    WriteQLen = 1
SPECIFICATION Spec
INVARIANTS
    ReplyIsMine
    PairedRounds
    NothingForgotten
PROPERTIES
    EveryQuestionEnds
CHECK_DEADLOCK FALSE

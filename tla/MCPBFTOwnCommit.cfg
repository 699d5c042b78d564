SPECIFICATION Spec
CONSTANTS
    a = a
    b = b
    NoOp = NoOp
    Nil = Nil
    N = 4
    Down = {3}
    Requests <- TwoRequests
    InitSeq = 1
    CheckpointDiv = 100
    Arrives <- Everything
    Patient = TRUE
    MaxView = 2
    MaxTimeouts = 1
    MaxSends = 3
    MaxRestarts = 0
INVARIANT EndsAnswered
CHECK_DEADLOCK FALSE

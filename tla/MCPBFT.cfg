SPECIFICATION Spec
CONSTANTS
    a = a
    b = b
    NoOp = NoOp
    Nil = Nil
    N = 4
    Down = {3}
    Requests <- TwoRequests
    InitSeq = 1
    CheckpointDiv = 2
    Arrives <- Everything
    Patient = FALSE
    MaxView = 0
    MaxTimeouts = 0
    MaxSends = 1
    MaxRestarts = 3
INVARIANT TypeOK
INVARIANT SameOrder
INVARIANT NoPanic
INVARIANT NoDuplicateSeq
INVARIANT GrantedIsRemembered
CHECK_DEADLOCK FALSE

SPECIFICATION Spec
CONSTANTS
    a = a
    b = b
    NoOp = NoOp
    Nil = Nil
    N = 4
    Down = {}
    Requests <- ThreeAndTwo
    InitSeq = 0
    CheckpointDiv = 100
    Arrives <- CutOff
    Patient = TRUE
    MaxView = 1
    MaxTimeouts = 1
    MaxSends = 2
    MaxRestarts = 0
INVARIANT SameOrder
CHECK_DEADLOCK FALSE

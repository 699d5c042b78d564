CONSTANTS
    a = a
    b = b
    c = c
    Requests <- ThreeRequests
    Timeout = 1
    FirstNonce = 0
    MaxFailures = 1
    MaxRestarts = 1
SPECIFICATION FairSpec
INVARIANT TypeOK
INVARIANT OnLoan
PROPERTY NoGapStays
CHECK_DEADLOCK FALSE

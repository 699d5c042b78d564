CONSTANTS
    alice = alice
    n1 = n1
    n2 = n2
    federation = federation
    nobody = nobody
    none = none
    s1 = s1
    Users <- MCUsers
    Secrets <- MCSecrets
    Notaries <- MCNotaries
    Federation = federation
    Nobody = nobody
    NoSecret = none
    Threshold = 1
    MinExpiration = 3
    MinLockoutBlocks = 0
    CrossFeeRate = 2
    UintMax = 30
    EtherSupply = 2
    Amounts = {2}
    Expirations = {4}
    MaxMCBlock = 6
    MaxSCBlock = 6
    MaxLocks = 1
    MaxNonces = 1
    MaxCrashes = 1
    CallsFail = TRUE
    Prompt = TRUE
    PromptSessions = TRUE
    MaxSkew = 1
SPECIFICATION Spec
SYMMETRY SameNotaries
INVARIANT RecordsAreTrue
PROPERTY OutcomesStay
CHECK_DEADLOCK FALSE

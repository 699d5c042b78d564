CONSTANTS
    alice = alice
    n1 = n1
    n2 = n2
    federation = federation
    nobody = nobody
    none = none
    s1 = s1
    Users <- MCUsers
    Secrets <- MCSecrets
    Notaries <- MCNotaries
    Federation = federation
    Nobody = nobody
    NoSecret = none
    Threshold = 1
    MinExpiration = 5
    MinLockoutBlocks = 1
    CrossFeeRate = 2
    UintMax = 30
    EtherSupply = 2
    Amounts = {2}
    Expirations = {6}
    MaxMCBlock = 9
    MaxSCBlock = 9
    MaxLocks = 1
    MaxNonces = 1
    MaxCrashes = 0
    CallsFail = FALSE
    Prompt = TRUE
    PromptSessions = TRUE
    MaxSkew = 1
SPECIFICATION FairSpec
INVARIANT InChargeAgreed
INVARIANT SecretIsActedOn
INVARIANT EndedIsSettled
PROPERTY MintedIsClaimed
PROPERTY ReleasedIsDestroyed
PROPERTY TokenLocksEnd
CHECK_DEADLOCK FALSE

CONSTANTS
    alice = alice
    federation = federation
    nobody = nobody
    s1 = s1
    s2 = s2
    none = none
    User = alice
    Federation = federation
    Nobody = nobody
    Secrets <- MCSecrets
    NoSecret = none
    Gift = 4
    Percents = {1, 5}
    Lifetime = 2
    MaxMCBlock = 3
    MaxSCBlock = 2
    EtherSupply = 4
    UintMax = 10
    HelperFails = TRUE
    Lost = {"pubkey2address", "transfer-to-account", "generateSecret", "generateTx", "sendTx", "querystatus", "scPrepareLockin", "scpreparelockin"}
    MaxQueries = 1
SPECIFICATION FairSpec
INVARIANT TypeOK
INVARIANT OneAtATime
INVARIANT SecretKept
INVARIANT CancelIsOffered
PROPERTY LockinEnds
CONSTRAINT InOrder
CHECK_DEADLOCK FALSE

CONSTANTS
    alice = alice
    notary = notary
    zero = zero
    s1 = s1
    Accounts <- MCAccounts
    Nobody = zero
    Deployer = notary
    Secrets <- MCSecrets
    UintMax = 4
    MaxBlock = 1
    Amounts = {0, 2}
    Expirations = {0, 1}
SPECIFICATION Spec
INVARIANT TypeOK
INVARIANT SupplyIsAccountedFor
PROPERTY LockinIsHTLC
PROPERTY LockoutIsHTLC
CHECK_DEADLOCK FALSE

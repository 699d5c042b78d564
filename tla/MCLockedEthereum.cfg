CONSTANTS
    alice = alice
    notary = notary
    zero = zero
    s1 = s1
    Accounts <- MCAccounts
    Nobody = zero
    Deployer = notary
    Secrets <- MCSecrets
    MinLockoutBlocks = 1
    EtherSupply = 2
    MaxBlock = 3
    Amounts = {0, 1}
    Expirations = {0, 1, 2}
SPECIFICATION Spec
INVARIANT TypeOK
PROPERTY LockinIsHTLC
PROPERTY LockoutIsHTLC
CHECK_DEADLOCK FALSE

SPECIFICATION ConfiguredSpec
CONSTANTS
    alice = alice
    bob = bob
    lido = lido
    dao = dao
    operator = operator
    oracle = oracle
    vault = vault
    Accounts = {alice, lido, dao, operator}
    LidoAddress = lido
    OperatorAccounts = {operator}
    Spenders = {dao}
    BurnableAccounts = {alice}
    Vaults = {vault}
    NoVault = NoVault
    RecoveryVault = dao
    ProtocolContracts <- MCContracts
    UINT32_MAX = 15
    UINT96_MAX = 15
    MaxBlock = 2
    StakeLimits <- MCStakeLimits
    Amounts = {1, 2}
    DEPOSIT_SIZE = 2
    TOTAL_BASIS_POINTS = 10
    MaxEther = 4
    MaxBeaconBalance = 7
    MaxDeposits = 2
    CredentialChoices = {TRUE, FALSE}
    VaultChoices = {vault, NoVault}
    MaxShares = 9
    FeeValues = {9, 11}
    FeeDistributions <- MCFeeDistributions
    RewardsLimits = {5}
    TransferValues = {1}
    BurnValues = {1}
    AllowanceValues = {1}
CONSTRAINT MCBound
INVARIANTS
    LidoTypeOK
    SharesSumToTotal
    BooksAreCovered
PROPERTIES
    UnaccountedUntouched
    FeeWithinItsPart
    ImplementsPool
    SpenderWithinAllowance

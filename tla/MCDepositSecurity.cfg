SPECIFICATION ConfiguredSpec
CONSTANTS
    k1 = k1
    k2 = k2
    p = p
    EmptyKey = EmptyKey
    Keys = {k1, k2}
    RewardAddresses = {p}
    MAX_NODE_OPERATORS_COUNT = 1
    WORD = 16
    MaxKeys = 2
    StakingLimits = {1, 2}
    MaxAssigned = 2
    Addresses = {1, 2}
    BLOCKHASH_WINDOW = 1
    Quorums = {1, 2}
    Distances = {1}
    Validities = {1}
    MaxDepositsChoices = {2}
    LastDepositBlocks = {3}
    MaxBlock = 3
    MaxRoot = 1
    MaxIndex = 3
    MaxMessages = 2
INVARIANTS
    GuardiansAreIndexed
PROPERTIES
    DepositsAreVetted
    PauseIsIntended
    IndexGuardsKeys

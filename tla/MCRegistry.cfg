SPECIFICATION Spec
CONSTANTS
    k1 = k1
    k2 = k2
    p = p
    q = q
    EmptyKey = EmptyKey
    Keys = {k1, k2}
    RewardAddresses = {p, q}
    MAX_NODE_OPERATORS_COUNT = 2
    WORD = 2
    MaxKeys = 2
    StakingLimits = {1, 2}
    MaxAssigned = 3
SYMMETRY MCSymmetry
INVARIANTS
    CountersInOrder
    KeysAreStored
    RewardsWithinTotal
PROPERTIES
    UsedKeysAreFinal
    AssignmentIsFair
    AssignmentIsComplete

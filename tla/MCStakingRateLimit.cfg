SPECIFICATION PacingSpec
CONSTANTS
    UINT32_MAX = 15
    UINT96_MAX = 15
    Amounts = {1, 2, 3}
    MaxBlock = 6
    StakeLimits <- MCStakeLimits
    MaxAccepted = 8
CONSTRAINT MCConstraint
INVARIANTS
    StakeIsPaced
PROPERTY
    SettingNeverRaises

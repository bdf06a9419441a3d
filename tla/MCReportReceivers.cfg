CONSTANTS
    Voting = voting
    Burner = burner
    Wrapper = wrapper
    Treasury = user
    Accounts = {voting, burner, wrapper, user}
    Wrappers = {user}
    OtherCallback = other
    Composite = composite
    NoReceiver = none
    MAX_CALLBACKS_COUNT = 3
    MAX_BASIS_POINTS = 2
    AllowanceValues = {2}
    Amounts = {1, 2}
    PooledValues = {3, 5}
    FeeShares = {0, 1}
    MaxShares = 5
SPECIFICATION Spec
CONSTRAINT MCBound
INVARIANTS
    RequestsAreHeld
    WrapperIsCovered
PROPERTIES
    BurnsFollowQuota
    CallbacksKeepOrder

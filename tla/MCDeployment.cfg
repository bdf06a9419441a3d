SPECIFICATION DeploymentSpec
CONSTANTS
    LidoApps = {"lido"}
    Holders = {"ann", "bob"}
    VestedAmount <- MCVestedAmount
    UnvestedAmount = 2
    InitialDomains = {"nobody", "multisig"}
    MaxUpstream = 2
    MaxCreations = 3
    MaxChain = 9
    AppList <- MCAppList
    HolderList <- MCHolderList
    MAX_HOLDERS_IN_ONE_TX = 1
    Contents = {1}
INVARIANTS
    VestedExactly
    InstalledCodeIsVerified
    PermissionsAreHandedOver
CHECK_DEADLOCK FALSE

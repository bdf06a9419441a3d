SPECIFICATION SetupSpec
CONSTANTS
    LidoApps = {"lido", "oracle", "node-operators-registry"}
    Holders = {"ann"}
    VestedAmount <- MCVestedAmount
    UnvestedAmount = 2
    InitialDomains = {"nobody"}
    MaxUpstream = 1
    MaxCreations = 9
    MaxChain = 14
    AppList <- MCAppList
    Entity <- MCEntity
    Guardians = {"g", "h"}
    ParamGuardians = {"g"}
    ParamQuorum = 1
    Campaigns <- MCCampaigns
    MaxInstances <- MCMaxInstances
    MaxVotes = 3
    MaxKeys = 1
INVARIANTS
    OneDepositor
    LiveCheckMeansWired
    FreshCheckMeansExact
PROPERTIES
    PublishedInOrder
CHECK_DEADLOCK FALSE

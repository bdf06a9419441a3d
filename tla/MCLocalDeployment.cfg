CONSTANTS
    StdApps <- MCStdApps
    LidoApps <- MCLidoApps
    MaxRuns = 4
    MaxCrashes = 2
SPECIFICATION Spec
INVARIANT EnvironmentFits
PROPERTY EnvironmentCompletes

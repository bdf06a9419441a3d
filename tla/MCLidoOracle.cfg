SPECIFICATION HistorySpec
CONSTANTS
    a = a
    b = b
    c = c
    r1 = r1
    r2 = r2
    NoReport = NoReport
    Candidates = {a, b, c}
    MAX_MEMBERS = 3
    Reports = {r1, r2}
    Quorums = {1, 2, 3}
    BeaconSpecs <- MCSpecs
    Increases = {100}
    Decreases = {0, 50}
    PooledValues = {2, 3}
    YEAR = 1
    BASIS_POINTS = 100
    WORD = 1024
    MaxTime = 6
    MaxEpoch = 9
SYMMETRY MCSymmetry
INVARIANTS
    TallyIsTheBallots
    ExpectsLaterEpoch
    SettledOnlyIfTied
PROPERTIES
    EpochsAdvance
    QuorumBacksPush

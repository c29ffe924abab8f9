SPECIFICATION PairsSpec
CONSTANTS
    w1 = w1  w2 = w2  w0 = w0  old = old  older = older  k1 = k1
    NoRun = NoRun
    NoKey = NoKey
    Writer = {w1, w2, w0}
    Runless = {w0}
    PastRun = {old, older}
    Key = {k1}
    LastSeq = 4
    History <- MCHistory
    MaxAsks = 3
    MaxFaults = 2
INVARIANTS TypeOK CachesAgree AcknowledgedKept NothingVoid LostOnce
PROPERTY ImplementsRecord
SYMMETRY Runs
CHECK_DEADLOCK FALSE

SPECIFICATION LiveSpec
CONSTANTS
    w1 = w1  w2 = w2  old = old  older = older  k1 = k1
    NoRun = NoRun
    NoKey = NoKey
    Journals = {w1, w2}
    Runless = {}
    PastRun = {old, older}
    Key = {k1}
    LastSeq = 4
    MaxAsks = 2
    MaxFaults = 1
    a = a  b = b  ann = ann  None = None
    Seat = {a}
    Person = {ann}
    Writer = a
    Attention <- AloneAttention
    Fixed = {}
    Ttl = 1
    Deadline = 1
    Backoff = 1
    Resend = 1
    Attempts = 2
    Cast = {a}
    Recasts <- NoRecast
    Guest = {ann}
    Delay = 1
    Passes = 3
    Reads = {"record"}
    Named = {None}
    Budget <- LiveBudget
INVARIANT TypeOK
PROPERTIES ComesToRest QueueDrains
CHECK_DEADLOCK FALSE

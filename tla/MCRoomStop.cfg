SPECIFICATION StopSpec
CONSTANTS
    a = a  b = b  ann = ann  None = None
    Seat = {a, b}
    Person = {ann}
    Writer = b
    Attention <- WatchingAttention
    Fixed = {a}
    Ttl = 1
    Deadline = 2
    Backoff = 1
    Resend = 1
    Attempts = 2
    Cast = {a, b}
    Recasts <- RecastAlone
    Guest = {ann}
    Delay = 1
    Passes = 3
    Reads = {"record"}
    Named = {None}
    Budget <- StopBudget
INVARIANTS IndexAgrees AuthorityHolds OneExchangeEach
CHECK_DEADLOCK FALSE

SPECIFICATION Spec
CONSTANTS
    a = a  b = b  ann = ann  None = None
    Seat = {a, b}
    Person = {ann}
    Writer = b
    Attention <- AddressedAttention
    Fixed = {}
    Ttl = 2
    Deadline = 3
    Backoff = 1
    Resend = 1
    Attempts = 2
    Cast = {a, b}
    Recasts <- NoRecast
    Guest = {ann}
    Delay = 1
    Passes = 3
    Reads = {"record"}
    Named = {None}
    Budget <- LostBudget
INVARIANT NeverAsleep
CHECK_DEADLOCK FALSE

SPECIFICATION TalkSpec
CONSTANTS
    a = a  b = b  ann = ann  None = None
    Seat = {a, b}
    Person = {ann}
    Writer = a
    Attention <- AddressedAttention
    Fixed = {}
    Ttl = 1
    Deadline = 2
    Backoff = 1
    Resend = 1
    Attempts = 2
    Cast = {a, b}
    Recasts <- NoRecast
    Guest = {ann}
    Delay = 1
    Passes = 3
    Reads = {"nothing", "cause", "record"}
    Named = {None, ann}
    Budget <- TalkBudget
INVARIANTS AttemptFresh LeaseStory SummaryOnce NeverAsleep
           CancelledStaysDead ReturnedOnce OneLivePerSeat
PROPERTY CloseQuiet ViewsSettle
CHECK_DEADLOCK FALSE

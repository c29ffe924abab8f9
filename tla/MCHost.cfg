SPECIFICATION HostSpec
CONSTANTS
    Parts = {"callers", "wire", "seat", "room", "executors", "compose"}
    Call = {1, 2, 3}
    Waiter = {1, 2}
    Plays <- MCPlays
    Act = {1, 2}
    WireSends = 3
    SeatChances <- MCSeatChances
    RoomRuns = 5
    RoomChances <- MCRoomChances
    Kinds = {"none", "claude", "codex", "pi"}
    Size = 3
    Passes = 2
    ClaudeLucks <- MCClaudeLucks
    CodexLucks <- MCCodexLucks
    PiLucks <- MCPiLucks
    Tool = {"say", "bash"}
    Sequential = {"say"}
    RoomTool = {"say"}
    CallLimit = 3
    Concurrent = 2
INVARIANTS VisitsAgree CancelOnce OutageToldOnce RunKept RegistryAgrees ReportIsWhole
PROPERTY CallersAnswered SeatServes KeepsContract
CHECK_DEADLOCK FALSE

SPECIFICATION ExecutorSpec
CONSTANTS
    Kinds = {"pi"}
    Size = 3
    Passes = 2
    ClaudeLucks <- MCClaudeLucks
    CodexLucks <- MCCodexLucks
    PiLucks <- GapLucks
INVARIANT ReadIsGiven
CHECK_DEADLOCK FALSE

SPECIFICATION FairSpec
CONSTANTS
    Act = {1, 2}
    CallTries = 2
    Ttl = 2
    Deadline = 3
    Scenes <- MCScenes
INVARIANTS Informed CallLandsOnce SteeredOnce
PROPERTY QueueMoves
CHECK_DEADLOCK FALSE

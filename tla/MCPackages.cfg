SPECIFICATION PackagesSpec
CONSTANTS
    Parts = {"processes", "canvas", "widgets"}
    Handle = {1, 2}
    MaxRunning = 1
    MaxFinished = 1
    Scenes <- MCScenes
    Child = {1, 2}
    PerOpener = 1
    Plays <- MCPlays
    Person = {"mira", "ola"}
    WidgetPlays <- MCWidgetPlays
INVARIANTS TableHolds StopsTogether
PROPERTY CancelKills HearsOnce CallsSettle PressesHold
CHECK_DEADLOCK FALSE

SPECIFICATION PackagesSpec
CONSTANTS
    Parts = {"canvas"}
    Handle = {1}
    MaxRunning = 1
    MaxFinished = 1
    Scenes <- MCScenes
    Child = {1}
    PerOpener = 1
    Plays <- StopPlays
    Person = {"mira"}
    WidgetPlays <- MCWidgetPlays
PROPERTY StoppedStaysDown
CHECK_DEADLOCK FALSE

SPECIFICATION MCSpec
CONSTANTS
    Buttons = {1}
    Toggles = {2}
    EventDepth = 3
    TxDepth = 1
    KeepsUp = TRUE
    MaxMoves = 2
    MaxLost = 1
    StepsPerDetent = 2
    QueueDepth = 1
    DeltaLimit = 1
    MaxBehind = 2
    MaxSteps = 6
    SaneYear = 10
    Build = 12
    Tolerance = 1
    MaxNow = 16
    MaxFaults = 3
    LastYear = 2104
    Capacity = 4
    Threshold = 2
    Silent = TRUE
    MaxFrames = 5
    MaxOdd = 1
    Commands = {1, 3, 4, 5, 6, 7, 10}
    Blink = 10
    Silence = 10
    Fire = 7
    Restart = 14
    Debounce = 2
    Safe = 5
    Cut = 12
    LongPulse = 3
    Brightest = 2
    Holds = {2, 9, 10, 16, 17}
    MaxCommands = 2
    MaxPresses = 2
    MaxActs = 3
INVARIANTS LedsSettle EveryDetentCounted CalendarAgrees AudioInOrder HeardAsSent ButtonObeyed
PROPERTIES MirrorFollows RtcKeepsTime
CHECK_DEADLOCK FALSE

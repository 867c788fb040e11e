SPECIFICATION MCSpec
CONSTANTS
    Requesters = {r1}
    Types = {"get", "set"}
    Attempts = 2
    TxQueueDepth = 2
    PeerDepth = 2
    Polling = TRUE
    MaxCalls = 2
    MaxEvents = 1
    Contacts = 2
    Places = {"a", "b"}
    HoldTime = 2
    Debounce = 2
    MaxMoves = 4
    Kind <- MCKind
    Group <- MCGroup
    Order <- MCOrder
    Enter = {"ssui"}
    Asking = {"hideui"}
    Fingers = {1, 2}
    SwipeFrames = 2
    MaxQueue = 1
    Edits <- MCEdits
    Spins <- MCSpins
    Numpad = {"port"}
    Stepped = {"speed"}
    MaxLen = 3
INVARIANTS AnswerMatches TouchesPair NothingStuck KeyboardServesFocus
PROPERTIES ResendNeverOvertakes NothingHangs
CHECK_DEADLOCK FALSE

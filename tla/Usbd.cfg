SPECIFICATION FairSpec
CONSTANTS
    MaxClients = 2
    RingSize = 2
    MaxPayload = 1
    MaxLen = 2
    SocketSize = 1
    MaxUnits = 2
    MaxFrames = 2
    MaxReplugs = 1
INVARIANTS StreamInOrder FramesWhole
PROPERTY BytesLeave
CONSTRAINTS Uncrowded OneLoad
CHECK_DEADLOCK FALSE

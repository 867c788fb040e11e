SPECIFICATION FairSpec
CONSTANTS
    MaxClients = 1
    RingSize = 3
    MaxPayload = 1
    MaxLen = 2
    SocketSize = 1
    MaxUnits = 1
    MaxFrames = 1
    MaxReplugs = 0
PROPERTY DepartedIsNoticed
CHECK_DEADLOCK FALSE

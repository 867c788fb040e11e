SPECIFICATION MCSpec
CONSTANTS
    GiveUp = 2
    MaxTaps = 4
    MaxSignals = 1
    Cutters = {"frames", "records", "host"}
    Bytes = {0, 1, 2}
    Magic <- MCMagic
    MaxRest = 1
    Dead = 6
    MaxBytes = 7
    MaxChunk = 3
    Clients = {1, 2}
    Limit = 2
    Window = 1
    MaxFrames = 2
    MaxWrites = 1
    MaxBreaks = 1
    Masks <- MCMasks
    MaxInline = 1
    Registered <- MCRegistered
    Width = 3
    Height = 2
    Calls <- MCCalls
    MaxCalls = 3
    Columns = 7
    Rows = 6
    Boxes <- MCBoxes
    Radii = {0, 1, 2, 3, 5}
    Strokes = {1, 2, 3}
    Points <- MCPoints
    CanvasSide = 3
    Inks <- MCInks
    Spots <- MCSpots
    Spans <- MCSpans
    MaxStrokes = 3
    External = {2}
    MaxMemory = 4
    MaxDrawings = 2
    MaxConns = 2
    MaxData = 2
    MaxObjects = 2
    MaxSplits = 1
INVARIANTS ChunksDoNotMatter RelayWhole ReplayExact FrameStandsAlone ShapesAgree DrawingReachesPanel ChannelServed
PROPERTIES EndsWhenAsked TimeoutIsShown
CHECK_DEADLOCK FALSE

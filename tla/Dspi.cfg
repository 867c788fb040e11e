SPECIFICATION FairSpec
CONSTANTS
    Senders = {s1}
    TxDepth = 2
    RxDepth = 1
    FrameChunks = 2
    MaxSends = 2
    MaxInbound = 1
    HeaderOf <- MCHeaderOf
INVARIANTS HandoverComplete LineTellsPending
PROPERTIES LandedIsStable OutboundInOrder FramesLeave
CONSTRAINT OneLoad

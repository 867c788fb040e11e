SPECIFICATION FairSpec
CONSTANTS
    Callers = {c1, c2}
    TxnSlots = 2
    QueueDepth = 1
    Tags = 2
    Kinds = {TRUE}
    CallersPreempt = FALSE
INVARIANTS SlotInOnePlace OwnerAfterCritical ResultIsMine
PROPERTY SlotsComeBack

CONSTANTS
    SeqMax = 12
    EndOfSession = 4
    Live = Live
    Stale = Stale
    NoSession = NoSession
    Sessions = {Live, Stale}
    First = 1
    Longest = 3
    StreamEnd = 7
    ReorderSlots = 2
    MaxBlocks = 2
    Packets <- Everything
SPECIFICATION FairSpec
CHECK_DEADLOCK TRUE
INVARIANTS
    InOrderDelivery
    NothingDeliverableBuffered
    RequestIffGap
    EndExactlyWhenComplete
PROPERTIES
    RequestsOnlyMissing
    ImplementsStream
    EventuallyCaughtUp

CONSTANTS
    SeqMax = 12
    EndOfSession = 4
    Live = Live
    Stale = Stale
    NoSession = NoSession
    Sessions = {Live, Stale}
    First = 1
    Longest = 2
    StreamEnd = 6
    ReorderSlots = 2
    MaxBlocks = 2
    Packets <- Repacketised
SPECIFICATION Spec
CHECK_DEADLOCK TRUE
INVARIANT
    WindowEmptyWhenCaughtUp

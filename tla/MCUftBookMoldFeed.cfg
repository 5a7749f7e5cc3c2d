CONSTANTS
    SeqMax = 9
    EndOfSession = 3
    Live = Live
    Stale = Stale
    NoSession = NoSession
    Sessions = {Live, Stale}
    FeedSession = Live
    FirstSequence = 1
    Longest = 2
    StreamEnd = 6
    ReorderSlots = 2
    MaxBlocks = 2
    Packets <- Everything
SPECIFICATION MCFeedSpec
INVARIANTS
    PipelineInStep
    StrategySeesNoKnownGap
    FixedRecoveringHasRequest
PROPERTY
    RecoveryTerminates

CONSTANTS
    SeqMax = 9
    FirstSequence = 2
SPECIFICATION PipelineSpec
INVARIANTS
    AppliedInSequence
    LiveMeansNoKnownGap
    StrategyIsCurrent

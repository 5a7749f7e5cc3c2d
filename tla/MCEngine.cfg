CONSTANTS
    Instruments = {1}
    StrategyCapacity = 3
    MaxSubscribers = 2
    MaxDepth = 2
    CallbackSets <- SomeCallbackSets
SPECIFICATION EngineSpec
INVARIANTS
    RunsOnlyWhole
    CountsItsCallees

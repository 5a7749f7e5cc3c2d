CONSTANTS
    OrderCapacity = 3
    MinimumPrice = 2
    TickSize = 2
    LevelCount = 3
    kInvalid = 99
    NoId = NoId
    MaxId = MaxId
    SomeIds = {o1, o2, o3}
    MostQuantity = 2
    Requests <- SomeRequests
    Quantities <- SomeQuantities
    FeedPrices <- SomePrices
    NoTaker = NoTaker
SPECIFICATION MCSpec
SYMMETRY IdSymmetry
INVARIANTS
    PoolIsExact
    DepthIsExact
PROPERTY
    ImplementsReference

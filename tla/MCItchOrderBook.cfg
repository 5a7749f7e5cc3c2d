CONSTANTS
    SomeOrders = {o1, o2, o3}
    SomeMatches = {m1, m2, m3}
    MostQuantity = 2
    NoId = NoId
    MaxId = MaxId
    MaxOrders = 2
    MaxMatches = 2
    MaxVolume = 2
    ReplayedOrders = {q1, q2}
    ReplayedMatches = {n1}
    MaxShares = 3
    Messages <- SomeMessages
    GridPrices <- Grid
SPECIFICATION MCSpec
SYMMETRY IdSymmetry
CHECK_DEADLOCK FALSE
INVARIANTS
    BookIsExchange
    MatchesAgree
    TapeIsMatches
    NetVolumeIsTape
    VerdictIsLegality
    AdaptersAgree
    AuditIsReference

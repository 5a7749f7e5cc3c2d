CONSTANTS
    Keys = {1, 2, 3, 4}
    ZeroKey = 0
    Values = {v1, v2}
    MaximumEntries = 3
    Capacity <- CapacityOfThree
    Buckets <- AroundTheEnd
SPECIFICATION MCSpec
INVARIANTS
    EveryEntryReachable
PROPERTIES
    ImplementsMap
    EveryCallReturns

CONSTANTS
    ShmCapacity = 2
    Count = 6
    NoSequence = 99
    Readers = {r1}
SPECIFICATION ShmSpec
CHECK_DEADLOCK FALSE
INVARIANTS
    DropsAreExact
    NeverStale

CONSTANTS
    ShmCapacity = 4
    Count = 7
    NoSequence = 99
    Readers = {r}
    shm_reader = r
    Capacity = 4
    Items <- BookEvents
    Blank = Blank
SPECIFICATION Level2Spec
CHECK_DEADLOCK FALSE
INVARIANTS
    EventsArriveWhole
    NoSlotRace
    NoDataRace
PROPERTIES
    ImplementsFifo
    Terminates

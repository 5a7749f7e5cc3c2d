CONSTANTS
    SeqMax = 12
    EndOfSession = 9
    Session = "PSX"
    Sessions = {"PSX"}
    HeaderBytes = 2
    DatagramBytes = 9
    LargestDatagram = 15
    SocketDatagrams = 2
    Files <- SomeFiles
    Limits = {2, 4, 9}
SPECIFICATION LoopbackSpec
CHECK_DEADLOCK FALSE
INVARIANT PassesOnlyWhole
PROPERTY Terminates

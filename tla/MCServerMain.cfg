\* Both programs; a single update and a batch over HTTP, a batch over gRPC.
CONSTANTS
    r1 = r1
    r2 = r2
    r3 = r3
    Programs = {"server", "agent"}
    CommandLines <- Lines
    Environments <- AllEnvironments
    Files <- Contents
    FilePath <- Path
    Unreadable = Unreadable
    Requests = {r1, r2, r3}
    Http = {r1, r2}
    Singles = {r1}
    BufferSize = 1
    MaxAccepted = 2
    Ticker = Ticker
    Main = Main
    Old = Old
    None = None
SPECIFICATION ServerSpec
INVARIANTS Precedence LossWindow NothingLostOnExit
PROPERTY StopsOnSignal
\* The programs end.
CHECK_DEADLOCK FALSE

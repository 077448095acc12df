\* The server, with a command line of its README.
CONSTANTS
    r1 = r1
    r2 = r2
    r3 = r3
    Programs = {"server"}
    CommandLines <- ReadmeLines
    Environments <- NoSource
    Files <- NoSource
    FilePath <- Path
    Unreadable = Unreadable
    Requests = {r1, r2, r3}
    Http = {r1, r2}
    Singles = {r1}
    BufferSize = 1
    MaxAccepted = 2
    Ticker = Ticker
    Main = Main
    Old = Old
    None = None
SPECIFICATION ServerSpec
INVARIANT SpacedSwitchCounts
\* The programs end.
CHECK_DEADLOCK FALSE

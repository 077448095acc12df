\* Two requests at a time, and nothing fails.
CONSTANTS
    u1 = u1
    u2 = u2
    u3 = u3
    gauge = gauge
    counter = counter
    Handlers = {h1, h2}
    Periodic = Periodic
    Main = Main
    Updates = {u1, u2, u3}
    Batched = {}
    Unencodable = {}
    Entry <- WritesGaugeTwice
    Modes = {"sync"}
    Restore = TRUE
    DiskFails = FALSE
    ReadFails = FALSE
    ShutdownExpires = FALSE
    MaxStarts = 1
    None = None
    Torn = Torn
SPECIFICATION SafeSpec
INVARIANT SyncDurable
\* The server stays down after the last start.
CHECK_DEADLOCK FALSE

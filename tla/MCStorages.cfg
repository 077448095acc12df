\* The file: every mode, two requests at a time; the disk, reading and the
\* shutdown may fail.
\* The database: two clients, two calls each, whose batches lock in opposite
\* orders; counters overflow.
CONSTANTS
    u1 = u1
    u2 = u2
    u3 = u3
    gauge = gauge
    counter = counter
    Handlers = {h1, h2}
    Periodic = Periodic
    Main = Main
    Updates = {u1, u2, u3}
    Batched = {u3}
    Unencodable = {u1}
    Entry <- WritesGaugeTwice
    Modes = {"sync", "periodic", "final"}
    Restore = TRUE
    DiskFails = TRUE
    ReadFails = TRUE
    ShutdownExpires = TRUE
    MaxStarts = 2
    None = None
    Torn = Torn
    Clients = {c1, c2}
    alloc = alloc
    polls = polls
    errors = errors
    Ids = {alloc, polls, errors}
    UpdateCalls <- TypedCalls
    Null = Null
    NoRow = NoRow
    MaxInt = 2
    MaxCalls = 2
SPECIFICATION StoragesSpec
INVARIANTS TypeOK FileIsPast SyncDurableSingles FinalSaveComplete AppliedOnce
PROPERTIES NeverBackwards EventuallySaved ImplementsStore CallsReturn
\* The server stays down after the last start; all calls have been made.
CHECK_DEADLOCK FALSE

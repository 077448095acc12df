\* Delivery: two workers that may or may not overlap, two reports over HTTP.
\* Pipeline: two requests at a time, on a server with or without key, decryption
\* and subnet; agents that fit it and agents that do not.
\* Api: three requests, two of them at a time, on each of the storages; counters
\* wrap.
CONSTANTS
    Main = main
    Callers = {main}
    Workers = {g1, g2}
    Batches = {1, 2}
    QueueSize = 1
    Transports = {"http"}
    Unsendable = {}
    MayApply = TRUE
    MaxPolls = 2
    MaxStrays = 1
    Idle = Idle
    Exited = Exited
    NoCall = NoCall
    Clients = {g1, g2}
    r1 = r1
    r2 = r2
    Reports = {r1, r2}
    k1 = k1
    k2 = k2
    Keys = {k1}
    NoKey = NoKey
    ServerKeys = {k1, NoKey}
    Requests <- OtherRequests
    Objects = {1, 2}
    None = None
    Goroutines = {g1, g2}
    alloc = alloc
    pollCount = pollCount
    Ids = {alloc, pollCount, NoId}
    NoId = NoId
    Nil = Nil
    NaN = NaN
    ApiCalls <- AllCalls
    Storages = {"memory", "sync", "pg"}
    MaxInt = 2
    MaxCalls = 3
SPECIFICATION ReportsSpec
SYMMETRY Symmetry
INVARIANTS CountBounds ServedAsSent OwnAnswer StatusIsTrue ReadsAreCurrent AuditedOnce
PROPERTIES GaugesForward
\* All reports are through and all requests have been answered.
CHECK_DEADLOCK FALSE

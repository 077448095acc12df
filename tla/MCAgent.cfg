\* One worker and a queue of one, so that the final report may find it full; report 2
\* cannot be encoded; a failed request may have been applied; HTTP or gRPC.
CONSTANTS
    Main = main
    Callers = {main}
    Workers = {w1}
    Batches = {1, 2, 3}
    QueueSize = 1
    Transports = {"http", "grpc"}
    Unsendable = {2}
    MayApply = TRUE
    Idle = Idle
    Exited = Exited
    NoCall = NoCall
SPECIFICATION AgentSpec
INVARIANTS NoSilentLoss Acknowledged
PROPERTIES ShutdownIsBounded HttpStopsAfterSignal HttpDelivers

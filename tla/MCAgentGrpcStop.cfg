\* A gRPC call has no deadline: the final Submit may wait for ever.
CONSTANTS
    Main = main
    Callers = {main}
    Workers = {w1}
    Batches = {1, 2, 3}
    QueueSize = 1
    Transports = {"grpc"}
    Unsendable = {}
    MayApply = FALSE
    Idle = Idle
    Exited = Exited
    NoCall = NoCall
SPECIFICATION AgentSpec
PROPERTY StopsAfterSignal

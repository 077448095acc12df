\* The comment at pool.go:21-23 against a Submit concurrent with Shutdown.
CONSTANTS
    Callers = {c1, c2}
    Workers = {w1, w2}
    Batches = {b1, b2}
    QueueSize = 1
    Idle = Idle
    Exited = Exited
SPECIFICATION Spec
CHECK_DEADLOCK FALSE
INVARIANT NoPanic

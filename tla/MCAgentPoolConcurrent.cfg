\* Submit and Shutdown called from several goroutines.  A panic ends the
\* process, so the system may really stop.
CONSTANTS
    Callers = {c1, c2, c3}
    Workers = {w1, w2}
    Batches = {b1, b2, b3, b4}
    QueueSize = 2
    Idle = Idle
    Exited = Exited
SPECIFICATION Spec
SYMMETRY Symmetry
CHECK_DEADLOCK FALSE
INVARIANTS TypeOK Fifo AnswerIsTrue ShutdownComplete
PROPERTY ImplementsOutbox

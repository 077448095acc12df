\* Two publishers and a closer that may call again; a queue of one overflows.  The receiver
\* behind the HTTP sink may never answer.
CONSTANTS
    Handlers = {h1, h2}
    Closers = {c1}
    ObserverCount = 2
    MaxEvents = 2
    BufferSize = 1
    File = 1
    Remote = 2
    NoCall = NoCall
    Free = Free
    Idle = Idle
    Exited = Exited
SPECIFICATION SinksSpec
INVARIANTS SinksTypeOK NoPanic InOrder CloseComplete ClosedAfterWorker LogIsTrue
PROPERTIES RemotePersists Isolation CallsReturn

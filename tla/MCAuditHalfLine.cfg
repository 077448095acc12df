\* The next event continues the half line a short write has left.
CONSTANTS
    Handlers = {h1}
    Closers = {c1}
    ObserverCount = 2
    MaxEvents = 2
    BufferSize = 1
    File = 1
    Remote = 2
    NoCall = NoCall
    Free = Free
    Idle = Idle
    Exited = Exited
SPECIFICATION SinksSpec
INVARIANT OwnLines

\* A timeout of the client ends the call at once.
CONSTANTS
    Handlers = {h1}
    Closers = {c1}
    ObserverCount = 2
    MaxEvents = 1
    BufferSize = 1
    File = 1
    Remote = 2
    NoCall = NoCall
    Free = Free
    Idle = Idle
    Exited = Exited
SPECIFICATION SinksSpec
PROPERTY RemoteIsTried

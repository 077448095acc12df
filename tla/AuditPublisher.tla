--------------------------- MODULE AuditPublisher ---------------------------
(***************************************************************************)
(* audit.Publisher (internal/audit/publisher.go): request handlers publish *)
(* events, every observer has a buffered channel and a worker of its own,  *)
(* and Close drains them.                                                  *)
(*                                                                         *)
(* Publish and the first part of Close run under the mutex mu, but the     *)
(* workers do not take it: they receive between any two steps of a holder. *)
(***************************************************************************)
EXTENDS Integers, Sequences, FiniteSets, SequencesExt

CONSTANTS Handlers,      \* goroutines that call Publish
          Closers,       \* goroutines that call Close
          ObserverCount, \* observers are numbered in the order of NewPublisher
          MaxEvents,     \* bound: calls of Publish; the events are numbered by them
          BufferSize,    \* bufferSize
          Free,          \* nobody holds mu
          Idle, Exited   \* a worker waiting on its channel, one that has returned

ASSUME SizesAssumption == ObserverCount \in Nat /\ MaxEvents \in Nat /\ BufferSize \in Nat \ {0}
ASSUME ProcsAssumption == Free \notin Handlers \cup Closers
Events == 1..MaxEvents

ASSUME TokensAssumption == Idle \notin Events /\ Exited \notin Events /\ Idle # Exited

Observers == 1..ObserverCount
Procs == Handlers \cup Closers

VARIABLES mu,          \* the holder of p.mu, or Free
          closed,      \* p.closed
          queue,       \* the buffer of each observer's channel
          chanClosed,  \* the observers whose channel is closed
          pc,          \* where each Publish and Close call is
          event,       \* the event each handler published last
          published,   \* calls of Publish so far
          next,        \* loop variable of the holder of mu, and of closeObservers
          result,      \* what each Close call returned
          worker,      \* Idle, Exited or the event in Notify
          cancelled,   \* p.ctx is cancelled
          released,    \* observers whose own Close has been called
          panicked,    \* send on, or close of, a closed channel
          \* history
          queued,      \* events put into each channel, in order
          outcome,     \* how Notify ended: "none", "returned", "cut"
          expired      \* the context of a Close call ended first

lockVars == <<mu, closed>>
chanVars == <<queue, chanClosed>>
eventVars == <<event, published>>
callVars == <<pc, eventVars, next, result>>
workVars == <<worker, cancelled, outcome>>
vars == <<lockVars, chanVars, callVars, workVars, released, panicked, queued, expired>>

TypeOK ==
    /\ mu \in Procs \cup {Free} /\ closed \in BOOLEAN
    /\ queue \in [Observers -> Seq(Events)]
    /\ \A o \in Observers : Len(queue[o]) <= BufferSize
    /\ chanClosed \subseteq Observers
    /\ pc \in [Procs -> {"idle", "lockPublish", "publishing", "lockClose", "closing",
                         "waiting", "aborting", "releasing"}]
    /\ event \in [Handlers -> Events \cup {Idle}] /\ published \in 0..MaxEvents
    /\ next \in [Procs -> 1..(ObserverCount + 1)]
    /\ result \in [Closers -> {"none", "nil", "again", "err"}]
    /\ worker \in [Observers -> Events \cup {Idle, Exited}]
    /\ cancelled \in BOOLEAN /\ panicked \in BOOLEAN /\ expired \in BOOLEAN
    /\ released \subseteq Observers
    /\ queued \in [Observers -> Seq(Events)]
    /\ outcome \in [Observers -> [Events -> {"none", "returned", "cut"}]]

Init == /\ mu = Free /\ closed = FALSE
        /\ queue = [o \in Observers |-> <<>>]
        /\ chanClosed = {}
        /\ pc = [p \in Procs |-> "idle"]
        /\ event = [h \in Handlers |-> Idle] /\ published = 0
        /\ next = [p \in Procs |-> 1]
        /\ result = [c \in Closers |-> "none"]
        /\ worker = [o \in Observers |-> Idle]
        /\ cancelled = FALSE /\ panicked = FALSE /\ expired = FALSE
        /\ released = {}
        /\ queued = [o \in Observers |-> <<>>]
        /\ outcome = [o \in Observers |-> [e \in Events |-> "none"]]

\* A panic ends the process.
Alive == ~panicked

-----------------------------------------------------------------------------
\* Publish.

Publish(h) ==
    /\ Alive
    /\ pc[h] = "idle"
    /\ published < MaxEvents
    /\ published' = published + 1
    /\ event' = [event EXCEPT ![h] = published']
    /\ pc' = [pc EXCEPT ![h] = "lockPublish"]
    /\ UNCHANGED <<lockVars, chanVars, next, result, workVars, released, panicked, queued, expired>>

\* (Definitions marked "Mutant" change the one that follows them the way a
\* bug would; no specification uses them.)
IgnoresClosed == FALSE  \* Mutant
SeesClosed == closed

PublishEnter(h) ==
    /\ Alive
    /\ pc[h] = "lockPublish"
    /\ mu = Free
    /\ IF SeesClosed
       THEN pc' = [pc EXCEPT ![h] = "idle"] /\ UNCHANGED <<mu, next>>
       ELSE /\ mu' = h
            /\ pc' = [pc EXCEPT ![h] = "publishing"]
            /\ next' = [next EXCEPT ![h] = 1]
    /\ UNCHANGED <<closed, chanVars, eventVars, result, workVars, released, panicked, queued, expired>>

HasRoomForOneMore(o) == Len(queue[o]) <= BufferSize  \* Mutant
HasRoom(o) == Len(queue[o]) < BufferSize

\* Mutant of PutOrDrop: a full queue loses its oldest event.
PutOrReplace(o, e) == /\ queue' = [queue EXCEPT ![o] = IF HasRoom(o) THEN Append(@, e)
                                                       ELSE Append(Tail(@), e)]
                      /\ queued' = [queued EXCEPT ![o] = Append(@, e)]

\* select { case ch <- ev: default: }
PutOrDrop(o, e) == IF HasRoom(o)
                   THEN /\ queue' = [queue EXCEPT ![o] = Append(@, e)]
                        /\ queued' = [queued EXCEPT ![o] = Append(@, e)]
                   ELSE UNCHANGED <<queue, queued>>

\* A send on a closed channel panics.
PublishTo(h) ==
    /\ Alive
    /\ pc[h] = "publishing" /\ next[h] <= ObserverCount
    /\ panicked' = (next[h] \in chanClosed)
    /\ IF next[h] \in chanClosed THEN UNCHANGED <<queue, queued>>
       ELSE PutOrDrop(next[h], event[h])
    /\ next' = [next EXCEPT ![h] = @ + 1]
    /\ UNCHANGED <<lockVars, chanClosed, pc, eventVars, result, workVars, released, expired>>

PublishReturn(h) ==
    /\ Alive
    /\ pc[h] = "publishing" /\ next[h] > ObserverCount
    /\ mu' = Free
    /\ pc' = [pc EXCEPT ![h] = "idle"]
    /\ UNCHANGED <<closed, chanVars, eventVars, next, result, workVars, released, panicked, queued,
                   expired>>

-----------------------------------------------------------------------------
\* Close.

Close(c) ==
    /\ Alive
    /\ pc[c] = "idle"
    /\ pc' = [pc EXCEPT ![c] = "lockClose"]
    /\ UNCHANGED <<lockVars, chanVars, eventVars, next, result, workVars, released, panicked, queued,
                   expired>>

\* A second Close returns nil at once.
CloseEnter(c) ==
    /\ Alive
    /\ pc[c] = "lockClose"
    /\ mu = Free
    /\ closed' = TRUE
    /\ IF closed
       THEN /\ pc' = [pc EXCEPT ![c] = "idle"]
            /\ result' = [result EXCEPT ![c] = "again"]
            /\ UNCHANGED <<mu, next>>
       ELSE /\ pc' = [pc EXCEPT ![c] = "closing"]
            /\ next' = [next EXCEPT ![c] = 1]
            /\ mu' = c
            /\ UNCHANGED result
    /\ UNCHANGED <<chanVars, eventVars, workVars, released, panicked, queued, expired>>

CloseChannel(c) ==
    /\ Alive
    /\ pc[c] = "closing" /\ next[c] <= ObserverCount
    /\ chanClosed' = chanClosed \cup {next[c]}
    /\ panicked' = (next[c] \in chanClosed)
    /\ next' = [next EXCEPT ![c] = @ + 1]
    /\ UNCHANGED <<lockVars, queue, pc, eventVars, result, workVars, released, queued, expired>>

CloseUnlock(c) ==
    /\ Alive
    /\ pc[c] = "closing" /\ next[c] > ObserverCount
    /\ mu' = Free
    /\ pc' = [pc EXCEPT ![c] = "waiting"]
    /\ UNCHANGED <<closed, chanVars, eventVars, next, result, workVars, released, panicked, queued,
                   expired>>

\* wg.Wait() has returned.
Drained == \A o \in Observers : worker[o] = Exited

StartRelease(c, value) == /\ pc' = [pc EXCEPT ![c] = "releasing"]
                          /\ next' = [next EXCEPT ![c] = 1]
                          /\ result' = [result EXCEPT ![c] = value]

CloseDrained(c) ==
    /\ Alive
    /\ pc[c] = "waiting"
    /\ Drained
    /\ cancelled' = TRUE
    /\ StartRelease(c, "nil")
    /\ UNCHANGED <<lockVars, chanVars, eventVars, worker, outcome, released, panicked, queued, expired>>

NoCancelOnExpiry == UNCHANGED cancelled  \* Mutant
CancelOnExpiry == cancelled' = TRUE

\* ctx is done first: it may already be when Close is called, since main
\* hands over what is left of the one shutdown timeout.
CloseExpired(c) ==
    /\ Alive
    /\ pc[c] = "waiting"
    /\ CancelOnExpiry
    /\ expired' = TRUE
    /\ pc' = [pc EXCEPT ![c] = "aborting"]
    /\ UNCHANGED <<lockVars, chanVars, eventVars, next, result, worker, outcome, released, panicked,
                   queued>>

\* <-done after the cancellation; without it the observers would be closed
\* under their workers.
NotAwaited == TRUE  \* Mutant
Awaited == Drained

CloseAborted(c) ==
    /\ Alive
    /\ pc[c] = "aborting"
    /\ Awaited
    /\ StartRelease(c, "err")
    /\ UNCHANGED <<lockVars, chanVars, eventVars, workVars, released, panicked, queued, expired>>

\* closeObservers goes on after an observer that fails to close.
Release(c) ==
    /\ Alive
    /\ pc[c] = "releasing" /\ next[c] <= ObserverCount
    /\ released' = released \cup {next[c]}
    /\ \E value \in {result[c], "err"} : result' = [result EXCEPT ![c] = value]
    /\ next' = [next EXCEPT ![c] = @ + 1]
    /\ UNCHANGED <<lockVars, chanVars, pc, eventVars, workVars, panicked, queued, expired>>

CloseReturn(c) ==
    /\ Alive
    /\ pc[c] = "releasing" /\ next[c] > ObserverCount
    /\ pc' = [pc EXCEPT ![c] = "idle"]
    /\ UNCHANGED <<lockVars, chanVars, eventVars, next, result, workVars, released, panicked, queued,
                   expired>>

-----------------------------------------------------------------------------
\* The workers.

Receive(o) ==
    /\ Alive
    /\ worker[o] = Idle
    /\ queue[o] # <<>>
    /\ worker' = [worker EXCEPT ![o] = Head(queue[o])]
    /\ queue' = [queue EXCEPT ![o] = Tail(@)]
    /\ UNCHANGED <<lockVars, chanClosed, callVars, cancelled, outcome, released, panicked, queued,
                   expired>>

\* for range ends on a closed channel only when its buffer is empty.
ExitsWhenClosed(o) == o \in chanClosed  \* Mutant
RangeEnds(o) == o \in chanClosed /\ queue[o] = <<>>

WorkerExit(o) ==
    /\ Alive
    /\ worker[o] = Idle
    /\ RangeEnds(o)
    /\ worker' = [worker EXCEPT ![o] = Exited]
    /\ UNCHANGED <<lockVars, chanVars, callVars, cancelled, outcome, released, panicked, queued,
                   expired>>

AfterNotifyStops(how) == IF how = "failed" THEN Exited ELSE Idle  \* Mutant
AfterNotify(how) == Idle

\* Notify comes back; an error is logged and the loop goes on.
NotifyReturns(o, how) ==
    /\ Alive
    /\ worker[o] \in Events
    /\ how = "cut" => cancelled
    /\ outcome' = [outcome EXCEPT ![o][worker[o]] = IF how = "cut" THEN "cut" ELSE "returned"]
    /\ worker' = [worker EXCEPT ![o] = AfterNotify(how)]
    /\ UNCHANGED <<lockVars, chanVars, callVars, cancelled, released, panicked, queued, expired>>

-----------------------------------------------------------------------------
PublishStep(h) == \/ PublishEnter(h)
                  \/ PublishTo(h)
                  \/ PublishReturn(h)

CloseStep(c) == \/ CloseEnter(c) \/ CloseChannel(c) \/ CloseUnlock(c)
                \/ CloseDrained(c) \/ CloseExpired(c) \/ CloseAborted(c)
                \/ Release(c) \/ CloseReturn(c)

NotifyEnds(o) == \E how \in {"ok", "failed", "cut"} : NotifyReturns(o, how)

Next == \/ \E h \in Handlers : PublishStep(h) \/ Publish(h)
        \/ \E c \in Closers : CloseStep(c) \/ Close(c)
        \/ \E o \in Observers : Receive(o) \/ WorkerExit(o) \/ NotifyEnds(o)

SafeSpec == Init /\ [][Next]_vars

-----------------------------------------------------------------------------
\* Properties.

\* Publish never sends on a channel Close has closed and no channel is
\* closed twice, with any number of concurrent calls (publisher.go:70-100).
NoPanic == ~panicked

\* What a worker has in Notify or has been through, in the order in which
\* it received it.
Received(o) == SubSeq(queued[o], 1, Len(queued[o]) - Len(queue[o]))

\* Every observer sees the events of its own queue in the order of Publish,
\* each of them once: the channel holds the end of the sequence, the event
\* in Notify is the one before, and all earlier ones have an outcome, the
\* later ones none.  What another observer does plays no part.
InOrder ==
    \A o \in Observers :
        LET seen == Received(o)
            busy == worker[o] \in Events
        IN  /\ queue[o] = SubSeq(queued[o], Len(seen) + 1, Len(queued[o]))
            /\ busy => seen # <<>> /\ Last(seen) = worker[o]
            /\ \A i \in 1..Len(queued[o]) :
                   (outcome[o][queued[o][i]] # "none") <=> (IF busy THEN i < Len(seen) ELSE i <= Len(seen))

\* A Close that did the work returns only when every queued event has been
\* through Notify and every observer was closed; if its context has not
\* ended first, no Notify was interrupted (publisher.go:85-89).
CloseComplete ==
    \A c \in Closers :
        pc[c] = "idle" /\ result[c] \in {"nil", "err"} =>
            /\ released = Observers
            /\ \A o \in Observers : \A e \in ToSet(queued[o]) :
                   /\ outcome[o][e] # "none"
                   /\ outcome[o][e] = "cut" => expired /\ result[c] = "err"

\* No observer is closed while its worker may still call it: a file sink
\* never meets its own Close (publisher.go:114-119, file_sink.go:12).
ClosedAfterWorker == \A o \in released : worker[o] = Exited

\* Publish and Close return even when an observer hangs in Notify: Publish never
\* waits for room, and the cancellation releases Close (publisher.go:68-69, 114-117).
CallsReturn ==
    \A p \in Procs : pc[p] \in {"lockPublish", "lockClose"} ~> (pc[p] = "idle" \/ panicked)

=============================================================================

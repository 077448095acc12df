------------------------ MODULE AuditPublisherProofs ------------------------
(***************************************************************************)
(* Safety of the audit publisher for any number of handlers, closers,      *)
(* observers and events and any buffer size.                               *)
(*                                                                         *)
(* The inductive invariant comes in layers, each inductive with the ones   *)
(* before it:                                                              *)
(*   - Typed: the types, and that a call of Publish in progress has an     *)
(*     event of its own;                                                   *)
(*   - Locking: what the mutex and closed promise each other, from which   *)
(*     no send meets a closed channel and no channel is closed twice;      *)
(*   - Closing: who may have left, been released or been interrupted;      *)
(*   - Ordered: where each queued event is.                                *)
(***************************************************************************)
EXTENDS AuditSinks, TLAPS

\* Facts about sequences used below.

LEMMA BeginningOf ==
    ASSUME NEW S, NEW s \in Seq(S), NEW h \in 0..Len(s)
    PROVE  /\ SubSeq(s, 1, h) \in Seq(S) /\ Len(SubSeq(s, 1, h)) = h
           /\ \A i \in 1..h : SubSeq(s, 1, h)[i] = s[i]
  OBVIOUS

LEMMA EndOf ==
    ASSUME NEW S, NEW s \in Seq(S), NEW h \in 0..Len(s)
    PROVE  /\ SubSeq(s, h + 1, Len(s)) \in Seq(S) /\ Len(SubSeq(s, h + 1, Len(s))) = Len(s) - h
           /\ \A i \in 1..(Len(s) - h) : SubSeq(s, h + 1, Len(s))[i] = s[h + i]
  OBVIOUS

-----------------------------------------------------------------------------
\* The types.

InPublish(h) == pc[h] \in {"lockPublish", "publishing"}

OwnEvents ==
    /\ \A h \in Handlers : InPublish(h) => event[h] \in Events /\ event[h] <= published
    /\ \A g, h \in Handlers : InPublish(g) /\ InPublish(h) /\ event[g] = event[h] => g = h

Typed == TypeOK /\ OwnEvents

LEMMA InitTyped == Init => Typed
<1> SUFFICES ASSUME Init PROVE Typed
  OBVIOUS
<1>1. <<>> \in Seq(Events) /\ Len(<<>>) = 0
  OBVIOUS
<1>2. /\ queue \in [Observers -> Seq(Events)] /\ queued \in [Observers -> Seq(Events)]
      /\ \A o \in Observers : Len(queue[o]) <= BufferSize
  BY <1>1, SizesAssumption DEF Init
<1>3. 1 \in 1..(ObserverCount + 1) /\ 0 \in 0..MaxEvents
  BY SizesAssumption
<1>4. outcome \in [Observers -> [Events -> {"none", "returned", "cut"}]]
  BY DEF Init
<1>5. TypeOK
  BY <1>2, <1>3, <1>4 DEF Init, TypeOK
<1> QED
  BY <1>5 DEF Init, Typed, OwnEvents, InPublish, Procs

LEMMA NextTyped == Typed /\ [Next]_vars => Typed'
<1> SUFFICES ASSUME Typed, [Next]_vars PROVE Typed'
  OBVIOUS
<1> USE SizesAssumption
    DEF Typed, OwnEvents, InPublish, Procs,
        lockVars, chanVars, eventVars, callVars, workVars
<1>a. TypeOK
  OBVIOUS
<1>b. Observers \subseteq 1..(ObserverCount + 1) /\ 1 \in 1..(ObserverCount + 1)
  BY DEF Observers
<1>1. ASSUME NEW h \in Handlers, Publish(h) PROVE Typed'
  <2>1. published' \in Events /\ published' = published + 1 /\ published \in Nat
    BY <1>1, <1>a DEF Publish, TypeOK, Events
  <2>2. TypeOK'
    BY <1>1, <1>a, <2>1 DEF Publish, TypeOK, Events
  <2>3. /\ \A g \in Handlers : event'[g] = IF g = h THEN published' ELSE event[g]
        /\ \A g \in Handlers : pc'[g] = IF g = h THEN "lockPublish" ELSE pc[g]
    BY <1>1, <1>a DEF Publish, TypeOK
  <2>4. \A g \in Handlers : InPublish(g) => event[g] \in Int /\ event[g] < published'
    BY <2>1 DEF Events
  <2>5. OwnEvents'
    BY <2>1, <2>3, <2>4
  <2> QED
    BY <2>2, <2>5
<1>2. ASSUME NEW h \in Handlers, PublishEnter(h) PROVE Typed'
  <2>1. TypeOK'
    BY <1>2, <1>a, <1>b DEF PublishEnter, TypeOK
  <2>2. UNCHANGED <<event, published>>
    BY <1>2 DEF PublishEnter
  <2>3. \A g \in Handlers : pc'[g] \in {"lockPublish", "publishing"} => InPublish(g)
    BY <1>2, <1>a DEF PublishEnter, TypeOK
  <2>4. OwnEvents'
    BY <2>2, <2>3
  <2> QED
    BY <2>1, <2>4
<1>3. ASSUME NEW h \in Handlers, PublishTo(h) PROVE Typed'
  <2>1. next[h] \in Observers /\ next[h] + 1 \in 1..(ObserverCount + 1) /\ event[h] \in Events
    BY <1>3, <1>a DEF PublishTo, TypeOK, Observers
  <2>2. /\ queue' \in [Observers -> Seq(Events)] /\ queued' \in [Observers -> Seq(Events)]
        /\ \A o \in Observers : Len(queue'[o]) <= BufferSize
    <3>1. CASE UNCHANGED <<queue, queued>>
      BY <1>a, <3>1 DEF TypeOK
    <3>2. CASE ~UNCHANGED <<queue, queued>>
      <4>1. /\ Len(queue[next[h]]) < BufferSize
            /\ queue' = [queue EXCEPT ![next[h]] = Append(@, event[h])]
            /\ queued' = [queued EXCEPT ![next[h]] = Append(@, event[h])]
        BY <1>3, <3>2 DEF PublishTo, PutOrDrop, HasRoom
      <4> QED
        BY <1>a, <2>1, <4>1 DEF TypeOK
    <3> QED
      BY <3>1, <3>2
  <2>3. TypeOK'
    BY <1>3, <1>a, <2>1, <2>2 DEF PublishTo, TypeOK
  <2> QED
    BY <1>3, <2>3 DEF PublishTo
<1>4. ASSUME NEW h \in Handlers, PublishReturn(h) PROVE Typed'
  <2>1. TypeOK'
    BY <1>4, <1>a DEF PublishReturn, TypeOK
  <2> QED
    BY <1>4, <1>a, <2>1 DEF PublishReturn, TypeOK
<1>5. ASSUME NEW c \in Closers, Close(c) \/ CloseEnter(c) \/ CloseUnlock(c) \/ CloseReturn(c)
      PROVE  Typed'
  <2>1. TypeOK'
    BY <1>5, <1>a, <1>b DEF Close, CloseEnter, CloseUnlock, CloseReturn, TypeOK
  <2>2. \A h \in Handlers : InPublish(h)' => InPublish(h)
    BY <1>5, <1>a DEF Close, CloseEnter, CloseUnlock, CloseReturn, TypeOK
  <2>3. UNCHANGED eventVars
    BY <1>5 DEF Close, CloseEnter, CloseUnlock, CloseReturn
  <2> QED
    BY <2>1, <2>2, <2>3
<1>6. ASSUME NEW c \in Closers, CloseChannel(c) PROVE Typed'
  <2>1. next[c] \in Observers /\ next[c] + 1 \in 1..(ObserverCount + 1)
    BY <1>6, <1>a DEF CloseChannel, TypeOK, Observers
  <2>2. TypeOK'
    BY <1>6, <1>a, <2>1 DEF CloseChannel, TypeOK
  <2> QED
    BY <1>6, <2>2 DEF CloseChannel
<1>7. ASSUME NEW c \in Closers, CloseDrained(c) \/ CloseExpired(c) \/ CloseAborted(c)
      PROVE  Typed'
  <2>1. TypeOK'
    BY <1>7, <1>a, <1>b
       DEF CloseDrained, CloseExpired, CloseAborted, StartRelease, CancelOnExpiry, TypeOK
  <2>2. \A h \in Handlers : InPublish(h)' => InPublish(h)
    BY <1>7, <1>a DEF CloseDrained, CloseExpired, CloseAborted, StartRelease, TypeOK
  <2>3. UNCHANGED eventVars
    BY <1>7 DEF CloseDrained, CloseExpired, CloseAborted
  <2> QED
    BY <2>1, <2>2, <2>3
<1>8. ASSUME NEW c \in Closers, Release(c) PROVE Typed'
  <2>1. next[c] \in Observers /\ next[c] + 1 \in 1..(ObserverCount + 1)
    BY <1>8, <1>a DEF Release, TypeOK, Observers
  <2>2. TypeOK'
    BY <1>8, <1>a, <2>1 DEF Release, TypeOK
  <2> QED
    BY <1>8, <2>2 DEF Release
<1>9. ASSUME NEW o \in Observers, Receive(o) PROVE Typed'
  <2>1. Head(queue[o]) \in Events /\ Tail(queue[o]) \in Seq(Events) /\ Len(Tail(queue[o])) <= BufferSize
    BY <1>9, <1>a DEF Receive, TypeOK
  <2>2. TypeOK'
    BY <1>9, <1>a, <2>1 DEF Receive, TypeOK
  <2> QED
    BY <1>9, <2>2 DEF Receive
<1>10. ASSUME NEW o \in Observers, WorkerExit(o) PROVE Typed'
  <2>1. TypeOK'
    BY <1>10, <1>a DEF WorkerExit, TypeOK
  <2> QED
    BY <1>10, <2>1 DEF WorkerExit
<1>11. ASSUME NEW o \in Observers, NotifyEnds(o) PROVE Typed'
  <2> PICK how \in {"ok", "failed", "cut"} : NotifyReturns(o, how)
    BY <1>11 DEF NotifyEnds
  <2>1. outcome' \in [Observers -> [Events -> {"none", "returned", "cut"}]]
    BY <1>a DEF NotifyReturns, TypeOK
  <2>2. TypeOK'
    BY <1>a, <2>1 DEF NotifyReturns, AfterNotify, TypeOK
  <2> QED
    BY <2>2 DEF NotifyReturns
<1>12. ASSUME UNCHANGED vars PROVE Typed'
  <2>1. TypeOK'
    BY <1>12, <1>a DEF vars, TypeOK
  <2> QED
    BY <1>12, <2>1 DEF vars
<1> QED
  BY <1>1, <1>2, <1>3, <1>4, <1>5, <1>6, <1>7, <1>8, <1>9, <1>10, <1>11, <1>12
     DEF Next, PublishStep, CloseStep

-----------------------------------------------------------------------------
\* The mutex, the flag and the channels.

InClose(p) == pc[p] \in {"closing", "waiting", "aborting", "releasing"}

Mutex == \A p \in Procs : pc[p] \in {"publishing", "closing"} <=> mu = p

Flag == /\ \A p \in Procs : pc[p] = "publishing" => ~closed
        /\ \A p \in Procs : InClose(p) => closed
        /\ \A p, q \in Procs : InClose(p) /\ InClose(q) => p = q
        /\ \A c \in Closers : result[c] # "none" => closed

Channels == /\ ~closed => chanClosed = {}
            /\ \A p \in Procs : pc[p] = "closing" => chanClosed = 1..(next[p] - 1)
            /\ \A p \in Procs : pc[p] \in {"waiting", "aborting", "releasing"} => chanClosed = Observers

Locking == Mutex /\ Flag /\ Channels /\ NoPanic

LEMMA InitLocking == Init => Locking
  BY ProcsAssumption DEF Init, Locking, Mutex, Flag, Channels, NoPanic, InClose, Procs

LEMMA NextLocking == Typed /\ Locking /\ [Next]_vars => Locking'
<1> SUFFICES ASSUME Typed, Locking, [Next]_vars PROVE Locking'
  OBVIOUS
<1> USE SizesAssumption, ProcsAssumption
    DEF Typed, Locking, Mutex, Flag, Channels, NoPanic, InClose, Procs,
        lockVars, chanVars, eventVars, callVars, workVars
<1>a. /\ pc \in [Procs -> {"idle", "lockPublish", "publishing", "lockClose", "closing",
                           "waiting", "aborting", "releasing"}]
      /\ next \in [Procs -> 1..(ObserverCount + 1)]
      /\ result \in [Closers -> {"none", "nil", "again", "err"}]
      /\ closed \in BOOLEAN
  BY DEF TypeOK
<1>1. ASSUME NEW h \in Handlers, Publish(h) PROVE Locking'
  BY <1>1, <1>a DEF Publish
<1>2. ASSUME NEW h \in Handlers, PublishEnter(h) PROVE Locking'
  BY <1>2, <1>a DEF PublishEnter, SeesClosed
<1>3. ASSUME NEW h \in Handlers, PublishTo(h) PROVE Locking'
  <2>1. chanClosed = {}
    BY <1>3 DEF PublishTo
  <2> QED
    BY <1>3, <1>a, <2>1 DEF PublishTo
<1>4. ASSUME NEW h \in Handlers, PublishReturn(h) PROVE Locking'
  BY <1>4, <1>a DEF PublishReturn
<1>5. ASSUME NEW c \in Closers, Close(c) PROVE Locking'
  BY <1>5, <1>a DEF Close
<1>6. ASSUME NEW c \in Closers, CloseEnter(c) PROVE Locking'
  <2>1. CASE closed
    BY <1>6, <1>a, <2>1 DEF CloseEnter
  <2>2. CASE ~closed
    <3>1. chanClosed' = {} /\ 1..(next'[c] - 1) = {}
      BY <1>6, <1>a, <2>2 DEF CloseEnter
    <3>2. \A p \in Procs : ~InClose(p) /\ pc[p] # "publishing"
      BY <1>6, <2>2 DEF CloseEnter
    <3> QED
      BY <1>6, <1>a, <2>2, <3>1, <3>2 DEF CloseEnter
  <2> QED
    BY <2>1, <2>2
<1>7. ASSUME NEW c \in Closers, CloseChannel(c) PROVE Locking'
  <2>1. chanClosed = 1..(next[c] - 1) /\ next[c] \in Nat \ {0} /\ mu = c
    BY <1>7, <1>a DEF CloseChannel
  <2>2. next[c] \notin chanClosed /\ chanClosed' = 1..(next'[c] - 1)
    BY <1>7, <1>a, <2>1 DEF CloseChannel
  <2>3. \A p \in Procs : pc[p] = "closing" => p = c
    BY <2>1
  <2>4. \A p \in Procs : pc[p] \notin {"waiting", "aborting", "releasing"}
    BY <1>7 DEF CloseChannel
  <2> QED
    BY <1>7, <1>a, <2>2, <2>3, <2>4 DEF CloseChannel
<1>8. ASSUME NEW c \in Closers, CloseUnlock(c) PROVE Locking'
  <2>1. chanClosed = Observers
    BY <1>8, <1>a DEF CloseUnlock, Observers
  <2> QED
    BY <1>8, <1>a, <2>1 DEF CloseUnlock
<1>9. ASSUME NEW c \in Closers, CloseDrained(c) \/ CloseExpired(c) \/ CloseAborted(c)
      PROVE  Locking'
  BY <1>9, <1>a DEF CloseDrained, CloseExpired, CloseAborted, StartRelease
<1>10. ASSUME NEW c \in Closers, Release(c) PROVE Locking'
  BY <1>10, <1>a DEF Release
<1>11. ASSUME NEW c \in Closers, CloseReturn(c) PROVE Locking'
  BY <1>11, <1>a DEF CloseReturn
<1>12. ASSUME NEW o \in Observers, Receive(o) \/ WorkerExit(o) \/ NotifyEnds(o) PROVE Locking'
  BY <1>12 DEF Receive, WorkerExit, NotifyEnds, NotifyReturns
<1>13. ASSUME UNCHANGED vars PROVE Locking'
  BY <1>13 DEF vars
<1> QED
  BY <1>1, <1>2, <1>3, <1>4, <1>5, <1>6, <1>7, <1>8, <1>9, <1>10, <1>11, <1>12, <1>13
     DEF Next, PublishStep, CloseStep

-----------------------------------------------------------------------------
\* Who has left, who has been released and who has been interrupted.

Exits == \A o \in Observers : worker[o] = Exited => o \in chanClosed /\ queue[o] = <<>>

Releases ==
    /\ ClosedAfterWorker
    /\ \A c \in Closers : pc[c] = "releasing" => Drained /\ 1..(next[c] - 1) \subseteq released
    /\ \A c \in Closers : result[c] \in {"nil", "err"} =>
           Drained /\ (pc[c] # "releasing" => released = Observers)

Cuts == /\ cancelled => expired \/ Drained
        /\ \A o \in Observers, e \in Events : outcome[o][e] = "cut" => expired
        /\ expired => closed
        /\ expired => \A p \in Procs : pc[p] \notin {"closing", "waiting"}
        /\ expired => \A c \in Closers : result[c] # "nil"
        /\ \A c \in Closers : result[c] \in {"nil", "err"} =>
               \A p \in Procs : pc[p] \notin {"closing", "waiting", "aborting"}

Closing == Exits /\ Releases /\ Cuts

LEMMA InitClosing == Init => Closing
  BY TokensAssumption
     DEF Init, Closing, Exits, Releases, Cuts, ClosedAfterWorker, Procs

LEMMA NextClosing == Typed /\ Locking /\ Closing /\ [Next]_vars => Closing'
<1> SUFFICES ASSUME Typed, Locking, Closing, [Next]_vars PROVE Closing'
  OBVIOUS
<1> USE SizesAssumption, ProcsAssumption, TokensAssumption
    DEF Closing, Exits, Releases, Cuts, ClosedAfterWorker, Drained, Procs,
        lockVars, chanVars, eventVars, callVars, workVars
<1>a. /\ pc \in [Procs -> {"idle", "lockPublish", "publishing", "lockClose", "closing",
                           "waiting", "aborting", "releasing"}]
      /\ next \in [Procs -> 1..(ObserverCount + 1)]
      /\ result \in [Closers -> {"none", "nil", "again", "err"}]
      /\ worker \in [Observers -> Events \cup {Idle, Exited}]
      /\ released \subseteq Observers
      /\ outcome \in [Observers -> [Events -> {"none", "returned", "cut"}]]
      /\ queue \in [Observers -> Seq(Events)]
  BY DEF Typed, TypeOK
<1>b. Flag /\ Channels /\ Mutex
  BY DEF Locking
<1>1. ASSUME NEW h \in Handlers, Publish(h) \/ PublishEnter(h) \/ PublishReturn(h)
      PROVE  Closing'
  <2>1. \A p \in Procs : pc'[p] \in {"idle", "lockPublish", "publishing"} \/ pc'[p] = pc[p]
    BY <1>1, <1>a DEF Publish, PublishEnter, PublishReturn
  <2>2. pc[h] # "releasing" /\ \A p \in Procs \ {h} : pc'[p] = pc[p] /\ next'[p] = next[p]
    BY <1>1, <1>a DEF Publish, PublishEnter, PublishReturn
  <2>3. /\ UNCHANGED <<closed, chanVars, result, workVars, released, expired>>
        /\ pc'[h] # "releasing"
    BY <1>1, <1>a DEF Publish, PublishEnter, PublishReturn
  <2>4. Exits' /\ ClosedAfterWorker'
    BY <2>3
  <2>5. Releases'
    BY <2>2, <2>3, <2>4
  <2>6. Cuts'
    BY <2>1, <2>3
  <2> QED
    BY <2>4, <2>5, <2>6
<1>2. ASSUME NEW h \in Handlers, PublishTo(h) PROVE Closing'
  <2>1. pc[h] = "publishing" /\ chanClosed = {} /\ pc' = pc /\ next[h] \notin chanClosed
    BY <1>2, <1>b DEF PublishTo, Flag, Channels
  <2>2. \A o \in Observers : worker[o] # Exited
    BY <2>1
  <2>3. Exits'
    BY <1>2, <2>2 DEF PublishTo
  <2>4. \A p \in Procs \ {h} : next'[p] = next[p]
    BY <1>2, <1>a DEF PublishTo
  <2>5. Releases'
    BY <1>2, <2>1, <2>4 DEF PublishTo
  <2>6. Cuts'
    BY <1>2 DEF PublishTo
  <2> QED
    BY <2>3, <2>5, <2>6
<1>3. ASSUME NEW c \in Closers, Close(c) PROVE Closing'
  BY <1>3, <1>a DEF Close
<1>4. ASSUME NEW c \in Closers, CloseEnter(c) PROVE Closing'
  <2>0. UNCHANGED <<queue, chanClosed, worker, outcome, cancelled, released, expired>>
    BY <1>4 DEF CloseEnter
  <2>1. CASE closed
    <3>1. /\ \A p \in Procs : next'[p] = next[p]
          /\ \A p \in Procs : pc'[p] = IF p = c THEN "idle" ELSE pc[p]
          /\ \A d \in Closers : result'[d] = IF d = c THEN "again" ELSE result[d]
      BY <1>4, <1>a, <2>1 DEF CloseEnter
    <3>2. closed' = TRUE /\ pc[c] = "lockClose"
      BY <1>4 DEF CloseEnter
    <3>3. Exits' /\ ClosedAfterWorker'
      BY <2>0
    <3>4. Releases'
      BY <2>0, <3>1, <3>2, <3>3
    <3>5. Cuts'
      BY <2>0, <3>1, <3>2
    <3> QED
      BY <3>3, <3>4, <3>5
  <2>2. CASE ~closed
    <3>1. \A d \in Closers : result[d] = "none"
      BY <2>2, <1>b DEF Flag
    <3>2. ~expired
      BY <2>2
    <3>3. /\ \A p \in Procs : pc'[p] = IF p = c THEN "closing" ELSE pc[p]
          /\ \A p \in Procs : p # c => next'[p] = next[p]
          /\ result' = result
      BY <1>4, <1>a, <2>2 DEF CloseEnter
    <3> QED
      BY <2>0, <3>1, <3>2, <3>3
  <2> QED
    BY <2>1, <2>2
<1>5. ASSUME NEW c \in Closers, CloseChannel(c) PROVE Closing'
  <2>1. chanClosed \subseteq chanClosed'
    BY <1>5 DEF CloseChannel
  <2>2. \A p \in Procs \ {c} : next'[p] = next[p]
    BY <1>5, <1>a DEF CloseChannel
  <2> QED
    BY <1>5, <1>a, <2>1, <2>2 DEF CloseChannel
<1>6. ASSUME NEW c \in Closers, CloseUnlock(c) PROVE Closing'
  BY <1>6, <1>a DEF CloseUnlock
<1>7. ASSUME NEW c \in Closers, CloseDrained(c) PROVE Closing'
  <2>1. \A p \in Procs : p # c => ~InClose(p)
    BY <1>7, <1>b DEF CloseDrained, Flag, InClose
  <2>2. ~expired /\ Drained
    BY <1>7 DEF CloseDrained
  <2>3. 1..(next'[c] - 1) = {}
    BY <1>7, <1>a DEF CloseDrained, StartRelease
  <2>4. \A p \in Procs \ {c} : next'[p] = next[p] /\ pc'[p] = pc[p]
    BY <1>7, <1>a DEF CloseDrained, StartRelease
  <2>5. \A d \in Closers : result'[d] = IF d = c THEN "nil" ELSE result[d]
    BY <1>7, <1>a DEF CloseDrained, StartRelease
  <2>6. pc'[c] = "releasing"
    BY <1>7, <1>a DEF CloseDrained, StartRelease
  <2> QED
    BY <1>7, <2>1, <2>2, <2>3, <2>4, <2>5, <2>6 DEF CloseDrained, InClose
<1>8. ASSUME NEW c \in Closers, CloseExpired(c) PROVE Closing'
  <2>1. \A p \in Procs : p # c => ~InClose(p)
    BY <1>8, <1>b DEF CloseExpired, Flag, InClose
  <2>2. closed /\ \A d \in Closers : result[d] \notin {"nil", "err"}
    BY <1>8, <1>b DEF CloseExpired, Flag, InClose
  <2> QED
    BY <1>8, <1>a, <2>1, <2>2 DEF CloseExpired, InClose
<1>9. ASSUME NEW c \in Closers, CloseAborted(c) PROVE Closing'
  <2>1. \A p \in Procs : p # c => ~InClose(p)
    BY <1>9, <1>b DEF CloseAborted, Flag, InClose
  <2>2. Drained
    BY <1>9 DEF CloseAborted, Awaited
  <2>3. 1..(next'[c] - 1) = {}
    BY <1>9, <1>a DEF CloseAborted, StartRelease
  <2>4. \A p \in Procs \ {c} : next'[p] = next[p] /\ pc'[p] = pc[p]
    BY <1>9, <1>a DEF CloseAborted, StartRelease
  <2>5. \A d \in Closers : result'[d] = IF d = c THEN "err" ELSE result[d]
    BY <1>9, <1>a DEF CloseAborted, StartRelease
  <2>6. pc'[c] = "releasing"
    BY <1>9, <1>a DEF CloseAborted, StartRelease
  <2> QED
    BY <1>9, <2>1, <2>2, <2>3, <2>4, <2>5, <2>6 DEF CloseAborted, InClose
<1>10. ASSUME NEW c \in Closers, Release(c) PROVE Closing'
  <2>1. Drained /\ 1..(next[c] - 1) \subseteq released /\ next[c] \in Observers
    BY <1>10, <1>a DEF Release, Observers
  <2>2. 1..(next'[c] - 1) \subseteq released' /\ released' = released \cup {next[c]}
    BY <1>10, <1>a, <2>1 DEF Release, Observers
  <2>3. /\ \A p \in Procs \ {c} : next'[p] = next[p]
        /\ \A d \in Closers : result'[d] \in IF d = c THEN {result[d], "err"} ELSE {result[d]}
    BY <1>10, <1>a DEF Release
  <2>4. \A p \in Procs : p # c => ~InClose(p)
    BY <1>10, <1>b DEF Release, Flag, InClose
  <2>5. Releases'
    BY <1>10, <2>1, <2>2, <2>3, <2>4 DEF Release, InClose
  <2>6. Cuts'
    BY <1>10, <2>1, <2>3, <2>4 DEF Release, InClose
  <2>7. Exits'
    BY <1>10 DEF Release
  <2> QED
    BY <2>5, <2>6, <2>7
<1>11. ASSUME NEW c \in Closers, CloseReturn(c) PROVE Closing'
  <2>1. next[c] - 1 = ObserverCount
    BY <1>11, <1>a DEF CloseReturn
  <2>2. 1..(next[c] - 1) \subseteq released
    BY <1>11 DEF CloseReturn
  <2>3. released = Observers
    BY <1>a, <2>1, <2>2 DEF Observers
  <2> QED
    BY <1>11, <1>a, <2>3 DEF CloseReturn
<1>12. ASSUME NEW o \in Observers, Receive(o) PROVE Closing'
  <2>1. Head(queue[o]) \in Events
    BY <1>12, <1>a DEF Receive
  <2>2. worker[o] # Exited /\ worker'[o] # Exited /\ ~Drained
    BY <1>12, <1>a, <2>1 DEF Receive
  <2>3. \A x \in Observers \ {o} : worker'[x] = worker[x] /\ queue'[x] = queue[x]
    BY <1>12, <1>a DEF Receive
  <2> QED
    BY <1>12, <2>2, <2>3 DEF Receive
<1>13. ASSUME NEW o \in Observers, WorkerExit(o) PROVE Closing'
  <2>1. ~Drained /\ o \in chanClosed /\ queue[o] = <<>>
    BY <1>13 DEF WorkerExit, RangeEnds
  <2>2. \A x \in Observers : worker'[x] = IF x = o THEN Exited ELSE worker[x]
    BY <1>13, <1>a DEF WorkerExit
  <2> QED
    BY <1>13, <2>1, <2>2 DEF WorkerExit
<1>14. ASSUME NEW o \in Observers, NotifyEnds(o) PROVE Closing'
  <2> PICK how \in {"ok", "failed", "cut"} : NotifyReturns(o, how)
    BY <1>14 DEF NotifyEnds
  <2>1. ~Drained /\ worker[o] \in Events
    BY DEF NotifyReturns
  <2>2. \A x \in Observers : worker'[x] = IF x = o THEN Idle ELSE worker[x]
    BY <1>a DEF NotifyReturns, AfterNotify
  <2>3. \A x \in Observers, e \in Events :
            outcome'[x][e] = IF x = o /\ e = worker[o] THEN IF how = "cut" THEN "cut" ELSE "returned"
                             ELSE outcome[x][e]
    BY <1>a, <2>1 DEF NotifyReturns
  <2>4. how = "cut" => expired
    BY <2>1 DEF NotifyReturns
  <2>5. Cuts'
    BY <2>1, <2>3, <2>4 DEF NotifyReturns
  <2>6. Exits' /\ Releases'
    BY <2>1, <2>2 DEF NotifyReturns
  <2> QED
    BY <2>5, <2>6
<1>15. ASSUME UNCHANGED vars PROVE Closing'
  BY <1>15 DEF vars
<1> QED
  BY <1>1, <1>2, <1>3, <1>4, <1>5, <1>6, <1>7, <1>8, <1>9, <1>10, <1>11, <1>12, <1>13,
     <1>14, <1>15
     DEF Next, PublishStep, CloseStep

-----------------------------------------------------------------------------
\* Where the events of one observer's queue are: the channel holds the last
\* ones, the worker has the one before them, those before that have an outcome
\* and nothing else has; and an event that is still to be offered to the
\* observer is not among them.
Held(o) == Len(queued[o]) - Len(queue[o])

Busy(o) == worker[o] \in Events

Known(o, e) == \E i \in 1..Len(queued[o]) : queued[o][i] = e

Buffered(o) == /\ Held(o) >= 0
               /\ \A j \in 1..Len(queue[o]) : queue[o][j] = queued[o][Held(o) + j]

Worked(o) == Busy(o) => Held(o) >= 1 /\ queued[o][Held(o)] = worker[o]

Settled(o) == /\ \A i \in 1..Len(queued[o]) :
                     outcome[o][queued[o][i]] # "none" <=>
                         IF Busy(o) THEN i < Held(o) ELSE i <= Held(o)
              /\ \A e \in Events : ~Known(o, e) => outcome[o][e] = "none"

Once(o) == /\ \A i, j \in 1..Len(queued[o]) : queued[o][i] = queued[o][j] => i = j
           /\ \A i \in 1..Len(queued[o]) : queued[o][i] <= published

ToCome(o) == \A h \in Handlers :
                 pc[h] = "lockPublish" \/ (pc[h] = "publishing" /\ next[h] <= o) => ~Known(o, event[h])

Placed(o) == Buffered(o) /\ Worked(o) /\ Settled(o)

Ordered == \A o \in Observers : Placed(o) /\ Once(o) /\ ToCome(o)

LEMMA InitOrdered == Init => Ordered
<1> SUFFICES ASSUME Init, NEW o \in Observers PROVE Placed(o) /\ Once(o) /\ ToCome(o)
  BY DEF Ordered
<1>1. /\ queue[o] = <<>> /\ queued[o] = <<>> /\ worker[o] = Idle
      /\ outcome[o] = [e \in Events |-> "none"]
      /\ Len(<<>>) = 0
  BY DEF Init
<1>2. 1..Len(queued[o]) = {} /\ 1..Len(queue[o]) = {} /\ Held(o) = 0
  BY <1>1 DEF Held
<1> QED
  BY <1>1, <1>2, TokensAssumption
     DEF Placed, Buffered, Worked, Settled, Busy, Known, Once, ToCome

\* Placed and Once depend on the observer's own variables (and the count of
\* calls, which only grows).
LEMMA SameObserver ==
    ASSUME NEW o \in Observers, Placed(o), Once(o), Typed, Typed', published <= published',
           queue'[o] = queue[o], queued'[o] = queued[o], worker'[o] = worker[o], outcome'[o] = outcome[o]
    PROVE  Placed(o)' /\ Once(o)' /\ (\A e : Known(o, e)' <=> Known(o, e))
<1>1. /\ published \in Nat /\ published' \in Nat /\ queued[o] \in Seq(Events)
  BY SizesAssumption DEF Typed, TypeOK
<1>2. \A i \in 1..Len(queued[o]) : queued[o][i] \in Nat
  BY <1>1, SizesAssumption DEF Events
<1>3. (\A e : Known(o, e)' <=> Known(o, e))
  BY DEF Known
<1>4. Once(o)'
  <2>1. ASSUME NEW i \in 1..Len(queued[o]) PROVE queued[o][i] <= published'
    <3>1. queued[o][i] \in Nat /\ queued[o][i] <= published
      BY <1>2 DEF Once
    <3> QED
      BY <1>1, <3>1
  <2> QED
    BY <2>1 DEF Once
<1>5. Placed(o)'
  BY <1>3 DEF Placed, Buffered, Worked, Settled, Busy, Held
<1> QED
  BY <1>3, <1>4, <1>5

\* Handlers that do not move on keep what they had to come.
LEMMA SameHandlers ==
    ASSUME NEW o \in Observers, ToCome(o), \A e : Known(o, e)' <=> Known(o, e),
           UNCHANGED event,
           \A h \in Handlers :
               pc'[h] = "lockPublish" \/ (pc'[h] = "publishing" /\ next'[h] <= o) =>
                   pc[h] = "lockPublish" \/ (pc[h] = "publishing" /\ next[h] <= o)
    PROVE  ToCome(o)'
  BY DEF ToCome

LEMMA NextOrdered == Typed /\ Locking /\ Ordered /\ [Next]_vars => Ordered'
<1> SUFFICES ASSUME Typed, Locking, Ordered, [Next]_vars, NEW o \in Observers
             PROVE  Placed(o)' /\ Once(o)' /\ ToCome(o)'
  BY DEF Ordered
<1> USE SizesAssumption, TokensAssumption
    DEF Procs, lockVars, chanVars, eventVars, callVars, workVars
<1>a. Typed'
  BY NextTyped
<1>b. /\ pc \in [Procs -> {"idle", "lockPublish", "publishing", "lockClose", "closing",
                           "waiting", "aborting", "releasing"}]
      /\ next \in [Procs -> 1..(ObserverCount + 1)]
      /\ event \in [Handlers -> Events \cup {Idle}]
      /\ published \in Nat
      /\ worker \in [Observers -> Events \cup {Idle, Exited}]
      /\ outcome \in [Observers -> [Events -> {"none", "returned", "cut"}]]
      /\ queue \in [Observers -> Seq(Events)] /\ queued \in [Observers -> Seq(Events)]
      /\ Events \subseteq Nat /\ Observers \subseteq Nat
  BY DEF Typed, TypeOK, Events, Observers
<1>c. Placed(o) /\ Once(o) /\ ToCome(o)
  BY DEF Ordered
<1>d. /\ Len(queued[o]) \in Nat /\ Len(queue[o]) \in Nat
      /\ Held(o) \in Int /\ Len(queued[o]) = Held(o) + Len(queue[o])
      /\ o \in Nat /\ \A h \in Handlers : next[h] \in Nat
  <2>1. Len(queued[o]) \in Nat /\ Len(queue[o]) \in Nat
    BY <1>b
  <2>2. o \in Nat /\ \A h \in Handlers : next[h] \in Nat
    BY <1>b
  <2> QED
    BY <2>1, <2>2 DEF Held
<1>1. ASSUME NEW h \in Handlers, Publish(h) PROVE Placed(o)' /\ Once(o)' /\ ToCome(o)'
  <2>1. /\ queue' = queue /\ queued' = queued /\ worker' = worker /\ outcome' = outcome
        /\ published' = published + 1 /\ next' = next
    BY <1>1 DEF Publish
  <2>2. Placed(o)' /\ Once(o)' /\ (\A e : Known(o, e)' <=> Known(o, e))
    BY <1>a, <1>b, <1>c, <2>1, SameObserver
  <2>3. ~Known(o, published')
    BY <1>b, <1>c, <2>1 DEF Known, Once
  <2>4. \A g \in Handlers :
            IF g = h THEN event'[g] = published' ELSE event'[g] = event[g] /\ pc'[g] = pc[g]
    BY <1>1, <1>b DEF Publish
  <2>5. ToCome(o)'
    BY <1>c, <2>1, <2>2, <2>3, <2>4 DEF ToCome
  <2> QED
    BY <2>2, <2>5
<1>2. ASSUME NEW h \in Handlers, PublishEnter(h) \/ PublishReturn(h)
      PROVE  Placed(o)' /\ Once(o)' /\ ToCome(o)'
  <2>1. /\ queue' = queue /\ queued' = queued /\ worker' = worker /\ outcome' = outcome
        /\ published' = published /\ event' = event
    BY <1>2 DEF PublishEnter, PublishReturn
  <2>2. Placed(o)' /\ Once(o)' /\ (\A e : Known(o, e)' <=> Known(o, e))
    BY <1>a, <1>b, <1>c, <2>1, SameObserver
  <2>3. \A g \in Handlers :
               pc'[g] = "lockPublish" \/ (pc'[g] = "publishing" /\ next'[g] <= o) =>
                   pc[g] = "lockPublish" \/ (pc[g] = "publishing" /\ next[g] <= o)
    BY <1>2, <1>b DEF PublishEnter, PublishReturn
  <2>4. ToCome(o)'
    BY <1>c, <2>1, <2>2, <2>3, SameHandlers
  <2> QED
    BY <2>2, <2>4
<1>3. ASSUME NEW h \in Handlers, PublishTo(h) PROVE Placed(o)' /\ Once(o)' /\ ToCome(o)'
  <2>1. /\ worker' = worker /\ outcome' = outcome /\ published' = published /\ event' = event
        /\ pc' = pc /\ pc[h] = "publishing" /\ next[h] \in Observers
        /\ \A g \in Handlers : next'[g] = IF g = h THEN next[h] + 1 ELSE next[g]
    BY <1>3, <1>b DEF PublishTo, Observers
  <2>2. CASE queue'[o] = queue[o] /\ queued'[o] = queued[o]
    <3>1. Placed(o)' /\ Once(o)' /\ (\A e : Known(o, e)' <=> Known(o, e))
      BY <1>a, <1>b, <1>c, <2>1, <2>2, SameObserver
    <3>2. \A g \in Handlers : next'[g] <= o => next[g] <= o
      BY <1>d, <2>1
    <3>3. ToCome(o)'
      BY <1>c, <2>1, <3>1, <3>2, SameHandlers
    <3> QED
      BY <3>1, <3>3
  <2>3. CASE ~(queue'[o] = queue[o] /\ queued'[o] = queued[o])
    <3> DEFINE n == Len(queued[o])
               k == Len(queue[o])
               e == event[h]
    <3>1. /\ queue' = [queue EXCEPT ![next[h]] = Append(@, e)]
          /\ queued' = [queued EXCEPT ![next[h]] = Append(@, e)]
      BY <1>3, <2>3 DEF PublishTo, PutOrDrop
    <3>2. next[h] = o
      BY <1>b, <2>1, <2>3, <3>1
    <3>3. e \in Events /\ e <= published
      BY <2>1 DEF Typed, OwnEvents, InPublish
    <3>4. queue'[o] = Append(queue[o], e) /\ queued'[o] = Append(queued[o], e)
      BY <1>b, <3>1, <3>2
    <3>5. /\ Len(queue'[o]) = k + 1 /\ Len(queued'[o]) = n + 1
          /\ \A j \in 1..k : queue'[o][j] = queue[o][j]
          /\ queue'[o][k + 1] = e
          /\ \A i \in 1..n : queued'[o][i] = queued[o][i]
          /\ queued'[o][n + 1] = e
      BY <1>b, <3>3, <3>4
    <3>6. ~Known(o, e)
      BY <1>c, <2>1, <3>2, <1>b DEF ToCome
    <3>b. \A x : Known(o, x)' <=> Known(o, x) \/ x = e
      <4> SUFFICES ASSUME NEW x PROVE Known(o, x)' <=> Known(o, x) \/ x = e
        OBVIOUS
      <4>1. ASSUME Known(o, x)' PROVE Known(o, x) \/ x = e
        <5> PICK i \in 1..(n + 1) : queued'[o][i] = x
          BY <3>5, <4>1 DEF Known
        <5>1. i = n + 1 \/ i \in 1..n
          BY <1>d
        <5> QED
          BY <3>5, <5>1 DEF Known
      <4>2. ASSUME Known(o, x) PROVE Known(o, x)'
        <5> PICK i \in 1..n : queued[o][i] = x
          BY <4>2 DEF Known
        <5>1. i \in 1..(n + 1)
          BY <1>d
        <5>2. queued'[o][i] = x
          BY <3>5
        <5> QED
          BY <3>5, <5>1, <5>2 DEF Known
      <4>3. ASSUME x = e PROVE Known(o, x)'
        <5>1. n + 1 \in 1..(n + 1) /\ queued'[o][n + 1] = x
          BY <1>d, <3>5, <4>3
        <5> QED
          BY <3>5, <5>1 DEF Known
      <4> QED
        BY <4>1, <4>2, <4>3
    <3>7. Held(o)' = Held(o) /\ n = Held(o) + k
      BY <1>d, <3>5 DEF Held
    <3>8. Buffered(o)'
      <4>1. Buffered(o)
        BY <1>c DEF Placed
      <4>2. ASSUME NEW j \in 1..(k + 1) PROVE queue'[o][j] = queued'[o][Held(o) + j]
        <5>1. CASE j = k + 1
          BY <1>d, <3>5, <5>1
        <5>2. CASE j \in 1..k
          <6>1. Held(o) + j \in 1..n
            BY <1>d, <3>7, <4>1, <5>2 DEF Buffered
          <6> QED
            BY <3>5, <3>7, <4>1, <5>2, <6>1 DEF Buffered
        <5> QED
          BY <1>d, <5>1, <5>2
      <4> QED
        BY <3>5, <3>7, <4>1, <4>2 DEF Buffered
    <3>9. Worked(o)'
      <4>1. Worked(o) /\ (Busy(o)' <=> Busy(o)) /\ worker'[o] = worker[o]
        BY <1>c, <2>1 DEF Placed, Busy
      <4>2. Held(o) >= 1 => Held(o) \in 1..n
        BY <1>d, <3>7
      <4> QED
        BY <3>5, <3>7, <4>1, <4>2 DEF Worked
    <3>10. Settled(o)'
      <4>1. Settled(o) /\ (Busy(o)' <=> Busy(o)) /\ Held(o) >= 0
        BY <1>c, <2>1 DEF Placed, Busy, Buffered
      <4>2. outcome[o][e] = "none"
        BY <3>3, <3>6, <4>1 DEF Settled
      <4>3. \A i \in 1..n : queued[o][i] # e
        BY <3>6 DEF Known
      <4>5. ~(n + 1 <= Held(o)) /\ ~(n + 1 < Held(o))
        BY <1>d, <3>7
      <4>6. ASSUME NEW i \in 1..(n + 1)
            PROVE  outcome'[o][queued'[o][i]] # "none" <=>
                       IF Busy(o)' THEN i < Held(o)' ELSE i <= Held(o)'
        <5>1. CASE i = n + 1
          BY <2>1, <3>5, <3>7, <4>2, <4>5, <5>1
        <5>2. CASE i \in 1..n
          <6>1. queued'[o][i] = queued[o][i]
            BY <3>5, <5>2
          <6>2. outcome[o][queued[o][i]] # "none" <=> IF Busy(o) THEN i < Held(o) ELSE i <= Held(o)
            BY <4>1, <5>2 DEF Settled
          <6> QED
            BY <2>1, <3>7, <4>1, <6>1, <6>2
        <5> QED
          BY <1>d, <5>1, <5>2
      <4>7. \A x \in Events : ~Known(o, x)' => outcome'[o][x] = "none"
        BY <2>1, <3>b, <4>1 DEF Settled
      <4> QED
        BY <3>5, <4>6, <4>7 DEF Settled
    <3>11. Once(o)'
      <4>1. Once(o) /\ \A i \in 1..n : queued[o][i] # e
        BY <1>c, <3>6 DEF Known
      <4>2. ASSUME NEW i \in 1..(n + 1), NEW j \in 1..(n + 1), queued'[o][i] = queued'[o][j]
            PROVE  i = j
        <5>1. CASE i \in 1..n /\ j \in 1..n
          BY <3>5, <4>1, <4>2, <5>1 DEF Once
        <5>2. CASE i = n + 1 /\ j \in 1..n
          BY <3>5, <4>1, <4>2, <5>2
        <5>3. CASE i \in 1..n /\ j = n + 1
          BY <3>5, <4>1, <4>2, <5>3
        <5>4. CASE i = n + 1 /\ j = n + 1
          BY <5>4
        <5> QED
          BY <1>d, <5>1, <5>2, <5>3, <5>4
      <4>3. ASSUME NEW i \in 1..(n + 1) PROVE queued'[o][i] <= published'
        <5>1. i = n + 1 \/ i \in 1..n
          BY <1>d
        <5>2. i \in 1..n => queued'[o][i] = queued[o][i] /\ queued[o][i] <= published
          BY <3>5, <4>1 DEF Once
        <5> QED
          BY <2>1, <3>3, <3>5, <5>1, <5>2
      <4> QED
        BY <3>5, <4>2, <4>3 DEF Once
    <3>12. ToCome(o)'
      <4> SUFFICES ASSUME NEW g \in Handlers,
                          pc[g] = "lockPublish" \/ (pc[g] = "publishing" /\ next'[g] <= o)
                   PROVE  ~Known(o, event[g])'
        BY <2>1 DEF ToCome
      <4>2. g # h
        BY <1>b, <2>1, <3>2
      <4>3. event[g] # e
        BY <2>1, <4>2 DEF Typed, OwnEvents, InPublish
      <4>4. ~Known(o, event[g])
        BY <1>c, <2>1, <4>2 DEF ToCome
      <4> QED
        BY <2>1, <3>b, <4>3, <4>4
    <3> QED
      BY <3>8, <3>9, <3>10, <3>11, <3>12 DEF Placed
  <2> QED
    BY <2>2, <2>3
<1>4. ASSUME NEW c \in Closers, CloseStep(c) \/ Close(c)
      PROVE  Placed(o)' /\ Once(o)' /\ ToCome(o)'
  <2>1. /\ queue' = queue /\ queued' = queued /\ worker' = worker /\ outcome' = outcome
        /\ published' = published /\ event' = event
    BY <1>4
       DEF Close, CloseStep, CloseEnter, CloseChannel, CloseUnlock, CloseDrained, CloseExpired,
           CloseAborted, Release, CloseReturn
  <2>2. Placed(o)' /\ Once(o)' /\ (\A e : Known(o, e)' <=> Known(o, e))
    BY <1>a, <1>b, <1>c, <2>1, SameObserver
  <2>3. \A g \in Handlers :
            pc'[g] \in {"lockPublish", "publishing"} => pc'[g] = pc[g] /\ next'[g] = next[g]
    BY <1>4, <1>b
       DEF Close, CloseStep, CloseEnter, CloseChannel, CloseUnlock, CloseDrained, CloseExpired,
           CloseAborted, StartRelease, Release, CloseReturn
  <2>4. ToCome(o)'
    BY <1>c, <2>1, <2>2, <2>3, SameHandlers
  <2> QED
    BY <2>2, <2>4
<1>5. ASSUME NEW x \in Observers, Receive(x) PROVE Placed(o)' /\ Once(o)' /\ ToCome(o)'
  <2>1. /\ queued' = queued /\ outcome' = outcome /\ published' = published /\ event' = event
        /\ pc' = pc /\ next' = next
    BY <1>5 DEF Receive
  <2>2. \A e : Known(o, e)' <=> Known(o, e)
    BY <2>1 DEF Known
  <2>3. ToCome(o)' /\ Once(o)'
    BY <1>c, <2>1, <2>2 DEF ToCome, Once
  <2>4. CASE x # o
    <3>1. queue'[o] = queue[o] /\ worker'[o] = worker[o]
      BY <1>5, <1>b, <2>4 DEF Receive
    <3> QED
      BY <1>a, <1>b, <1>c, <2>1, <2>3, <3>1, SameObserver
  <2>5. CASE x = o
    <3> DEFINE n == Len(queued[o])
               k == Len(queue[o])
    <3>1. /\ worker[o] = Idle /\ queue[o] # <<>>
          /\ worker'[o] = Head(queue[o]) /\ queue'[o] = Tail(queue[o])
      BY <1>5, <1>b, <2>5 DEF Receive
    <3>2. /\ k >= 1 /\ Len(queue'[o]) = k - 1
          /\ worker'[o] = queue[o][1] /\ worker'[o] \in Events
          /\ \A j \in 1..(k - 1) : queue'[o][j] = queue[o][j + 1]
      BY <1>b, <3>1
    <3>3. Held(o)' = Held(o) + 1 /\ n = Held(o) + k /\ Held(o) >= 0
      BY <1>c, <1>d, <2>1, <3>2 DEF Held, Placed, Buffered
    <3>4. queue[o][1] = queued[o][Held(o) + 1]
      BY <1>c, <1>d, <3>2 DEF Placed, Buffered
    <3>5. Buffered(o)'
      <4>1. ASSUME NEW j \in 1..(k - 1) PROVE queue'[o][j] = queued[o][Held(o) + 1 + j]
        <5>1. j + 1 \in 1..k
          BY <1>d
        <5>2. queue[o][j + 1] = queued[o][Held(o) + (j + 1)]
          BY <1>c, <5>1 DEF Placed, Buffered
        <5>3. Held(o) + (j + 1) = Held(o) + 1 + j
          BY <1>d, <3>3
        <5> QED
          BY <3>2, <5>2, <5>3
      <4> QED
        BY <1>d, <2>1, <3>2, <3>3, <4>1 DEF Buffered
    <3>6. Busy(o)' /\ ~Busy(o)
      BY <3>1, <3>2 DEF Busy
    <3>7. Worked(o)'
      BY <1>d, <2>1, <3>2, <3>3, <3>4 DEF Worked
    <3>8. Settled(o)'
      <4>1. \A i \in 1..n : i <= Held(o) <=> i < Held(o) + 1
        BY <1>d, <3>3
      <4> QED
        BY <1>c, <2>1, <2>2, <3>3, <3>6, <4>1 DEF Placed, Settled
    <3> QED
      BY <2>3, <3>5, <3>7, <3>8 DEF Placed
  <2> QED
    BY <2>4, <2>5
<1>6. ASSUME NEW x \in Observers, WorkerExit(x) PROVE Placed(o)' /\ Once(o)' /\ ToCome(o)'
  <2>1. /\ queue' = queue /\ queued' = queued /\ outcome' = outcome /\ published' = published
        /\ event' = event /\ pc' = pc /\ next' = next
    BY <1>6 DEF WorkerExit
  <2>2. \A e : Known(o, e)' <=> Known(o, e)
    BY <2>1 DEF Known
  <2>3. ToCome(o)' /\ Once(o)'
    BY <1>c, <2>1, <2>2 DEF ToCome, Once
  <2>4. (Busy(o)' <=> Busy(o)) /\ (Busy(o) => worker'[o] = worker[o])
    BY <1>6, <1>b DEF WorkerExit, Busy
  <2>5. Held(o)' = Held(o)
    BY <2>1 DEF Held
  <2>6. Placed(o)'
    BY <1>c, <2>1, <2>2, <2>4, <2>5 DEF Placed, Buffered, Worked, Settled
  <2> QED
    BY <2>3, <2>6
<1>7. ASSUME NEW x \in Observers, NotifyEnds(x) PROVE Placed(o)' /\ Once(o)' /\ ToCome(o)'
  <2> PICK how \in {"ok", "failed", "cut"} : NotifyReturns(x, how)
    BY <1>7 DEF NotifyEnds
  <2>1. /\ queue' = queue /\ queued' = queued /\ published' = published
        /\ event' = event /\ pc' = pc /\ next' = next
    BY DEF NotifyReturns
  <2>2. \A e : Known(o, e)' <=> Known(o, e)
    BY <2>1 DEF Known
  <2>3. ToCome(o)' /\ Once(o)'
    BY <1>c, <2>1, <2>2 DEF ToCome, Once
  <2>4. CASE x # o
    <3>1. outcome'[o] = outcome[o] /\ worker'[o] = worker[o]
      BY <1>b, <2>4 DEF NotifyReturns
    <3> QED
      BY <1>a, <1>b, <1>c, <2>1, <2>3, <3>1, SameObserver
  <2>5. CASE x = o
    <3> DEFINE n == Len(queued[o])
               e == worker[o]
    <3>1. e \in Events /\ worker'[o] = Idle
      BY <1>b, <2>5 DEF NotifyReturns, AfterNotify
    <3>2. \A y \in Events : IF y = e THEN outcome'[o][y] # "none" ELSE outcome'[o][y] = outcome[o][y]
      BY <1>b, <2>5, <3>1 DEF NotifyReturns
    <3>3. Busy(o) /\ ~Busy(o)' /\ Held(o)' = Held(o)
      BY <2>1, <3>1 DEF Busy, Held
    <3>4. Held(o) \in 1..n /\ queued[o][Held(o)] = e
      <4>1. Held(o) >= 1 /\ queued[o][Held(o)] = e
        BY <1>c, <3>3 DEF Placed, Worked
      <4> QED
        BY <1>d, <4>1
    <3>5. Known(o, e)
      BY <3>4 DEF Known
    <3>6. Settled(o)'
      <4>1. ASSUME NEW i \in 1..n
            PROVE  outcome'[o][queued[o][i]] # "none" <=> i <= Held(o)
        <5>1. queued[o][i] \in Events
          BY <1>b
        <5>2. CASE i = Held(o)
          BY <3>1, <3>2, <3>4, <5>2
        <5>3. CASE i # Held(o)
          <6>1. queued[o][i] # e
            BY <1>c, <3>4, <5>3 DEF Once
          <6>2. outcome[o][queued[o][i]] # "none" <=> i < Held(o)
            BY <1>c, <3>3 DEF Placed, Settled
          <6>3. i < Held(o) <=> i <= Held(o)
            BY <3>4, <5>3
          <6> QED
            BY <3>2, <5>1, <6>1, <6>2, <6>3
        <5> QED
          BY <5>2, <5>3
      <4>2. \A y \in Events : ~Known(o, y)' => outcome'[o][y] = "none"
        BY <1>c, <2>2, <3>2, <3>5 DEF Placed, Settled
      <4> QED
        BY <2>1, <3>3, <4>1, <4>2 DEF Settled
    <3>7. Buffered(o)' /\ Worked(o)'
      BY <1>c, <2>1, <3>3 DEF Placed, Buffered, Worked
    <3> QED
      BY <2>3, <3>6, <3>7 DEF Placed
  <2> QED
    BY <2>4, <2>5
<1>8. ASSUME UNCHANGED vars PROVE Placed(o)' /\ Once(o)' /\ ToCome(o)'
  BY <1>8, <1>c
     DEF vars, Placed, Buffered, Worked, Settled, Busy, Held, Known, Once, ToCome
<1> QED
  BY <1>1, <1>2, <1>3, <1>4, <1>5, <1>6, <1>7, <1>8 DEF Next, PublishStep

-----------------------------------------------------------------------------
IInv == Typed /\ Locking /\ Closing /\ Ordered

LEMMA Invariance == SafeSpec => []IInv
<1>1. Init => IInv
  BY InitTyped, InitLocking, InitClosing, InitOrdered DEF IInv
<1>2. IInv /\ [Next]_vars => IInv'
  BY NextTyped, NextLocking, NextClosing, NextOrdered DEF IInv
<1> QED
  BY <1>1, <1>2, PTL DEF SafeSpec

\* The variables keep their types; no channel holds more than BufferSize events.
THEOREM TypeCorrect == SafeSpec => []TypeOK
<1>1. IInv => TypeOK
  BY DEF IInv, Typed
<1> QED
  BY <1>1, Invariance, PTL

\* No interleaving of Publish and Close calls sends on a closed channel or
\* closes one twice (publisher.go:70-100): a call in the loop of Publish has the
\* mutex, and while it has it closed is not set and no channel is closed.
THEOREM NeverPanics == SafeSpec => []NoPanic
<1>1. IInv => NoPanic
  BY DEF IInv, Locking
<1> QED
  BY <1>1, Invariance, PTL

\* An observer is closed after its worker has left (publisher.go:114-119).
THEOREM ClosedLast == SafeSpec => []ClosedAfterWorker
<1>1. IInv => ClosedAfterWorker
  BY DEF IInv, Closing, Releases
<1> QED
  BY <1>1, Invariance, PTL

\* Every observer gets the events of its queue in order, each of them once.
THEOREM OrderKept == SafeSpec => []InOrder
<1>1. ASSUME IInv PROVE InOrder
  <2> SUFFICES ASSUME NEW o \in Observers
               PROVE  /\ queue[o] = SubSeq(queued[o], Len(Received(o)) + 1, Len(queued[o]))
                      /\ Busy(o) => Received(o) # <<>> /\ Last(Received(o)) = worker[o]
                      /\ \A i \in 1..Len(queued[o]) :
                             outcome[o][queued[o][i]] # "none" <=>
                                 IF Busy(o) THEN i < Len(Received(o)) ELSE i <= Len(Received(o))
    BY DEF InOrder, Busy
  <2> DEFINE n == Len(queued[o])
             k == Len(queue[o])
             h == Held(o)
             rest == SubSeq(queued[o], h + 1, n)
  <2>1. queue[o] \in Seq(Events) /\ queued[o] \in Seq(Events)
    BY <1>1 DEF IInv, Typed, TypeOK
  <2>2. n \in Nat /\ k \in Nat
    BY <2>1
  <2>3. h \in Int /\ n = h + k
    BY <2>2 DEF Held
  <2>4. Placed(o)
    BY <1>1 DEF IInv, Ordered
  <2>5. h \in 0..n
    BY <2>2, <2>3, <2>4 DEF Placed, Buffered
  <2>6. Received(o) = SubSeq(queued[o], 1, h)
    BY DEF Received, Held
  <2>8. /\ Received(o) \in Seq(Events) /\ Len(Received(o)) = h
        /\ \A i \in 1..h : Received(o)[i] = queued[o][i]
    BY <2>1, <2>5, <2>6, BeginningOf
  <2>9. queue[o] = rest
    <3>1. rest \in Seq(Events) /\ Len(rest) = n - h /\ \A i \in 1..(n - h) : rest[i] = queued[o][h + i]
      BY <2>1, <2>5, EndOf
    <3>2. n - h = k
      BY <2>2, <2>3
    <3>3. \A i \in 1..k : queue[o][i] = queued[o][h + i]
      BY <2>4 DEF Placed, Buffered
    <3> HIDE DEF rest, n, h, k
    <3>4. Len(rest) = k /\ \A i \in 1..k : queue[o][i] = rest[i]
      BY <3>1, <3>2, <3>3
    <3>5. Len(queue[o]) = k
      BY DEF k
    <3> QED
      BY <2>1, <3>1, <3>4, <3>5
  <2>10. ASSUME Busy(o) PROVE Received(o) # <<>> /\ Last(Received(o)) = worker[o]
    <3>1. h >= 1 /\ queued[o][h] = worker[o]
      BY <2>4, <2>10 DEF Placed, Worked
    <3>2. h \in 1..h
      BY <2>3, <3>1
    <3>3. Received(o)[h] = worker[o]
      BY <2>8, <3>1, <3>2
    <3>4. Received(o) # <<>>
      BY <2>3, <2>8, <3>1
    <3> QED
      BY <2>8, <3>3, <3>4 DEF Last
  <2> QED
    BY <2>4, <2>8, <2>9, <2>10 DEF Placed, Settled
<1> QED
  BY <1>1, Invariance, PTL

\* A Close that did the work has waited for everything that was queued: an
\* exited worker found its channel closed and empty, so all its events have an
\* outcome, and an interrupted one means that the context had ended.
THEOREM CloseIsComplete == SafeSpec => []CloseComplete
<1>1. ASSUME IInv PROVE CloseComplete
  <2> SUFFICES ASSUME NEW c \in Closers, pc[c] = "idle", result[c] \in {"nil", "err"}
               PROVE  /\ released = Observers
                      /\ \A o \in Observers : \A e \in ToSet(queued[o]) :
                             /\ outcome[o][e] # "none"
                             /\ outcome[o][e] = "cut" => expired /\ result[c] = "err"
    BY DEF CloseComplete
  <2>1. Drained /\ released = Observers
    BY <1>1 DEF IInv, Closing, Releases
  <2>2. ASSUME NEW o \in Observers, NEW e \in ToSet(queued[o])
        PROVE  /\ outcome[o][e] # "none"
               /\ outcome[o][e] = "cut" => expired /\ result[c] = "err"
    <3>1. queued[o] \in Seq(Events)
      BY <1>1 DEF IInv, Typed, TypeOK
    <3>2. PICK i \in 1..Len(queued[o]) : queued[o][i] = e
      BY <3>1 DEF ToSet
    <3>3. e \in Events /\ Len(queued[o]) \in Nat
      BY <3>1, <3>2
    <3>4. worker[o] = Exited /\ queue[o] = <<>>
      BY <1>1, <2>1 DEF IInv, Closing, Exits, Drained
    <3>5. ~Busy(o) /\ Held(o) = Len(queued[o])
      <4>1. Len(queue[o]) = 0
        BY <3>4
      <4> QED
        BY <3>3, <3>4, <4>1, TokensAssumption DEF Busy, Held
    <3>6. outcome[o][e] # "none"
      <4>1. i <= Held(o)
        BY <3>5
      <4> QED
        BY <1>1, <3>2, <3>5, <4>1 DEF IInv, Ordered, Placed, Settled
    <3>7. outcome[o][e] = "cut" => expired /\ result[c] # "nil"
      BY <1>1, <3>3 DEF IInv, Closing, Cuts
    <3> QED
      BY <3>6, <3>7
  <2> QED
    BY <2>1, <2>2
<1> QED
  BY <1>1, Invariance, PTL

-----------------------------------------------------------------------------
\* The publisher with its two sinks takes the publisher's steps only, so that
\* everything above holds for it.
LEMMA RemoteIsObserver == File \in Observers /\ Remote \in Observers
  BY SinksAssumption DEF Observers

THEOREM SinksArePublisher == SinksSpec => SafeSpec
<1>1. SinksInit => Init
  BY DEF SinksInit
<1>2. ASSUME [SinksNext]_allVars PROVE [Next]_vars
  <2> USE DEF Quietly
  <2>1. CASE \E h \in Handlers : Quietly(PublishStep(h) \/ Publish(h))
    BY <2>1 DEF Next
  <2>2. CASE \E c \in Closers : Quietly(CloseStep(c) \/ Close(c))
    BY <2>2 DEF Next
  <2>3. CASE Quietly(Receive(File)) \/ Take \/ \E o \in Observers : Quietly(WorkerExit(o))
    BY <2>3, RemoteIsObserver DEF Next, Take
  <2>4. CASE FileRefuses \/ FileWrites
    BY <2>4, RemoteIsObserver DEF Next, FileRefuses, FileWrites, NotifyEnds
  <2>5. ASSUME NEW c, GoOn(c) PROVE [Next]_vars
    BY <2>5, RemoteIsObserver DEF Next, GoOn, NotifyEnds
  <2>6. CASE Answer \/ Answered("cancelled") \/ Repeat \/ CutWait
    BY <2>5, <2>6 DEF Answer, Answered, Repeat, CutWait
  <2>7. CASE UNCHANGED allVars
    BY <2>7 DEF allVars
  <2> QED
    BY <1>2, <2>1, <2>2, <2>3, <2>4, <2>6, <2>7 DEF SinksNext
<1> QED
  BY <1>1, <1>2, PTL DEF SinksSpec, SafeSpec

\* A call of the HTTP sink waits after a temporary failure that was not the last
\* one allowed.
Tried == call = NoCall \/ /\ call \in Do!Calls
                          /\ call.phase = "waiting" => answer = "unavailable" /\ call.attempts < 4

\* RemotePersists, of one step.
Right == /\ call # NoCall /\ call' = NoCall /\ answer' = "unavailable" =>
              call.attempts = 4 \/ cancelled
         /\ call # NoCall /\ call' # NoCall /\ call'.attempts > call.attempts =>
              answer \in Temporary /\ call.attempts < 4

LEMMA NextTried == Tried /\ [SinksNext]_allVars => Tried' /\ [Right]_allVars
<1> USE DEF Right, Temporary
<1>2. Do!MaxAttempts = 4
  BY DEF Do!MaxAttempts, Do!Delays
<1>3. ASSUME Tried, [SinksNext]_allVars PROVE Tried' /\ [Right]_allVars
  <2>1. CASE UNCHANGED <<call, answer>>
    <3>1. call # NoCall => call.attempts \in Int
      BY <1>2, <1>3 DEF Tried, Do!Calls
    <3> QED
      BY <1>3, <2>1, <3>1 DEF Tried
  <2>2. CASE Take
    <3>1. call' = [phase |-> "calling", attempts |-> 1, err |-> "ok"]
      BY <2>2 DEF Take, Do!Begin
    <3>2. call'.attempts = 1 /\ call'.phase = "calling" /\ call' \in Do!Calls
      BY <1>2, <3>1 DEF Do!Calls, Do!Outcomes
    <3>3. Tried'
      BY <3>2 DEF Tried
    <3>4. call # NoCall => call.attempts \in 1..4
      BY <1>2, <1>3 DEF Tried, Do!Calls
    <3>5. call' # NoCall
      BY <3>2, CallAssumption
    <3> QED
      BY <3>2, <3>3, <3>4, <3>5
  <2>3. ASSUME NEW how \in {"accepted", "unavailable", "timeout", "rejected", "cancelled"}, Answered(how)
        PROVE  Tried' /\ Right
    <3> DEFINE c == Do!AfterAttempt(call, Kind(how))
    <3>1. call # NoCall /\ call \in Do!Calls /\ call.attempts \in 1..4 /\ answer' = how
      BY <1>2, <1>3, <2>3 DEF Tried, Answered, In, Do!Calls
    <3>2. Kind(how) \in {"ok", "retriable", "fatal"} /\ (Kind(how) = "retriable" <=> how = "unavailable")
      BY DEF Kind, Retriable
    <3>3. /\ c \in Do!Calls /\ c.attempts = call.attempts
          /\ c.phase = IF Kind(how) = "retriable" /\ call.attempts < 4 THEN "waiting" ELSE "returned"
      BY <1>2, <3>1, <3>2 DEF Do!AfterAttempt, Do!Calls, Do!Outcomes
    <3>4. GoOn(c) /\ (how = "cancelled" => cancelled)
      BY <2>3 DEF Answered
    <3>5. CASE c.phase = "returned"
      <4>1. call' = NoCall
        BY <3>4, <3>5 DEF GoOn
      <4> QED
        BY <3>1, <3>2, <3>3, <3>4, <3>5, <4>1 DEF Tried
    <3>6. CASE c.phase # "returned"
      <4>1. call' = c
        BY <3>4, <3>6 DEF GoOn
      <4>2. how = "unavailable" /\ call.attempts < 4
        BY <3>2, <3>3, <3>6
      <4>3. ~(call'.attempts > call.attempts) /\ call' # NoCall
        BY <3>1, <3>3, <4>1, CallAssumption
      <4>4. Tried'
        BY <3>1, <3>3, <4>1, <4>2 DEF Tried
      <4> QED
        BY <4>3, <4>4
    <3> QED
      BY <3>5, <3>6
  <2>4. CASE Repeat
    <3> DEFINE c == Do!AfterDelay(call)
    <3>1. /\ call # NoCall /\ call \in Do!Calls /\ call.attempts \in 1..4 /\ answer' = answer
          /\ answer = "unavailable" /\ call.attempts < 4 /\ GoOn(c)
      BY <1>2, <1>3, <2>4 DEF Tried, Repeat, In, Do!Calls
    <3>2. c \in Do!Calls /\ c.phase = "calling"
      <4>1. call.attempts + 1 \in 1..4
        BY <3>1
      <4>2. c.phase = "calling" /\ c.attempts = call.attempts + 1 /\ c.err = call.err
        BY <3>1 DEF Do!AfterDelay, Do!Calls
      <4>3. c \in Do!Calls
        BY <1>2, <3>1, <4>1 DEF Do!AfterDelay, Do!Calls
      <4> QED
        BY <4>2, <4>3
    <3>3. call' = c
      BY <3>1, <3>2 DEF GoOn
    <3> QED
      BY <3>1, <3>2, <3>3, CallAssumption DEF Tried
  <2>5. CASE CutWait
    <3>1. call' = NoCall /\ cancelled
      <4>1. Do!AfterCancel(call).phase = "returned"
        BY <1>3, <2>5 DEF Tried, CutWait, In, Do!AfterCancel, Do!Calls
      <4> QED
        BY <2>5, <4>1 DEF CutWait, GoOn
    <3> QED
      BY <3>1 DEF Tried
  <2> QED
    BY <1>3, <2>1, <2>2, <2>3, <2>4, <2>5
       DEF SinksNext, Quietly, sinkVars, allVars, FileRefuses, FileWrites, Answer
<1> QED
  BY <1>3

\* An unavailable receiver is asked again until the fourth request fails or the publisher
\* cancels, and an event that was accepted or refused is never sent again, with any
\* publishers, closers, observers and events (http_sink.go:46-90).
THEOREM UnavailableIsRetried == SinksSpec => RemotePersists
<1>1. SinksInit => Tried
  BY DEF SinksInit, Tried
<1>2. RemotePersists <=> [][Right]_allVars
  BY DEF RemotePersists, Right
<1> QED
  BY <1>1, <1>2, NextTried, PTL DEF SinksSpec

-----------------------------------------------------------------------------
\* The two sinks keep their own variables and those of the publisher in step.
Written == [event : Events, ended : BOOLEAN]

SinkTyped ==
    /\ log \in Seq(Written)
    /\ call \in Do!Calls \cup {NoCall}
    /\ call # NoCall <=> Busy(Remote)
    /\ failed \subseteq Events
    /\ answer \in {"none", "accepted", "unavailable", "timeout", "rejected", "cancelled"}

\* A call made from another stays one.
LEMMA CallGoesOn ==
    ASSUME NEW c \in Do!Calls
    PROVE  /\ Do!Begin \in Do!Calls
           /\ \A outc \in Do!Outcomes : Do!AfterAttempt(c, outc) \in Do!Calls
           /\ c.phase = "waiting" /\ c.attempts < 4 => Do!AfterDelay(c) \in Do!Calls
           /\ Do!AfterCancel(c).phase = "returned"
<1>1. Do!MaxAttempts = 4
  BY DEF Do!MaxAttempts, Do!Delays
<1>2. Do!Begin \in Do!Calls
  BY <1>1 DEF Do!Begin, Do!Calls, Do!Outcomes
<1>3. ASSUME NEW outc \in Do!Outcomes PROVE Do!AfterAttempt(c, outc) \in Do!Calls
  BY <1>1 DEF Do!AfterAttempt, Do!Calls, Do!Outcomes
<1>4. ASSUME c.phase = "waiting", c.attempts < 4 PROVE Do!AfterDelay(c) \in Do!Calls
  <2>1. c.attempts + 1 \in 1..4
    BY <1>1, <1>4 DEF Do!Calls
  <2> QED
    BY <1>1, <2>1 DEF Do!AfterDelay, Do!Calls
<1>5. Do!AfterCancel(c).phase = "returned"
  BY DEF Do!AfterCancel, Do!Calls
<1> QED
  BY <1>2, <1>3, <1>4, <1>5

\* What a worker of one observer does is nothing to the other observer.
LEMMA OtherWorkers ==
    ASSUME Typed, NEW o \in Observers, NEW q \in Observers \ {o},
           Receive(o) \/ \E how : NotifyReturns(o, how)
    PROVE  /\ Busy(q)' <=> Busy(q)
           /\ outcome'[q] = outcome[q] /\ queued' = queued
<1> USE DEF Typed, TypeOK, Busy
<1>1. CASE Receive(o)
  BY <1>1 DEF Receive
<1>2. ASSUME NEW how, NotifyReturns(o, how)
      PROVE  (Busy(q)' <=> Busy(q)) /\ outcome'[q] = outcome[q] /\ queued' = queued
  BY <1>2 DEF NotifyReturns
<1> QED
  BY <1>1, <1>2

\* When retry.Do goes on, Notify goes on or returns.
LEMMA RemoteGoesOn ==
    ASSUME Typed, NEW c \in Do!Calls, Busy(Remote), GoOn(c)
    PROVE  /\ call' \in Do!Calls \cup {NoCall} /\ (call' # NoCall <=> Busy(Remote)')
           /\ outcome'[File] = outcome[File] /\ queued' = queued
<1> USE RemoteIsObserver, SinksAssumption
<1>1. CASE c.phase = "returned"
  <2>1. call' = NoCall /\ \E how : NotifyReturns(Remote, how)
    BY <1>1 DEF GoOn
  <2>2. worker'[Remote] = Idle
    BY <2>1 DEF NotifyReturns, AfterNotify, Typed, TypeOK
  <2>3. outcome'[File] = outcome[File] /\ queued' = queued
    BY <2>1, OtherWorkers
  <2> QED
    BY <2>1, <2>2, <2>3, TokensAssumption DEF Busy
<1>2. CASE c.phase # "returned"
  <2>1. call' = c /\ UNCHANGED vars
    BY <1>2 DEF GoOn
  <2> QED
    BY <2>1, CallAssumption DEF vars, workVars, Busy
<1> QED
  BY <1>1, <1>2

\* A step of a handler, of a closer or of a worker that leaves.
LEMMA QuietStep ==
    ASSUME Typed,
           \/ \E h \in Handlers : PublishStep(h) \/ Publish(h)
           \/ \E c \in Closers : CloseStep(c) \/ Close(c)
           \/ \E q \in Observers : WorkerExit(q)
           \/ UNCHANGED vars
    PROVE  /\ outcome' = outcome
           /\ \A o \in Observers : Busy(o)' <=> Busy(o)
           /\ \A o \in Observers :
                  queued'[o] = queued[o] \/ \E e : queued'[o] = Append(queued[o], e)
<1> USE DEF Typed, TypeOK, Busy, vars, callVars, eventVars, chanVars, lockVars, workVars
<1>1. ASSUME NEW h \in Handlers, Publish(h)
      PROVE  UNCHANGED <<outcome, worker, queued>>
  BY <1>1 DEF Publish
<1>2. ASSUME NEW h \in Handlers, PublishStep(h)
      PROVE  /\ UNCHANGED <<outcome, worker>>
             /\ \A o \in Observers :
                    queued'[o] = queued[o] \/ \E e : queued'[o] = Append(queued[o], e)
  <2>1. CASE PublishEnter(h) \/ PublishReturn(h)
    BY <2>1 DEF PublishEnter, PublishReturn
  <2>2. CASE PublishTo(h)
    <3>1. UNCHANGED <<outcome, worker>>
      BY <2>2 DEF PublishTo
    <3>2. CASE queued' = queued
      BY <3>1, <3>2
    <3>3. CASE queued' = [queued EXCEPT ![next[h]] = Append(@, event[h])]
      <4> SUFFICES ASSUME NEW o \in Observers
                   PROVE  queued'[o] = queued[o] \/ queued'[o] = Append(queued[o], event[h])
        BY <3>1
      <4> QED
        BY <3>3
    <3> QED
      BY <2>2, <3>2, <3>3 DEF PublishTo, PutOrDrop
  <2> QED
    BY <1>2, <2>1, <2>2 DEF PublishStep
<1>3. ASSUME NEW c \in Closers, CloseStep(c) \/ Close(c)
      PROVE  UNCHANGED <<outcome, worker, queued>>
  BY <1>3 DEF Close, CloseStep, CloseEnter, CloseChannel, CloseUnlock, CloseDrained,
              CloseExpired, CloseAborted, Release, CloseReturn, StartRelease
<1>4. ASSUME NEW q \in Observers, WorkerExit(q)
      PROVE  /\ UNCHANGED <<outcome, queued>>
             /\ \A o \in Observers : Busy(o)' <=> Busy(o)
  BY <1>4, TokensAssumption DEF WorkerExit
<1> QED
  BY <1>1, <1>2, <1>3, <1>4

LEMMA InitSinks == SinksInit => SinkTyped
<1>1. <<>> \in Seq(Written)
  OBVIOUS
<1> QED
  BY <1>1, RemoteIsObserver, TokensAssumption DEF SinksInit, Init, SinkTyped, Busy

LEMMA NextSinks == Typed /\ SinkTyped /\ Tried /\ [SinksNext]_allVars => SinkTyped'
<1> SUFFICES ASSUME Typed, SinkTyped, Tried, [SinksNext]_allVars PROVE SinkTyped'
  OBVIOUS
<1> USE RemoteIsObserver, SinksAssumption
<1>1. CASE \/ \E h \in Handlers : Quietly(PublishStep(h) \/ Publish(h))
           \/ \E c \in Closers : Quietly(CloseStep(c) \/ Close(c))
           \/ \E o \in Observers : Quietly(WorkerExit(o))
           \/ UNCHANGED allVars
  <2>1. (Busy(Remote)' <=> Busy(Remote)) /\ UNCHANGED sinkVars
    BY <1>1, QuietStep DEF Quietly, allVars
  <2> QED
    BY <2>1 DEF SinkTyped, sinkVars
<1>2. CASE Quietly(Receive(File))
  <2>1. (Busy(Remote)' <=> Busy(Remote)) /\ UNCHANGED sinkVars
    BY <1>2, OtherWorkers DEF Quietly
  <2> QED
    BY <2>1 DEF SinkTyped, sinkVars
<1>3. CASE FileRefuses \/ FileWrites
  <2>1. /\ worker[File] \in Events /\ \E how : NotifyReturns(File, how)
        /\ UNCHANGED <<call, answer>>
        /\ failed' = failed \/ failed' = failed \cup {worker[File]}
        /\ \/ log' = log
           \/ \E w \in BOOLEAN : log' = Append(log, [event |-> worker[File], ended |-> w])
           \/ \E w \in BOOLEAN : log' = log \o <<[event |-> worker[File], ended |-> w]>>
           \/ log' = log \o <<>>
    BY <1>3 DEF FileRefuses, FileWrites, FileFails, Parts, Text
  <2>2. Busy(Remote)' <=> Busy(Remote)
    BY <2>1, OtherWorkers
  <2>3. log' \in Seq(Written)
    <3>1. \A w \in BOOLEAN : [event |-> worker[File], ended |-> w] \in Written
      BY <2>1 DEF Written
    <3>2. log \in Seq(Written)
      BY DEF SinkTyped
    <3> HIDE DEF Written
    <3>3. \A w \in BOOLEAN : /\ Append(log, [event |-> worker[File], ended |-> w]) \in Seq(Written)
                             /\ log \o <<[event |-> worker[File], ended |-> w]>> \in Seq(Written)
      BY <3>1, <3>2
    <3>4. log \o <<>> \in Seq(Written)
      BY <3>2
    <3> QED
      BY <2>1, <3>2, <3>3, <3>4
  <2> QED
    BY <2>1, <2>2, <2>3 DEF SinkTyped
<1>4. CASE Take
  <2>1. Receive(Remote) /\ call' = Do!Begin /\ answer' = "none" /\ UNCHANGED <<log, failed>>
    BY <1>4 DEF Take
  <2>2. Busy(Remote)'
    <3>1. queue[Remote] \in Seq(Events) /\ queue[Remote] # <<>>
      BY <2>1 DEF Receive, Typed, TypeOK
    <3>2. Head(queue[Remote]) \in Events
      BY <3>1
    <3> QED
      BY <2>1, <3>2 DEF Receive, Typed, TypeOK, Busy
  <2>3. Do!Begin \in Do!Calls
    BY DEF Do!Begin, Do!Calls, Do!Outcomes, Do!MaxAttempts, Do!Delays
  <2> QED
    BY <2>1, <2>2, <2>3, CallAssumption DEF SinkTyped
<1>5. ASSUME NEW c \in Do!Calls, GoOn(c), call # NoCall, UNCHANGED <<log, failed>>,
             answer' \in {"none", "accepted", "unavailable", "timeout", "rejected", "cancelled"}
      PROVE  SinkTyped'
  <2>1. Busy(Remote)
    BY <1>5 DEF SinkTyped
  <2> QED
    BY <1>5, <2>1, RemoteGoesOn DEF SinkTyped
<1>6. ASSUME NEW how \in {"accepted", "unavailable", "timeout", "rejected", "cancelled"}, Answered(how)
      PROVE  SinkTyped'
  <2>1. /\ call # NoCall /\ call \in Do!Calls /\ answer' = how
        /\ GoOn(Do!AfterAttempt(call, Kind(how))) /\ UNCHANGED <<log, failed>>
    BY <1>6 DEF Answered, In, SinkTyped
  <2>2. Kind(how) \in Do!Outcomes
    BY DEF Kind, Retriable, Do!Outcomes
  <2> QED
    BY <1>5, <2>1, <2>2, CallGoesOn
<1>7. CASE Repeat
  <2>1. /\ call # NoCall /\ call \in Do!Calls /\ call.phase = "waiting" /\ call.attempts < 4
        /\ GoOn(Do!AfterDelay(call)) /\ UNCHANGED <<log, failed, answer>>
    BY <1>7 DEF Repeat, In, Tried
  <2>2. Do!AfterDelay(call) \in Do!Calls
    BY <2>1, CallGoesOn
  <2> QED
    BY <1>5, <2>1, <2>2 DEF SinkTyped
<1>8. CASE CutWait
  <2>1. /\ call # NoCall /\ call \in Do!Calls
        /\ GoOn(Do!AfterCancel(call)) /\ UNCHANGED <<log, failed, answer>>
    BY <1>8 DEF CutWait, In, SinkTyped
  <2>2. Do!AfterCancel(call) \in Do!Calls
    BY <2>1 DEF Do!AfterCancel, Do!Calls
  <2> QED
    BY <1>5, <2>1, <2>2 DEF SinkTyped
<1> QED
  BY <1>1, <1>2, <1>3, <1>4, <1>6, <1>7, <1>8 DEF SinksNext, Answer

\* The variables of the publisher and of its sinks keep their types; the HTTP
\* sink has a call of retry.Do in progress exactly while it is in Notify.
THEOREM SinksTypeCorrect == SinksSpec => []SinksTypeOK
<1>1. SinksInit => SinkTyped /\ Tried
  BY InitSinks DEF SinksInit, Tried
<1>2. IInv /\ SinkTyped /\ Tried /\ [SinksNext]_allVars => SinkTyped' /\ Tried'
  BY NextSinks, NextTried DEF IInv
<1>3. IInv /\ SinkTyped => SinksTypeOK
  BY DEF IInv, Typed, SinkTyped, SinksTypeOK, Busy, Written
<1> QED
  BY <1>1, <1>2, <1>3, Invariance, SinksArePublisher, PTL DEF SinksSpec

-----------------------------------------------------------------------------
\* The audit file.  The event in the file sink's Notify comes, in the order of
\* Publish, after everything the sink was called for, and is not among it.
Logged == LogIsTrue /\ failed \subseteq Notified

LEMMA NotifyIsLast ==
    ASSUME IInv, Busy(File)
    PROVE  /\ worker[File] \notin Notified
           /\ \A e \in Notified : Before(e, worker[File])
<1> DEFINE h == Held(File)
           n == Len(queued[File])
<1>1. /\ queued[File] \in Seq(Events) /\ queue[File] \in Seq(Events)
      /\ Placed(File)
  BY RemoteIsObserver DEF IInv, Typed, TypeOK, Ordered
<1>2. h \in 1..n /\ queued[File][h] = worker[File]
  <2>1. n \in Nat /\ Len(queue[File]) \in Nat /\ h \in Int
    BY <1>1 DEF Held
  <2>2. h <= n
    <3>1. h = n - Len(queue[File])
      BY DEF Held
    <3> HIDE DEF h, n
    <3> QED
      BY <2>1, <3>1
  <2> QED
    BY <1>1, <2>1, <2>2 DEF Placed, Worked
<1>3. \A i \in 1..n : outcome[File][queued[File][i]] # "none" <=> i < h
  BY <1>1 DEF Placed, Settled
<1>4. DOMAIN queued[File] = 1..n
  BY <1>1
<1> HIDE DEF h, n
<1>5. worker[File] \notin Notified
  BY <1>2, <1>3 DEF Notified
<1>6. ASSUME NEW e \in Notified PROVE Before(e, worker[File])
  <2>1. e \in Events /\ outcome[File][e] # "none"
    BY DEF Notified
  <2>2. PICK i \in 1..n : queued[File][i] = e
    BY <1>1, <2>1 DEF Placed, Settled, Known, n
  <2>3. i < h
    BY <1>3, <2>1, <2>2
  <2> QED
    BY <1>2, <1>4, <2>2, <2>3 DEF Before
<1> QED
  BY <1>5, <1>6

\* The order of Publish only grows.
LEMMA OrderGrows ==
    ASSUME Typed, NEW e, NEW f, Before(e, f),
           queued'[File] = queued[File] \/ \E x : queued'[File] = Append(queued[File], x)
    PROVE  Before(e, f)'
<1>1. queued[File] \in Seq(Events)
  BY RemoteIsObserver DEF Typed, TypeOK
<1>2. PICK i, j \in DOMAIN queued[File] : i < j /\ queued[File][i] = e /\ queued[File][j] = f
  BY DEF Before
<1>3. i \in DOMAIN queued'[File] /\ j \in DOMAIN queued'[File]
      /\ queued'[File][i] = queued[File][i] /\ queued'[File][j] = queued[File][j]
  <2>1. CASE queued'[File] = queued[File]
    BY <1>2, <2>1
  <2>2. ASSUME NEW x, queued'[File] = Append(queued[File], x)
        PROVE  /\ i \in DOMAIN queued'[File] /\ j \in DOMAIN queued'[File]
               /\ queued'[File][i] = queued[File][i] /\ queued'[File][j] = queued[File][j]
    BY <1>1, <1>2, <2>2
  <2> QED
    BY <2>1, <2>2
<1> QED
  BY <1>2, <1>3 DEF Before

\* Nothing happens to the file and its sink.
LEMMA LogStays ==
    ASSUME Typed, Logged, UNCHANGED <<log, failed>>, outcome'[File] = outcome[File],
           queued'[File] = queued[File] \/ \E x : queued'[File] = Append(queued[File], x)
    PROVE  Logged'
<1>1. Notified' = Notified /\ Whole' = Whole
  BY DEF Notified, Whole
<1>2. \A e, f : Before(e, f) => Before(e, f)'
  BY OrderGrows
<1> QED
  BY <1>1, <1>2 DEF Logged, LogIsTrue

\* The file sink returns from Notify.
LEMMA LogGrows ==
    ASSUME IInv, SinkTyped, Logged, FileRefuses \/ FileWrites
    PROVE  Logged'
<1> DEFINE n == Len(log)
<1>0. PICK e \in Events : e = worker[File]
  BY DEF FileRefuses, FileWrites
<1>1. Busy(File) /\ \E how : NotifyReturns(File, how)
  BY DEF FileRefuses, FileWrites, Busy
<1>2. queued' = queued /\ \E value \in {"cut", "returned"} : outcome'[File] = [outcome[File] EXCEPT ![e] = value]
  BY <1>0, <1>1, RemoteIsObserver DEF NotifyReturns, IInv, Typed, TypeOK
<1>3. outcome[File] \in [Events -> {"none", "returned", "cut"}]
  BY RemoteIsObserver DEF IInv, Typed, TypeOK
<1>4. Notified' = Notified \cup {e}
  BY <1>1, <1>2, <1>3 DEF Notified
<1>5. e \notin Notified /\ \A f \in Notified : Before(f, e)
  BY <1>0, <1>1, NotifyIsLast
<1>6. ASSUME NEW f, NEW g PROVE Before(f, g)' <=> Before(f, g)
  BY <1>2 DEF Before
<1>7. log \in Seq(Written) /\ DOMAIN log = 1..n /\ n \in Nat
  BY DEF SinkTyped
<1>12. \A i \in 1..n : log[i].event \in Notified
  BY <1>7 DEF Logged, LogIsTrue, Whole
<1>13. \A i, j \in 1..n : i < j => Before(log[i].event, log[j].event)
  BY <1>7 DEF Logged, LogIsTrue
<1> HIDE DEF n
<1>14. ASSUME NEW w \in BOOLEAN, log' = Append(log, [event |-> e, ended |-> w])
       PROVE  \A i, j \in DOMAIN log' : i < j => (Before(log[i].event, log[j].event))'
  <2>1. /\ DOMAIN log' = 1..(n + 1) /\ log'[n + 1].event = e
        /\ \A i \in 1..n : log'[i] = log[i]
    BY <1>7, <1>14 DEF n
  <2>2. ASSUME NEW i \in DOMAIN log', NEW j \in DOMAIN log', i < j
        PROVE  Before(log'[i].event, log'[j].event)
    <3>1. i \in 1..n
      BY <1>7, <2>1, <2>2
    <3>2. CASE j \in 1..n
      BY <1>13, <2>1, <2>2, <3>1, <3>2
    <3>3. CASE j = n + 1
      BY <1>5, <1>12, <2>1, <3>1, <3>3
    <3> QED
      BY <1>7, <2>1, <3>2, <3>3
  <2>3. \A i, j \in DOMAIN log' : i < j => Before(log'[i].event, log'[j].event)
    BY <2>2
  <2> QED
    BY <1>2, <2>3 DEF Before
<1>8. CASE failed' = failed \cup {e} /\ log' = log
  <2>1. Whole' = Whole
    BY <1>8 DEF Whole
  <2> QED
    BY <1>2, <1>4, <1>5, <1>6, <1>8, <2>1 DEF Logged, LogIsTrue, Before
<1>9. CASE failed' = failed \cup {e} /\ log' = Append(log, [event |-> e, ended |-> FALSE])
  <2>1. /\ DOMAIN log' = 1..(n + 1) /\ log'[n + 1] = [event |-> e, ended |-> FALSE]
        /\ \A i \in 1..n : log'[i] = log[i]
    BY <1>7, <1>9 DEF n
  <2>2. log'[n + 1].event = e /\ ~log'[n + 1].ended /\ \A i \in 1..(n + 1) : i \in 1..n \/ i = n + 1
    BY <1>7, <2>1
  <2>3. Whole' = Whole /\ Whole \subseteq 1..n
    BY <1>7, <2>1, <2>2 DEF Whole
  <2>4. \A i \in DOMAIN log' \ Whole : log'[i].event \in failed'
    BY <1>7, <1>9, <2>1, <2>2 DEF Whole, Logged, LogIsTrue
  <2>5. {log'[i].event : i \in Whole} = {log[i].event : i \in Whole}
    BY <2>1, <2>3
  <2>7. Notified' \ failed' = Notified \ failed /\ failed' \subseteq Notified'
    BY <1>4, <1>5, <1>9 DEF Logged
  <2>8. {log'[i].event : i \in Whole'} = Notified' \ failed'
    BY <2>3, <2>5, <2>7 DEF Logged, LogIsTrue
  <2>9. \A i, j \in DOMAIN log' : i < j => (Before(log[i].event, log[j].event))'
    BY <1>9, <1>14
  <2> QED
    BY <2>3, <2>4, <2>7, <2>8, <2>9 DEF Logged, LogIsTrue
<1>10. CASE failed' = failed /\ log' = Append(log, [event |-> e, ended |-> TRUE])
  <2>1. /\ DOMAIN log' = 1..(n + 1) /\ log'[n + 1] = [event |-> e, ended |-> TRUE]
        /\ \A i \in 1..n : log'[i] = log[i]
    BY <1>7, <1>10 DEF n
  <2>2. /\ log'[n + 1].event = e /\ log'[n + 1].ended /\ n + 1 \notin 1..n
        /\ \A i \in 1..(n + 1) : i \in 1..n \/ i = n + 1
        /\ \A i \in 1..n : ~(n + 1 < i)
    BY <1>7, <2>1
  <2>3. Whole' = Whole \cup {n + 1} /\ Whole \subseteq 1..n
    BY <1>7, <2>1, <2>2 DEF Whole
  <2>4. \A i \in DOMAIN log' \ Whole' : log'[i].event \in failed'
    BY <1>7, <1>10, <2>1, <2>2, <2>3 DEF Logged, LogIsTrue
  <2>5. {log'[i].event : i \in Whole'} = {log[i].event : i \in Whole} \cup {e}
    BY <2>1, <2>2, <2>3
  <2>7. Notified' \ failed' = (Notified \ failed) \cup {e}
    BY <1>4, <1>5, <1>10 DEF Logged
  <2>8. {log'[i].event : i \in Whole'} = Notified' \ failed'
    BY <2>5, <2>7 DEF Logged, LogIsTrue
  <2>10. \A i, j \in DOMAIN log' : i < j => (Before(log[i].event, log[j].event))'
    BY <1>10, <1>14
  <2>11. failed' \subseteq Notified'
    BY <1>4, <1>10 DEF Logged
  <2> QED
    BY <2>4, <2>8, <2>10, <2>11 DEF Logged, LogIsTrue
<1>11. \/ failed' = failed \cup {e} /\ log' = log
       \/ failed' = failed \cup {e} /\ log' = Append(log, [event |-> e, ended |-> FALSE])
       \/ failed' = failed /\ log' = Append(log, [event |-> e, ended |-> TRUE])
  <2>1. log \o <<>> = log
    BY <1>7
  <2>2. log \o <<[event |-> e, ended |-> FALSE]>> = Append(log, [event |-> e, ended |-> FALSE])
    BY <1>7 DEF Written
  <2> QED
    BY <1>0, <2>1, <2>2 DEF FileRefuses, FileWrites, FileFails, Parts, Text
<1> QED
  BY <1>8, <1>9, <1>10, <1>11

\* The audit file has the text of each accepted event once, in the order of Publish, and
\* besides it only beginnings of failed ones, whatever fails, hangs or is cancelled, for any
\* publishers, closers, observers and events (file_sink.go:31-52).
THEOREM LogTellsTheTruth == SinksSpec => []LogIsTrue
<1>1. SinksInit => SinkTyped /\ Tried /\ Logged
  <2> SUFFICES ASSUME SinksInit PROVE SinkTyped /\ Tried /\ Logged
    OBVIOUS
  <2>1. log = <<>> /\ failed = {} /\ DOMAIN log = {} /\ Whole = {}
    BY DEF SinksInit, Whole
  <2>2. Notified = {}
    BY RemoteIsObserver DEF SinksInit, Init, Notified
  <2> QED
    BY <2>1, <2>2, InitSinks DEF SinksInit, Tried, Logged, LogIsTrue
<1>2. ASSUME IInv, SinkTyped, Tried, Logged, [SinksNext]_allVars
      PROVE  SinkTyped' /\ Tried' /\ Logged'
  <2>1. Typed
    BY <1>2 DEF IInv
  <2>2. SinkTyped' /\ Tried'
    BY <1>2, <2>1, NextSinks, NextTried
  <2>3. CASE \/ \E h \in Handlers : Quietly(PublishStep(h) \/ Publish(h))
             \/ \E c \in Closers : Quietly(CloseStep(c) \/ Close(c))
             \/ \E o \in Observers : Quietly(WorkerExit(o))
             \/ UNCHANGED allVars
    <3>1. /\ outcome' = outcome /\ UNCHANGED sinkVars
          /\ queued'[File] = queued[File] \/ \E x : queued'[File] = Append(queued[File], x)
      BY <2>1, <2>3, QuietStep, RemoteIsObserver DEF Quietly, allVars
    <3> QED
      BY <1>2, <2>1, <2>2, <3>1, LogStays DEF sinkVars
  <2>4. CASE Quietly(Receive(File)) \/ Take
    <3>1. outcome' = outcome /\ queued' = queued /\ UNCHANGED <<log, failed>>
      BY <2>4 DEF Quietly, Take, Receive, sinkVars
    <3> QED
      BY <1>2, <2>1, <2>2, <3>1, LogStays
  <2>5. CASE FileRefuses \/ FileWrites
    BY <1>2, <2>2, <2>5, LogGrows
  <2>6. ASSUME NEW c \in Do!Calls, GoOn(c), call # NoCall, UNCHANGED <<log, failed>>
        PROVE  Logged'
    <3>1. Busy(Remote)
      BY <1>2, <2>6 DEF SinkTyped
    <3> QED
      BY <1>2, <2>1, <2>6, <3>1, RemoteGoesOn, LogStays
  <2>7. ASSUME NEW how, Answered(how) PROVE Logged'
    <3>1. Kind(how) \in Do!Outcomes
      BY DEF Kind, Retriable, Do!Outcomes
    <3>2. call # NoCall /\ call \in Do!Calls
      BY <1>2, <2>7 DEF Answered, In, SinkTyped
    <3> QED
      BY <2>6, <2>7, <3>1, <3>2, CallGoesOn DEF Answered
  <2>8. CASE Repeat
    <3>1. /\ call # NoCall /\ call \in Do!Calls /\ call.phase = "waiting" /\ call.attempts < 4
      BY <1>2, <2>8 DEF Repeat, In, Tried
    <3> QED
      BY <2>2, <2>6, <2>8, <3>1, CallGoesOn DEF Repeat
  <2>9. CASE CutWait
    <3>1. call # NoCall /\ call \in Do!Calls
      BY <1>2, <2>9 DEF CutWait, In, SinkTyped
    <3>2. Do!AfterCancel(call) \in Do!Calls
      BY <3>1 DEF Do!AfterCancel, Do!Calls
    <3> QED
      BY <2>2, <2>6, <2>9, <3>1, <3>2 DEF CutWait
  <2> QED
    BY <1>2, <2>2, <2>3, <2>4, <2>5, <2>7, <2>8, <2>9 DEF SinksNext, Answer
<1>3. IInv /\ SinkTyped /\ Tried /\ Logged /\ [SinksNext]_allVars => SinkTyped' /\ Tried' /\ Logged'
  BY <1>2
<1>4. Logged => LogIsTrue
  BY DEF Logged
<1> QED
  BY <1>1, <1>3, <1>4, Invariance, SinksArePublisher, PTL DEF SinksSpec

=============================================================================

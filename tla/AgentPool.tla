----------------------------- MODULE AgentPool -----------------------------
(***************************************************************************)
(* The agent's sending pool, internal/agent/pool.go: a buffered channel    *)
(* jobs, a channel done that is only ever closed, Workers goroutines that  *)
(* range over jobs, and callers of Submit and Shutdown.                    *)
(*                                                                         *)
(* A step is what one goroutine does between two points where the Go       *)
(* scheduler may let another run: one select, one channel operation, one   *)
(* close.  sender.Send is a call that comes back at some later step.       *)
(***************************************************************************)
EXTENDS Integers, Sequences, FiniteSets, SequencesExt

CONSTANTS Callers,   \* goroutines that call Submit and Shutdown
          Workers,   \* goroutines started by NewPool
          Batches,   \* the batches of metrics; each is accepted at most once
          QueueSize, \* capacity of jobs
          Idle, Exited  \* a worker waiting on jobs, a worker that has returned

ASSUME QueueSizeAssumption == QueueSize \in Nat \ {0}
ASSUME WorkersAssumption == /\ IsFiniteSet(Workers)
                            /\ Workers # {}
ASSUME TokensAssumption == /\ Idle \notin Batches
                           /\ Exited \notin Batches
                           /\ Idle # Exited

VARIABLES jobs,        \* the buffer of the channel jobs
          parked,      \* Submit calls blocked in their select, in order of arrival
          doneClosed,  \* close(p.done) has happened
          jobsClosed,  \* close(p.jobs) has happened, and once.Do has returned
          pc,          \* where each caller is
          arg,         \* the batch each caller submitted last
          result,      \* what each caller's last call returned
          worker,      \* Idle, Exited or the batch a worker is sending
          cancelled,   \* sendCtx is cancelled
          panicked,    \* a goroutine panicked: the process is gone
          \* The rest is history, for the properties.
          accepted,    \* batches Submit let in, in order
          started,     \* batches handed to sender.Send, in order
          outcome,     \* how Send on a batch ended: "none", "returned", "cut"
          expired      \* the context of some Shutdown call has ended it

chanVars == <<jobs, parked, doneClosed, jobsClosed>>
callVars == <<pc, arg, result>>
workVars == <<worker, cancelled, outcome>>
history  == <<accepted, started, expired>>
vars == <<chanVars, callVars, workVars, history, panicked>>

ChanTypeOK ==
    /\ jobs \in Seq(Batches) /\ Len(jobs) <= QueueSize
    /\ parked \in Seq(Callers)
    /\ doneClosed \in BOOLEAN /\ jobsClosed \in BOOLEAN

CallTypeOK ==
    /\ pc \in [Callers -> {"idle", "submitting", "parked", "once", "closing",
                           "waiting", "aborting"}]
    /\ arg \in [Callers -> Batches \cup {Idle}]
    /\ result \in [Callers -> {"none", "true", "false", "nil", "err"}]

WorkTypeOK ==
    /\ worker \in [Workers -> Batches \cup {Idle, Exited}]
    /\ cancelled \in BOOLEAN
    /\ outcome \in [Batches -> {"none", "returned", "cut"}]

HistoryTypeOK == /\ accepted \in Seq(Batches)
                 /\ started \in Seq(Batches)
                 /\ expired \in BOOLEAN

\* The values of the variables; in particular the channel never holds more
\* than it can.
TypeOK == ChanTypeOK /\ CallTypeOK /\ WorkTypeOK /\ HistoryTypeOK /\ panicked \in BOOLEAN

Init == /\ jobs = <<>> /\ parked = <<>>
        /\ doneClosed = FALSE /\ jobsClosed = FALSE
        /\ pc = [c \in Callers |-> "idle"]
        /\ arg = [c \in Callers |-> Idle]
        /\ result = [c \in Callers |-> "none"]
        /\ worker = [w \in Workers |-> Idle]
        /\ cancelled = FALSE /\ panicked = FALSE /\ expired = FALSE
        /\ accepted = <<>> /\ started = <<>>
        /\ outcome = [b \in Batches |-> "none"]

-----------------------------------------------------------------------------
\* A panic in any goroutine ends the process.
Alive == ~panicked

\* Submit.

\* What Submit answers when the pool is stopping.  (Definitions marked
\* "Mutant" change the one that follows them the way a bug would; no
\* specification uses them.)
RefusalAccepts == "true"  \* Mutant
Refusal == "false"

\* The first select of Submit finds done still open.
NotStopping == ~doneClosed

Return(c, value) == /\ pc' = [pc EXCEPT ![c] = "idle"]
                    /\ result' = [result EXCEPT ![c] = value]

Fresh(b) == \A c \in Callers : arg[c] # b

\* The first select: refuse if done is closed, otherwise go on.
SubmitCheck(c, b) ==
    /\ Alive
    /\ pc[c] = "idle"
    /\ Fresh(b) /\ b \notin ToSet(accepted)
    /\ arg' = [arg EXCEPT ![c] = b]
    /\ IF NotStopping
       THEN pc' = [pc EXCEPT ![c] = "submitting"] /\ UNCHANGED result
       ELSE Return(c, Refusal)
    /\ UNCHANGED <<chanVars, workVars, history, panicked>>

HasRoomForOneMore == Len(jobs) <= QueueSize  \* Mutant
HasRoom == Len(jobs) < QueueSize

\* The second select.  With several cases ready Go picks any of them:
\* a send into free room, a receive from the closed done, and a send on a
\* closed channel, which panics.
SubmitEnqueue(c) ==
    /\ Alive
    /\ pc[c] = "submitting"
    /\ ~jobsClosed /\ HasRoom
    /\ jobs' = Append(jobs, arg[c])
    /\ accepted' = Append(accepted, arg[c])
    /\ Return(c, "true")
    /\ UNCHANGED <<parked, doneClosed, jobsClosed, arg, workVars, started, expired, panicked>>

SubmitRefuse(c) ==
    /\ Alive
    /\ pc[c] = "submitting"
    /\ doneClosed
    /\ Return(c, Refusal)
    /\ UNCHANGED <<chanVars, arg, workVars, history, panicked>>

SubmitPanic(c) ==
    /\ Alive
    /\ pc[c] = "submitting"
    /\ jobsClosed
    /\ panicked' = TRUE
    /\ UNCHANGED <<chanVars, callVars, workVars, history>>

\* No case is ready: the call joins the senders of jobs and the receivers
\* of done, and sleeps.
SubmitPark(c) ==
    /\ Alive
    /\ pc[c] = "submitting"
    /\ ~doneClosed /\ ~HasRoom
    /\ parked' = Append(parked, c)
    /\ pc' = [pc EXCEPT ![c] = "parked"]
    /\ UNCHANGED <<jobs, doneClosed, jobsClosed, arg, result, workVars, history, panicked>>

-----------------------------------------------------------------------------
\* Shutdown.

\* once.Do: the first call runs the function, the others wait until it ends.
ShutdownCall(c) ==
    /\ Alive
    /\ pc[c] = "idle"
    /\ pc' = [pc EXCEPT ![c] = "once"]
    /\ UNCHANGED <<chanVars, arg, result, workVars, history, panicked>>

\* close(p.done) releases every parked Submit with the done case.
CloseDone(c) ==
    /\ Alive
    /\ pc[c] = "once"
    /\ ~doneClosed
    /\ doneClosed' = TRUE
    /\ parked' = <<>>
    /\ pc' = [d \in Callers |-> IF d = c THEN "closing"
                                ELSE IF pc[d] = "parked" THEN "idle" ELSE pc[d]]
    /\ result' = [d \in Callers |-> IF pc[d] = "parked" THEN Refusal ELSE result[d]]
    /\ UNCHANGED <<jobs, jobsClosed, arg, workVars, history, panicked>>

CloseJobs(c) ==
    /\ Alive
    /\ pc[c] = "closing"
    /\ jobsClosed' = TRUE
    /\ pc' = [pc EXCEPT ![c] = "waiting"]
    /\ UNCHANGED <<jobs, parked, doneClosed, arg, result, workVars, history, panicked>>

OnceAlreadyDone(c) ==
    /\ Alive
    /\ pc[c] = "once"
    /\ jobsClosed
    /\ pc' = [pc EXCEPT ![c] = "waiting"]
    /\ UNCHANGED <<chanVars, arg, result, workVars, history, panicked>>

\* wg.Wait() has returned: the channel drained is closed.
DrainedByOne == \E w \in Workers : worker[w] = Exited  \* Mutant
Drained == \A w \in Workers : worker[w] = Exited

ShutdownDrained(c) ==
    /\ Alive
    /\ pc[c] = "waiting"
    /\ Drained
    /\ cancelled' = TRUE
    /\ Return(c, "nil")
    /\ UNCHANGED <<chanVars, arg, worker, outcome, history, panicked>>

NoCancelOnExpiry == UNCHANGED cancelled  \* Mutant
CancelOnExpiry == cancelled' = TRUE

\* The caller's context is done first, at any moment after the call.
ShutdownExpired(c) ==
    /\ Alive
    /\ pc[c] = "waiting"
    /\ CancelOnExpiry
    /\ expired' = TRUE
    /\ pc' = [pc EXCEPT ![c] = "aborting"]
    /\ UNCHANGED <<chanVars, arg, result, worker, outcome, accepted, started, panicked>>

ShutdownAborted(c) ==
    /\ Alive
    /\ pc[c] = "aborting"
    /\ Drained
    /\ Return(c, "err")
    /\ UNCHANGED <<chanVars, arg, workVars, history, panicked>>

-----------------------------------------------------------------------------
\* The workers' loop, for metrics := range p.jobs { sender.Send(ctx, metrics) }.

\* A receive frees a place; the runtime gives it at once to the sender that
\* has been parked longest.
BufferWithoutHandOff == Tail(jobs)  \* Mutant
BufferAfterReceive == IF parked = <<>> THEN Tail(jobs)
                      ELSE Append(Tail(jobs), arg[Head(parked)])

Receive(w) ==
    /\ Alive
    /\ worker[w] = Idle
    /\ jobs # <<>>
    /\ worker' = [worker EXCEPT ![w] = Head(jobs)]
    /\ started' = Append(started, Head(jobs))
    /\ jobs' = BufferAfterReceive
    /\ IF parked = <<>>
       THEN UNCHANGED <<parked, pc, result, accepted>>
       ELSE /\ accepted' = Append(accepted, arg[Head(parked)])
            /\ parked' = Tail(parked)
            /\ Return(Head(parked), "true")
    /\ UNCHANGED <<doneClosed, jobsClosed, arg, cancelled, outcome, expired, panicked>>

WorkerExit(w) ==
    /\ Alive
    /\ worker[w] = Idle
    /\ jobsClosed /\ jobs = <<>>
    /\ worker' = [worker EXCEPT ![w] = Exited]
    /\ UNCHANGED <<chanVars, callVars, cancelled, outcome, history, panicked>>

\* The loop goes back to jobs whatever Send did.
AfterSendStops == Exited  \* Mutant
AfterSend == Idle

\* Send comes back: by itself, or because sendCtx is cancelled.
SendReturns(w, how) ==
    /\ Alive
    /\ worker[w] \in Batches
    /\ how = "cut" => cancelled
    /\ outcome' = [outcome EXCEPT ![worker[w]] = how]
    /\ worker' = [worker EXCEPT ![w] = AfterSend]
    /\ UNCHANGED <<chanVars, callVars, cancelled, history, panicked>>

-----------------------------------------------------------------------------
SubmitStep(c) == \/ SubmitEnqueue(c)
                 \/ SubmitRefuse(c)
                 \/ SubmitPanic(c)
                 \/ SubmitPark(c)

ShutdownStep(c) == \/ CloseDone(c)
                   \/ CloseJobs(c)
                   \/ OnceAlreadyDone(c)
                   \/ ShutdownDrained(c)
                   \/ ShutdownExpired(c)
                   \/ ShutdownAborted(c)

SendEnds(w) == \E how \in {"returned", "cut"} : SendReturns(w, how)

WorkerStep(w) == Receive(w) \/ WorkerExit(w) \/ SendEnds(w)

Next == \/ \E c \in Callers : \/ \E b \in Batches : SubmitCheck(c, b)
                              \/ ShutdownCall(c)
                              \/ SubmitStep(c)
                              \/ ShutdownStep(c)
        \/ \E w \in Workers : WorkerStep(w)

Spec == Init /\ [][Next]_vars

-----------------------------------------------------------------------------
\* Properties.

\* Submit never sends on the channel that Shutdown closes (pool.go:72-77
\* against pool.go:87).
NoPanic == ~panicked

\* Batches reach Send in the order in which Submit accepted them, and what
\* was accepted and not yet handed to a worker is exactly the content of the
\* channel: none is lost or repeated, whether it was buffered or handed over
\* by a blocked Submit.
Fifo == accepted = started \o jobs

\* pc is back to idle after a Submit that answered value.
Answered(c, value) == pc[c] = "idle" /\ result[c] = value

\* Submit's answer is the truth: true for a batch that was let in, false for
\* one that no worker will ever see (pool.go:63-65), also when Shutdown ran
\* in between.
AnswerIsTrue ==
    \A c \in Callers : /\ Answered(c, "true") => arg[c] \in ToSet(accepted)
                       /\ Answered(c, "false") => arg[c] \notin ToSet(accepted)

\* When Shutdown returns, with or without an error, no worker goroutine is
\* left, the queue is empty and Send has come back for every accepted batch
\* (pool.go:80-83, 100-105).
ShutdownComplete ==
    \A c \in Callers :
        result[c] \in {"nil", "err"} =>
            /\ Drained
            /\ jobs = <<>>
            /\ \A i \in 1..Len(accepted) : outcome[accepted[i]] # "none"

\* A send is cut short only after the context of a Shutdown call has ended:
\* neither the beginning of the shutdown nor its good end cuts one
\* (pool.go:35-37).
CutOnlyOnExpiry == \A b \in Batches : outcome[b] = "cut" => expired

\* The pool is an Outbox: accepted batches are what the channel holds, the
\* workers hold the batches being sent, and closing jobs closes the outbox.
Box == INSTANCE Outbox
           WITH Capacity <- Cardinality(Workers),
                queue <- jobs,
                inHand <- {worker[w] : w \in Workers} \cap Batches,
                finished <- {b \in Batches : outcome[b] # "none"},
                open <- ~jobsClosed,
                stopped <- Drained

\* Every step of the pool is a step of the Outbox or invisible to it, whoever
\* calls Submit and Shutdown and in whatever order (pool.go:16-23).
ImplementsOutbox == Box!Init /\ [][Box!Next]_(Box!vars)

=============================================================================

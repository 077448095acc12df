------------------------------- MODULE Agent -------------------------------
(***************************************************************************)
(* The agent process: the report loop of cmd/agent/main.go as the only     *)
(* caller of the pool, and in every worker the sender behind sender.Send,  *)
(* HTTP (internal/agent/sender.go) or gRPC (internal/agent/grpcsender.go), *)
(* which repeats failed requests through retry.Do.                         *)
(*                                                                         *)
(* The server is whatever may answer a request: it may apply one whose     *)
(* answer never arrives.                                                   *)
(***************************************************************************)
EXTENDS AgentPool

CONSTANTS Main,       \* the goroutine of main
          Transports, \* what cfg.Transport may be: "http", "grpc"
          Unsendable, \* batches the HTTP Send gives up on unsent (sender.go:77-112)
          MayApply,   \* may the server have applied a request that failed?
          NoCall      \* no call of retry.Do in progress

\* The batches are the agent's reports, numbered in the order of collection.
ASSUME ReportsAssumption == /\ IsFiniteSet(Batches) /\ Batches # {}
                            /\ Batches = 1..Cardinality(Batches)
ASSUME MayApplyAssumption == MayApply \in BOOLEAN
ASSUME MainAssumption == Callers = {Main}
ASSUME TransportsAssumption == Transports \subseteq {"http", "grpc"}
ASSUME UnsendableAssumption == Unsendable \subseteq Batches

VARIABLES transport, \* which sender the configuration chose
          at,        \* where main is: "loop", "final", "stopping", "stopped"
          signalled, \* the signal context is done
          call,      \* the call of retry.Do each worker is in
          \* history
          posts,     \* requests made for each batch
          applied,   \* the batches the server applied, once or more
          said       \* what Do returned for each batch

Do == INSTANCE Retry

ASSUME CallAssumption == NoCall \notin Do!Calls

agentVars == <<transport, at, signalled, call, posts, applied, said>>
allVars == <<vars, agentVars>>

AgentInit == /\ Init
             /\ transport \in Transports
             /\ at = "loop"
             /\ signalled = FALSE
             /\ call = [w \in Workers |-> NoCall]
             /\ posts = [b \in Batches |-> 0]
             /\ applied = {}
             /\ said = [b \in Batches |-> "none"]

-----------------------------------------------------------------------------
\* main.

Signal == /\ ~signalled
          /\ signalled' = TRUE
          /\ UNCHANGED <<vars, transport, at, call, posts, applied, said>>

Collected == {b \in Batches : b \in ToSet(accepted) \/ ~Fresh(b)}
Report == Cardinality(Collected) + 1

\* collector.Metrics() and the call of Submit.  Batches bounds the reports:
\* the last one is left for the end.
Tick == /\ at = "loop"
        /\ Report + 1 \in Batches
        /\ SubmitCheck(Main, Report)
        /\ UNCHANGED agentVars

FinalReport == /\ at = "loop" /\ signalled
               /\ SubmitCheck(Main, Report)
               /\ at' = "final"
               /\ UNCHANGED <<transport, signalled, call, posts, applied, said>>

\* The context with the shutdown timeout is made here, after the final
\* Submit has returned.
StartShutdown == /\ at = "final"
                 /\ ShutdownCall(Main)
                 /\ at' = "stopping"
                 /\ UNCHANGED <<transport, signalled, call, posts, applied, said>>

Stop == /\ at = "stopping"
        /\ pc[Main] = "idle"
        /\ at' = "stopped"
        /\ UNCHANGED <<vars, transport, signalled, call, posts, applied, said>>

MainInPool == /\ SubmitStep(Main) \/ ShutdownStep(Main)
              /\ UNCHANGED agentVars

-----------------------------------------------------------------------------
\* A worker.

GaveUp == [Do!Begin EXCEPT !.phase = "returned", !.err = "fatal"]

\* Send begins: the HTTP sender first encodes the batch.
Take(w) == /\ Receive(w)
           /\ LET b == Head(jobs) IN
                IF transport = "http" /\ b \in Unsendable
                THEN /\ call' = [call EXCEPT ![w] = GaveUp]
                     /\ UNCHANGED posts
                ELSE /\ call' = [call EXCEPT ![w] = Do!Begin]
                     /\ posts' = [posts EXCEPT ![b] = @ + 1]
           /\ UNCHANGED <<transport, at, signalled, applied, said>>

\* The call of Do goes on as c; when it returns, so does Send, which only
\* logs the error.
GoOn(w, c) ==
    IF c.phase = "returned"
    THEN /\ SendReturns(w, IF cancelled /\ c.err # "ok" THEN "cut" ELSE "returned")
         /\ call' = [call EXCEPT ![w] = NoCall]
         /\ said' = [said EXCEPT ![worker[w]] = c.err]
    ELSE /\ call' = [call EXCEPT ![w] = c]
         /\ UNCHANGED <<vars, said>>

In(w, phase) == call[w] # NoCall /\ call[w].phase = phase

\* isRetriableHTTPError accepts the *url.Error of a cancelled request,
\* isRetriableGRPCError does not accept codes.Canceled.
CancelledRequest == IF transport = "http" THEN "retriable" ELSE "fatal"

\* A request comes back: answered, failed, or (HTTP) after client.Timeout.
\* The server has applied a request that was answered with success, and may
\* have applied any other.
Answer(w) ==
    /\ In(w, "calling")
    /\ \E answer \in Do!Outcomes :
        /\ GoOn(w, Do!AfterAttempt(call[w], answer))
        /\ \/ applied' = applied \cup {worker[w]} /\ (answer = "ok" \/ MayApply)
           \/ UNCHANGED applied /\ answer # "ok"
    /\ UNCHANGED <<transport, at, signalled, posts>>

\* A request comes back because sendCtx was cancelled under it.
CutRequest(w) ==
    /\ In(w, "calling")
    /\ cancelled
    /\ GoOn(w, Do!AfterAttempt(call[w], CancelledRequest))
    /\ \/ applied' = applied \cup {worker[w]} /\ MayApply
       \/ UNCHANGED applied
    /\ UNCHANGED <<transport, at, signalled, posts>>

\* retry.Do waits: the timer, or the context.
Repeat(w) == /\ In(w, "waiting")
             /\ GoOn(w, Do!AfterDelay(call[w]))
             /\ posts' = [posts EXCEPT ![worker[w]] = @ + 1]
             /\ UNCHANGED <<transport, at, signalled, applied>>

CutWait(w) == /\ In(w, "waiting")
              /\ cancelled
              /\ GoOn(w, Do!AfterCancel(call[w]))
              /\ UNCHANGED <<transport, at, signalled, posts, applied>>

GiveUp(w) == /\ In(w, "returned")
             /\ GoOn(w, call[w])
             /\ UNCHANGED <<transport, at, signalled, posts, applied>>

LeavePool(w) == /\ WorkerExit(w)
                /\ UNCHANGED agentVars

-----------------------------------------------------------------------------
AgentNext == \/ Signal \/ Tick \/ FinalReport \/ StartShutdown \/ Stop \/ MainInPool
             \/ \E w \in Workers : \/ Take(w) \/ Answer(w) \/ CutRequest(w) \/ Repeat(w)
                                   \/ CutWait(w) \/ GiveUp(w) \/ LeavePool(w)
             \/ at = "stopped" /\ UNCHANGED allVars

AgentSafeSpec == AgentInit /\ [][AgentNext]_allVars

\* main runs; its select takes the signal sooner or later although the
\* ticker may be ready too (Go chooses among ready cases at random); the
\* workers run, timers fire, and a cancelled request comes back.
AgentFairness ==
    /\ SF_allVars(FinalReport)
    /\ WF_allVars(StartShutdown) /\ WF_allVars(Stop) /\ WF_allVars(MainInPool)
    /\ \A w \in Workers : WF_allVars(Take(w) \/ Repeat(w) \/ CutWait(w) \/ CutRequest(w)
                                     \/ GiveUp(w) \/ LeavePool(w))

\* http.Client.Timeout ends every HTTP request (sender.go:65-67); nothing
\* bounds a gRPC call (grpcsender.go:51-54).
AgentSpec == /\ AgentSafeSpec
             /\ AgentFairness
             /\ \A w \in Workers : WF_allVars(transport = "http" /\ Answer(w))

-----------------------------------------------------------------------------
\* Properties.

\* When the process ends in good order nothing it collected was dropped in
\* silence, the final report included, which main submits before it starts the
\* shutdown: the pool refused no batch, and each was taken by the server, or
\* rejected or not encodable, or failed on every attempt allowed, unless the
\* shutdown timed out (main.go:158-171, pool.go:80-83, retry.go:16-17).
NoSilentLoss ==
    at = "stopped" =>
        \A b \in Collected :
            /\ b \in ToSet(accepted)
            /\ \/ said[b] \in {"ok", "fatal"}
               \/ posts[b] = Do!MaxAttempts
               \/ expired

\* Send does not report success of a batch the server did not apply, and
\* repeats a batch only while it has not been acknowledged, three times at
\* most (retry.go:16): the server never sees a batch more than four times.
Acknowledged ==
    \A b \in Batches : /\ said[b] = "ok" => b \in applied
                       /\ posts[b] <= 4

\* Once main waits in Shutdown the timeout bounds the rest, whatever the
\* transport and the server do (main.go:165-170).
ShutdownIsBounded == (at = "stopping") ~> (at = "stopped")

\* A signal stops the agent, whatever the server does (config/agent.go:24,
\* main.go:157-174).
StopsAfterSignal == signalled ~> (at = "stopped")

\* It does when the batches go over HTTP: the final Submit, which main makes
\* before it starts the clock of the shutdown, may find the queue full and
\* wait, but every request that fills it comes back in the end (sender.go:65-67).
HttpStopsAfterSignal == (signalled /\ transport = "http") ~> (at = "stopped")

\* Over HTTP the pool keeps the promises of the Outbox: every accepted batch is
\* taken and finished, although the server may fail each request or let it time
\* out, and the workers leave when the shutdown has closed the queue.
HttpDelivers == transport = "http" => Box!Fairness

=============================================================================

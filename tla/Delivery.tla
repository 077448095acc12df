------------------------------ MODULE Delivery ------------------------------
(***************************************************************************)
(* The agent with what it reports (internal/agent/collector.go) and with   *)
(* the server that receives it: which values the server shows when answers *)
(* are lost, requests are repeated, and abandoned ones arrive late.        *)
(*                                                                         *)
(* A report is one snapshot of the collector.  It stands for the number of *)
(* polls at that moment, which is the value of PollCount in it and tells   *)
(* its runtime gauges from those of other moments.  The server applies a   *)
(* request in one step, as UpdateBatch of the memory does.                 *)
(***************************************************************************)
EXTENDS Agent

CONSTANTS MaxPolls,  \* bound: calls of Collect
          MaxStrays  \* bound: requests that have been given up and are still on their way

ASSUME BoundsAssumption == MaxPolls \in Nat /\ MaxStrays \in Nat

VARIABLES polls,   \* c.pollCount, and with it the runtime metrics
          report,  \* the snapshot in each batch
          served,  \* the server has applied the request each worker waits for
          pending, \* requests of each batch that were given up and may still arrive
          gauge,   \* the runtime gauges at the server, by the poll they come from
          count,   \* PollCount at the server
          \* history
          strayed,   \* a request was given up before it arrived
          overlapped \* two workers were sending at once

serverVars == <<pending, gauge, count, strayed>>
reportVars == <<polls, report>>
deliveryVars == <<reportVars, served, serverVars, overlapped>>

DeliveryInit == /\ AgentInit
                /\ polls = 0
                /\ report = [b \in Batches |-> 0]
                /\ served = [w \in Workers |-> FALSE]
                /\ pending = [b \in Batches |-> 0]
                /\ gauge = 0 /\ count = 0
                /\ strayed = FALSE /\ overlapped = FALSE

-----------------------------------------------------------------------------
\* The collector, in goroutines of its own.

\* The ticker's case may win against ctx.Done(), until main returns.
Collect == /\ polls < MaxPolls /\ at # "stopped"
           /\ polls' = polls + 1
           /\ UNCHANGED <<allVars, report, served, serverVars, overlapped>>

\* (Definitions marked "Mutant" change the one that follows them the way a
\* bug would; no specification uses them.)
FirstAtTheEnd == IF signalled /\ polls > 1 THEN 1 ELSE polls  \* Mutant
\* Metrics.
Snapshot == polls

\* Metrics is evaluated before the call of Submit.
ReportMetrics == /\ Tick \/ FinalReport
                 /\ report' = [report EXCEPT ![Report] = Snapshot]
                 /\ UNCHANGED <<polls, served, serverVars, overlapped>>

-----------------------------------------------------------------------------
\* The server.

\* A report from before the first poll has no runtime metrics, and adds 0.
GaugeAfter(b) == IF report[b] = 0 THEN gauge ELSE report[b]

CountAfter(b) == count + report[b]

Apply(b) == gauge' = GaugeAfter(b) /\ count' = CountAfter(b)

Serve(w) == /\ In(w, "calling")
            /\ ~served[w]
            /\ Apply(worker[w])
            /\ served' = [served EXCEPT ![w] = TRUE]
            /\ UNCHANGED <<allVars, reportVars, pending, strayed, overlapped>>

\* A request that its sender has given up reaches the server.
ServeLate(b) == /\ pending[b] > 0
                /\ Apply(b)
                /\ pending' = [pending EXCEPT ![b] = @ - 1]
                /\ UNCHANGED <<allVars, reportVars, served, strayed, overlapped>>

-----------------------------------------------------------------------------
\* The workers.

Send(w) == /\ Take(w)
           /\ overlapped' = (overlapped \/ \E v \in Workers : worker[v] \in Batches)
           /\ UNCHANGED <<reportVars, served, serverVars>>

AnswersEarly(w) == TRUE  \* Mutant
\* The server answers with success what it has applied.
MayAnswer(w) == served[w]

\* An HTTP request that was rejected for good was not applied.
Rejected(b) == transport = "http" /\ said'[b] = "fatal"

\* The request comes back; one that the server has not seen may be on its way.
ComeBack(w) ==
    LET b == worker[w] IN
    /\ Answer(w) \/ CutRequest(w)
    /\ said'[b] = "ok" => MayAnswer(w)
    /\ Rejected(b) => ~served[w]
    /\ \/ UNCHANGED <<pending, strayed>>
       \/ /\ ~served[w] /\ said'[b] # "ok" /\ ~Rejected(b)
          /\ MapThenSumSet(LAMBDA x : pending[x], Batches) < MaxStrays
          /\ pending' = [pending EXCEPT ![b] = @ + 1]
          /\ strayed' = TRUE
    /\ b \in applied' <=> (b \in applied \/ said'[b] = "ok" \/ served[w] \/ pending' # pending)
    /\ served' = [served EXCEPT ![w] = FALSE]
    /\ UNCHANGED <<reportVars, gauge, count, overlapped>>

Others == /\ \/ Signal \/ StartShutdown \/ Stop \/ MainInPool
             \/ \E w \in Workers : Repeat(w) \/ CutWait(w) \/ GiveUp(w) \/ LeavePool(w)
             \/ at = "stopped" /\ UNCHANGED allVars
          /\ UNCHANGED deliveryVars

DeliveryNext == \/ Collect \/ ReportMetrics \/ Others
                \/ \E w \in Workers : Serve(w) \/ Send(w) \/ ComeBack(w)
                \/ \E b \in Batches : ServeLate(b)

DeliverySpec == DeliveryInit /\ [][DeliveryNext]_<<allVars, deliveryVars>>

-----------------------------------------------------------------------------
\* Properties.

\* The server never goes back to an older snapshot, however often answers are
\* lost and requests repeated, as long as two workers never send at once
\* (RATE_LIMIT 1, the default) and no request arrives after its sender has
\* given it up (pool.go:45-60, sender.go:116-140).
GaugesForward == [][~strayed' /\ ~overlapped' => gauge' >= gauge]_<<allVars, deliveryVars>>

Sum(times) == MapThenSumSet(LAMBDA b : times[b] * report[b], Batches)

\* PollCount at the server holds the total of every acknowledged report, and
\* each report at most as often as it was posted.  The total is never reset in
\* the collector: the server adds up totals, not polls (collector.go:122-123,
\* retry.go:16).
CountBounds ==
    /\ Sum([b \in Batches |-> IF said[b] = "ok" THEN 1 ELSE 0]) <= count
    /\ count <= Sum(posts)

=============================================================================

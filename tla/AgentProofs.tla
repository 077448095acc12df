---------------------------- MODULE AgentProofs ----------------------------
(***************************************************************************)
(* Safety of the agent: of the pool (AgentPool) for any callers, workers   *)
(* and batches and any queue size, and that it implements the Outbox; of   *)
(* the process that uses it (Agent), over either transport; of what the    *)
(* server holds afterwards (Delivery).  Each part is used in the next.     *)
(***************************************************************************)
EXTENDS Delivery, RecursionTheorems

-----------------------------------------------------------------------------
(***************************************************************************)
(* The pool.                                                               *)
(***************************************************************************)

\* Facts about sequences used below.

LEMMA AppendElements ==
    ASSUME NEW S, NEW s \in Seq(S), NEW x \in S
    PROVE  /\ Append(s, x) \in Seq(S)
           /\ ToSet(Append(s, x)) = ToSet(s) \cup {x}
<1>1. Append(s, x) \in Seq(S) /\ Len(Append(s, x)) = Len(s) + 1
  OBVIOUS
<1>2. \A i \in 1..Len(s) : Append(s, x)[i] = s[i]
  OBVIOUS
<1>3. Append(s, x)[Len(s) + 1] = x
  OBVIOUS
<1>4. DOMAIN Append(s, x) = DOMAIN s \cup {Len(s) + 1}
  OBVIOUS
<1>5. DOMAIN s = 1..Len(s)
  OBVIOUS
<1> QED
  BY <1>1, <1>2, <1>3, <1>4, <1>5 DEF ToSet

LEMMA ShiftHead ==
    ASSUME NEW S, NEW s \in Seq(S), NEW q \in Seq(S), q # <<>>
    PROVE  s \o q = Append(s, Head(q)) \o Tail(q)
<1>1. /\ Head(q) \in S /\ Tail(q) \in Seq(S) /\ Len(Tail(q)) = Len(q) - 1
      /\ Len(q) \in Nat \ {0}
  OBVIOUS
<1>2. Len(s \o q) = Len(Append(s, Head(q)) \o Tail(q))
  BY <1>1
<1>3. ASSUME NEW i \in 1..Len(s \o q)
      PROVE  (s \o q)[i] = (Append(s, Head(q)) \o Tail(q))[i]
  <2>1. CASE i <= Len(s)
    BY <2>1, <1>1
  <2>2. CASE i = Len(s) + 1
    BY <2>2, <1>1
  <2>3. CASE i > Len(s) + 1
    BY <2>3, <1>1
  <2> QED
    BY <2>1, <2>2, <2>3
<1> QED
  BY <1>1, <1>2, <1>3

LEMMA AppendConcat ==
    \A s, q \in Seq(Batches), x \in Batches : Append(s \o q, x) = s \o Append(q, x)
  OBVIOUS

LEMMA EmptySequence ==
    ASSUME NEW S
    PROVE  <<>> \in Seq(S) /\ Len(<<>>) = 0
  OBVIOUS

LEMMA TailElements ==
    ASSUME NEW S, NEW q \in Seq(S), q # <<>>
    PROVE  /\ Tail(q) \in Seq(S) /\ Head(q) \in S
           /\ Len(Tail(q)) = Len(q) - 1 /\ Len(q) >= 1
           /\ \A i \in 1..Len(Tail(q)) : Tail(q)[i] = q[i + 1]
           /\ Head(q) = q[1]
  OBVIOUS

-----------------------------------------------------------------------------
(***************************************************************************)
(* The inductive invariant: the types and Fifo, together with              *)
(*   - Closing: the order of the two closes, and that nobody stays parked  *)
(*     once done is closed;                                                *)
(*   - Waiters: the queue of parked calls holds each of them once;         *)
(*   - Exits: a worker leaves only an empty, closed channel, which nobody  *)
(*     can fill again;                                                     *)
(*   - Sends: a started batch is being sent or its Send has come back, and *)
(*     the context is cancelled only by an expiry or after the last exit;  *)
(*   - Answers: the batch of a call in progress is nobody else's and is    *)
(*     not accepted yet, an answered one is accepted or not as answered.   *)
(***************************************************************************)
Closing == /\ jobsClosed => doneClosed
           /\ \A c \in Callers : pc[c] = "closing" => doneClosed
           /\ doneClosed => parked = <<>>

Waiters == /\ \A i \in 1..Len(parked) : pc[parked[i]] = "parked"
           /\ \A i, j \in 1..Len(parked) : parked[i] = parked[j] => i = j

Exits == (\E w \in Workers : worker[w] = Exited) => jobsClosed /\ jobs = <<>>

Sends == /\ \A b \in ToSet(started) : outcome[b] # "none" \/ \E w \in Workers : worker[w] = b
         /\ cancelled => expired \/ Drained
         /\ CutOnlyOnExpiry

Returns == \A c \in Callers : result[c] \in {"nil", "err"} => Drained

Answers ==
    /\ AnswerIsTrue
    /\ \A c \in Callers : pc[c] \in {"submitting", "parked"} =>
           arg[c] \in Batches /\ arg[c] \notin ToSet(accepted)
    /\ \A c, d \in Callers : arg[c] = arg[d] /\ arg[c] \in Batches => c = d
    /\ \A c \in Callers : Answered(c, "true") \/ Answered(c, "false") => arg[c] \in Batches

IInv == TypeOK /\ Fifo /\ Closing /\ Waiters /\ Exits /\ Sends /\ Returns /\ Answers

LEMMA InitIInv == Init => IInv
<1> SUFFICES ASSUME Init PROVE IInv
  OBVIOUS
<1> USE DEF Init
<1>1. ChanTypeOK
  <2>1. <<>> \in Seq(Batches) /\ <<>> \in Seq(Callers) /\ Len(<<>>) <= QueueSize
    BY QueueSizeAssumption, EmptySequence
  <2>2. jobs = <<>> /\ parked = <<>> /\ doneClosed = FALSE /\ jobsClosed = FALSE
    OBVIOUS
  <2> QED
    BY <2>1, <2>2, Zenon DEF ChanTypeOK
<1>2. CallTypeOK
  BY DEF CallTypeOK
<1>3. WorkTypeOK
  BY DEF WorkTypeOK
<1>4. HistoryTypeOK
  BY EmptySequence DEF HistoryTypeOK
<1>5. Fifo /\ Closing /\ Waiters
  BY DEF Fifo, Closing, Waiters
<1>6. Exits /\ Returns
  BY TokensAssumption DEF Exits, Returns
<1>7. Sends
  BY DEF Sends, CutOnlyOnExpiry, ToSet
<1>8. Answers
  BY TokensAssumption DEF Answers, AnswerIsTrue, Answered
<1> QED
  BY <1>1, <1>2, <1>3, <1>4, <1>5, <1>6, <1>7, <1>8 DEF IInv, TypeOK

\* The types, action by action.
LEMMA NextTypeOK == IInv /\ [Next]_vars => TypeOK'
<1> SUFFICES ASSUME IInv, [Next]_vars PROVE TypeOK'
  OBVIOUS
<1> USE DEF TypeOK, chanVars, callVars, workVars, history, Return
<1>a. ChanTypeOK /\ CallTypeOK /\ WorkTypeOK /\ HistoryTypeOK /\ panicked \in BOOLEAN
  BY DEF IInv
<1>b. \A c \in Callers : pc[c] \in {"submitting", "parked"} => arg[c] \in Batches
  BY DEF IInv, Answers
<1>1. ASSUME NEW c \in Callers, NEW b \in Batches, SubmitCheck(c, b) PROVE TypeOK'
  <2>1. CallTypeOK'
    BY <1>1, <1>a DEF SubmitCheck, Refusal, CallTypeOK
  <2> QED
    BY <1>1, <1>a, <2>1 DEF SubmitCheck, ChanTypeOK, WorkTypeOK, HistoryTypeOK
<1>2. ASSUME NEW c \in Callers, SubmitEnqueue(c) PROVE TypeOK'
  <2>1. ChanTypeOK'
    BY <1>2, <1>a, <1>b, QueueSizeAssumption DEF SubmitEnqueue, HasRoom, ChanTypeOK, CallTypeOK
  <2>2. CallTypeOK'
    BY <1>2, <1>a DEF SubmitEnqueue, HasRoom, CallTypeOK
  <2>3. HistoryTypeOK'
    BY <1>2, <1>a, <1>b DEF SubmitEnqueue, HasRoom, HistoryTypeOK
  <2> QED
    BY <1>2, <1>a, <2>1, <2>2, <2>3 DEF SubmitEnqueue, HasRoom, WorkTypeOK
<1>3. ASSUME NEW c \in Callers, SubmitRefuse(c) \/ SubmitPanic(c) PROVE TypeOK'
  <2>1. CallTypeOK'
    BY <1>3, <1>a DEF SubmitRefuse, SubmitPanic, Refusal, CallTypeOK
  <2> QED
    BY <1>3, <1>a, <2>1 DEF SubmitRefuse, SubmitPanic, ChanTypeOK, WorkTypeOK, HistoryTypeOK
<1>4. ASSUME NEW c \in Callers, SubmitPark(c) PROVE TypeOK'
  BY <1>4, <1>a DEF SubmitPark, HasRoom, ChanTypeOK, CallTypeOK, WorkTypeOK, HistoryTypeOK
<1>5. ASSUME NEW c \in Callers,
             ShutdownCall(c) \/ CloseJobs(c) \/ OnceAlreadyDone(c)
      PROVE  TypeOK'
  BY <1>5, <1>a
     DEF ShutdownCall, CloseJobs, OnceAlreadyDone, ChanTypeOK, CallTypeOK, WorkTypeOK, HistoryTypeOK
<1>6. ASSUME NEW c \in Callers, CloseDone(c) PROVE TypeOK'
  <2>1. CallTypeOK'
    BY <1>6, <1>a DEF CloseDone, Refusal, CallTypeOK
  <2> QED
    BY <1>6, <1>a, <2>1 DEF CloseDone, ChanTypeOK, WorkTypeOK, HistoryTypeOK
<1>7. ASSUME NEW c \in Callers,
             ShutdownDrained(c) \/ ShutdownExpired(c) \/ ShutdownAborted(c)
      PROVE  TypeOK'
  <2>1. CallTypeOK'
    BY <1>7, <1>a DEF ShutdownDrained, ShutdownExpired, ShutdownAborted, CallTypeOK
  <2> QED
    BY <1>7, <1>a, <2>1
       DEF ShutdownDrained, ShutdownExpired, ShutdownAborted, CancelOnExpiry,
           ChanTypeOK, WorkTypeOK, HistoryTypeOK
<1>8. ASSUME NEW w \in Workers, Receive(w) PROVE TypeOK'
  <2>1. /\ Head(jobs) \in Batches /\ Tail(jobs) \in Seq(Batches)
        /\ Len(Tail(jobs)) = Len(jobs) - 1
    BY <1>8, <1>a, TailElements DEF Receive, ChanTypeOK
  <2>2. WorkTypeOK' /\ started' \in Seq(Batches) /\ expired' \in BOOLEAN /\ panicked' \in BOOLEAN
    BY <1>8, <1>a, <2>1 DEF Receive, WorkTypeOK, HistoryTypeOK
  <2>3. CASE parked = <<>>
    BY <1>8, <1>a, <2>1, <2>2, <2>3, QueueSizeAssumption
       DEF Receive, BufferAfterReceive, ChanTypeOK, CallTypeOK, HistoryTypeOK
  <2>4. CASE parked # <<>>
    <3>a. parked' = Tail(parked) /\ accepted' = Append(accepted, arg[Head(parked)])
      BY <1>8, <2>4 DEF Receive
    <3>b. /\ Head(parked) \in Callers /\ Tail(parked) \in Seq(Callers)
          /\ Head(parked) = parked[1] /\ Len(parked) >= 1 /\ Len(parked) \in Nat
      BY <1>a, <2>4, TailElements DEF ChanTypeOK
    <3>c. pc[parked[1]] = "parked"
      BY <3>b DEF IInv, Waiters
    <3>1. Head(parked) \in Callers /\ parked' \in Seq(Callers) /\ arg[Head(parked)] \in Batches
      BY <1>b, <3>a, <3>b, <3>c
    <3>2. ChanTypeOK'
      BY <1>8, <1>a, <2>1, <2>4, <3>1, QueueSizeAssumption DEF Receive, BufferAfterReceive, ChanTypeOK
    <3>3. CallTypeOK'
      BY <1>8, <1>a, <2>4, <3>1 DEF Receive, CallTypeOK
    <3>4. accepted' \in Seq(Batches)
      BY <1>a, <3>1, <3>a, AppendElements DEF HistoryTypeOK
    <3> QED
      BY <2>2, <3>2, <3>3, <3>4 DEF HistoryTypeOK
  <2> QED
    BY <2>3, <2>4
<1>9. ASSUME NEW w \in Workers, WorkerExit(w) \/ SendEnds(w) PROVE TypeOK'
  BY <1>9, <1>a
     DEF WorkerExit, SendEnds, SendReturns, AfterSend, ChanTypeOK, CallTypeOK, WorkTypeOK, HistoryTypeOK
<1>10. CASE UNCHANGED vars
  BY <1>10, <1>a DEF vars, ChanTypeOK, CallTypeOK, WorkTypeOK, HistoryTypeOK
<1> QED
  BY <1>1, <1>2, <1>3, <1>4, <1>5, <1>6, <1>7, <1>8, <1>9, <1>10
     DEF Next, SubmitStep, ShutdownStep, WorkerStep

\* The conjuncts of IInv other than the types, action by action.
LEMMA NextIInv == IInv /\ [Next]_vars => IInv'
<1> SUFFICES ASSUME IInv, [Next]_vars PROVE IInv'
  OBVIOUS
<1> USE DEF chanVars, callVars, workVars, history, Return
<1>t. TypeOK'
  BY NextTypeOK
<1>a. ChanTypeOK /\ CallTypeOK /\ WorkTypeOK /\ HistoryTypeOK
  BY DEF IInv, TypeOK
<1>i. Fifo /\ Closing /\ Waiters /\ Exits /\ Sends /\ Returns /\ Answers
  BY DEF IInv
<1>f. accepted = started \o jobs
  BY Zenon DEF IInv, Fifo
<1>g. UNCHANGED <<accepted, started, jobs>> => Fifo'
  BY <1>f, Zenon DEF Fifo
<1>s. UNCHANGED <<started, outcome, worker, cancelled, expired>> => Sends'
  BY <1>i DEF Sends, CutOnlyOnExpiry, Drained
<1> DEFINE Rest == Fifo /\ Closing /\ Waiters /\ Exits /\ Sends /\ Returns /\ Answers
<1>1. ASSUME NEW c \in Callers, NEW b \in Batches, SubmitCheck(c, b) PROVE Rest'
  <2>1. Fifo' /\ Closing' /\ Exits' /\ Sends' /\ Returns'
    BY <1>1, <1>a, <1>i
       DEF SubmitCheck, NotStopping, Refusal, CallTypeOK, Fifo, Closing, Exits, Sends, CutOnlyOnExpiry,
           Returns, Drained
  <2>2. Waiters'
    BY <1>1, <1>a, <1>i DEF SubmitCheck, ChanTypeOK, CallTypeOK, Waiters
  <2>3. Answers'
    BY <1>1, <1>a, <1>i, TokensAssumption
       DEF SubmitCheck, Fresh, Refusal, CallTypeOK, Answers, AnswerIsTrue, Answered
  <2> QED
    BY <2>1, <2>2, <2>3
<1>2. ASSUME NEW c \in Callers, SubmitEnqueue(c) PROVE Rest'
  <2>1. /\ arg[c] \in Batches /\ arg[c] \notin ToSet(accepted)
        /\ jobs' = Append(jobs, arg[c]) /\ accepted' = Append(accepted, arg[c])
        /\ jobs \in Seq(Batches) /\ accepted \in Seq(Batches) /\ started \in Seq(Batches)
    BY <1>2, <1>a, <1>i DEF SubmitEnqueue, HasRoom, Answers, ChanTypeOK, HistoryTypeOK
  <2>2. ToSet(accepted') = ToSet(accepted) \cup {arg[c]}
    BY <2>1, AppendElements
  <2>3. Fifo'
    <3>1. accepted = started \o jobs /\ started' = started
      BY <1>2, <1>f DEF SubmitEnqueue, HasRoom
    <3>2. Append(started \o jobs, arg[c]) = started \o Append(jobs, arg[c])
      BY <2>1, AppendConcat, Zenon
    <3> QED
      BY <2>1, <3>1, <3>2 DEF Fifo
  <2>4. Closing' /\ Exits' /\ Returns' /\ Sends'
    BY <1>2, <1>a, <1>i
       DEF SubmitEnqueue, HasRoom, CallTypeOK, Closing, Exits, Returns, Drained, Sends, CutOnlyOnExpiry
  <2>5. Waiters'
    BY <1>2, <1>a, <1>i DEF SubmitEnqueue, HasRoom, ChanTypeOK, CallTypeOK, Waiters
  <2>6. Answers'
    BY <1>2, <1>a, <1>i, <2>1, <2>2
       DEF SubmitEnqueue, HasRoom, CallTypeOK, Answers, AnswerIsTrue, Answered
  <2> QED
    BY <2>3, <2>4, <2>5, <2>6
<1>3. ASSUME NEW c \in Callers, SubmitRefuse(c) \/ SubmitPanic(c) PROVE Rest'
  <2>0. Fifo' /\ Exits' /\ Sends'
    BY <1>3, <1>i, <1>g, <1>s DEF SubmitRefuse, SubmitPanic, Exits
  <2>1. Closing' /\ Returns'
    BY <1>3, <1>a, <1>i
       DEF SubmitRefuse, SubmitPanic, Refusal, CallTypeOK, Closing, Returns, Drained
  <2>2. Waiters'
    BY <1>3, <1>a, <1>i DEF SubmitRefuse, SubmitPanic, ChanTypeOK, CallTypeOK, Waiters
  <2>3. Answers'
    BY <1>3, <1>a, <1>i
       DEF SubmitRefuse, SubmitPanic, Refusal, CallTypeOK, Answers, AnswerIsTrue, Answered
  <2> QED
    BY <2>0, <2>1, <2>2, <2>3
<1>4. ASSUME NEW c \in Callers, SubmitPark(c) PROVE Rest'
  <2>1. Fifo' /\ Closing' /\ Exits' /\ Sends' /\ Returns'
    BY <1>4, <1>a, <1>i
       DEF SubmitPark, HasRoom, CallTypeOK, Fifo, Closing, Exits, Sends, CutOnlyOnExpiry, Returns, Drained
  <2>2. Waiters'
    <3>1. /\ parked \in Seq(Callers) /\ parked' = Append(parked, c)
          /\ \A i \in 1..Len(parked) : parked[i] # c /\ parked[i] \in Callers
      BY <1>4, <1>a, <1>i DEF SubmitPark, HasRoom, ChanTypeOK, Waiters
    <3>2. /\ Len(parked') = Len(parked) + 1 /\ Len(parked) \in Nat
          /\ parked'[Len(parked) + 1] = c
          /\ \A i \in 1..Len(parked) : parked'[i] = parked[i]
      BY <3>1
    <3>3. \A d \in Callers : pc'[d] = IF d = c THEN "parked" ELSE pc[d]
      BY <1>4, <1>a DEF SubmitPark, HasRoom, CallTypeOK
    <3> QED
      BY <1>i, <1>4, <3>1, <3>2, <3>3 DEF Waiters
  <2>3. Answers'
    BY <1>4, <1>a, <1>i DEF SubmitPark, HasRoom, CallTypeOK, Answers, AnswerIsTrue, Answered
  <2> QED
    BY <2>1, <2>2, <2>3
<1>5. ASSUME NEW c \in Callers, ShutdownCall(c) \/ CloseJobs(c) \/ OnceAlreadyDone(c) PROVE Rest'
  <2>0. Fifo' /\ Exits' /\ Sends'
    BY <1>5, <1>i, <1>g, <1>s DEF ShutdownCall, CloseJobs, OnceAlreadyDone, Exits
  <2>1. Closing' /\ Returns'
    BY <1>5, <1>a, <1>i
       DEF ShutdownCall, CloseJobs, OnceAlreadyDone, CallTypeOK, Closing, Returns, Drained
  <2>2. Waiters'
    BY <1>5, <1>a, <1>i DEF ShutdownCall, CloseJobs, OnceAlreadyDone, ChanTypeOK, CallTypeOK, Waiters
  <2>3. Answers'
    BY <1>5, <1>a, <1>i
       DEF ShutdownCall, CloseJobs, OnceAlreadyDone, CallTypeOK, Answers, AnswerIsTrue, Answered
  <2> QED
    BY <2>0, <2>1, <2>2, <2>3
<1>6. ASSUME NEW c \in Callers, CloseDone(c) PROVE Rest'
  <2>1. Fifo' /\ Closing' /\ Exits' /\ Sends' /\ Returns' /\ Waiters'
    BY <1>6, <1>a, <1>i, EmptySequence
       DEF CloseDone, Refusal, CallTypeOK, Fifo, Closing, Exits, Sends, CutOnlyOnExpiry, Returns,
           Drained, Waiters
  <2>2. Answers'
    BY <1>6, <1>a, <1>i DEF CloseDone, Refusal, CallTypeOK, Answers, AnswerIsTrue, Answered
  <2> QED
    BY <2>1, <2>2
<1>7. ASSUME NEW c \in Callers, ShutdownDrained(c) \/ ShutdownExpired(c) \/ ShutdownAborted(c)
      PROVE  Rest'
  <2>0. Fifo' /\ Exits' /\ Sends'
    <3>1. Fifo' /\ Exits'
      BY <1>7, <1>i, <1>g DEF ShutdownDrained, ShutdownExpired, ShutdownAborted, Exits
    <3>2. UNCHANGED <<started, outcome, worker>> /\ (expired => expired')
          /\ (cancelled' => cancelled \/ expired' \/ Drained)
      BY <1>7 DEF ShutdownDrained, ShutdownExpired, ShutdownAborted, CancelOnExpiry
    <3>3. Sends'
      BY <1>i, <3>2 DEF Sends, CutOnlyOnExpiry, Drained
    <3> QED
      BY <3>1, <3>3
  <2>1. Closing' /\ Returns'
    BY <1>7, <1>a, <1>i
       DEF ShutdownDrained, ShutdownExpired, ShutdownAborted, CancelOnExpiry, CallTypeOK, Closing, Returns, Drained
  <2>2. Waiters'
    BY <1>7, <1>a, <1>i
       DEF ShutdownDrained, ShutdownExpired, ShutdownAborted, ChanTypeOK, CallTypeOK, Waiters
  <2>3. Answers'
    BY <1>7, <1>a, <1>i
       DEF ShutdownDrained, ShutdownExpired, ShutdownAborted, CallTypeOK, Answers, AnswerIsTrue, Answered
  <2> QED
    BY <2>0, <2>1, <2>2, <2>3
<1>8. ASSUME NEW w \in Workers, Receive(w) PROVE Rest'
  <2>1. /\ jobs \in Seq(Batches) /\ Head(jobs) \in Batches /\ Tail(jobs) \in Seq(Batches)
        /\ jobs # <<>>
    BY <1>8, <1>a, TailElements DEF Receive, ChanTypeOK
  <2>2. /\ started' = Append(started, Head(jobs)) /\ started' \in Seq(Batches)
        /\ ToSet(started') = ToSet(started) \cup {Head(jobs)}
    BY <1>8, <1>a, <2>1, AppendElements DEF Receive, HistoryTypeOK
  <2>3. \A v \in Workers : worker'[v] = IF v = w THEN Head(jobs) ELSE worker[v]
    BY <1>8, <1>a DEF Receive, WorkTypeOK
  <2>4. ~Drained /\ \A v \in Workers : worker[v] # Exited /\ worker'[v] # Exited
    BY <1>8, <1>i, <2>1, <2>3, TokensAssumption DEF Receive, Exits, Drained
  <2>5. Sends'
    <3>1. \A b \in ToSet(started') : outcome'[b] # "none" \/ \E v \in Workers : worker'[v] = b
      <4> SUFFICES ASSUME NEW b \in ToSet(started'), outcome'[b] = "none"
                   PROVE  \E v \in Workers : worker'[v] = b
        OBVIOUS
      <4>1. CASE b = Head(jobs)
        BY <2>3, <4>1
      <4>2. CASE b \in ToSet(started)
        <5>1. PICK v \in Workers : worker[v] = b
          BY <1>8, <1>i, <4>2 DEF Receive, Sends
        <5>2. CASE v = w
          <6>1. b = Idle
            BY <1>8, <5>1, <5>2 DEF Receive
          <6>2. b \in Batches
            BY <1>a, <4>2 DEF HistoryTypeOK, ToSet
          <6> QED
            BY <6>1, <6>2, TokensAssumption
        <5> QED
          BY <2>3, <5>1, <5>2
      <4> QED
        BY <2>2, <4>1, <4>2
    <3> QED
      BY <1>8, <1>i, <2>4, <3>1 DEF Receive, Sends, CutOnlyOnExpiry
  <2>6. Exits'
    BY <2>4 DEF Exits
  <2>7. started \o jobs = started' \o Tail(jobs)
    BY <1>a, <2>1, <2>2, ShiftHead DEF HistoryTypeOK
  <2>8. CASE parked = <<>>
    <3>1. Fifo'
      BY <1>8, <1>i, <2>7, <2>8 DEF Receive, BufferAfterReceive, Fifo
    <3>2. Closing' /\ Waiters' /\ Answers'
      BY <1>8, <1>i, <2>8
         DEF Receive, Closing, Waiters, Answers, AnswerIsTrue, Answered
    <3>3. Returns'
      BY <1>8, <1>i, <2>4, <2>8 DEF Receive, Returns
    <3> QED
      BY <2>5, <2>6, <3>1, <3>2, <3>3
  <2>9. CASE parked # <<>>
    <3> DEFINE h == parked[1]
    <3>1. /\ parked' = Tail(parked)
          /\ accepted' = Append(accepted, arg[h])
          /\ jobs' = Append(Tail(jobs), arg[h])
          /\ h \in Callers
          /\ parked' \in Seq(Callers)
          /\ Len(parked) \in Nat /\ Len(parked') = Len(parked) - 1 /\ Len(parked) >= 1
          /\ \A i \in 1..Len(parked') : parked'[i] = parked[i + 1]
      <4>1. parked \in Seq(Callers)
        BY <1>a DEF ChanTypeOK
      <4>2. /\ Head(parked) = h /\ h \in Callers
            /\ Tail(parked) \in Seq(Callers)
            /\ Len(parked) \in Nat /\ Len(Tail(parked)) = Len(parked) - 1 /\ Len(parked) >= 1
            /\ \A i \in 1..Len(Tail(parked)) : Tail(parked)[i] = parked[i + 1]
        BY <2>9, <4>1, TailElements
      <4>3. /\ parked' = Tail(parked)
            /\ accepted' = Append(accepted, arg[h])
            /\ jobs' = Append(Tail(jobs), arg[h])
        BY <1>8, <2>9, <4>2 DEF Receive, BufferAfterReceive
      <4> QED
        BY <4>2, <4>3
    <3>2. /\ \A d \in Callers : pc'[d] = IF d = h THEN "idle" ELSE pc[d]
          /\ \A d \in Callers : result'[d] = IF d = h THEN "true" ELSE result[d]
      BY <1>8, <1>a, <2>9, TailElements DEF Receive, ChanTypeOK, CallTypeOK
    <3>3. /\ pc[h] = "parked" /\ arg[h] \in Batches /\ ~doneClosed
          /\ \A i \in 1..Len(parked) : parked[i] \in Callers
      BY <1>a, <1>i, <2>9, <3>1 DEF Waiters, Answers, Closing, ChanTypeOK
    <3>4. Fifo'
      <4>1. accepted = started' \o Tail(jobs)
        BY <1>f, <2>7
      <4>2. Append(started' \o Tail(jobs), arg[h]) = started' \o Append(Tail(jobs), arg[h])
        BY <2>1, <2>2, <3>3, AppendConcat, Zenon
      <4> QED
        BY <3>1, <4>1, <4>2 DEF Fifo
    <3>5. Closing'
      BY <1>8, <1>i, <3>2, <3>3 DEF Receive, Closing
    <3>6. Waiters'
      <4>1. \A i \in 1..Len(parked') : i + 1 \in 1..Len(parked) /\ parked'[i] = parked[i + 1] /\ parked'[i] # h
        BY <1>i, <3>1 DEF Waiters
      <4> QED
        BY <1>i, <3>1, <3>2, <3>3, <4>1 DEF Waiters
    <3>7. Returns'
      BY <1>i, <2>4, <3>2 DEF Returns
    <3>8. ToSet(accepted') = ToSet(accepted) \cup {arg[h]}
      BY <1>a, <3>1, <3>3, AppendElements DEF HistoryTypeOK
    <3>9. Answers'
      BY <1>8, <1>i, <3>1, <3>2, <3>3, <3>8 DEF Receive, Answers, AnswerIsTrue, Answered
    <3> QED
      BY <2>5, <2>6, <3>4, <3>5, <3>6, <3>7, <3>9
  <2> QED
    BY <2>8, <2>9
<1>9. ASSUME NEW w \in Workers, WorkerExit(w) PROVE Rest'
  <2>1. Fifo' /\ Closing' /\ Waiters' /\ Answers'
    BY <1>9, <1>i DEF WorkerExit, Fifo, Closing, Waiters, Answers, AnswerIsTrue, Answered
  <2>2. \A v \in Workers : worker'[v] = IF v = w THEN Exited ELSE worker[v]
    BY <1>9, <1>a DEF WorkerExit, WorkTypeOK
  <2>3. Exits' /\ Returns'
    BY <1>9, <1>i, <2>2 DEF WorkerExit, Exits, Returns, Drained
  <2>4. \A b \in ToSet(started) : b # Idle
    BY <1>a, TokensAssumption DEF HistoryTypeOK, ToSet
  <2>5. Sends'
    BY <1>9, <1>i, <2>2, <2>4 DEF WorkerExit, Sends, CutOnlyOnExpiry, Drained
  <2> QED
    BY <2>1, <2>3, <2>5
<1>10. ASSUME NEW w \in Workers, SendEnds(w) PROVE Rest'
  <2> PICK how \in {"returned", "cut"} : SendReturns(w, how)
    BY <1>10 DEF SendEnds
  <2>1. Fifo' /\ Closing' /\ Waiters' /\ Answers'
    BY <1>i DEF SendReturns, Fifo, Closing, Waiters, Answers, AnswerIsTrue, Answered
  <2>2. /\ worker[w] \in Batches
        /\ \A v \in Workers : worker'[v] = IF v = w THEN Idle ELSE worker[v]
        /\ \A b \in Batches : outcome'[b] = IF b = worker[w] THEN how ELSE outcome[b]
    BY <1>a DEF SendReturns, AfterSend, WorkTypeOK
  <2>3. ~Drained /\ Exits' /\ Returns'
    BY <1>i, <2>2, TokensAssumption DEF SendReturns, Exits, Returns, Drained
  <2>4. ToSet(started) \subseteq Batches
    BY <1>a DEF HistoryTypeOK, ToSet
  <2>5. Sends'
    BY <1>i, <2>2, <2>3, <2>4 DEF SendReturns, Sends, CutOnlyOnExpiry
  <2> QED
    BY <2>1, <2>3, <2>5
<1>11. ASSUME UNCHANGED vars PROVE Rest'
  <2>1. Fifo' /\ Sends' /\ Closing' /\ Waiters' /\ Exits'
    BY <1>11, <1>i, <1>g, <1>s DEF vars, Closing, Waiters, Exits
  <2>2. Returns'
    BY <1>11, <1>i DEF vars, Returns, Drained
  <2>3. Answers'
    BY <1>11, <1>i DEF vars, Answers, AnswerIsTrue, Answered
  <2> QED
    BY <2>1, <2>2, <2>3
<1> HIDE DEF Rest
<1>12. ASSUME NEW c \in Callers, SubmitStep(c) \/ ShutdownStep(c) PROVE Rest'
  BY <1>12, <1>2, <1>3, <1>4, <1>5, <1>6, <1>7 DEF SubmitStep, ShutdownStep
<1>13. ASSUME NEW w \in Workers, WorkerStep(w) PROVE Rest'
  BY <1>13, <1>8, <1>9, <1>10 DEF WorkerStep
<1>14. Rest'
  BY <1>1, <1>5, <1>11, <1>12, <1>13 DEF Next
<1> QED
  BY <1>t, <1>14 DEF IInv, Rest

\* The inductive invariant holds in every state of every behaviour.
THEOREM Invariance == Spec => []IInv
<1> QED
  BY InitIInv, NextIInv, PTL DEF Spec

-----------------------------------------------------------------------------
\* The variables keep their types; the channel never exceeds its capacity
\* (pool.go:41).
THEOREM TypeCorrect == Spec => []TypeOK
<1>1. IInv => TypeOK
  BY DEF IInv
<1> QED
  BY <1>1, Invariance, PTL

\* Accepted batches reach Send in order, none lost and none repeated, for
\* any number of callers and workers.
THEOREM FifoHolds == Spec => []Fifo
<1>1. IInv => Fifo
  BY DEF IInv
<1> QED
  BY <1>1, Invariance, PTL

\* Submit's answer is true, whatever runs concurrently with it.
THEOREM AnswersAreTrue == Spec => []AnswerIsTrue
<1>1. IInv => AnswerIsTrue
  BY DEF IInv, Answers
<1> QED
  BY <1>1, Invariance, PTL

\* No send is cut before the context of a Shutdown call has ended.
THEOREM CutsFollowExpiry == Spec => []CutOnlyOnExpiry
<1>1. IInv => CutOnlyOnExpiry
  BY DEF IInv, Sends
<1> QED
  BY <1>1, Invariance, PTL

\* An exited worker found the closed channel empty.
LEMMA CompleteFromInv == IInv => ShutdownComplete
<1>1. ASSUME IInv PROVE ShutdownComplete
  <2> SUFFICES ASSUME NEW c \in Callers, result[c] \in {"nil", "err"}
               PROVE  /\ Drained
                      /\ jobs = <<>>
                      /\ \A i \in 1..Len(accepted) : outcome[accepted[i]] # "none"
    BY DEF ShutdownComplete
  <2>1. Drained
    BY <1>1 DEF IInv, Returns
  <2>2. jobs = <<>>
    BY <1>1, <2>1, WorkersAssumption DEF IInv, Exits, Drained
  <2>3. accepted \in Seq(Batches) /\ started \in Seq(Batches)
    BY <1>1 DEF IInv, TypeOK, HistoryTypeOK
  <2>4. accepted = started
    <3>1. started \o <<>> = started
      BY <2>3
    <3> QED
      BY <1>1, <2>2, <3>1 DEF IInv, Fifo
  <2>5. ASSUME NEW i \in 1..Len(accepted) PROVE outcome[accepted[i]] # "none"
    <3>1. accepted[i] \in Batches /\ accepted[i] \in ToSet(started)
      BY <2>3, <2>4 DEF ToSet
    <3>2. ~ \E w \in Workers : worker[w] = accepted[i]
      BY <2>1, <3>1, TokensAssumption DEF Drained
    <3> QED
      BY <1>1, <3>1, <3>2 DEF IInv, Sends
  <2> QED
    BY <2>1, <2>2, <2>5
<1> QED
  BY <1>1

\* A Shutdown that has returned left no worker, no queued batch and no
\* accepted batch without an outcome: an exited worker found the closed
\* channel empty, so everything accepted was started, and nobody is left to
\* be sending it.
THEOREM ShutdownIsComplete == Spec => []ShutdownComplete
BY CompleteFromInv, Invariance, PTL

\* The call that closes jobs cannot meet a Submit in progress when there is
\* one caller, as in cmd/agent (pool.go:21-23): past its first select that
\* caller has not closed done.  With two callers the statement is false.
Undisturbed == \A c \in Callers : pc[c] = "submitting" => ~doneClosed

THEOREM SingleCallerNeverPanics ==
    ASSUME \A c, d \in Callers : c = d
    PROVE  Spec => []NoPanic
<1>1. Init => NoPanic /\ Undisturbed
  BY DEF Init, NoPanic, Undisturbed
<1>2. ASSUME NoPanic, Undisturbed, IInv, [Next]_vars PROVE NoPanic' /\ Undisturbed'
  <2> USE <1>2 DEF NoPanic, Undisturbed, Return, chanVars, callVars, workVars, history
  <2>t. pc \in [Callers -> {"idle", "submitting", "parked", "once", "closing", "waiting", "aborting"}]
    BY DEF IInv, TypeOK, CallTypeOK
  <2>c. jobsClosed => doneClosed
    BY DEF IInv, Closing
  <2>1. ASSUME NEW c \in Callers, NEW b \in Batches, SubmitCheck(c, b) PROVE NoPanic' /\ Undisturbed'
    BY <2>1, <2>t DEF SubmitCheck, NotStopping
  <2>2. ASSUME NEW c \in Callers, SubmitStep(c) PROVE NoPanic' /\ Undisturbed'
    BY <2>2, <2>t, <2>c DEF SubmitStep, SubmitEnqueue, SubmitRefuse, SubmitPanic, SubmitPark
  <2>3. ASSUME NEW c \in Callers, CloseDone(c) PROVE NoPanic' /\ Undisturbed'
    <3>1. \A d \in Callers : d = c
      OBVIOUS
    <3> QED
      BY <2>3, <2>t, <3>1 DEF CloseDone
  <2>4. ASSUME NEW c \in Callers, ShutdownCall(c) \/ CloseJobs(c) \/ OnceAlreadyDone(c)
        PROVE  NoPanic' /\ Undisturbed'
    BY <2>4, <2>t DEF ShutdownCall, CloseJobs, OnceAlreadyDone
  <2>5. ASSUME NEW c \in Callers, ShutdownDrained(c) \/ ShutdownExpired(c) \/ ShutdownAborted(c)
        PROVE  NoPanic' /\ Undisturbed'
    BY <2>5, <2>t DEF ShutdownDrained, ShutdownExpired, ShutdownAborted
  <2>6. ASSUME NEW w \in Workers, Receive(w) PROVE NoPanic' /\ Undisturbed'
    <3>1. \A d \in Callers : pc'[d] \in {pc[d], "idle"}
      BY <2>6, <2>t DEF Receive
    <3> QED
      BY <2>6, <3>1 DEF Receive
  <2>7. ASSUME NEW w \in Workers, WorkerExit(w) \/ SendEnds(w) PROVE NoPanic' /\ Undisturbed'
    BY <2>7 DEF WorkerExit, SendEnds, SendReturns
  <2>8. ASSUME UNCHANGED vars PROVE NoPanic' /\ Undisturbed'
    BY <2>8 DEF vars
  <2> QED
    BY <2>1, <2>2, <2>3, <2>4, <2>5, <2>6, <2>7, <2>8 DEF Next, ShutdownStep, WorkerStep
<1> QED
  BY <1>1, <1>2, Invariance, PTL DEF Spec

-----------------------------------------------------------------------------
(***************************************************************************)
(* The refinement.  The mapping reads the outbox off the channel and the   *)
(* workers, so what has to be known of the pool is that a batch is in one  *)
(* place at a time: accepted once, with at most one worker, and finished   *)
(* only when that worker is.  InOnePlace says so, inductively with IInv.   *)
(***************************************************************************)
AcceptedOnce == \A i, j \in 1..Len(accepted) : accepted[i] = accepted[j] => i = j

Hands ==
    /\ \A w \in Workers : worker[w] \in Batches =>
           worker[w] \in ToSet(started) /\ outcome[worker[w]] = "none"
    /\ \A v, w \in Workers : worker[v] = worker[w] /\ worker[v] \in Batches => v = w

FinishedStarted == \A b \in Batches : outcome[b] # "none" => b \in ToSet(started)

InOnePlace == AcceptedOnce /\ Hands /\ FinishedStarted

-----------------------------------------------------------------------------
\* What Fifo makes of the elements.

LEMMA ElementsSplit ==
    ASSUME IInv
    PROVE  /\ ToSet(started) \cup ToSet(jobs) = ToSet(accepted)
           /\ AcceptedOnce => ToSet(started) \cap ToSet(jobs) = {}
<1>1. started \in Seq(Batches) /\ jobs \in Seq(Batches) /\ accepted = started \o jobs
  BY Zenon DEF IInv, TypeOK, ChanTypeOK, HistoryTypeOK, Fifo
<1>2. /\ Len(started) \in Nat /\ Len(jobs) \in Nat /\ Len(accepted) = Len(started) + Len(jobs)
      /\ \A i \in 1..Len(started) : accepted[i] = started[i]
      /\ \A i \in 1..Len(jobs) : accepted[i + Len(started)] = jobs[i]
  BY <1>1
<1>3. /\ ToSet(started) = {started[i] : i \in 1..Len(started)}
      /\ ToSet(jobs) = {jobs[i] : i \in 1..Len(jobs)}
      /\ ToSet(accepted) = {accepted[i] : i \in 1..Len(accepted)}
  <2>1. \A s \in Seq(Batches) : DOMAIN s = 1..Len(s)
    OBVIOUS
  <2>2. accepted \in Seq(Batches)
    BY DEF IInv, TypeOK, HistoryTypeOK
  <2>3. DOMAIN started = 1..Len(started) /\ DOMAIN jobs = 1..Len(jobs) /\ DOMAIN accepted = 1..Len(accepted)
    BY <1>1, <2>1, <2>2
  <2> QED
    BY <2>3, Zenon DEF ToSet
<1>4. ToSet(started) \subseteq ToSet(accepted)
  BY <1>2, <1>3
<1>5. ToSet(jobs) \subseteq ToSet(accepted)
  BY <1>2, <1>3
<1>6. ToSet(accepted) \subseteq ToSet(started) \cup ToSet(jobs)
  <2> SUFFICES ASSUME NEW i \in 1..Len(accepted)
               PROVE  accepted[i] \in ToSet(started) \cup ToSet(jobs)
    BY <1>3
  <2>1. CASE i <= Len(started)
    BY <2>1, <1>2, <1>3
  <2>2. CASE i > Len(started)
    <3>1. i - Len(started) \in 1..Len(jobs) /\ accepted[i] = jobs[i - Len(started)]
      BY <2>2, <1>2
    <3> QED
      BY <3>1, <1>3
  <2> QED
    BY <2>1, <2>2, <1>2
<1>7. ASSUME AcceptedOnce PROVE ToSet(started) \cap ToSet(jobs) = {}
  <2> SUFFICES ASSUME NEW i \in 1..Len(started), NEW j \in 1..Len(jobs), started[i] = jobs[j]
               PROVE  FALSE
    BY <1>3
  <2>1. /\ i \in 1..Len(accepted) /\ j + Len(started) \in 1..Len(accepted)
        /\ accepted[i] = accepted[j + Len(started)] /\ i # j + Len(started)
    BY <1>2
  <2> QED
    BY <1>7, <2>1 DEF AcceptedOnce
<1> QED
  BY <1>4, <1>5, <1>6, <1>7

\* A batch that Submit lets in now has not been accepted before.
LEMMA AppendKeepsOnce ==
    ASSUME NEW s \in Seq(Batches), NEW b \in Batches, b \notin ToSet(s),
           \A i, j \in 1..Len(s) : s[i] = s[j] => i = j
    PROVE  \A i, j \in 1..Len(Append(s, b)) : Append(s, b)[i] = Append(s, b)[j] => i = j
<1>1. /\ Len(s) \in Nat /\ Len(Append(s, b)) = Len(s) + 1
      /\ Append(s, b)[Len(s) + 1] = b
      /\ \A i \in 1..Len(s) : Append(s, b)[i] = s[i]
  OBVIOUS
<1>2. \A i \in 1..Len(s) : s[i] # b
  BY DEF ToSet
<1> QED
  BY <1>1, <1>2

-----------------------------------------------------------------------------

LEMMA InitInOnePlace == Init => InOnePlace
BY TokensAssumption DEF Init, InOnePlace, AcceptedOnce, Hands, FinishedStarted

LEMMA NextInOnePlace == IInv /\ InOnePlace /\ [Next]_vars => InOnePlace'
<1> SUFFICES ASSUME IInv, InOnePlace, [Next]_vars PROVE InOnePlace'
  OBVIOUS
<1> USE DEF chanVars, callVars, workVars, history, Return
<1>a. ChanTypeOK /\ CallTypeOK /\ WorkTypeOK /\ HistoryTypeOK
  BY DEF IInv, TypeOK
<1>b. AcceptedOnce /\ Hands /\ FinishedStarted
  BY DEF InOnePlace
<1>c. UNCHANGED <<accepted, started, worker, outcome>> => InOnePlace'
  BY <1>b DEF InOnePlace, AcceptedOnce, Hands, FinishedStarted
<1>d. UNCHANGED <<started, worker, outcome>> => Hands' /\ FinishedStarted'
  BY <1>b DEF Hands, FinishedStarted
<1>1. ASSUME NEW c \in Callers, NEW b \in Batches, SubmitCheck(c, b) PROVE InOnePlace'
  BY <1>1, <1>c DEF SubmitCheck
<1>2. ASSUME NEW c \in Callers, SubmitEnqueue(c) PROVE InOnePlace'
  <2>1. arg[c] \in Batches /\ arg[c] \notin ToSet(accepted) /\ accepted \in Seq(Batches)
    BY <1>2, <1>a DEF SubmitEnqueue, IInv, Answers, HistoryTypeOK
  <2>2. AcceptedOnce'
    BY <1>2, <1>b, <2>1, AppendKeepsOnce DEF SubmitEnqueue, AcceptedOnce
  <2> QED
    BY <1>2, <1>d, <2>2 DEF SubmitEnqueue, InOnePlace
<1>3. ASSUME NEW c \in Callers, SubmitRefuse(c) \/ SubmitPanic(c) \/ SubmitPark(c) PROVE InOnePlace'
  BY <1>3, <1>c DEF SubmitRefuse, SubmitPanic, SubmitPark
<1>4. ASSUME NEW c \in Callers, ShutdownCall(c) \/ ShutdownStep(c) PROVE InOnePlace'
  <2>1. UNCHANGED <<accepted, started, worker, outcome>>
    BY <1>4 DEF ShutdownCall, ShutdownStep, CloseDone, CloseJobs, OnceAlreadyDone,
                ShutdownDrained, ShutdownExpired, ShutdownAborted
  <2> QED
    BY <2>1, <1>c
<1>5. ASSUME NEW w \in Workers, Receive(w) PROVE InOnePlace'
  <2>1. jobs \in Seq(Batches) /\ started \in Seq(Batches) /\ accepted \in Seq(Batches) /\ jobs # <<>>
    BY <1>5, <1>a DEF Receive, ChanTypeOK, HistoryTypeOK
  <2>2. Head(jobs) \in Batches /\ Head(jobs) \in ToSet(jobs)
    BY <2>1 DEF ToSet
  <2>3. Head(jobs) \notin ToSet(started)
    BY <1>b, <2>2, ElementsSplit
  <2>4. ToSet(started') = ToSet(started) \cup {Head(jobs)}
    BY <1>5, <2>1, <2>2, AppendElements DEF Receive
  <2>5. \A v \in Workers : worker'[v] = IF v = w THEN Head(jobs) ELSE worker[v]
    BY <1>5, <1>a DEF Receive, WorkTypeOK
  <2>6. outcome' = outcome
    BY <1>5 DEF Receive
  <2>7. Hands' /\ FinishedStarted'
    BY <1>b, <2>2, <2>3, <2>4, <2>5, <2>6 DEF Hands, FinishedStarted
  <2>8. AcceptedOnce'
    <3>1. CASE parked = <<>>
      BY <1>5, <1>b, <3>1 DEF Receive, AcceptedOnce
    <3>2. CASE parked # <<>>
      <4>1. Head(parked) = parked[1] /\ 1 \in 1..Len(parked) /\ parked[1] \in Callers
        BY <1>a, <3>2 DEF ChanTypeOK
      <4>2. arg[Head(parked)] \in Batches /\ arg[Head(parked)] \notin ToSet(accepted)
        BY <4>1 DEF IInv, Waiters, Answers
      <4> QED
        BY <1>5, <1>b, <2>1, <3>2, <4>2, AppendKeepsOnce DEF Receive, AcceptedOnce
    <3> QED
      BY <3>1, <3>2
  <2> QED
    BY <2>7, <2>8 DEF InOnePlace
<1>6. ASSUME NEW w \in Workers, WorkerExit(w) PROVE InOnePlace'
  <2>1. \A v \in Workers : worker'[v] = IF v = w THEN Exited ELSE worker[v]
    BY <1>6, <1>a DEF WorkerExit, WorkTypeOK
  <2>2. Hands'
    BY <1>6, <1>b, <2>1, TokensAssumption DEF WorkerExit, Hands
  <2> QED
    BY <1>6, <1>b, <2>2 DEF WorkerExit, InOnePlace, AcceptedOnce, FinishedStarted
<1>7. ASSUME NEW w \in Workers, SendEnds(w) PROVE InOnePlace'
  <2> PICK how \in {"returned", "cut"} : SendReturns(w, how)
    BY <1>7 DEF SendEnds
  <2>1. /\ worker[w] \in Batches
        /\ \A v \in Workers : worker'[v] = IF v = w THEN Idle ELSE worker[v]
        /\ \A b \in Batches : outcome'[b] = IF b = worker[w] THEN how ELSE outcome[b]
    BY <1>a DEF SendReturns, AfterSend, WorkTypeOK
  <2>2. accepted' = accepted /\ started' = started
    BY DEF SendReturns
  <2>3. Hands'
    BY <1>b, <2>1, <2>2, TokensAssumption DEF Hands
  <2>4. FinishedStarted'
    BY <1>b, <2>1, <2>2 DEF Hands, FinishedStarted
  <2> QED
    BY <1>b, <2>2, <2>3, <2>4 DEF InOnePlace, AcceptedOnce
<1>8. CASE UNCHANGED vars
  BY <1>8, <1>c DEF vars
<1> QED
  BY <1>1, <1>2, <1>3, <1>4, <1>5, <1>6, <1>7, <1>8 DEF Next, SubmitStep, WorkerStep

-----------------------------------------------------------------------------
\* The mapping.

InHand == {worker[w] : w \in Workers} \cap Batches
\* What the outbox has accepted is what Submit let in.
LEMMA BoxAccepted ==
    ASSUME IInv, InOnePlace
    PROVE  Box!Accepted \subseteq ToSet(accepted)
<1>1. Box!ToSet(jobs) = ToSet(jobs)
  BY DEF Box!ToSet, ToSet
<1> QED
  BY <1>1, ElementsSplit DEF InOnePlace, Hands, FinishedStarted, Box!Accepted

\* A worker that is idle leaves room in the hands of the others.
LEMMA RoomInHand ==
    ASSUME NEW w \in Workers, worker[w] = Idle, WorkTypeOK
    PROVE  Box!Cardinality(InHand) < Cardinality(Workers)
<1> DEFINE others == Workers \ {w}
           image == {worker[v] : v \in others}
           f == [v \in others |-> worker[v]]
<1>1. IsFiniteSet(others) /\ Cardinality(others) = Cardinality(Workers) - 1
      /\ Cardinality(Workers) \in Nat
  BY WorkersAssumption, FS_RemoveElement, FS_CardinalityType
<1>2. f \in Surjection(others, image)
  BY DEF Surjection
<1>3. IsFiniteSet(image) /\ Cardinality(image) <= Cardinality(others)
  BY <1>1, <1>2, FS_Surjection
<1>4. InHand \subseteq image
  BY TokensAssumption DEF InHand
<1>5. Cardinality(InHand) <= Cardinality(image) /\ Cardinality(InHand) \in Nat
  BY <1>3, <1>4, FS_Subset, FS_CardinalityType
<1>6. Cardinality(image) \in Nat
  BY <1>3, FS_CardinalityType
<1> HIDE DEF others, image
<1>7. Box!Cardinality(InHand) = Cardinality(InHand)
  BY DEF Box!Cardinality, Cardinality
<1> QED
  BY <1>1, <1>3, <1>5, <1>6, <1>7

LEMMA InitBox == Init => Box!Init
<1> SUFFICES ASSUME Init PROVE Box!Init
  OBVIOUS
<1>1. {worker[w] : w \in Workers} \cap Batches = {}
  BY TokensAssumption DEF Init
<1>2. {b \in Batches : outcome[b] # "none"} = {}
  BY DEF Init
<1>3. Drained = FALSE
  BY WorkersAssumption, TokensAssumption DEF Init, Drained
<1> QED
  BY <1>1, <1>2, <1>3 DEF Init, Box!Init

LEMMA NextBox == IInv /\ InOnePlace /\ [Next]_vars => [Box!Next]_(Box!vars)
<1> SUFFICES ASSUME IInv, InOnePlace, [Next]_vars PROVE [Box!Next]_(Box!vars)
  OBVIOUS
<1> USE DEF chanVars, callVars, workVars, history, Return
<1>a. ChanTypeOK /\ CallTypeOK /\ WorkTypeOK /\ HistoryTypeOK
  BY DEF IInv, TypeOK
<1>b. AcceptedOnce /\ Hands /\ FinishedStarted
  BY DEF InOnePlace
<1>s. UNCHANGED <<jobs, worker, outcome, jobsClosed>> => UNCHANGED Box!vars
  BY DEF Box!vars, Drained
<1>1. ASSUME NEW c \in Callers, NEW b \in Batches, SubmitCheck(c, b) PROVE UNCHANGED Box!vars
  BY <1>1, <1>s DEF SubmitCheck
<1>2. ASSUME NEW c \in Callers, SubmitEnqueue(c) PROVE Box!Next
  <2>1. arg[c] \in Batches /\ arg[c] \notin ToSet(accepted)
    BY <1>2, <1>a DEF SubmitEnqueue, IInv, Answers
  <2>2. arg[c] \notin Box!Accepted
    BY <2>1, BoxAccepted
  <2>3. Box!Accept(arg[c])
    BY <1>2, <2>2 DEF SubmitEnqueue, Box!Accept, Drained
  <2> QED
    BY <2>1, <2>3 DEF Box!Next
<1>3. ASSUME NEW c \in Callers, SubmitRefuse(c) \/ SubmitPanic(c) \/ SubmitPark(c)
      PROVE  UNCHANGED Box!vars
  BY <1>3, <1>s DEF SubmitRefuse, SubmitPanic, SubmitPark
<1>4. ASSUME NEW c \in Callers, CloseJobs(c) PROVE [Box!Next]_(Box!vars)
  <2>1. CASE jobsClosed
    BY <1>4, <2>1, <1>a, <1>s DEF CloseJobs, ChanTypeOK
  <2>2. CASE ~jobsClosed
    BY <1>4, <2>2 DEF CloseJobs, Box!Close, Box!Next, Drained
  <2> QED
    BY <2>1, <2>2
<1>5. ASSUME NEW c \in Callers,
             \/ ShutdownCall(c) \/ CloseDone(c) \/ OnceAlreadyDone(c)
             \/ ShutdownDrained(c) \/ ShutdownExpired(c) \/ ShutdownAborted(c)
      PROVE  UNCHANGED Box!vars
  <2>1. UNCHANGED <<jobs, worker, outcome, jobsClosed>>
    BY <1>5 DEF ShutdownCall, CloseDone, OnceAlreadyDone, ShutdownDrained, ShutdownExpired, ShutdownAborted
  <2> QED
    BY <2>1, <1>s
<1>6. ASSUME NEW w \in Workers, Receive(w) PROVE Box!Next
  <2> DEFINE admitted == IF parked = <<>> THEN <<>> ELSE <<arg[Head(parked)]>>
  <2>1. jobs \in Seq(Batches) /\ jobs # <<>> /\ worker[w] = Idle /\ Tail(jobs) \in Seq(Batches)
    BY <1>6, <1>a DEF Receive, ChanTypeOK
  <2>2. \A v \in Workers : worker'[v] = IF v = w THEN Head(jobs) ELSE worker[v]
    BY <1>6, <1>a DEF Receive, WorkTypeOK
  <2>3. Head(jobs) \in Batches
    BY <2>1
  <2>4. {worker'[v] : v \in Workers} \cap Batches = ({worker[v] : v \in Workers} \cap Batches) \cup {Head(jobs)}
    BY <2>1, <2>2, <2>3, TokensAssumption
  <2>5. Box!Cardinality({worker[v] : v \in Workers} \cap Batches) < Cardinality(Workers)
    BY <1>a, <2>1, RoomInHand DEF InHand
  <2>6. ~Drained /\ ~Drained'
    BY <2>1, <2>2, <2>3, TokensAssumption DEF Drained
  <2>7. ASSUME parked # <<>>
        PROVE  ~jobsClosed /\ arg[Head(parked)] \in Batches /\ arg[Head(parked)] \notin Box!Accepted
    <3>1. Head(parked) = parked[1] /\ 1 \in 1..Len(parked) /\ parked[1] \in Callers
      BY <1>a, <2>7 DEF ChanTypeOK
    <3>2. arg[Head(parked)] \in Batches /\ arg[Head(parked)] \notin ToSet(accepted)
      BY <3>1 DEF IInv, Waiters, Answers
    <3> QED
      BY <2>7, <3>2, BoxAccepted DEF IInv, Closing
  <2>8. jobs' = Tail(jobs) \o admitted
    BY <1>6, <2>1, <2>7 DEF Receive, BufferAfterReceive
  <2>9. admitted # <<>> => ~jobsClosed /\ admitted[1] \notin Box!Accepted
    BY <2>7
  <2>10. admitted \in {<<>>} \cup {<<b>> : b \in Batches}
    BY <2>7
  <2> HIDE DEF admitted
  <2>11. Box!Take(admitted)
    <3>1. UNCHANGED <<outcome, jobsClosed>> /\ Drained' = Drained
      BY <1>6, <2>6 DEF Receive, Drained
    <3> QED
      BY <2>1, <2>4, <2>5, <2>8, <2>9, <3>1 DEF Box!Take
  <2> QED
    BY <2>10, <2>11 DEF Box!Next, Box!Take
<1>7. ASSUME NEW w \in Workers, WorkerExit(w) PROVE [Box!Next]_(Box!vars)
  <2>1. \A v \in Workers : worker'[v] = IF v = w THEN Exited ELSE worker[v]
    BY <1>7, <1>a DEF WorkerExit, WorkTypeOK
  <2>2. {worker'[v] : v \in Workers} \cap Batches = {worker[v] : v \in Workers} \cap Batches
    BY <1>7, <2>1, TokensAssumption DEF WorkerExit
  <2>3. ~Drained
    BY <1>7, TokensAssumption DEF WorkerExit, Drained
  <2>4. CASE Drained'
    <3>1. {worker[v] : v \in Workers} \cap Batches = {}
      BY <2>1, <2>2, <2>4, TokensAssumption DEF Drained
    <3>2. Box!Stop
      BY <1>7, <2>2, <2>3, <2>4, <3>1 DEF WorkerExit, Box!Stop
    <3> QED
      BY <3>2 DEF Box!Next
  <2>5. CASE ~Drained'
    <3>1. UNCHANGED <<jobs, outcome, jobsClosed>> /\ Drained' = Drained
      BY <1>7, <2>3, <2>5 DEF WorkerExit, Drained
    <3> QED
      BY <2>2, <3>1 DEF Box!vars
  <2> QED
    BY <2>4, <2>5
<1>8. ASSUME NEW w \in Workers, SendEnds(w) PROVE Box!Next
  <2> PICK how \in {"returned", "cut"} : SendReturns(w, how)
    BY <1>8 DEF SendEnds
  <2>1. /\ worker[w] \in Batches
        /\ \A v \in Workers : worker'[v] = IF v = w THEN Idle ELSE worker[v]
        /\ \A b \in Batches : outcome'[b] = IF b = worker[w] THEN how ELSE outcome[b]
    BY <1>a DEF SendReturns, AfterSend, WorkTypeOK
  <2>2. {worker'[v] : v \in Workers} \cap Batches = ({worker[v] : v \in Workers} \cap Batches) \ {worker[w]}
    BY <1>b, <2>1, TokensAssumption DEF Hands
  <2>3. {b \in Batches : outcome'[b] # "none"} = {b \in Batches : outcome[b] # "none"} \cup {worker[w]}
    BY <2>1
  <2>4. ~Drained /\ ~Drained'
    BY <2>1, TokensAssumption DEF Drained
  <2>5. Box!Finish(worker[w])
    <3>1. UNCHANGED <<jobs, jobsClosed>> /\ Drained' = Drained
      BY <2>4 DEF SendReturns, Drained
    <3> QED
      BY <2>1, <2>2, <2>3, <3>1 DEF Box!Finish
  <2> QED
    BY <2>1, <2>5 DEF Box!Next, Box!Finish
<1>9. CASE UNCHANGED vars
  BY <1>9, <1>s DEF vars
<1> QED
  BY <1>1, <1>2, <1>3, <1>4, <1>5, <1>6, <1>7, <1>8, <1>9 DEF Next, SubmitStep, ShutdownStep, WorkerStep

-----------------------------------------------------------------------------

\* A batch is accepted once, is with at most one worker, and its Send has
\* come back at most once, for any number of goroutines (pool.go:63-77,
\* 100-105).
THEOREM BatchesInOnePlace == Spec => []InOnePlace
BY InitInOnePlace, NextInOnePlace, Invariance, PTL DEF Spec

\* Every step of the pool is a step of the Outbox or invisible to it
\* (pool.go:16-23): the first state maps to its first state, and the last
\* worker to leave stops it.
THEOREM PoolImplementsOutbox == Spec => ImplementsOutbox
BY InitBox, NextBox, Invariance, BatchesInOnePlace, PTL DEF Spec, ImplementsOutbox

-----------------------------------------------------------------------------
(***************************************************************************)
(* The process.  The agent's steps are steps of the pool, so the pool's    *)
(* invariants hold of it; they are used in the induction.  Added to them   *)
(* are                                                                     *)
(*   - InMain: how far main is, and that a report it made is the pool's    *)
(*     until main stops, there being no other caller that closes the pool; *)
(*   - Sending: a worker with a batch is in a call of retry.Do, whose      *)
(*     attempts are the requests made for that batch;                      *)
(*   - Told: what has been said of a batch whose Send has come back.       *)
(***************************************************************************)

Submitting == pc[Main] \in {"submitting", "parked"}

InMain ==
    /\ at \in {"loop", "final", "stopping", "stopped"}
    /\ Submitting => at \in {"loop", "final"}
    /\ at \in {"loop", "final"} => ~doneClosed /\ (Submitting \/ pc[Main] = "idle")
    /\ arg[Main] \in Batches /\ ~Submitting => arg[Main] \in ToSet(accepted)
    /\ at = "stopping" /\ pc[Main] = "idle" => result[Main] \in {"nil", "err"}
    /\ at = "stopped" => pc[Main] = "idle" /\ result[Main] \in {"nil", "err"}
    /\ at = "loop" => Report \in Batches

SenderTypeOK ==
    /\ call \in [Workers -> Do!Calls \cup {NoCall}]
    /\ posts \in [Batches -> 0..Do!MaxAttempts]
    /\ said \in [Batches -> Do!Outcomes \cup {"none"}]

Sending ==
    \A w \in Workers :
        /\ call[w] # NoCall <=> worker[w] \in Batches
        /\ call[w] # NoCall =>
               /\ said[worker[w]] = "none"
               /\ call[w].phase = "returned" => call[w].err = "fatal"
               /\ call[w].phase # "returned" => posts[worker[w]] = call[w].attempts
               /\ call[w].phase = "waiting" =>
                      call[w].err = "retriable" /\ call[w].attempts < Do!MaxAttempts

Told ==
    \A b \in Batches :
        /\ b \notin ToSet(started) => posts[b] = 0 /\ said[b] = "none"
        /\ outcome[b] # "none" => said[b] # "none"
        /\ said[b] = "ok" => b \in applied
        /\ said[b] = "retriable" => posts[b] = Do!MaxAttempts \/ expired

AInv == IInv /\ InOnePlace /\ InMain /\ SenderTypeOK /\ Sending /\ Told

-----------------------------------------------------------------------------
\* Calls of retry.Do.

LEMMA FourAttempts == Do!MaxAttempts = 4
BY DEF Do!MaxAttempts, Do!Delays

LEMMA BeginTyped ==
    /\ Do!Begin \in Do!Calls /\ Do!Begin.phase = "calling" /\ Do!Begin.attempts = 1
    /\ GaveUp \in Do!Calls /\ GaveUp.phase = "returned" /\ GaveUp.err = "fatal"
<1>1. 1 \in 1..Do!MaxAttempts
  BY FourAttempts
<1>2. Do!Begin \in Do!Calls /\ Do!Begin.phase = "calling" /\ Do!Begin.attempts = 1
  BY <1>1 DEF Do!Begin, Do!Calls, Do!Outcomes
<1> QED
  BY <1>2 DEF GaveUp, Do!Calls, Do!Outcomes

LEMMA AfterAttemptFields ==
    ASSUME NEW c \in Do!Calls, NEW outc \in Do!Outcomes
    PROVE  LET after == Do!AfterAttempt(c, outc) IN
           /\ after \in Do!Calls /\ after.err = outc /\ after.attempts = c.attempts
           /\ after.phase = IF outc = "retriable" /\ c.attempts < Do!MaxAttempts
                            THEN "waiting" ELSE "returned"
BY DEF Do!AfterAttempt, Do!Calls

LEMMA AfterDelayFields ==
    ASSUME NEW c \in Do!Calls, c.attempts < Do!MaxAttempts
    PROVE  LET after == Do!AfterDelay(c) IN
           /\ after \in Do!Calls /\ after.attempts = c.attempts + 1 /\ after.phase = "calling"
<1>1. c.attempts + 1 \in 1..Do!MaxAttempts
  BY FourAttempts DEF Do!Calls
<1> QED
  BY <1>1 DEF Do!AfterDelay, Do!Calls

LEMMA AfterCancelFields ==
    ASSUME NEW c \in Do!Calls
    PROVE  LET after == Do!AfterCancel(c) IN
           after \in Do!Calls /\ after.err = c.err /\ after.phase = "returned"
BY DEF Do!AfterCancel, Do!Calls

-----------------------------------------------------------------------------
\* The reports.

LEMMA ReportTyped ==
    /\ Cardinality(Batches) \in Nat
    /\ IsFiniteSet(Collected)
    /\ Cardinality(Collected) \in Nat
    /\ Report \in Nat \ {0}
<1>1. IsFiniteSet(Batches) /\ Cardinality(Batches) \in Nat
  BY ReportsAssumption, FS_CardinalityType
<1>2. IsFiniteSet(Collected)
  BY <1>1, FS_Subset DEF Collected
<1>3. Cardinality(Collected) \in Nat
  BY <1>2, FS_CardinalityType
<1> QED
  BY <1>1, <1>2, <1>3 DEF Report

LEMMA CollectedIs == Collected = {b \in Batches : b \in ToSet(accepted) \/ arg[Main] = b}
BY MainAssumption DEF Collected, Fresh

\* A batch that the pool lets in was the one in main's hands.
LEMMA CollectedStays ==
    ASSUME arg' = arg, \/ accepted' = accepted
                       \/ ToSet(accepted') = ToSet(accepted) \cup {arg[Main]}
    PROVE  Collected' = Collected /\ Report' = Report
<1>1. Collected' = {b \in Batches : b \in ToSet(accepted') \/ arg'[Main] = b}
  BY MainAssumption DEF Collected, Fresh
<1>2. Collected' = Collected
  BY <1>1, CollectedIs
<1> QED
  BY <1>2 DEF Report

LEMMA ReportAdvances ==
    ASSUME accepted' = accepted, arg \in [Callers -> Batches \cup {Idle}],
           arg' = [arg EXCEPT ![Main] = Report],
           Report + 1 \in Batches
    PROVE  Report' \in Batches
<1>1. Collected' = {b \in Batches : b \in ToSet(accepted') \/ arg'[Main] = b}
  BY MainAssumption DEF Collected, Fresh
<1>2. arg'[Main] = Report
  BY MainAssumption
<1>3. Collected' \subseteq Collected \cup {Report}
  BY <1>1, <1>2, CollectedIs
<1>4. /\ IsFiniteSet(Collected \cup {Report})
      /\ Cardinality(Collected \cup {Report}) \in Nat
      /\ Cardinality(Collected \cup {Report}) <= Cardinality(Collected) + 1
  <2>1. IsFiniteSet(Collected) /\ Cardinality(Collected) \in Nat
    BY ReportTyped
  <2>2. /\ IsFiniteSet(Collected \cup {Report})
        /\ Cardinality(Collected \cup {Report}) =
             IF Report \in Collected THEN Cardinality(Collected) ELSE Cardinality(Collected) + 1
    BY <2>1, FS_AddElement
  <2> QED
    BY <2>1, <2>2
<1>5. /\ Cardinality(Collected') \in Nat
      /\ Cardinality(Collected') <= Cardinality(Collected \cup {Report})
  BY <1>3, <1>4, FS_Subset, FS_CardinalityType
<1>6. Report' = Cardinality(Collected') + 1 /\ Report = Cardinality(Collected) + 1
  BY DEF Report
<1>7. Report' \in Int /\ 1 <= Report' /\ Report' <= Report + 1
  BY <1>4, <1>5, <1>6, ReportTyped
<1> QED
  BY <1>7, ReportsAssumption, ReportTyped

-----------------------------------------------------------------------------

LEMMA InitAInv == AgentInit => AInv
<1> SUFFICES ASSUME AgentInit PROVE AInv
  OBVIOUS
<1>1. IInv /\ InOnePlace
  BY InitIInv, InitInOnePlace DEF AgentInit
<1>2. SenderTypeOK
  BY FourAttempts DEF AgentInit, SenderTypeOK
<1>3. Sending /\ Told
  BY TokensAssumption DEF AgentInit, Init, Sending, Told
<1>4. Report \in Batches
  <2>1. Collected = {}
    BY CollectedIs, MainAssumption, TokensAssumption DEF AgentInit, Init, ToSet
  <2>2. Report = 1
    BY <2>1, FS_EmptySet DEF Report
  <2>3. Cardinality(Batches) # 0
    BY ReportsAssumption, FS_EmptySet
  <2> QED
    BY <2>2, <2>3, ReportsAssumption, ReportTyped
<1>5. InMain
  BY <1>4, MainAssumption, TokensAssumption DEF AgentInit, Init, InMain, Submitting
<1> QED
  BY <1>1, <1>2, <1>3, <1>5 DEF AInv

\* The steps of main leave the workers alone.
LEMMA WorkersLeftAlone ==
    ASSUME Sending, Told, SenderTypeOK,
           UNCHANGED <<started, worker, outcome, call, posts, applied, said>>,
           expired => expired'
    PROVE  Sending' /\ Told' /\ SenderTypeOK'
BY DEF Sending, Told, SenderTypeOK

\* A worker in a call holds a batch that was started, and nobody else does.
LEMMA HeldByOne ==
    ASSUME AInv, NEW w \in Workers, call[w] # NoCall
    PROVE  /\ worker[w] \in Batches /\ worker[w] \in ToSet(started) /\ call[w] \in Do!Calls
           /\ \A v \in Workers : worker[v] = worker[w] => v = w
           /\ cancelled => expired
BY TokensAssumption DEF AInv, Sending, SenderTypeOK, InOnePlace, Hands, IInv, Sends, Drained

\* What follows when the call of a worker goes on as c.
LEMMA GoesOn ==
    ASSUME AInv, NEW w \in Workers, NEW c \in Do!Calls, call[w] # NoCall, GoOn(w, c),
           UNCHANGED <<transport, at, signalled>>,
           applied \subseteq applied',
           posts' \in [Batches -> 0..Do!MaxAttempts],
           \A b \in Batches : b # worker[w] => posts'[b] = posts[b],
           c.phase # "returned" => posts'[worker[w]] = c.attempts,
           c.phase = "waiting" => c.err = "retriable" /\ c.attempts < Do!MaxAttempts,
           c.phase = "returned" =>
               /\ c.err = "ok" => worker[w] \in applied'
               /\ c.err = "retriable" => posts'[worker[w]] = Do!MaxAttempts \/ expired
    PROVE  [Next]_vars /\ InMain' /\ SenderTypeOK' /\ Sending' /\ Told'
<1> DEFINE b == worker[w]
<1>a. IInv /\ InOnePlace /\ InMain /\ SenderTypeOK /\ Sending /\ Told
  BY DEF AInv
<1>b. /\ b \in Batches /\ b \in ToSet(started) /\ b # Idle
      /\ \A v \in Workers : worker[v] = b => v = w
  BY HeldByOne, TokensAssumption
<1>1. CASE c.phase = "returned"
  <2> DEFINE how == IF cancelled /\ c.err # "ok" THEN "cut" ELSE "returned"
  <2>1. /\ SendReturns(w, how)
        /\ call' = [call EXCEPT ![w] = NoCall]
        /\ said' = [said EXCEPT ![b] = c.err]
    BY <1>1 DEF GoOn
  <2>2. how \in {"returned", "cut"}
    OBVIOUS
  <2>3. Next
    BY <2>1, <2>2 DEF Next, WorkerStep, SendEnds
  <2>4. UNCHANGED <<chanVars, callVars, history>>
    BY <2>1 DEF SendReturns
  <2>5. Report' = Report
    BY <2>4, CollectedStays DEF callVars, history
  <2>6. InMain'
    BY <1>a, <2>4, <2>5 DEF InMain, Submitting, chanVars, callVars, history
  <2>7. c.err \in Do!Outcomes
    BY DEF Do!Calls
  <2>8. /\ \A v \in Workers : call'[v] = IF v = w THEN NoCall ELSE call[v]
        /\ \A d \in Batches : said'[d] = IF d = b THEN c.err ELSE said[d]
        /\ \A v \in Workers : worker'[v] = IF v = w THEN Idle ELSE worker[v]
        /\ \A d \in Batches : outcome'[d] = IF d = b THEN how ELSE outcome[d]
    BY <1>a, <2>1 DEF SenderTypeOK, SendReturns, AfterSend, IInv, TypeOK, WorkTypeOK
  <2>9. SenderTypeOK'
    BY <1>a, <2>1, <2>7 DEF SenderTypeOK
  <2>10. Sending'
    BY <1>a, <1>b, <2>8, TokensAssumption DEF Sending
  <2>11. c.err # "none"
    BY <2>7 DEF Do!Outcomes
  <2>12. started' = started /\ expired' = expired
    BY <2>4 DEF history
  <2> HIDE DEF how
  <2>13. Told'
    BY <1>1, <1>a, <1>b, <2>8, <2>11, <2>12 DEF Told
  <2> QED
    BY <2>3, <2>6, <2>9, <2>10, <2>13
<1>2. CASE c.phase # "returned"
  <2>1. /\ call' = [call EXCEPT ![w] = c] /\ UNCHANGED <<vars, said>>
    BY <1>2 DEF GoOn
  <2>2. UNCHANGED <<chanVars, callVars, workVars, history>>
    BY <2>1 DEF vars
  <2>3. Report' = Report
    BY <2>2, CollectedStays DEF callVars, history
  <2>4. InMain'
    BY <1>a, <2>2, <2>3 DEF InMain, Submitting, chanVars, callVars, history
  <2>5. SenderTypeOK'
    BY <1>a, <2>1 DEF SenderTypeOK
  <2>6. /\ \A v \in Workers : call'[v] = IF v = w THEN c ELSE call[v]
        /\ c # NoCall
    BY <1>a, <2>1, CallAssumption DEF SenderTypeOK
  <2>7. Sending'
    BY <1>2, <1>a, <1>b, <2>1, <2>2, <2>6 DEF Sending, workVars
  <2>8. said[b] = "none"
    BY <1>a DEF Sending
  <2>9. Told'
    BY <1>a, <1>b, <2>1, <2>2, <2>8 DEF Told, workVars, history
  <2> QED
    BY <2>1, <2>4, <2>5, <2>7, <2>9
<1> QED
  BY <1>1, <1>2

-----------------------------------------------------------------------------
\* Main, action by action.

LEMMA MainStep ==
    ASSUME AInv, \/ Signal \/ Tick \/ FinalReport \/ StartShutdown \/ Stop \/ MainInPool
    PROVE  [Next]_vars /\ InMain' /\ SenderTypeOK' /\ Sending' /\ Told'
<1>a. IInv /\ InOnePlace /\ InMain /\ SenderTypeOK /\ Sending /\ Told
  BY DEF AInv
<1>b. /\ pc \in [Callers -> {"idle", "submitting", "parked", "once", "closing", "waiting", "aborting"}]
      /\ arg \in [Callers -> Batches \cup {Idle}]
      /\ result \in [Callers -> {"none", "true", "false", "nil", "err"}]
      /\ accepted \in Seq(Batches)
      /\ Main \in Callers
      /\ jobsClosed => doneClosed
  BY <1>a, MainAssumption DEF IInv, TypeOK, CallTypeOK, HistoryTypeOK, Closing
<1> DEFINE Leaves == /\ UNCHANGED <<started, worker, outcome, call, posts, applied, said>>
                     /\ expired => expired'
<1>c. Leaves => SenderTypeOK' /\ Sending' /\ Told'
  BY <1>a, WorkersLeftAlone
<1>1. CASE Signal
  <2>1. UNCHANGED vars /\ Leaves /\ UNCHANGED at
    BY <1>1 DEF Signal, vars, workVars, history
  <2>2. UNCHANGED <<chanVars, callVars, history>>
    BY <2>1 DEF vars
  <2>3. Report' = Report
    BY <2>2, CollectedStays DEF callVars, history
  <2>4. InMain'
    BY <1>a, <2>1, <2>2, <2>3 DEF InMain, Submitting, chanVars, callVars, history
  <2> QED
    BY <1>c, <2>1, <2>4
<1>2. CASE Tick
  <2>1. /\ at = "loop" /\ Report \in Batches /\ Report + 1 \in Batches
        /\ SubmitCheck(Main, Report) /\ UNCHANGED agentVars
    BY <1>2, <1>a DEF Tick, InMain
  <2>2. Next
    BY <1>b, <2>1 DEF Next
  <2>3. Leaves /\ UNCHANGED at
    BY <2>1 DEF agentVars, SubmitCheck, workVars, history
  <2>4. /\ ~doneClosed /\ ~doneClosed' /\ accepted' = accepted
        /\ arg' = [arg EXCEPT ![Main] = Report]
        /\ pc'[Main] = "submitting"
    BY <1>a, <1>b, <2>1 DEF SubmitCheck, NotStopping, InMain, chanVars, history
  <2>5. Report' \in Batches
    BY <1>b, <2>1, <2>4, ReportAdvances
  <2>6. InMain'
    BY <1>a, <2>1, <2>3, <2>4, <2>5 DEF InMain, Submitting
  <2> QED
    BY <1>c, <2>2, <2>3, <2>6
<1>3. CASE FinalReport
  <2>1. /\ at = "loop" /\ Report \in Batches
        /\ SubmitCheck(Main, Report) /\ at' = "final"
        /\ UNCHANGED <<transport, signalled, call, posts, applied, said>>
    BY <1>3, <1>a DEF FinalReport, InMain
  <2>2. Next
    BY <1>b, <2>1 DEF Next
  <2>3. Leaves
    BY <2>1 DEF SubmitCheck, workVars, history
  <2>4. ~doneClosed /\ ~doneClosed' /\ pc'[Main] = "submitting"
    BY <1>a, <1>b, <2>1 DEF SubmitCheck, NotStopping, InMain, chanVars
  <2>5. InMain'
    BY <2>1, <2>4 DEF InMain, Submitting
  <2> QED
    BY <1>c, <2>2, <2>3, <2>5
<1>4. CASE StartShutdown
  <2>1. /\ at = "final" /\ ShutdownCall(Main) /\ at' = "stopping"
        /\ UNCHANGED <<transport, signalled, call, posts, applied, said>>
    BY <1>4 DEF StartShutdown
  <2>2. Next
    BY <1>b, <2>1 DEF Next
  <2>3. Leaves
    BY <2>1 DEF ShutdownCall, workVars, history
  <2>4. pc[Main] = "idle" /\ pc'[Main] = "once" /\ accepted' = accepted /\ arg' = arg
    BY <1>b, <2>1 DEF ShutdownCall, history
  <2>5. InMain'
    BY <1>a, <2>1, <2>4 DEF InMain, Submitting
  <2> QED
    BY <1>c, <2>2, <2>3, <2>5
<1>5. CASE Stop
  <2>1. /\ at = "stopping" /\ pc[Main] = "idle" /\ at' = "stopped"
        /\ UNCHANGED vars /\ UNCHANGED <<transport, signalled, call, posts, applied, said>>
    BY <1>5 DEF Stop
  <2>2. Leaves /\ UNCHANGED <<pc, arg, result, accepted>>
    BY <2>1 DEF vars, workVars, callVars, history
  <2>3. InMain'
    BY <1>a, <2>1, <2>2 DEF InMain, Submitting
  <2> QED
    BY <1>c, <2>1, <2>2, <2>3
<1>6. CASE MainInPool
  <2>1. (SubmitStep(Main) \/ ShutdownStep(Main)) /\ UNCHANGED agentVars
    BY <1>6 DEF MainInPool
  <2>2. Next
    BY <1>b, <2>1 DEF Next
  <2>3. UNCHANGED <<at, call, posts, applied, said>>
    BY <2>1 DEF agentVars
  <2>4. CASE SubmitEnqueue(Main)
    <3>1. /\ accepted' = Append(accepted, arg[Main]) /\ arg' = arg /\ doneClosed' = doneClosed
          /\ pc[Main] = "submitting" /\ pc'[Main] = "idle"
      BY <1>b, <2>4 DEF SubmitEnqueue, Return
    <3>2. arg[Main] \in Batches
      BY <1>a, <1>b, <3>1 DEF IInv, Answers
    <3>3. ToSet(accepted') = ToSet(accepted) \cup {arg[Main]}
      BY <1>b, <3>1, <3>2, AppendElements
    <3>4. Report' = Report
      BY <3>1, <3>3, CollectedStays
    <3>5. InMain'
      BY <1>a, <2>3, <3>1, <3>3, <3>4 DEF InMain, Submitting
    <3>6. Leaves
      BY <2>3, <2>4 DEF SubmitEnqueue, workVars
    <3> QED
      BY <1>c, <2>2, <3>5, <3>6
  <2>5. CASE SubmitRefuse(Main) \/ SubmitPanic(Main)
    <3>1. FALSE
      BY <1>a, <1>b, <2>5 DEF SubmitRefuse, SubmitPanic, InMain, Submitting
    <3> QED
      BY <3>1
  <2>6. CASE SubmitPark(Main)
    <3>1. /\ accepted' = accepted /\ arg' = arg /\ doneClosed' = doneClosed
          /\ pc[Main] = "submitting" /\ pc'[Main] = "parked"
      BY <1>b, <2>6 DEF SubmitPark, history
    <3>2. Report' = Report
      BY <3>1, CollectedStays
    <3>3. InMain'
      BY <1>a, <2>3, <3>1, <3>2 DEF InMain, Submitting
    <3>4. Leaves
      BY <2>3, <2>6 DEF SubmitPark, workVars, history
    <3> QED
      BY <1>c, <2>2, <3>3, <3>4
  <2>7. CASE ShutdownStep(Main)
    <3>1. /\ pc[Main] \in {"once", "closing", "waiting", "aborting"}
          /\ UNCHANGED <<arg, accepted, started, worker, outcome>> /\ (expired => expired')
      BY <2>7 DEF ShutdownStep, CloseDone, CloseJobs, OnceAlreadyDone,
                  ShutdownDrained, ShutdownExpired, ShutdownAborted, workVars, history
    <3>2. \/ pc'[Main] \in {"closing", "waiting", "aborting"}
          \/ pc'[Main] = "idle" /\ result'[Main] \in {"nil", "err"}
      BY <1>b, <2>7 DEF ShutdownStep, CloseDone, CloseJobs, OnceAlreadyDone,
                        ShutdownDrained, ShutdownExpired, ShutdownAborted, Return
    <3>3. Report' = Report
      BY <3>1, CollectedStays
    <3>4. InMain'
      BY <1>a, <2>3, <3>1, <3>2, <3>3 DEF InMain, Submitting
    <3> QED
      BY <1>c, <2>2, <2>3, <3>1, <3>4
  <2> QED
    BY <2>1, <2>4, <2>5, <2>6, <2>7 DEF SubmitStep
<1> QED
  BY <1>1, <1>2, <1>3, <1>4, <1>5, <1>6

-----------------------------------------------------------------------------
\* A worker, action by action.

LEMMA TakeStep ==
    ASSUME AInv, NEW w \in Workers, Take(w)
    PROVE  [Next]_vars /\ InMain' /\ SenderTypeOK' /\ Sending' /\ Told'
<1> DEFINE b == Head(jobs)
<1>a. IInv /\ InOnePlace /\ InMain /\ SenderTypeOK /\ Sending /\ Told
  BY DEF AInv
<1>b. /\ Receive(w) /\ UNCHANGED <<transport, at, signalled, applied, said>>
      /\ \/ call' = [call EXCEPT ![w] = GaveUp] /\ UNCHANGED posts
         \/ call' = [call EXCEPT ![w] = Do!Begin] /\ posts' = [posts EXCEPT ![b] = @ + 1]
  BY DEF Take
<1>c. /\ jobs \in Seq(Batches) /\ jobs # <<>> /\ started \in Seq(Batches)
      /\ accepted \in Seq(Batches) /\ parked \in Seq(Callers)
      /\ arg \in [Callers -> Batches \cup {Idle}]
      /\ pc \in [Callers -> {"idle", "submitting", "parked", "once", "closing", "waiting", "aborting"}]
      /\ result \in [Callers -> {"none", "true", "false", "nil", "err"}]
      /\ Main \in Callers
  BY <1>a, <1>b, MainAssumption DEF Receive, IInv, TypeOK, ChanTypeOK, CallTypeOK, HistoryTypeOK
<1>1. Next
  BY <1>b DEF Next, WorkerStep
<1>2. b \in Batches /\ b \in ToSet(jobs)
  BY <1>c DEF ToSet
<1>3. b \notin ToSet(started)
  BY <1>a, <1>2, ElementsSplit DEF InOnePlace
<1>4. /\ posts[b] = 0 /\ said[b] = "none"
      /\ worker[w] = Idle /\ outcome' = outcome /\ expired' = expired
      /\ ToSet(started') = ToSet(started) \cup {b}
      /\ \A v \in Workers : worker'[v] = IF v = w THEN b ELSE worker[v]
  BY <1>a, <1>b, <1>c, <1>2, <1>3, AppendElements DEF Told, Receive, IInv, TypeOK, WorkTypeOK
<1>5. \A v \in Workers : v # w => worker[v] # b
  BY <1>a, <1>2, <1>3 DEF InOnePlace, Hands
<1>6. call'[w] \in {GaveUp, Do!Begin} /\ call'[w] \in Do!Calls /\ call'[w] # NoCall
      /\ \A v \in Workers : v # w => call'[v] = call[v]
  BY <1>a, <1>b, BeginTyped, CallAssumption DEF SenderTypeOK
<1>7. /\ posts'[b] \in {0, 1} /\ (call'[w] = Do!Begin => posts'[b] = 1 \/ Do!Begin = GaveUp)
      /\ \A d \in Batches : d # b => posts'[d] = posts[d]
      /\ posts' \in [Batches -> 0..Do!MaxAttempts]
  BY <1>a, <1>b, <1>2, <1>4, <1>6, FourAttempts DEF SenderTypeOK
<1>8. SenderTypeOK'
  BY <1>a, <1>b, <1>7, BeginTyped DEF SenderTypeOK
<1>9. Do!Begin # GaveUp
  BY BeginTyped
<1>10. /\ call'[w].phase = "returned" => call'[w].err = "fatal"
       /\ call'[w].phase # "returned" => posts'[b] = call'[w].attempts
       /\ call'[w].phase # "waiting"
  BY <1>6, <1>7, <1>9, BeginTyped
<1>11. Sending'
  BY <1>a, <1>b, <1>2, <1>4, <1>5, <1>6, <1>7, <1>10 DEF Sending
<1>12. Told'
  BY <1>a, <1>b, <1>2, <1>4, <1>7 DEF Told
<1>13. InMain'
  <2>1. CASE parked = <<>>
    <3>1. UNCHANGED <<pc, result, arg, accepted, doneClosed>>
      BY <1>b, <2>1 DEF Receive
    <3>2. Report' = Report
      BY <3>1, CollectedStays
    <3> QED
      BY <1>a, <1>b, <3>1, <3>2 DEF InMain, Submitting
  <2>2. CASE parked # <<>>
    <3>1. Head(parked) = parked[1] /\ 1 \in 1..Len(parked) /\ parked[1] \in Callers
      BY <1>c, <2>2
    <3>2. Head(parked) = Main /\ pc[Main] = "parked"
      BY <1>a, <3>1, MainAssumption DEF IInv, Waiters
    <3>3. arg[Main] \in Batches
      BY <1>a, <1>c, <3>2 DEF IInv, Answers
    <3>4. /\ accepted' = Append(accepted, arg[Main]) /\ arg' = arg /\ doneClosed' = doneClosed
          /\ pc'[Main] = "idle"
      BY <1>b, <1>c, <2>2, <3>2 DEF Receive, Return
    <3>5. ToSet(accepted') = ToSet(accepted) \cup {arg[Main]}
      BY <1>c, <3>3, <3>4, AppendElements
    <3>6. Report' = Report
      BY <3>4, <3>5, CollectedStays
    <3> QED
      BY <1>a, <1>b, <3>2, <3>4, <3>5, <3>6 DEF InMain, Submitting
  <2> QED
    BY <2>1, <2>2
<1> QED
  BY <1>1, <1>8, <1>11, <1>12, <1>13

\* A request of w comes back as the attempt's result outc.
LEMMA AttemptStep ==
    ASSUME AInv, NEW w \in Workers, In(w, "calling"), NEW outc \in Do!Outcomes,
           GoOn(w, Do!AfterAttempt(call[w], outc)),
           UNCHANGED <<transport, at, signalled, posts>>,
           applied \subseteq applied',
           outc = "ok" => worker[w] \in applied'
    PROVE  [Next]_vars /\ InMain' /\ SenderTypeOK' /\ Sending' /\ Told'
<1> DEFINE c == Do!AfterAttempt(call[w], outc)
<1>1. /\ call[w] # NoCall /\ call[w] \in Do!Calls /\ worker[w] \in Batches
      /\ posts[worker[w]] = call[w].attempts
  BY HeldByOne DEF In, AInv, Sending
<1>2. /\ c \in Do!Calls /\ c.err = outc /\ c.attempts = call[w].attempts
      /\ c.phase = IF outc = "retriable" /\ call[w].attempts < Do!MaxAttempts
                   THEN "waiting" ELSE "returned"
  BY <1>1, AfterAttemptFields
<1>3. posts' = posts /\ posts \in [Batches -> 0..Do!MaxAttempts]
  BY DEF AInv, SenderTypeOK
<1>4. call[w].attempts \in 1..Do!MaxAttempts
  BY <1>1 DEF Do!Calls
<1>5. outc = "retriable" /\ c.phase = "returned" => call[w].attempts = Do!MaxAttempts
  BY <1>2, <1>4, FourAttempts
<1> HIDE DEF c
<1>6. GoOn(w, c)
  BY DEF c
<1> QED
  BY <1>1, <1>2, <1>3, <1>5, <1>6, GoesOn

LEMMA WorkerSteps ==
    ASSUME AInv, NEW w \in Workers,
           Answer(w) \/ CutRequest(w) \/ Repeat(w) \/ CutWait(w) \/ GiveUp(w) \/ LeavePool(w)
    PROVE  [Next]_vars /\ InMain' /\ SenderTypeOK' /\ Sending' /\ Told'
<1>a. IInv /\ InOnePlace /\ InMain /\ SenderTypeOK /\ Sending /\ Told
  BY DEF AInv
<1>b. posts \in [Batches -> 0..Do!MaxAttempts]
  BY <1>a DEF SenderTypeOK
<1>1. CASE Answer(w)
  <2> PICK answer \in Do!Outcomes :
        /\ GoOn(w, Do!AfterAttempt(call[w], answer))
        /\ \/ applied' = applied \cup {worker[w]} /\ (answer = "ok" \/ MayApply)
           \/ UNCHANGED applied /\ answer # "ok"
    BY <1>1 DEF Answer
  <2> QED
    BY <1>1, AttemptStep DEF Answer
<1>2. CASE CutRequest(w)
  <2>1. CancelledRequest \in Do!Outcomes /\ CancelledRequest # "ok"
    BY DEF CancelledRequest, Do!Outcomes
  <2>2. applied \subseteq applied'
    BY <1>2 DEF CutRequest
  <2> QED
    BY <1>2, <2>1, <2>2, AttemptStep DEF CutRequest
<1>3. CASE Repeat(w)
  <2> DEFINE c == Do!AfterDelay(call[w])
  <2>1. /\ call[w] # NoCall /\ call[w] \in Do!Calls /\ worker[w] \in Batches
        /\ posts[worker[w]] = call[w].attempts /\ call[w].attempts < Do!MaxAttempts
    BY <1>3, HeldByOne DEF Repeat, In, AInv, Sending
  <2>2. c \in Do!Calls /\ c.attempts = call[w].attempts + 1 /\ c.phase = "calling"
    BY <2>1, AfterDelayFields
  <2>3. /\ posts'[worker[w]] = c.attempts
        /\ posts' \in [Batches -> 0..Do!MaxAttempts]
        /\ \A b \in Batches : b # worker[w] => posts'[b] = posts[b]
    BY <1>3, <1>b, <2>1, <2>2, FourAttempts DEF Repeat
  <2>4. UNCHANGED <<transport, at, signalled, applied>> /\ GoOn(w, c)
    BY <1>3 DEF Repeat
  <2> HIDE DEF c
  <2> QED
    BY <2>1, <2>2, <2>3, <2>4, GoesOn
<1>4. CASE CutWait(w)
  <2> DEFINE c == Do!AfterCancel(call[w])
  <2>1. call[w] # NoCall /\ call[w] \in Do!Calls /\ call[w].err = "retriable" /\ expired
    BY <1>4, HeldByOne DEF CutWait, In, AInv, Sending
  <2>2. c \in Do!Calls /\ c.err = "retriable" /\ c.phase = "returned"
    BY <2>1, AfterCancelFields
  <2>3. UNCHANGED <<transport, at, signalled, posts, applied>> /\ GoOn(w, c)
    BY <1>4 DEF CutWait
  <2> HIDE DEF c
  <2> QED
    BY <1>b, <2>1, <2>2, <2>3, GoesOn
<1>5. CASE GiveUp(w)
  <2>1. call[w] # NoCall /\ call[w] \in Do!Calls /\ call[w].phase = "returned" /\ call[w].err = "fatal"
    BY <1>5, HeldByOne DEF GiveUp, In, AInv, Sending
  <2>2. UNCHANGED <<transport, at, signalled, posts, applied>> /\ GoOn(w, call[w])
    BY <1>5 DEF GiveUp
  <2> QED
    BY <1>b, <2>1, <2>2, GoesOn
<1>6. CASE LeavePool(w)
  <2>1. WorkerExit(w) /\ UNCHANGED agentVars
    BY <1>6 DEF LeavePool
  <2>2. Next
    BY <2>1 DEF Next, WorkerStep
  <2>3. UNCHANGED <<chanVars, callVars, history, outcome>>
    BY <2>1 DEF WorkerExit
  <2>4. Report' = Report
    BY <2>3, CollectedStays DEF callVars, history
  <2>5. InMain'
    BY <1>a, <2>1, <2>3, <2>4 DEF InMain, Submitting, chanVars, callVars, history, agentVars
  <2>6. \A v \in Workers : worker'[v] = IF v = w THEN Exited ELSE worker[v]
    BY <1>a, <2>1 DEF WorkerExit, IInv, TypeOK, WorkTypeOK
  <2>7. worker[w] = Idle
    BY <2>1 DEF WorkerExit
  <2>8. UNCHANGED <<call, posts, said>>
    BY <2>1 DEF agentVars
  <2>9. Sending'
    BY <1>a, <2>6, <2>7, <2>8, TokensAssumption DEF Sending
  <2>10. SenderTypeOK' /\ Told'
    BY <1>a, <2>1, <2>3 DEF SenderTypeOK, Told, agentVars, history
  <2> QED
    BY <2>2, <2>5, <2>9, <2>10
<1> QED
  BY <1>1, <1>2, <1>3, <1>4, <1>5, <1>6

-----------------------------------------------------------------------------

LEMMA NextAInv == AInv /\ [AgentNext]_allVars => [Next]_vars /\ AInv'
<1> SUFFICES ASSUME AInv, [AgentNext]_allVars PROVE [Next]_vars /\ AInv'
  OBVIOUS
<1> DEFINE Goal == [Next]_vars /\ InMain' /\ SenderTypeOK' /\ Sending' /\ Told'
<1>1. ASSUME UNCHANGED allVars PROVE Goal
  <2>1. UNCHANGED vars /\ UNCHANGED <<at, call, posts, applied, said>>
    BY <1>1 DEF allVars, agentVars
  <2>2. UNCHANGED <<chanVars, callVars, workVars, history>>
    BY <2>1 DEF vars
  <2>3. Report' = Report
    BY <2>2, CollectedStays DEF callVars, history
  <2>4. InMain'
    BY <2>1, <2>2, <2>3 DEF AInv, InMain, Submitting, chanVars, callVars, history
  <2>5. SenderTypeOK' /\ Sending' /\ Told'
    BY <2>1, <2>2, WorkersLeftAlone DEF AInv, workVars, history
  <2> QED
    BY <2>1, <2>4, <2>5
<1>2. ASSUME \/ Signal \/ Tick \/ FinalReport \/ StartShutdown \/ Stop \/ MainInPool PROVE Goal
  BY <1>2, MainStep
<1>3. ASSUME NEW w \in Workers, Take(w) PROVE Goal
  BY <1>3, TakeStep
<1>4. ASSUME NEW w \in Workers,
             Answer(w) \/ CutRequest(w) \/ Repeat(w) \/ CutWait(w) \/ GiveUp(w) \/ LeavePool(w)
      PROVE  Goal
  BY <1>4, WorkerSteps
<1> HIDE DEF Goal
<1>5. Goal
  BY <1>1, <1>2, <1>3, <1>4 DEF AgentNext
<1>6. IInv' /\ InOnePlace'
  BY <1>5, NextIInv, NextInOnePlace DEF AInv, Goal
<1> QED
  BY <1>5, <1>6 DEF AInv, Goal

LEMMA AgentInvariance == AgentSafeSpec => []AInv
BY InitAInv, NextAInv, PTL DEF AgentSafeSpec

-----------------------------------------------------------------------------

\* The agent uses the pool as the pool allows: what main and the workers do
\* to it are steps of AgentPool, so its properties hold in the process
\* (main.go:136-171).
THEOREM AgentIsPool == AgentSafeSpec => Spec
<1>1. AgentInit => Init
  BY DEF AgentInit
<1> QED
  BY <1>1, NextAInv, AgentInvariance, PTL DEF AgentSafeSpec, Spec

\* Send does not report success of a batch the server did not apply, and no
\* batch is sent more than four times (retry.go:16, sender.go:116-140).
THEOREM NoFalseSuccess == AgentSafeSpec => []Acknowledged
<1>1. AInv => Acknowledged
  BY FourAttempts DEF AInv, SenderTypeOK, Told, Acknowledged
<1> QED
  BY <1>1, AgentInvariance, PTL

\* When main has returned, every report it collected was accepted, and was
\* acknowledged, refused for good or tried four times, unless the shutdown's
\* context expired (main.go:158-171, pool.go:80-105).
THEOREM NoReportLostSilently == AgentSafeSpec => []NoSilentLoss
<1>1. ASSUME AInv PROVE NoSilentLoss
  <2> SUFFICES ASSUME at = "stopped", NEW b \in Collected
               PROVE  /\ b \in ToSet(accepted)
                      /\ \/ said[b] \in {"ok", "fatal"}
                         \/ posts[b] = Do!MaxAttempts
                         \/ expired
    BY DEF NoSilentLoss
  <2>1. b \in Batches /\ b \in ToSet(accepted)
    BY <1>1, CollectedIs DEF AInv, InMain, Submitting
  <2>2. Main \in Callers /\ result[Main] \in {"nil", "err"}
    BY <1>1, MainAssumption DEF AInv, InMain
  <2>3. outcome[b] # "none"
    <3>1. ShutdownComplete
      BY <1>1, CompleteFromInv DEF AInv
    <3>2. PICK i \in 1..Len(accepted) : accepted[i] = b
      <4>1. accepted \in Seq(Batches)
        BY <1>1 DEF AInv, IInv, TypeOK, HistoryTypeOK
      <4> QED
        BY <2>1, <4>1 DEF ToSet
    <3> QED
      BY <2>2, <3>1, <3>2 DEF ShutdownComplete
  <2>4. said[b] \in Do!Outcomes
    BY <1>1, <2>1, <2>3 DEF AInv, SenderTypeOK, Told
  <2> QED
    BY <1>1, <2>1, <2>4 DEF AInv, Told, Do!Outcomes
<1> QED
  BY <1>1, AgentInvariance, PTL

\* Main is the only caller, so no Submit meets a closed channel
\* (pool.go:21-23).
THEOREM AgentNeverPanics == AgentSafeSpec => []NoPanic
<1>1. \A c, d \in Callers : c = d
  BY MainAssumption
<1>2. Spec => []NoPanic
  BY <1>1, SingleCallerNeverPanics
<1> QED
  BY <1>2, AgentIsPool, PTL

-----------------------------------------------------------------------------
(***************************************************************************)
(* The server's gauges (module Delivery).  Reports are accepted in the     *)
(* order of their snapshots, so the gauges go back only when a request     *)
(* that was given up arrives, or when two are under way at once.           *)
(***************************************************************************)

DeliveryTypeOK ==
    /\ polls \in Nat /\ report \in [Batches -> Nat]
    /\ gauge \in Nat /\ pending \in [Batches -> Nat]
    /\ strayed \in BOOLEAN /\ overlapped \in BOOLEAN

\* What is accepted later was collected no earlier.
InOrder ==
    /\ \A b \in Batches : report[b] <= polls
    /\ \A i, j \in 1..Len(accepted) : i <= j => report[accepted[i]] <= report[accepted[j]]
    /\ Submitting => \A b \in ToSet(accepted) : report[b] <= report[arg[Main]]

\* The reports the server has yet to see in good order.
ToCome == {b \in Batches : \/ \E w \in Workers : worker[w] = b
                           \/ b \in ToSet(jobs)
                           \/ (Submitting /\ arg[Main] = b)}

Behind ==
    /\ gauge <= polls
    /\ ~strayed => \A b \in Batches : pending[b] = 0
    /\ ~overlapped => \A v, w \in Workers : worker[v] \in Batches /\ worker[w] \in Batches => v = w
    /\ ~strayed /\ ~overlapped => \A b \in ToCome : gauge <= report[b]

DInv == AInv /\ DeliveryTypeOK /\ InOrder /\ Behind

LEMMA DeliveryIsAgent == DeliveryNext => [AgentNext]_allVars
BY DEF DeliveryNext, Collect, ReportMetrics, Others, Serve, Send, ComeBack, ServeLate, AgentNext

\* Facts at hand in the steps below.
LEMMA Facts ==
    ASSUME AInv
    PROVE  /\ Main \in Callers
           /\ jobs \in Seq(Batches) /\ started \in Seq(Batches) /\ accepted \in Seq(Batches)
           /\ pc \in [Callers -> {"idle", "submitting", "parked", "once", "closing", "waiting", "aborting"}]
           /\ arg \in [Callers -> Batches \cup {Idle}]
           /\ result \in [Callers -> {"none", "true", "false", "nil", "err"}]
           /\ DOMAIN worker = Workers
           /\ ToSet(jobs) \subseteq ToSet(accepted) /\ ToSet(accepted) \subseteq Batches
           /\ \A w \in Workers : worker[w] \in Batches => worker[w] \in ToSet(accepted)
           /\ Submitting => arg[Main] \in Batches /\ arg[Main] \notin ToSet(accepted)
<1>1. IInv /\ InOnePlace /\ Main \in Callers
  BY MainAssumption DEF AInv
<1>2. ToSet(started) \cup ToSet(jobs) = ToSet(accepted)
  BY <1>1, ElementsSplit
<1>3. /\ jobs \in Seq(Batches) /\ started \in Seq(Batches) /\ accepted \in Seq(Batches)
      /\ pc \in [Callers -> {"idle", "submitting", "parked", "once", "closing", "waiting", "aborting"}]
      /\ arg \in [Callers -> Batches \cup {Idle}]
      /\ result \in [Callers -> {"none", "true", "false", "nil", "err"}]
      /\ DOMAIN worker = Workers
  BY <1>1 DEF IInv, TypeOK, ChanTypeOK, CallTypeOK, WorkTypeOK, HistoryTypeOK
<1>4. ToSet(accepted) \subseteq Batches
  BY <1>3 DEF ToSet
<1> QED
  BY <1>1, <1>2, <1>3, <1>4 DEF InOnePlace, Hands, IInv, Answers, Submitting

\* A batch being sent was collected no later than one still in the queue.
LEMMA SentBeforeQueued ==
    ASSUME AInv, InOrder, NEW b \in ToSet(started), NEW d \in ToSet(jobs)
    PROVE  report[b] <= report[d]
<1>1. started \in Seq(Batches) /\ jobs \in Seq(Batches) /\ accepted = started \o jobs
  BY Facts, Zenon DEF AInv, IInv, Fifo
<1>2. PICK i \in 1..Len(started) : started[i] = b
  BY <1>1 DEF ToSet
<1>3. PICK j \in 1..Len(jobs) : jobs[j] = d
  BY <1>1 DEF ToSet
<1>4. /\ i \in 1..Len(accepted) /\ j + Len(started) \in 1..Len(accepted) /\ i <= j + Len(started)
      /\ accepted[i] = b /\ accepted[j + Len(started)] = d
  BY <1>1, <1>2, <1>3
<1> QED
  BY <1>4 DEF InOrder

\* Neither the collector nor the end of a request brings a report forward.
LEMMA NothingNew ==
    ASSUME DInv, DeliveryTypeOK',
           polls <= polls', UNCHANGED <<report, gauge, overlapped, accepted, arg, jobs>>,
           Submitting' => Submitting,
           \A w \in Workers : worker'[w] \in {worker[w], Idle, Exited},
           strayed => strayed',
           ~strayed' => pending' = pending
    PROVE  InOrder' /\ Behind'
<1>a. AInv /\ DeliveryTypeOK /\ InOrder /\ Behind
  BY DEF DInv
<1>1. InOrder'
  BY <1>a DEF InOrder, DeliveryTypeOK
<1>2. ToCome' \subseteq ToCome
  BY TokensAssumption DEF ToCome
<1>3. \A w \in Workers : worker'[w] \in Batches => worker'[w] = worker[w]
  BY TokensAssumption
<1> QED
  BY <1>a, <1>1, <1>2, <1>3 DEF Behind, DeliveryTypeOK

\* The batch in main's hands is let in.
LEMMA LetIn ==
    ASSUME AInv, InOrder, Submitting, report' = report, polls' = polls,
           accepted' = Append(accepted, arg[Main]), ~Submitting',
           report \in [Batches -> Nat]
    PROVE  InOrder'
<1>1. /\ accepted \in Seq(Batches) /\ arg[Main] \in Batches
      /\ \A i \in 1..Len(accepted) : accepted[i] \in ToSet(accepted)
  BY Facts DEF ToSet
<1>2. /\ Len(accepted) \in Nat /\ Len(accepted') = Len(accepted) + 1
      /\ accepted'[Len(accepted) + 1] = arg[Main]
      /\ \A i \in 1..Len(accepted) : accepted'[i] = accepted[i]
  BY <1>1
<1>3. \A i \in 1..Len(accepted) : report[accepted[i]] <= report[arg[Main]]
  BY <1>1 DEF InOrder
<1>4. ASSUME NEW i \in 1..Len(accepted'), NEW j \in 1..Len(accepted'), i <= j
      PROVE  report[accepted'[i]] <= report[accepted'[j]]
  <2>1. CASE j <= Len(accepted)
    BY <1>2, <1>4, <2>1 DEF InOrder
  <2>2. CASE j = Len(accepted) + 1 /\ i <= Len(accepted)
    BY <1>2, <1>3, <2>2
  <2>3. CASE j = Len(accepted) + 1 /\ i = Len(accepted) + 1
    <3>1. report[arg[Main]] \in Nat
      BY <1>1
    <3> QED
      BY <1>2, <2>3, <3>1
  <2> QED
    BY <1>2, <1>4, <2>1, <2>2, <2>3
<1> QED
  BY <1>4 DEF InOrder

-----------------------------------------------------------------------------

LEMMA InitDInv == DeliveryInit => DInv
<1> SUFFICES ASSUME DeliveryInit PROVE DInv
  OBVIOUS
<1>1. AInv
  BY InitAInv DEF DeliveryInit
<1>2. accepted = <<>> /\ jobs = <<>> /\ ~Submitting
  BY MainAssumption DEF DeliveryInit, AgentInit, Init, Submitting
<1>3. DeliveryTypeOK
  BY DEF DeliveryInit, DeliveryTypeOK
<1>4. InOrder
  BY <1>2 DEF DeliveryInit, InOrder
<1>5. \A w \in Workers : worker[w] \notin Batches
  BY TokensAssumption DEF DeliveryInit, AgentInit, Init
<1>6. ToCome = {}
  BY <1>2, <1>5 DEF ToCome, ToSet
<1>7. Behind
  BY <1>5, <1>6 DEF DeliveryInit, Behind
<1> QED
  BY <1>1, <1>3, <1>4, <1>7 DEF DInv

LEMMA ReportStep == ASSUME DInv, ReportMetrics PROVE DeliveryTypeOK' /\ InOrder' /\ Behind'
<1>a. AInv /\ DeliveryTypeOK /\ InOrder /\ Behind
  BY DEF DInv
<1>b. UNCHANGED <<polls, served, pending, gauge, count, strayed, overlapped>>
  BY DEF ReportMetrics, serverVars
<1>1. at = "loop" /\ Report \in Batches /\ ~doneClosed /\ SubmitCheck(Main, Report)
  BY <1>a DEF ReportMetrics, Tick, FinalReport, AInv, InMain
<1>2. /\ arg[Main] # Report /\ Report \notin ToSet(accepted)
      /\ arg'[Main] = Report /\ pc[Main] = "idle"
      /\ UNCHANGED <<accepted, jobs, worker>>
  BY <1>a, <1>1, Facts DEF SubmitCheck, Fresh, chanVars, workVars, history
<1>3. \A b \in Batches : report'[b] = IF b = Report THEN polls ELSE report[b]
  BY <1>a DEF ReportMetrics, Snapshot, DeliveryTypeOK
<1>4. DeliveryTypeOK'
  BY <1>a, <1>b DEF ReportMetrics, Snapshot, DeliveryTypeOK
<1>5. accepted \in Seq(Batches) /\ \A i \in 1..Len(accepted) : accepted[i] \in ToSet(accepted) /\ accepted[i] \in Batches
  BY <1>a, Facts DEF ToSet
<1>6. polls \in Nat /\ \A b \in Batches : report[b] \in Nat
  BY <1>a DEF DeliveryTypeOK
<1>7. InOrder'
  <2>1. \A b \in Batches : report'[b] <= polls'
    BY <1>a, <1>b, <1>3, <1>6 DEF InOrder
  <2>2. \A i \in 1..Len(accepted) : report'[accepted[i]] = report[accepted[i]]
    BY <1>2, <1>3, <1>5
  <2>3. \A b \in ToSet(accepted) : report'[b] <= report'[arg'[Main]]
    BY <1>a, <1>1, <1>2, <1>3, <1>6, Facts DEF InOrder
  <2> QED
    BY <1>a, <1>2, <2>1, <2>2, <2>3 DEF InOrder
<1>8. \A b \in ToCome' : b = Report \/ b \in ToCome
  BY <1>2 DEF ToCome
<1>9. \A b \in ToCome : b # Report
  BY <1>a, <1>2, Facts DEF ToCome, Submitting
<1>10. Behind'
  <2>1. UNCHANGED <<gauge, polls, strayed, overlapped, pending, worker>>
    BY <1>b, <1>2
  <2>2. gauge <= polls
    BY <1>a DEF Behind
  <2>3. \A b \in ToCome' : b \in Batches
    BY DEF ToCome
  <2>4. ~strayed /\ ~overlapped => \A b \in ToCome' : gauge <= report'[b]
    BY <1>a, <1>3, <1>8, <1>9, <2>2, <2>3 DEF Behind
  <2> QED
    BY <1>a, <2>1, <2>4 DEF Behind
<1> QED
  BY <1>4, <1>7, <1>10

LEMMA SendStep ==
    ASSUME DInv, NEW w \in Workers, Send(w)
    PROVE  DeliveryTypeOK' /\ InOrder' /\ Behind'
<1>a. AInv /\ DeliveryTypeOK /\ InOrder /\ Behind
  BY DEF DInv
<1>b. /\ UNCHANGED <<polls, report, served, pending, gauge, count, strayed>>
      /\ Receive(w)
      /\ overlapped' = (overlapped \/ \E v \in Workers : worker[v] \in Batches)
  BY DEF Send, Take, reportVars, serverVars
<1>1. DeliveryTypeOK'
  BY <1>a, <1>b DEF DeliveryTypeOK
<1>2. jobs \in Seq(Batches) /\ jobs # <<>> /\ parked \in Seq(Callers)
  BY <1>a, <1>b, Facts DEF Receive, AInv, IInv, TypeOK, ChanTypeOK
<1>3. /\ Head(jobs) \in ToSet(jobs) /\ Tail(jobs) \in Seq(Batches)
      /\ ToSet(Tail(jobs)) \subseteq ToSet(jobs)
  <2>1. /\ Head(jobs) = jobs[1] /\ 1 \in DOMAIN jobs /\ Tail(jobs) \in Seq(Batches)
        /\ \A i \in DOMAIN Tail(jobs) : i + 1 \in DOMAIN jobs /\ Tail(jobs)[i] = jobs[i + 1]
    BY <1>2
  <2> QED
    BY <2>1 DEF ToSet
<1>4. \A v \in Workers : worker'[v] = IF v = w THEN Head(jobs) ELSE worker[v]
  BY <1>a, <1>b, Facts DEF Receive
<1>5. InOrder' /\ ToCome' \subseteq ToCome
  <2>1. CASE parked = <<>>
    <3>1. UNCHANGED <<pc, accepted, arg>> /\ jobs' = Tail(jobs)
      BY <1>b, <2>1 DEF Receive, BufferAfterReceive
    <3>2. ToCome' \subseteq ToCome
      BY <1>3, <1>4, <3>1 DEF ToCome, Submitting
    <3>3. InOrder'
      BY <1>a, <1>b, <3>1 DEF InOrder, Submitting
    <3> QED
      BY <3>2, <3>3
  <2>2. CASE parked # <<>>
    <3>1. Head(parked) = parked[1] /\ 1 \in 1..Len(parked) /\ parked[1] \in Callers
      BY <1>2, <2>2
    <3>2. Head(parked) = Main /\ pc[Main] = "parked"
      BY <1>a, <3>1, MainAssumption DEF AInv, IInv, Waiters
    <3>3. Submitting /\ arg[Main] \in Batches
      BY <1>a, <3>2, Facts DEF Submitting
    <3>4. /\ accepted' = Append(accepted, arg[Main]) /\ arg' = arg
          /\ pc'[Main] = "idle" /\ jobs' = Append(Tail(jobs), arg[Main])
      BY <1>a, <1>b, <2>2, <3>2, Facts DEF Receive, Return, BufferAfterReceive
    <3>5. ToSet(jobs') \subseteq ToSet(jobs) \cup {arg[Main]}
      <4> DEFINE rest == Tail(jobs)
      <4>1. rest \in Seq(Batches) /\ ToSet(rest) \subseteq ToSet(jobs) /\ jobs' = Append(rest, arg[Main])
        BY <1>3, <3>4
      <4> HIDE DEF rest
      <4>2. ToSet(Append(rest, arg[Main])) = ToSet(rest) \cup {arg[Main]}
        BY <3>3, <4>1, AppendElements
      <4> QED
        BY <4>1, <4>2
    <3>6. ToCome' \subseteq ToCome
      BY <1>3, <1>4, <3>3, <3>4, <3>5 DEF ToCome, Submitting
    <3>7. InOrder'
      BY <1>a, <1>b, <3>3, <3>4, LetIn DEF Submitting, DeliveryTypeOK
    <3> QED
      BY <3>6, <3>7
  <2> QED
    BY <2>1, <2>2
<1>6. ~overlapped' => \A v \in Workers : v # w => worker'[v] \notin Batches
  BY <1>b, <1>4
<1>7. Behind'
  BY <1>a, <1>b, <1>5, <1>6 DEF Behind
<1> QED
  BY <1>1, <1>5, <1>7

LEMMA ServeStep ==
    ASSUME DInv, NEW w \in Workers, Serve(w)
    PROVE  /\ DeliveryTypeOK' /\ InOrder' /\ Behind'
           /\ ~strayed' /\ ~overlapped' => gauge <= gauge'
<1> DEFINE b == worker[w]
<1>a. AInv /\ DeliveryTypeOK /\ InOrder /\ Behind
  BY DEF DInv
<1>b. /\ UNCHANGED allVars /\ UNCHANGED <<polls, report, pending, strayed, overlapped>>
      /\ gauge' = IF report[b] = 0 THEN gauge ELSE report[b]
      /\ call[w] # NoCall
  BY DEF Serve, Apply, GaugeAfter, reportVars, In
<1>1. UNCHANGED <<accepted, arg, pc, jobs, worker>>
  BY <1>b DEF allVars, vars, chanVars, callVars, workVars, history
<1>2. b \in Batches /\ b \in ToSet(started) /\ b \in ToSet(accepted)
  BY <1>a, <1>b, HeldByOne, Facts
<1>3. report[b] \in Nat /\ report[b] <= polls /\ gauge \in Nat /\ polls \in Nat
  BY <1>a, <1>2 DEF DeliveryTypeOK, InOrder
<1>4. DeliveryTypeOK'
  BY <1>a, <1>b, <1>3 DEF DeliveryTypeOK
<1>5. InOrder'
  BY <1>a, <1>b, <1>1 DEF InOrder, Submitting
<1>6. ToCome' = ToCome /\ b \in ToCome
  BY <1>1, <1>2 DEF ToCome, Submitting
<1>7. ASSUME ~strayed, ~overlapped, NEW d \in ToCome PROVE report[b] <= report[d] /\ gauge <= report[d]
  <2>1. gauge <= report[d] /\ d \in Batches
    BY <1>a, <1>7 DEF Behind, ToCome
  <2>2. CASE \E v \in Workers : worker[v] = d
    <3>1. d = b
      BY <1>a, <1>2, <1>7, <2>1, <2>2 DEF Behind
    <3> QED
      BY <1>3, <2>1, <3>1
  <2>3. CASE d \in ToSet(jobs)
    BY <1>a, <1>2, <2>1, <2>3, SentBeforeQueued
  <2>4. CASE Submitting /\ arg[Main] = d
    BY <1>a, <1>2, <2>1, <2>4 DEF InOrder
  <2> QED
    BY <2>2, <2>3, <2>4 DEF ToCome
<1>8. Behind'
  <2>1. gauge' <= polls'
    BY <1>a, <1>b, <1>3 DEF Behind
  <2>2. ~strayed /\ ~overlapped => \A d \in ToCome : gauge' <= report[d]
    BY <1>b, <1>7
  <2> QED
    BY <1>a, <1>b, <1>1, <1>6, <2>1, <2>2 DEF Behind
<1>9. ~strayed' /\ ~overlapped' => gauge <= gauge'
  BY <1>b, <1>3, <1>6, <1>7
<1> QED
  BY <1>4, <1>5, <1>8, <1>9

LEMMA OtherSteps ==
    ASSUME DInv, DeliveryTypeOK', Others
    PROVE  InOrder' /\ Behind'
<1>a. AInv /\ DeliveryTypeOK /\ InOrder /\ Behind
  BY DEF DInv
<1>b. UNCHANGED <<polls, report, served, pending, gauge, count, strayed, overlapped>>
  BY DEF Others, deliveryVars, reportVars, serverVars
<1>c. polls \in Nat
  BY <1>a DEF DeliveryTypeOK
<1>1. ASSUME UNCHANGED <<accepted, arg, jobs>>, Submitting' => Submitting,
             \A w \in Workers : worker'[w] \in {worker[w], Idle, Exited}
      PROVE  InOrder' /\ Behind'
  BY <1>b, <1>c, <1>1, NothingNew
<1>2. ASSUME UNCHANGED vars PROVE InOrder' /\ Behind'
  BY <1>1, <1>2 DEF vars, chanVars, callVars, workVars, history, Submitting
<1>3. CASE Signal \/ Stop \/ (at = "stopped" /\ UNCHANGED allVars)
  BY <1>2, <1>3 DEF Signal, Stop, allVars
<1>4. CASE StartShutdown
  <2>1. UNCHANGED <<accepted, arg, jobs, worker>> /\ pc'[Main] = "once"
    BY <1>a, <1>4, Facts DEF StartShutdown, ShutdownCall, chanVars, workVars, history
  <2> QED
    BY <1>1, <2>1 DEF Submitting
<1>5. CASE SubmitEnqueue(Main)
  <2>1. /\ accepted' = Append(accepted, arg[Main]) /\ jobs' = Append(jobs, arg[Main])
        /\ UNCHANGED <<arg, worker>> /\ Submitting /\ ~Submitting'
    BY <1>a, <1>5, Facts DEF SubmitEnqueue, Return, workVars, Submitting
  <2>2. InOrder'
    BY <1>a, <1>b, <2>1, LetIn DEF DeliveryTypeOK
  <2>3. ToSet(jobs') = ToSet(jobs) \cup {arg[Main]} /\ arg[Main] \in Batches
    BY <1>a, <2>1, Facts, AppendElements
  <2>4. ToCome' \subseteq ToCome
    BY <2>1, <2>3 DEF ToCome
  <2> QED
    BY <1>a, <1>b, <2>1, <2>2, <2>4 DEF Behind
<1>6. CASE SubmitRefuse(Main) \/ SubmitPanic(Main) \/ SubmitPark(Main)
  <2>1. UNCHANGED <<accepted, arg, jobs, worker>> /\ Submitting
    BY <1>6 DEF SubmitRefuse, SubmitPanic, SubmitPark, chanVars, callVars, workVars, history, Submitting
  <2> QED
    BY <1>1, <2>1
<1>7. CASE ShutdownStep(Main)
  <2>1. /\ UNCHANGED <<accepted, arg, jobs, worker>>
        /\ pc'[Main] \in {"closing", "waiting", "aborting", "idle"}
    BY <1>a, <1>7, Facts
       DEF ShutdownStep, CloseDone, CloseJobs, OnceAlreadyDone, ShutdownDrained, ShutdownExpired,
           ShutdownAborted, Return, chanVars, workVars, history
  <2> QED
    BY <1>1, <2>1 DEF Submitting
<1>8. ASSUME NEW w \in Workers, Repeat(w) \/ CutWait(w) \/ GiveUp(w) PROVE InOrder' /\ Behind'
  <2>1. PICK c : GoOn(w, c)
    BY <1>8 DEF Repeat, CutWait, GiveUp
  <2>2. CASE UNCHANGED vars
    BY <1>2, <2>2
  <2>3. CASE \E how \in {"cut", "returned"} : SendReturns(w, how)
    <3>1. UNCHANGED <<accepted, arg, pc, jobs>> /\ \A v \in Workers : worker'[v] \in {worker[v], Idle}
      BY <1>a, <2>3, Facts DEF SendReturns, AfterSend, chanVars, callVars, history
    <3> QED
      BY <1>1, <3>1 DEF Submitting
  <2> QED
    BY <2>1, <2>2, <2>3 DEF GoOn
<1>9. ASSUME NEW w \in Workers, LeavePool(w) PROVE InOrder' /\ Behind'
  <2>1. UNCHANGED <<accepted, arg, pc, jobs>> /\ \A v \in Workers : worker'[v] \in {worker[v], Exited}
    BY <1>a, <1>9, Facts DEF LeavePool, WorkerExit, chanVars, callVars, history
  <2> QED
    BY <1>1, <2>1 DEF Submitting
<1> QED
  BY <1>3, <1>4, <1>5, <1>6, <1>7, <1>8, <1>9 DEF Others, MainInPool, SubmitStep

LEMMA ComeBackStep ==
    ASSUME DInv, NEW w \in Workers, ComeBack(w)
    PROVE  DeliveryTypeOK' /\ InOrder' /\ Behind'
<1>a. AInv /\ DeliveryTypeOK /\ InOrder /\ Behind
  BY DEF DInv
<1>b. /\ UNCHANGED <<polls, report, gauge, count, overlapped>>
      /\ \/ UNCHANGED <<pending, strayed>>
         \/ pending' = [pending EXCEPT ![worker[w]] = @ + 1] /\ strayed' = TRUE
      /\ Answer(w) \/ CutRequest(w)
  BY DEF ComeBack, reportVars
<1>1. DeliveryTypeOK'
  <2>1. pending' \in [Batches -> Nat]
    BY <1>a, <1>b DEF DeliveryTypeOK
  <2> QED
    BY <1>a, <1>b, <2>1 DEF DeliveryTypeOK
<1>2. PICK c : GoOn(w, c)
  BY <1>b DEF Answer, CutRequest
<1>3. UNCHANGED <<accepted, arg, pc, jobs>> /\ \A v \in Workers : worker'[v] \in {worker[v], Idle}
  BY <1>a, <1>2, Facts DEF GoOn, SendReturns, AfterSend, vars, chanVars, callVars, workVars, history
<1>4. polls \in Nat
  BY <1>a DEF DeliveryTypeOK
<1> QED
  BY <1>b, <1>1, <1>3, <1>4, NothingNew DEF Submitting

LEMMA NextDInv ==
    ASSUME DInv, [DeliveryNext]_<<allVars, deliveryVars>>
    PROVE  DInv' /\ (~strayed' /\ ~overlapped' => gauge' >= gauge)
<1>a. AInv /\ DeliveryTypeOK /\ InOrder /\ Behind
  BY DEF DInv
<1>b. AInv'
  BY <1>a, NextAInv, DeliveryIsAgent
<1>c. gauge \in Nat /\ polls \in Nat
  BY <1>a DEF DeliveryTypeOK
<1> DEFINE Goal == /\ DeliveryTypeOK' /\ InOrder' /\ Behind'
                   /\ (~strayed' /\ ~overlapped' => gauge' >= gauge)
<1>1. ASSUME Collect PROVE Goal
  <2>1. /\ UNCHANGED allVars /\ polls' = polls + 1
        /\ UNCHANGED <<report, pending, gauge, strayed, overlapped>>
    BY <1>1 DEF Collect, serverVars
  <2>2. UNCHANGED <<accepted, arg, pc, jobs, worker>>
    BY <2>1 DEF allVars, vars, chanVars, callVars, workVars, history
  <2>3. DeliveryTypeOK'
    BY <1>a, <2>1 DEF DeliveryTypeOK
  <2>4. polls <= polls'
    BY <1>c, <2>1
  <2> QED
    BY <1>c, <2>1, <2>2, <2>3, <2>4, NothingNew DEF Submitting
<1>2. ASSUME ReportMetrics PROVE Goal
  BY <1>c, <1>2, ReportStep DEF ReportMetrics, serverVars
<1>3. ASSUME Others PROVE Goal
  <2>1. DeliveryTypeOK' /\ gauge' = gauge
    BY <1>a, <1>3 DEF Others, deliveryVars, reportVars, serverVars, DeliveryTypeOK
  <2> QED
    BY <1>c, <1>3, <2>1, OtherSteps
<1>4. ASSUME NEW w \in Workers, Serve(w) PROVE Goal
  <2>1. /\ DeliveryTypeOK' /\ InOrder' /\ Behind'
        /\ ~strayed' /\ ~overlapped' => gauge <= gauge'
    BY <1>4, ServeStep
  <2>2. gauge' \in Nat
    BY <2>1 DEF DeliveryTypeOK
  <2> QED
    BY <1>c, <2>1, <2>2
<1>5. ASSUME NEW w \in Workers, Send(w) PROVE Goal
  <2>1. gauge' = gauge
    BY <1>5 DEF Send, serverVars
  <2> QED
    BY <1>c, <1>5, <2>1, SendStep
<1>6. ASSUME NEW w \in Workers, ComeBack(w) PROVE Goal
  <2>1. gauge' = gauge
    BY <1>6 DEF ComeBack
  <2> QED
    BY <1>c, <1>6, <2>1, ComeBackStep
<1>7. ASSUME NEW b \in Batches, ServeLate(b) PROVE Goal
  <2>1. /\ UNCHANGED allVars /\ UNCHANGED <<polls, report, strayed, overlapped>>
        /\ pending[b] > 0 /\ pending' = [pending EXCEPT ![b] = @ - 1]
        /\ gauge' = IF report[b] = 0 THEN gauge ELSE report[b]
    BY <1>7 DEF ServeLate, Apply, GaugeAfter, reportVars
  <2>2. UNCHANGED <<accepted, arg, pc, jobs, worker>>
    BY <2>1 DEF allVars, vars, chanVars, callVars, workVars, history
  <2>3. strayed
    BY <1>a, <2>1 DEF Behind, DeliveryTypeOK
  <2>4. DeliveryTypeOK'
    BY <1>a, <2>1 DEF DeliveryTypeOK
  <2>5. InOrder'
    BY <1>a, <2>1, <2>2 DEF InOrder, Submitting
  <2>6. gauge' <= polls'
    BY <1>a, <2>1 DEF InOrder, Behind
  <2>7. Behind'
    BY <1>a, <2>1, <2>2, <2>3, <2>6 DEF Behind
  <2> QED
    BY <2>1, <2>3, <2>4, <2>5, <2>7
<1>8. ASSUME UNCHANGED <<allVars, deliveryVars>> PROVE Goal
  <2>1. UNCHANGED <<polls, report, pending, gauge, strayed, overlapped>> /\ UNCHANGED allVars
    BY <1>8 DEF deliveryVars, reportVars, serverVars
  <2>2. UNCHANGED <<accepted, arg, pc, jobs, worker>>
    BY <2>1 DEF allVars, vars, chanVars, callVars, workVars, history
  <2>3. DeliveryTypeOK'
    BY <1>a, <2>1 DEF DeliveryTypeOK
  <2> QED
    BY <1>c, <2>1, <2>2, <2>3, NothingNew DEF Submitting
<1> HIDE DEF Goal
<1>9. Goal
  BY <1>1, <1>2, <1>3, <1>4, <1>5, <1>6, <1>7, <1>8 DEF DeliveryNext
<1> QED
  BY <1>b, <1>9 DEF DInv, Goal

\* The server's gauges never go back to an older snapshot, for any number of
\* workers, reports and polls, while no two workers send at once and no
\* request arrives after it was given up (pool.go:45-60, sender.go:116-140).
THEOREM GaugesOnlyForward == DeliverySpec => GaugesForward
<1>1. DInv /\ [DeliveryNext]_<<allVars, deliveryVars>>
         => [~strayed' /\ ~overlapped' => gauge' >= gauge]_<<allVars, deliveryVars>>
  BY NextDInv
<1>2. DInv /\ [DeliveryNext]_<<allVars, deliveryVars>> => DInv'
  BY NextDInv
<1> QED
  BY InitDInv, <1>1, <1>2, PTL DEF DeliverySpec, GaugesForward

-----------------------------------------------------------------------------
(***************************************************************************)
(* PollCount at the server (module Delivery): it is the sum of the reports *)
(* that were applied, each as often as it was.                             *)
(***************************************************************************)

Times == [Batches -> Nat]
Weights(times, r) == [b \in Batches |-> times[b] * r[b]]

LEMMA Products ==
    ASSUME NEW n \in Nat, NEW m \in Nat, NEW r \in Nat
    PROVE  /\ n * r \in Nat /\ 0 * r = 0 /\ (n + 1) * r = n * r + r
           /\ n <= m => n * r <= m * r
<1>1. n * r \in Nat /\ 0 * r = 0 /\ (n + 1) * r = n * r + r
  OBVIOUS
<1>2. ASSUME n <= m PROVE n * r <= m * r
  <2>1. m - n \in Nat /\ m = n + (m - n)
    BY <1>2
  <2> DEFINE d == m - n
  <2>2. m * r = n * r + d * r
    BY <2>1
  <2>3. d * r \in Nat /\ n * r \in Nat
    BY <2>1
  <2> QED
    BY <2>2, <2>3
<1> QED
  BY <1>1, <1>2

LEMMA WeightsTyped ==
    ASSUME NEW r \in Times, NEW times \in Times
    PROVE  /\ Weights(times, r) \in Times
           /\ \A b \in Batches : Weights(times, r)[b] = times[b] * r[b]
<1>1. \A b \in Batches : times[b] \in Nat /\ r[b] \in Nat
  BY DEF Times
<1>2. \A b \in Batches : times[b] * r[b] \in Nat
  BY <1>1, Products
<1> QED
  BY <1>2 DEF Weights, Times

\* The sum of Delivery, now and after a step.
LEMMA SumIsSum ==
    ASSUME NEW times \in Times
    PROVE  /\ report \in Times => Sum(times) = SumOf(Batches, Weights(times, report))
           /\ report' \in Times => Sum(times)' = SumOf(Batches, Weights(times, report'))
<1> DEFINE Weighted(r) == MapThenSumSet(LAMBDA b : times[b] * r[b], Batches)
<1>1. ASSUME NEW r \in Times PROVE Weighted(r) = SumOf(Batches, Weights(times, r))
  <2> DEFINE Fold(h) == h = [s \in SUBSET Batches |->
                                IF s = {} THEN 0
                                ELSE times[AnyOf(s)] * r[AnyOf(s)] + h[s \ {AnyOf(s)}]]
             v == Weights(times, r)
  <2>1. Weighted(r) = (CHOOSE h : Fold(h))[Batches]
    BY Zenon DEF MapThenSumSet, MapThenFoldSet, AnyOf
  <2>2. \A s \in SUBSET Batches : s # {} => v[AnyOf(s)] = times[AnyOf(s)] * r[AnyOf(s)]
    BY WeightsTyped, AnyOfIsOne
  <2> HIDE DEF v
  <2>3. \A h : Fold(h) <=> IsSum(h, Batches, v)
    BY <2>2 DEF IsSum
  <2> HIDE DEF Fold
  <2>4. (CHOOSE h : Fold(h)) = CHOOSE h : IsSum(h, Batches, v)
    BY <2>3
  <2> HIDE DEF Weighted
  <2> QED
    BY <2>1, <2>4 DEF SumOf, v
<1>2. Sum(times) = Weighted(report)
  BY Zenon DEF Sum
<1>3. Sum(times)' = Weighted(report')
  BY Zenon DEF Sum, MapThenSumSet, MapThenFoldSet
<1> HIDE DEF Weighted
<1> QED
  BY <1>1, <1>2, <1>3

\* A report applied once more, and reports applied no more often than others.
LEMMA SumOnceMore ==
    ASSUME report \in Times, NEW n \in Times, NEW b \in Batches
    PROVE  LET more == [n EXCEPT ![b] = @ + 1] IN
           more \in Times /\ Sum(more) = Sum(n) + report[b]
<1> DEFINE more == [n EXCEPT ![b] = @ + 1]
<1>1. more \in Times /\ \A x \in Batches : more[x] = IF x = b THEN n[b] + 1 ELSE n[x]
  BY DEF Times
<1> HIDE DEF more
<1> DEFINE v == Weights(n, report)
           u == Weights(more, report)
<1>2. n[b] \in Nat /\ report[b] \in Nat
  BY DEF Times
<1>3. (n[b] + 1) * report[b] = n[b] * report[b] + report[b]
  BY <1>2, Products
<1>4. /\ v \in [Batches -> Nat] /\ u \in [Batches -> Nat]
      /\ u[b] = v[b] + report[b] /\ \A x \in Batches : x # b => u[x] = v[x]
  BY <1>1, <1>3, WeightsTyped DEF Times
<1>5. Sum(n) = SumOf(Batches, v) /\ Sum(more) = SumOf(Batches, u)
  BY <1>1, SumIsSum
<1>6. IsFiniteSet(Batches)
  BY ReportsAssumption
<1> HIDE DEF u, v
<1>7. SumOf(Batches, u) = SumOf(Batches, v) + report[b]
  BY <1>2, <1>4, <1>6, SumOfMore
<1> QED
  BY <1>1, <1>5, <1>7 DEF more

LEMMA SumNoLess ==
    ASSUME report \in Times, NEW n \in Times, NEW m \in Times,
           \A b \in Batches : n[b] <= m[b]
    PROVE  Sum(n) <= Sum(m)
<1> DEFINE v == Weights(n, report)
           u == Weights(m, report)
<1>1. \A b \in Batches : n[b] * report[b] <= m[b] * report[b]
  <2> SUFFICES ASSUME NEW b \in Batches PROVE n[b] * report[b] <= m[b] * report[b]
    OBVIOUS
  <2>1. n[b] \in Nat /\ m[b] \in Nat /\ report[b] \in Nat /\ n[b] <= m[b]
    BY DEF Times
  <2> QED
    BY <2>1, Products
<1>2. /\ v \in [Batches -> Nat] /\ u \in [Batches -> Nat]
      /\ \A b \in Batches : v[b] <= u[b]
  BY <1>1, WeightsTyped DEF Times
<1>3. Sum(n) = SumOf(Batches, v) /\ Sum(m) = SumOf(Batches, u)
  BY SumIsSum
<1>4. IsFiniteSet(Batches)
  BY ReportsAssumption
<1> HIDE DEF u, v
<1>5. SumOf(Batches, v) <= SumOf(Batches, u)
  BY <1>2, <1>4, SumOfBound
<1> QED
  BY <1>3, <1>5

\* Nothing of a report that is collected has been applied yet.
LEMMA SumOfOthers ==
    ASSUME report \in Times, NEW n \in Times, NEW b \in Batches, n[b] = 0,
           report' \in Times, \A x \in Batches : x # b => report'[x] = report[x]
    PROVE  Sum(n)' = Sum(n)
<1>1. \A x \in Batches : n[x] * report'[x] = n[x] * report[x]
  <2>1. report[b] \in Nat /\ report'[b] \in Nat
    BY DEF Times
  <2> QED
    BY <2>1, Products
<1>2. Weights(n, report') = Weights(n, report)
  BY <1>1 DEF Weights
<1> QED
  BY <1>2, SumIsSum

LEMMA SumStays ==
    ASSUME report \in Times, NEW n \in Times, report' = report
    PROVE  Sum(n)' = Sum(n)
BY SumIsSum

-----------------------------------------------------------------------------

\* The reports were applied as often as n says.  A request that waits for its answer or
\* was given up is one of the posts and may still be applied; one that was answered with
\* success was.
Counts(n) ==
    /\ n \in Times /\ count = Sum(n)
    /\ \A b \in Batches :
           /\ n[b] + pending[b] <= posts[b]
           /\ said[b] = "ok" => n[b] >= 1
    /\ \A w \in Workers :
           /\ In(w, "calling") /\ ~served[w] =>
                  n[worker[w]] + pending[worker[w]] < posts[worker[w]]
           /\ served[w] => In(w, "calling") /\ n[worker[w]] >= 1

ServedTypeOK == served \in [Workers -> BOOLEAN]

CInv == DInv /\ ServedTypeOK /\ \E n : Counts(n)

LEMMA CountTypes ==
    ASSUME DInv
    PROVE  /\ report \in Times /\ pending \in Times /\ posts \in Times
           /\ said \in [Batches -> Do!Outcomes \cup {"none"}]
           /\ call \in [Workers -> Do!Calls \cup {NoCall}]
           /\ DOMAIN worker = Workers
           /\ \A w \in Workers : /\ call[w] # NoCall <=> worker[w] \in Batches
                                 /\ call[w] # NoCall => call[w] \in Do!Calls /\ said[worker[w]] = "none"
<1>1. AInv /\ DeliveryTypeOK /\ SenderTypeOK /\ Sending
  BY DEF DInv, AInv
<1>2. posts \in Times
  BY <1>1, FourAttempts DEF SenderTypeOK, Times
<1> QED
  BY <1>1, <1>2, Facts DEF DeliveryTypeOK, SenderTypeOK, Sending, Times

LEMMA InitCounts == DeliveryInit => ServedTypeOK /\ \E n : Counts(n)
<1> SUFFICES ASSUME DeliveryInit PROVE ServedTypeOK /\ \E n : Counts(n)
  OBVIOUS
<1> DEFINE n == [b \in Batches |-> 0]
<1>1. n \in Times /\ report \in Times /\ \A b \in Batches : n[b] = 0
  BY DEF DeliveryInit, Times
<1> HIDE DEF n
<1>2. \A b \in Batches : Weights(n, report)[b] = 0
  <2>1. \A b \in Batches : report[b] \in Nat
    BY <1>1 DEF Times
  <2> QED
    BY <1>1, <2>1, WeightsTyped, Products
<1>3. Sum(n) = 0
  <2> DEFINE v == Weights(n, report)
  <2>1. v \in [Batches -> Nat] /\ \A b \in Batches : v[b] = 0
    BY <1>1, <1>2, WeightsTyped DEF Times
  <2>2. IsFiniteSet(Batches) /\ Sum(n) = SumOf(Batches, v)
    BY <1>1, SumIsSum, ReportsAssumption
  <2> HIDE DEF v
  <2> QED
    BY <2>1, <2>2, SumOfNothing
<1>4. Counts(n)
  BY <1>1, <1>3 DEF Counts, DeliveryInit, AgentInit, In
<1> QED
  BY <1>4 DEF DeliveryInit, ServedTypeOK

\* A step that applies nothing, and in which no request is given up.
LEMMA NothingApplied ==
    ASSUME DInv, NEW n, Counts(n), Sum(n)' = Sum(n), posts' \in Times,
           UNCHANGED <<served, pending, count>>,
           \A b \in Batches : posts[b] <= posts'[b] /\ (said'[b] = "ok" => said[b] = "ok"),
           \A w \in Workers : served[w] => In(w, "calling")' /\ worker'[w] = worker[w],
           \A w \in Workers : In(w, "calling")' /\ ~served[w] =>
               n[worker'[w]] + pending[worker'[w]] < posts'[worker'[w]]
    PROVE  Counts(n)'
<1>1. \A b \in Batches : /\ n[b] \in Nat /\ pending[b] \in Nat
                         /\ posts[b] \in Nat /\ posts'[b] \in Nat
  BY CountTypes DEF Counts, Times
<1>2. \A b \in Batches : n[b] + pending[b] <= posts[b] /\ (said[b] = "ok" => n[b] >= 1)
  BY DEF Counts
<1>3. \A b \in Batches : n[b] + pending'[b] <= posts'[b] /\ (said'[b] = "ok" => n[b] >= 1)
  BY <1>1, <1>2
<1>4. n \in Times /\ count' = Sum(n)'
  BY DEF Counts
<1>5. \A w \in Workers : served[w] => n[worker'[w]] >= 1
  BY DEF Counts
<1> QED
  BY <1>3, <1>4, <1>5 DEF Counts

\* What follows when a call of retry.Do goes on.
LEMMA GoOnFields ==
    ASSUME DInv, NEW w \in Workers, In(w, "calling") \/ In(w, "waiting") \/ In(w, "returned"),
           NEW c \in Do!Calls, GoOn(w, c)
    PROVE  /\ worker[w] \in Batches
           /\ \A v \in Workers : v # w => /\ call'[v] = call[v] /\ worker'[v] = worker[v]
                                          /\ worker[v] # worker[w]
           /\ \/ /\ c.phase = "returned" /\ call'[w] = NoCall
                 /\ said' = [said EXCEPT ![worker[w]] = c.err]
              \/ /\ c.phase # "returned" /\ call'[w] = c /\ c # NoCall
                 /\ worker'[w] = worker[w] /\ said' = said
<1>1. call[w] # NoCall /\ AInv
  BY DEF In, DInv
<1>2. /\ worker[w] \in Batches
      /\ \A v \in Workers : v # w => worker[v] # worker[w]
  BY <1>1, HeldByOne
<1>3. c # NoCall
  BY CallAssumption
<1>4. CASE c.phase = "returned"
  <2>1. /\ \E how : SendReturns(w, how)
        /\ call' = [call EXCEPT ![w] = NoCall]
        /\ said' = [said EXCEPT ![worker[w]] = c.err]
    BY <1>4 DEF GoOn
  <2>2. \A v \in Workers : v # w => worker'[v] = worker[v]
    BY <2>1, CountTypes DEF SendReturns, AfterSend
  <2> QED
    BY <1>2, <1>4, <2>1, <2>2, CountTypes
<1>5. CASE c.phase # "returned"
  <2>1. call' = [call EXCEPT ![w] = c] /\ UNCHANGED <<vars, said>>
    BY <1>5 DEF GoOn
  <2>2. worker' = worker
    BY <2>1 DEF vars, workVars
  <2> QED
    BY <1>2, <1>3, <1>5, <2>1, <2>2, CountTypes
<1> QED
  BY <1>4, <1>5

\* A report is collected: none of its kind is on its way, or was ever posted.
LEMMA ReportCounts ==
    ASSUME DInv, ReportMetrics, posts' \in Times, NEW n, Counts(n)
    PROVE  Counts(n)'
<1>a. AInv /\ DeliveryTypeOK
  BY DEF DInv
<1>b. UNCHANGED <<served, pending, count>> /\ report' = [report EXCEPT ![Report] = Snapshot]
  BY DEF ReportMetrics, serverVars
<1>1. Report \in Batches /\ SubmitCheck(Main, Report)
  BY <1>a DEF ReportMetrics, Tick, FinalReport, AInv, InMain
<1>2. UNCHANGED <<posts, said, call, worker>>
  BY <1>1 DEF ReportMetrics, Tick, FinalReport, SubmitCheck, agentVars, workVars
<1>3. Report \notin ToSet(started)
  <2>1. Report \notin ToSet(accepted)
    BY <1>1 DEF SubmitCheck
  <2> QED
    BY <1>a, <2>1, ElementsSplit DEF AInv
<1>4. n[Report] = 0
  <2>1. posts[Report] = 0
    BY <1>a, <1>1, <1>3 DEF AInv, Told
  <2>2. n[Report] \in Nat /\ pending[Report] \in Nat /\ n[Report] + pending[Report] <= posts[Report]
    BY <1>1, CountTypes DEF Counts, Times
  <2> QED
    BY <2>1, <2>2
<1>5. report \in Times /\ report' \in Times /\ \A b \in Batches : b # Report => report'[b] = report[b]
  BY <1>a, <1>b, CountTypes DEF Times, Snapshot, DeliveryTypeOK
<1>6. Sum(n)' = Sum(n)
  <2> DEFINE r == Report
  <2>1. r \in Batches /\ n[r] = 0 /\ \A b \in Batches : b # r => report'[b] = report[b]
    BY <1>1, <1>4, <1>5
  <2> HIDE DEF r
  <2> QED
    BY <1>5, <2>1, SumOfOthers DEF Counts
<1> QED
  BY <1>b, <1>2, <1>6 DEF Counts, In

\* The server applies a request that a worker waits for, or a late one.
LEMMA ServeCounts ==
    ASSUME DInv, NEW b \in Batches, NEW n, Counts(n), UNCHANGED allVars,
           report' = report, count' = count + report[b],
           \/ /\ pending' = pending
              /\ \E w \in Workers : /\ In(w, "calling") /\ ~served[w] /\ b = worker[w]
                                    /\ served' = [served EXCEPT ![w] = TRUE]
           \/ /\ pending[b] > 0 /\ pending' = [pending EXCEPT ![b] = @ - 1]
              /\ served' = served,
           ServedTypeOK
    PROVE  \E m : Counts(m)'
<1> PICK m : m = [n EXCEPT ![b] = @ + 1]
  OBVIOUS
<1>1. n \in Times /\ report \in Times /\ pending \in Times /\ posts \in Times /\ count = Sum(n)
  BY CountTypes DEF Counts
<1>2. m \in Times /\ Sum(m) = Sum(n) + report[b]
  BY <1>1, SumOnceMore
<1>3. count' = Sum(m)'
  BY <1>1, <1>2, SumStays
<1>4. \A x \in Batches : m[x] = IF x = b THEN n[x] + 1 ELSE n[x]
  BY <1>1 DEF Times
<1>5. UNCHANGED <<posts, said, call, worker>>
  BY DEF allVars, agentVars, vars, workVars
<1>6. \A x \in Batches : n[x] \in Nat /\ pending[x] \in Nat /\ posts[x] \in Nat
  BY <1>1 DEF Times
<1>7. \A w \in Workers : In(w, "calling")' <=> In(w, "calling")
  BY <1>5 DEF In
<1>8. \A w \in Workers : In(w, "calling") =>
          worker[w] \in Batches /\ \A v \in Workers : worker[v] = worker[w] => v = w
  BY HeldByOne DEF In, DInv
<1>9. /\ \A x \in Batches : n[x] + pending[x] <= posts[x] /\ (said[x] = "ok" => n[x] >= 1)
      /\ \A w \in Workers : In(w, "calling") /\ ~served[w] =>
             n[worker[w]] + pending[worker[w]] < posts[worker[w]]
      /\ \A w \in Workers : served[w] => In(w, "calling") /\ n[worker[w]] >= 1
  BY DEF Counts
<1>10. CASE /\ pending' = pending
            /\ \E w \in Workers : /\ In(w, "calling") /\ ~served[w] /\ b = worker[w]
                                  /\ served' = [served EXCEPT ![w] = TRUE]
  <2> PICK w \in Workers : /\ In(w, "calling") /\ ~served[w] /\ b = worker[w]
                           /\ served' = [served EXCEPT ![w] = TRUE]
    BY <1>10
  <2>1. \A x \in Batches : m[x] + pending'[x] <= posts[x] /\ (said[x] = "ok" => m[x] >= 1)
    BY <1>4, <1>6, <1>9, <1>10
  <2>2. \A v \in Workers : served'[v] = IF v = w THEN TRUE ELSE served[v]
    BY DEF ServedTypeOK
  <2>3. \A v \in Workers : In(v, "calling") /\ ~served'[v] =>
            m[worker[v]] + pending'[worker[v]] < posts[worker[v]]
    <3> SUFFICES ASSUME NEW v \in Workers, In(v, "calling"), ~served'[v]
                 PROVE  m[worker[v]] + pending'[worker[v]] < posts[worker[v]]
      OBVIOUS
    <3>1. v # w /\ ~served[v]
      BY <2>2
    <3>2. worker[v] \in Batches /\ worker[v] # b
      BY <1>8, <3>1
    <3>3. n[worker[v]] + pending[worker[v]] < posts[worker[v]]
      BY <1>9, <3>1
    <3>4. m[worker[v]] = n[worker[v]]
      BY <1>4, <3>2
    <3> QED
      BY <1>10, <3>3, <3>4
  <2>4. \A v \in Workers : served'[v] => In(v, "calling") /\ m[worker[v]] >= 1
    <3> SUFFICES ASSUME NEW v \in Workers, served'[v] PROVE In(v, "calling") /\ m[worker[v]] >= 1
      OBVIOUS
    <3>1. In(v, "calling")
      BY <1>9, <2>2
    <3>2. worker[v] \in Batches /\ n[worker[v]] \in Nat
      BY <1>6, <1>8, <3>1
    <3> QED
      BY <1>4, <1>9, <2>2, <3>1, <3>2
  <2>5. Counts(m)'
    BY <1>2, <1>3, <1>5, <1>7, <2>1, <2>3, <2>4 DEF Counts
  <2> QED
    BY <2>5
<1>11. CASE /\ pending[b] > 0 /\ pending' = [pending EXCEPT ![b] = @ - 1]
            /\ served' = served
  <2>0. \A x \in Batches : pending'[x] = IF x = b THEN pending[x] - 1 ELSE pending[x]
    BY <1>1, <1>11 DEF Times
  <2>1. \A x \in Batches : m[x] + pending'[x] = n[x] + pending[x] /\ m[x] >= n[x]
    BY <1>4, <1>6, <2>0
  <2>2. \A x \in Batches : m[x] \in Nat
    BY <1>2 DEF Times
  <2>3. \A x \in Batches : m[x] + pending'[x] <= posts[x] /\ (said[x] = "ok" => m[x] >= 1)
    BY <1>6, <1>9, <2>1, <2>2
  <2>4. \A v \in Workers : In(v, "calling") /\ ~served'[v] =>
            m[worker[v]] + pending'[worker[v]] < posts[worker[v]]
    BY <1>8, <1>9, <1>11, <2>1
  <2>5. \A v \in Workers : served'[v] => In(v, "calling") /\ m[worker[v]] >= 1
    BY <1>6, <1>8, <1>9, <1>11, <2>1, <2>2
  <2>6. Counts(m)'
    BY <1>2, <1>3, <1>5, <1>7, <2>3, <2>4, <2>5 DEF Counts
  <2> QED
    BY <2>6
<1> QED
  BY <1>10, <1>11

\* A worker takes a batch that was never posted.
LEMMA SendCounts ==
    ASSUME DInv, NEW w \in Workers, Send(w), posts' \in Times, NEW n, Counts(n)
    PROVE  Counts(n)'
<1> DEFINE b == Head(jobs)
<1>a. AInv /\ IInv /\ InOnePlace
  BY DEF DInv, AInv
<1>b. /\ UNCHANGED <<report, served, pending, count, said>> /\ Receive(w)
      /\ \/ call' = [call EXCEPT ![w] = GaveUp] /\ UNCHANGED posts
         \/ call' = [call EXCEPT ![w] = Do!Begin] /\ posts' = [posts EXCEPT ![b] = @ + 1]
  BY DEF Send, Take, reportVars, serverVars
<1>1. b \in Batches /\ b \in ToSet(jobs)
  <2>1. jobs \in Seq(Batches) /\ jobs # <<>>
    BY <1>a, <1>b, Facts DEF Receive
  <2> QED
    BY <2>1 DEF ToSet
<1>2. b \notin ToSet(started)
  BY <1>a, <1>1, ElementsSplit DEF InOnePlace
<1>3. posts[b] = 0
  BY <1>a, <1>1, <1>2 DEF AInv, Told
<1>4. \A x \in Batches : n[x] \in Nat /\ pending[x] \in Nat /\ posts[x] \in Nat /\ posts'[x] \in Nat
  BY CountTypes DEF Counts, Times
<1>5. n[b] + pending[b] = 0
  <2>1. n[b] + pending[b] <= posts[b]
    BY <1>1 DEF Counts
  <2> QED
    BY <1>1, <1>3, <1>4, <2>1
<1>6. \A v \in Workers : worker'[v] = IF v = w THEN b ELSE worker[v]
  BY <1>a, <1>b, Facts DEF Receive
<1>7. \A v \in Workers : v # w => worker[v] # b /\ call'[v] = call[v]
  BY <1>a, <1>b, <1>1, <1>2, CountTypes DEF InOnePlace, Hands
<1>8. ~In(w, "calling") /\ ~served[w]
  <2>1. call[w] = NoCall
    BY <1>a, <1>b, TokensAssumption DEF Receive, AInv, Sending
  <2>2. ~In(w, "calling")
    BY <2>1 DEF In
  <2> QED
    BY <2>2 DEF Counts
<1>9. /\ \A x \in Batches : posts[x] <= posts'[x]
      /\ In(w, "calling")' => posts'[b] = 1
  <2>1. CASE call' = [call EXCEPT ![w] = GaveUp] /\ UNCHANGED posts
    <3>1. call'[w] = GaveUp
      BY <2>1, CountTypes
    <3>2. ~In(w, "calling")'
      BY <3>1, BeginTyped DEF In
    <3> QED
      BY <1>4, <2>1, <3>2
  <2>2. CASE posts' = [posts EXCEPT ![b] = @ + 1]
    <3>1. \A x \in Batches : posts'[x] = IF x = b THEN posts[x] + 1 ELSE posts[x]
      BY <2>2, CountTypes DEF Times
    <3> QED
      BY <1>1, <1>3, <1>4, <3>1
  <2> QED
    BY <1>b, <2>1, <2>2
<1>10. \A v \in Workers : v # w => (In(v, "calling")' <=> In(v, "calling")) /\ worker'[v] = worker[v]
  BY <1>6, <1>7 DEF In
<1> HIDE DEF b
<1>11. \A v \in Workers : served[v] => In(v, "calling")' /\ worker'[v] = worker[v]
  BY <1>8, <1>10 DEF Counts
<1>12. \A v \in Workers : In(v, "calling")' /\ ~served[v] =>
           n[worker'[v]] + pending[worker'[v]] < posts'[worker'[v]]
  <2> SUFFICES ASSUME NEW v \in Workers, In(v, "calling")', ~served[v]
               PROVE  n[worker'[v]] + pending[worker'[v]] < posts'[worker'[v]]
    OBVIOUS
  <2>1. CASE v = w
    BY <1>5, <1>6, <1>9, <2>1
  <2>2. CASE v # w
    <3>1. In(v, "calling") /\ worker'[v] = worker[v]
      BY <1>10, <2>2
    <3>2. n[worker[v]] + pending[worker[v]] < posts[worker[v]] /\ worker[v] \in Batches
      BY <3>1, HeldByOne, <1>a DEF Counts, In
    <3> QED
      BY <1>4, <1>9, <3>1, <3>2
  <2> QED
    BY <2>1, <2>2
<1>13. Sum(n)' = Sum(n)
  BY <1>b, CountTypes, SumStays DEF Counts
<1> QED
  BY <1>b, <1>9, <1>11, <1>12, <1>13, NothingApplied

\* A request comes back, or is given up and may still arrive.
LEMMA ComeBackCounts ==
    ASSUME DInv, ServedTypeOK, NEW w \in Workers, ComeBack(w), NEW n, Counts(n)
    PROVE  Counts(n)' /\ ServedTypeOK'
<1> DEFINE b == worker[w]
<1>a. /\ UNCHANGED <<report, count, posts>> /\ served' = [served EXCEPT ![w] = FALSE]
      /\ said'[b] = "ok" => served[w]
      /\ \/ UNCHANGED pending
         \/ ~served[w] /\ said'[b] # "ok" /\ pending' = [pending EXCEPT ![b] = @ + 1]
      /\ In(w, "calling")
  BY DEF ComeBack, MayAnswer, Answer, CutRequest, reportVars
<1>b. call[w] \in Do!Calls
  BY <1>a, HeldByOne DEF In, DInv
<1>1. PICK outc \in Do!Outcomes : GoOn(w, Do!AfterAttempt(call[w], outc))
  <2>1. CancelledRequest \in Do!Outcomes
    BY DEF CancelledRequest, Do!Outcomes
  <2> QED
    BY <2>1 DEF ComeBack, Answer, CutRequest
<1> DEFINE c == Do!AfterAttempt(call[w], outc)
<1>2. c \in Do!Calls /\ c.phase # "calling"
  BY <1>b, AfterAttemptFields
<1>3. GoOn(w, c)
  BY <1>1
<1> HIDE DEF c
<1>4. /\ b \in Batches
      /\ \A v \in Workers : v # w => call'[v] = call[v] /\ worker'[v] = worker[v] /\ worker[v] # b
      /\ ~In(w, "calling")'
      /\ \A x \in Batches : x # b => said'[x] = said[x]
  <2>1. /\ worker[w] \in Batches
        /\ \A v \in Workers : v # w => /\ call'[v] = call[v] /\ worker'[v] = worker[v]
                                       /\ worker[v] # worker[w]
        /\ \/ /\ c.phase = "returned" /\ call'[w] = NoCall
              /\ said' = [said EXCEPT ![worker[w]] = c.err]
           \/ /\ c.phase # "returned" /\ call'[w] = c /\ c # NoCall
              /\ worker'[w] = worker[w] /\ said' = said
    BY <1>a, <1>2, <1>3, GoOnFields
  <2> QED
    BY <1>2, <2>1, CountTypes DEF In
<1>5. \A x \in Batches : n[x] \in Nat /\ pending[x] \in Nat /\ posts[x] \in Nat
  BY CountTypes DEF Counts, Times
<1>6. /\ \A x \in Batches : n[x] + pending[x] <= posts[x] /\ (said[x] = "ok" => n[x] >= 1)
      /\ ~served[w] => n[b] + pending[b] < posts[b]
      /\ served[w] => n[b] >= 1
  BY <1>a DEF Counts
<1>7. \A v \in Workers : served'[v] = IF v = w THEN FALSE ELSE served[v]
  BY <1>a DEF ServedTypeOK
<1>8. ServedTypeOK'
  BY <1>a DEF ServedTypeOK
<1>9. \A x \in Batches : x # b => pending'[x] = pending[x]
  BY <1>a, CountTypes DEF Times
<1>10. n[b] + pending'[b] <= posts[b]
  <2>1. CASE UNCHANGED pending
    BY <1>4, <1>6, <2>1
  <2>2. CASE ~served[w] /\ pending' = [pending EXCEPT ![b] = @ + 1]
    <3>1. pending'[b] = pending[b] + 1
      BY <1>4, <2>2, CountTypes DEF Times
    <3> QED
      BY <1>4, <1>5, <1>6, <2>2, <3>1
  <2> QED
    BY <1>a, <2>1, <2>2
<1>11. \A x \in Batches : n[x] + pending'[x] <= posts[x] /\ (said'[x] = "ok" => n[x] >= 1)
  BY <1>a, <1>4, <1>6, <1>9, <1>10
<1>12. \A v \in Workers : v # w =>
           /\ In(v, "calling")' <=> In(v, "calling")
           /\ In(v, "calling") => worker[v] \in Batches
  BY <1>4, HeldByOne DEF In, DInv
<1>13. \A v \in Workers : In(v, "calling")' /\ ~served'[v] =>
           n[worker'[v]] + pending'[worker'[v]] < posts[worker'[v]]
  <2> SUFFICES ASSUME NEW v \in Workers, In(v, "calling")', ~served'[v]
               PROVE  n[worker'[v]] + pending'[worker'[v]] < posts[worker'[v]]
    OBVIOUS
  <2>1. v # w /\ In(v, "calling") /\ ~served[v] /\ worker[v] \in Batches
    <3>1. v # w
      BY <1>4 DEF In
    <3> QED
      BY <1>7, <1>12, <3>1 DEF In
  <2>2. worker'[v] = worker[v] /\ pending'[worker[v]] = pending[worker[v]]
    BY <1>4, <1>9, <2>1
  <2>3. n[worker[v]] + pending[worker[v]] < posts[worker[v]]
    BY <2>1 DEF Counts
  <2> QED
    BY <2>2, <2>3
<1>14. \A v \in Workers : served'[v] => In(v, "calling")' /\ n[worker'[v]] >= 1
  <2> SUFFICES ASSUME NEW v \in Workers, served'[v] PROVE In(v, "calling")' /\ n[worker'[v]] >= 1
    OBVIOUS
  <2>1. v # w /\ served[v]
    BY <1>7
  <2>2. In(v, "calling") /\ n[worker[v]] >= 1
    BY <2>1 DEF Counts
  <2> QED
    <3>1. In(v, "calling")'
      BY <1>12, <2>1, <2>2 DEF In
    <3> QED
      BY <1>4, <2>1, <2>2, <3>1
<1>15. count' = Sum(n)' /\ n \in Times
  BY <1>a, CountTypes, SumStays DEF Counts
<1>16. Counts(n)'
  BY <1>a, <1>11, <1>13, <1>14, <1>15 DEF Counts
<1> QED
  BY <1>8, <1>16

\* The steps of main, the wait between two requests, and the end of a worker.
LEMMA OtherCounts ==
    ASSUME DInv, Others, posts' \in Times, NEW n, Counts(n)
    PROVE  Counts(n)'
<1>a. UNCHANGED <<report, served, pending, count>>
  BY DEF Others, deliveryVars, reportVars, serverVars
<1>b. Sum(n)' = Sum(n)
  BY <1>a, CountTypes, SumStays DEF Counts
<1>c. \A x \in Batches : n[x] \in Nat /\ pending[x] \in Nat /\ posts[x] \in Nat
  BY CountTypes DEF Counts, Times
<1>d. /\ \A x \in Batches : n[x] + pending[x] <= posts[x]
      /\ \A v \in Workers : In(v, "calling") /\ ~served[v] =>
             n[worker[v]] + pending[worker[v]] < posts[worker[v]]
      /\ \A v \in Workers : served[v] => In(v, "calling")
  BY DEF Counts
<1>e. \A v \in Workers : In(v, "calling") => worker[v] \in Batches
  BY HeldByOne DEF In, DInv
<1>1. ASSUME UNCHANGED <<call, posts, said>>,
             \A v \in Workers : In(v, "calling") => worker'[v] = worker[v]
      PROVE  Counts(n)'
  <2>1. \A v \in Workers : In(v, "calling")' <=> In(v, "calling")
    BY <1>1 DEF In
  <2>2. \A v \in Workers : served[v] => In(v, "calling")' /\ worker'[v] = worker[v]
    BY <1>1, <1>d, <2>1
  <2>3. \A v \in Workers : In(v, "calling")' /\ ~served[v] =>
            n[worker'[v]] + pending[worker'[v]] < posts'[worker'[v]]
    BY <1>1, <1>d, <2>1
  <2> QED
    BY <1>1, <1>a, <1>b, <1>c, <2>2, <2>3, NothingApplied
<1>2. CASE Signal \/ StartShutdown \/ Stop \/ MainInPool \/ (at = "stopped" /\ UNCHANGED allVars)
  <2>1. UNCHANGED <<call, posts, said, worker>>
    BY <1>2
       DEF Signal, StartShutdown, ShutdownCall, Stop, MainInPool, SubmitStep, SubmitEnqueue, SubmitRefuse,
           SubmitPanic, SubmitPark, ShutdownStep, CloseDone, CloseJobs, OnceAlreadyDone, ShutdownDrained,
           ShutdownExpired, ShutdownAborted, agentVars, allVars, vars, workVars
  <2> QED
    BY <1>1, <2>1
<1>3. ASSUME NEW w \in Workers, LeavePool(w) PROVE Counts(n)'
  <2>1. /\ UNCHANGED <<call, posts, said>> /\ worker[w] = Idle
        /\ \A v \in Workers : v # w => worker'[v] = worker[v]
    BY <1>3, CountTypes DEF LeavePool, WorkerExit, agentVars
  <2>2. ~In(w, "calling")
    BY <1>e, <2>1, TokensAssumption
  <2> QED
    BY <1>1, <2>1, <2>2
<1>4. ASSUME NEW w \in Workers, NEW c \in Do!Calls, GoOn(w, c), In(w, "waiting") \/ In(w, "returned"),
             c.phase = "calling" => posts' = [posts EXCEPT ![worker[w]] = @ + 1],
             c.phase # "calling" => posts' = posts,
             c.err # "ok" \/ c.phase # "returned"
      PROVE  Counts(n)'
  <2>0. ~In(w, "calling") /\ ~served[w]
    BY <1>4, <1>d DEF In
  <2>1. /\ worker[w] \in Batches
        /\ \A v \in Workers : v # w => call'[v] = call[v] /\ worker'[v] = worker[v]
        /\ \/ c.phase = "returned" /\ call'[w] = NoCall /\ said' = [said EXCEPT ![worker[w]] = c.err]
           \/ c.phase # "returned" /\ call'[w] = c /\ worker'[w] = worker[w] /\ said' = said
    BY <1>4, GoOnFields
  <2>2. \A x \in Batches : said'[x] = "ok" => said[x] = "ok"
    BY <1>4, <2>1, CountTypes
  <2>3. c.phase = "calling" =>
            \A x \in Batches : posts'[x] = IF x = worker[w] THEN posts[x] + 1 ELSE posts[x]
    BY <1>4, CountTypes DEF Times
  <2>4. \A x \in Batches : posts[x] <= posts'[x]
    BY <1>4, <1>c, <2>3
  <2>5. \A v \in Workers : v # w => (In(v, "calling")' <=> In(v, "calling"))
    BY <2>1 DEF In
  <2>6. In(w, "calling")' => c.phase = "calling" /\ worker'[w] = worker[w]
    BY <2>1 DEF In
  <2>7. \A v \in Workers : served[v] => In(v, "calling")' /\ worker'[v] = worker[v]
    BY <1>d, <2>0, <2>1, <2>5
  <2>8. \A v \in Workers : In(v, "calling")' /\ ~served[v] =>
            n[worker'[v]] + pending[worker'[v]] < posts'[worker'[v]]
    <3> SUFFICES ASSUME NEW v \in Workers, In(v, "calling")', ~served[v]
                 PROVE  n[worker'[v]] + pending[worker'[v]] < posts'[worker'[v]]
      OBVIOUS
    <3>1. CASE v = w
      <4>1. c.phase = "calling" /\ worker'[w] = worker[w]
        BY <2>6, <3>1
      <4> QED
        BY <1>c, <1>d, <2>1, <2>3, <3>1, <4>1
    <3>2. CASE v # w
      <4>1. In(v, "calling") /\ worker'[v] = worker[v]
        BY <2>1, <2>5, <3>2
      <4>2. /\ n[worker[v]] + pending[worker[v]] < posts[worker[v]]
            /\ worker[v] \in Batches
        BY <1>d, <1>e, <4>1
      <4>3. posts'[worker[v]] \in Nat
        BY <4>2 DEF Times
      <4> QED
        BY <1>c, <2>4, <4>1, <4>2, <4>3
    <3> QED
      BY <3>1, <3>2
  <2> QED
    BY <1>a, <1>b, <2>2, <2>4, <2>7, <2>8, NothingApplied
<1>5. ASSUME NEW w \in Workers, Repeat(w) \/ CutWait(w) \/ GiveUp(w) PROVE Counts(n)'
  <2>1. /\ call[w] \in Do!Calls
        /\ call[w].phase = "waiting" => call[w].err # "ok" /\ call[w].attempts < Do!MaxAttempts
        /\ call[w].phase = "returned" => call[w].err # "ok"
    BY <1>5, HeldByOne DEF Repeat, CutWait, GiveUp, In, DInv, AInv, Sending
  <2>2. CASE Repeat(w)
    <3> DEFINE c == Do!AfterDelay(call[w])
    <3>1. c \in Do!Calls /\ c.phase = "calling"
      BY <2>1, <2>2, AfterDelayFields DEF Repeat, In
    <3>2. GoOn(w, c) /\ In(w, "waiting") /\ posts' = [posts EXCEPT ![worker[w]] = @ + 1]
      BY <2>2 DEF Repeat
    <3> HIDE DEF c
    <3> QED
      BY <1>4, <3>1, <3>2
  <2>3. CASE CutWait(w)
    <3> DEFINE c == Do!AfterCancel(call[w])
    <3>1. c \in Do!Calls /\ c.phase = "returned" /\ c.err # "ok"
      BY <2>1, <2>3, AfterCancelFields DEF CutWait, In
    <3>2. GoOn(w, c) /\ In(w, "waiting") /\ posts' = posts
      BY <2>3 DEF CutWait
    <3> HIDE DEF c
    <3> QED
      BY <1>4, <3>1, <3>2
  <2>4. CASE GiveUp(w)
    <3> DEFINE c == call[w]
    <3>1. c \in Do!Calls /\ c.phase = "returned" /\ c.err # "ok"
      BY <2>1, <2>4 DEF GiveUp, In
    <3>2. GoOn(w, c) /\ In(w, "returned") /\ posts' = posts
      BY <2>4 DEF GiveUp
    <3> HIDE DEF c
    <3> QED
      BY <1>4, <3>1, <3>2
  <2> QED
    BY <1>5, <2>2, <2>3, <2>4
<1> QED
  BY <1>2, <1>3, <1>5 DEF Others

LEMMA NextCInv == CInv /\ [DeliveryNext]_<<allVars, deliveryVars>> => CInv'
<1> SUFFICES ASSUME CInv, [DeliveryNext]_<<allVars, deliveryVars>> PROVE CInv'
  OBVIOUS
<1>a. DInv /\ ServedTypeOK /\ \E n : Counts(n)
  BY DEF CInv
<1>b. DInv'
  BY <1>a, NextDInv
<1>c. posts' \in Times
  BY <1>b, FourAttempts DEF DInv, AInv, SenderTypeOK, Times
<1> PICK n : Counts(n)
  BY <1>a
<1> DEFINE Goal == ServedTypeOK' /\ \E m : Counts(m)'
<1>1. ASSUME Collect \/ UNCHANGED <<allVars, deliveryVars>> PROVE Goal
  <2>1. UNCHANGED <<report, served, pending, count, posts, said, call, worker>>
    BY <1>1 DEF Collect, deliveryVars, reportVars, serverVars, allVars, agentVars, vars, workVars
  <2>2. Sum(n)' = Sum(n)
    BY <1>a, <2>1, CountTypes, SumStays DEF Counts
  <2>3. Counts(n)'
    BY <2>1, <2>2 DEF Counts, In
  <2>4. ServedTypeOK'
    BY <1>a, <2>1 DEF ServedTypeOK
  <2> QED
    BY <2>3, <2>4
<1>2. ASSUME ReportMetrics PROVE Goal
  <2>1. Counts(n)'
    BY <1>2, <1>a, <1>c, ReportCounts
  <2>2. ServedTypeOK'
    BY <1>2, <1>a DEF ReportMetrics, ServedTypeOK
  <2> QED
    BY <2>1, <2>2
<1>3. ASSUME Others PROVE Goal
  <2>1. Counts(n)'
    BY <1>3, <1>a, <1>c, OtherCounts
  <2>2. ServedTypeOK'
    BY <1>3, <1>a DEF Others, deliveryVars, ServedTypeOK
  <2> QED
    BY <2>1, <2>2
<1>4. ASSUME NEW w \in Workers, Serve(w) PROVE Goal
  <2> DEFINE b == worker[w]
  <2>1. /\ UNCHANGED allVars /\ UNCHANGED <<report, pending>> /\ count' = count + report[b]
        /\ In(w, "calling") /\ ~served[w] /\ served' = [served EXCEPT ![w] = TRUE]
    BY <1>4 DEF Serve, Apply, CountAfter, reportVars
  <2>2. b \in Batches
    BY <1>a, <2>1, HeldByOne DEF In, DInv
  <2>3. \E v \in Workers : In(v, "calling") /\ ~served[v] /\ b = worker[v] /\ served' = [served EXCEPT ![v] = TRUE]
    BY <2>1
  <2> HIDE DEF b
  <2>4. \E m : Counts(m)'
    BY <1>a, <2>1, <2>2, <2>3, ServeCounts
  <2>5. ServedTypeOK'
    BY <1>a, <2>1 DEF ServedTypeOK
  <2> QED
    BY <2>4, <2>5
<1>5. ASSUME NEW w \in Workers, Send(w) PROVE Goal
  <2>1. Counts(n)'
    BY <1>5, <1>a, <1>c, SendCounts
  <2>2. ServedTypeOK'
    BY <1>5, <1>a DEF Send, ServedTypeOK
  <2> QED
    BY <2>1, <2>2
<1>6. ASSUME NEW w \in Workers, ComeBack(w) PROVE Goal
  <2>1. Counts(n)' /\ ServedTypeOK'
    BY <1>6, <1>a, ComeBackCounts
  <2> QED
    BY <2>1
<1>7. ASSUME NEW b \in Batches, ServeLate(b) PROVE Goal
  <2>1. /\ UNCHANGED allVars /\ UNCHANGED <<report, served>> /\ count' = count + report[b]
        /\ pending[b] > 0 /\ pending' = [pending EXCEPT ![b] = @ - 1]
    BY <1>7 DEF ServeLate, Apply, CountAfter, reportVars
  <2>2. \E m : Counts(m)'
    BY <1>a, <2>1, ServeCounts
  <2>3. ServedTypeOK'
    BY <1>a, <2>1 DEF ServedTypeOK
  <2> QED
    BY <2>2, <2>3
<1>8. Goal
  BY <1>1, <1>2, <1>3, <1>4, <1>5, <1>6, <1>7 DEF DeliveryNext
<1> QED
  BY <1>b, <1>8 DEF CInv

\* PollCount at the server is at least the total of the acknowledged reports and
\* at most that of all the requests made, for any number of workers, reports and
\* polls, however many requests are lost, repeated, or arrive after they were
\* given up (collector.go:122-123, retry.go:16, sender.go:116-140).
THEOREM CountIsBounded == DeliverySpec => []CountBounds
<1>1. DeliveryInit => CInv
  BY InitDInv, InitCounts DEF CInv
<1>2. CInv => CountBounds
  <2> SUFFICES ASSUME CInv PROVE CountBounds
    OBVIOUS
  <2>1. DInv /\ \E n : Counts(n)
    BY DEF CInv
  <2> PICK n : Counts(n)
    BY <2>1
  <2> DEFINE once == [b \in Batches |-> IF said[b] = "ok" THEN 1 ELSE 0]
  <2>2. report \in Times /\ pending \in Times /\ posts \in Times /\ n \in Times
    BY <2>1, CountTypes DEF Counts
  <2>3. once \in Times /\ \A b \in Batches : once[b] = IF said[b] = "ok" THEN 1 ELSE 0
    BY DEF Times
  <2>4. \A b \in Batches : n[b] \in Nat /\ pending[b] \in Nat /\ posts[b] \in Nat
    BY <2>2 DEF Times
  <2>5. \A b \in Batches : n[b] + pending[b] <= posts[b] /\ (said[b] = "ok" => n[b] >= 1)
    BY DEF Counts
  <2>6. \A b \in Batches : once[b] <= n[b] /\ n[b] <= posts[b]
    BY <2>3, <2>4, <2>5
  <2> HIDE DEF once
  <2>7. Sum(once) <= Sum(n) /\ Sum(n) <= Sum(posts)
    BY <2>2, <2>3, <2>6, SumNoLess
  <2>8. count = Sum(n)
    BY DEF Counts
  <2> QED
    BY <2>7, <2>8 DEF CountBounds, once
<1> QED
  BY <1>1, <1>2, NextCInv, PTL DEF DeliverySpec

=============================================================================

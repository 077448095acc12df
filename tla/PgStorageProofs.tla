-------------------------- MODULE PgStorageProofs --------------------------
(***************************************************************************)
(* Safety of the PostgreSQL storage for any number of clients, any calls   *)
(* and any table.                                                          *)
(*                                                                         *)
(* AppliedOnce is not inductive: that a call is not committed a second     *)
(* time rests on where its record of retry.Do is when a transaction may    *)
(* run, on no commit being followed by another attempt, and on the rows    *)
(* that open transactions hold being apart.                                *)
(*                                                                         *)
(* That the table implements MetricStore rests on what an open transaction *)
(* sees: the operations it has done, applied to the table as the others    *)
(* have committed it by now.                                               *)
(***************************************************************************)
EXTENDS PgStorage, RecursionTheorems, TLAPS

\* A transaction runs exactly in an attempt, and a wait follows an error
\* that is worth repeating.
Attempts ==
    \A c \in Clients :
        /\ doing[c] = "tx" <=> call[c].phase = "calling"
        /\ doing[c] = "retry" <=> call[c].phase = "waiting"
        /\ doing[c] = "retry" => call[c].err = "retriable" /\ call[c].attempts < Do!MaxAttempts

\* Nothing of a call that is still going on has been committed.
Applied ==
    \A c \in Clients :
        /\ doing[c] # "idle" => effects[c] = 0
        /\ effects[c] <= 1
        /\ doing[c] = "idle" /\ made[c] > 0 /\ call[c].err = "ok" => effects[c] = 1

\* Two transactions never both hold a row, and a call that has returned, or
\* that waits to be repeated, holds none.
RowsHeldOnce ==
    /\ \A c, d \in Clients : c # d => Held(c) \cap Held(d) = {}
    /\ \A c \in Clients : ~InTx(c) => Held(c) = {}

Inv == PgTypeOK /\ Attempts /\ RowsHeldOnce /\ Applied

-----------------------------------------------------------------------------
\* The operators.

LEMMA FourAttempts == Do!MaxAttempts = 4
BY DEF Do!MaxAttempts, Do!Delays

LEMMA BeginTyped == Do!Begin \in Do!Calls /\ Do!Begin.phase = "calling"
<1>1. 1 \in 1..Do!MaxAttempts
  BY FourAttempts
<1> QED
  BY <1>1 DEF Do!Begin, Do!Calls, Do!Outcomes

LEMMA OpTyped ==
    ASSUME PgTypeOK, NEW c \in Clients, ~Done(c)
    PROVE  /\ Op(c).id \in Ids /\ Op(c).amount \in Amounts
           /\ pos[c] + 1 \in Nat \ {0} /\ pos[c] + 1 <= Len(ops[c]) + 1
<1>1. pos[c] \in Nat \ {0} /\ ops[c] \in UpdateCalls \cup {<<>>}
  BY DEF PgTypeOK
<1> DEFINE Ops == [type : STRING, id : Ids, amount : Amounts]
<1>2. \A S : <<>> \in Seq(S)
  OBVIOUS
<1>3. ops[c] \in Seq(Ops)
  BY <1>1, <1>2, CallsAssumption
<1> HIDE DEF Ops
<1>4. pos[c] \in 1..Len(ops[c]) /\ Len(ops[c]) \in Nat
  BY <1>1, <1>3 DEF Done
<1>5. ops[c][pos[c]] \in Ops
  BY <1>3, <1>4
<1> QED
  BY <1>4, <1>5 DEF Op, Ops

LEMMA RowNow ==
    ASSUME PgTypeOK, NEW c \in Clients, NEW id \in Ids
    PROVE  Visible(c, id) \in Rows \cup {NoRow}
BY DEF PgTypeOK, Visible, Held

\* The BIGINT check is what keeps a counter in its column.
LEMMA UpsertTyped ==
    ASSUME NEW row \in Rows \cup {NoRow}, NEW op, op.amount \in Amounts,
           Runs(op), ~Overflows(row, op)
    PROVE  Upsert(row, op) \in Rows
<1>1. op.amount \in (-MaxInt - 1)..MaxInt /\ Null \in Amounts
  BY DEF Runs, Amounts
<1>2. CASE row = NoRow
  BY <1>1, <1>2 DEF Upsert, Rows, Runs
<1>3. CASE row \in Rows /\ row # NoRow /\ op.type = "gauge"
  BY <1>3 DEF Upsert, Rows
<1>4. CASE row \in Rows /\ row # NoRow /\ op.type = "counter"
  <2>1. row.delta \in Amounts
    BY <1>4 DEF Rows
  <2>2. Sum(row.delta, op.amount) \in Amounts
    BY <1>1, <1>4, <2>1 DEF Sum, Overflows, Amounts
  <2> QED
    BY <1>4, <2>2 DEF Upsert, Rows
<1> QED
  BY <1>2, <1>3, <1>4 DEF Runs

-----------------------------------------------------------------------------
\* The end of an attempt: the transaction is over, and only an error that is
\* worth repeating, of an attempt that was not the last, is waited for.

LEMMA AttemptOver ==
    ASSUME Inv, NEW c \in Clients, InTx(c), NEW outcome \in Do!Outcomes, AttemptEnds(c, outcome)
    PROVE  /\ call' \in [Clients -> Do!Calls]
           /\ \A d \in Clients : d # c => call'[d] = call[d] /\ doing'[d] = doing[d]
           /\ doing' \in [Clients -> {"idle", "tx", "retry"}]
           /\ call'[c].err = outcome
           /\ \/ /\ doing'[c] = "retry" /\ call'[c].phase = "waiting"
                 /\ outcome = "retriable" /\ call'[c].attempts < Do!MaxAttempts
              \/ doing'[c] = "idle" /\ call'[c].phase = "returned"
           /\ Attempts'
           /\ RowsHeldOnce'
           /\ pos' \in [Clients -> Nat \ {0}] /\ \A d \in Clients : pos'[d] <= Len(ops'[d]) + 1
           /\ DOMAIN writes' = Clients
           /\ \A d \in Clients : DOMAIN writes'[d] \subseteq Ids /\ writes'[d] \in [DOMAIN writes'[d] -> Rows]
<1>1. call[c] \in Do!Calls /\ doing[c] = "tx"
  BY DEF Inv, PgTypeOK, InTx
<1>2. DEFINE after == Do!AfterAttempt(call[c], outcome)
<1>3. /\ after \in Do!Calls /\ after.err = outcome /\ after.attempts = call[c].attempts
      /\ after.phase = IF outcome = "retriable" /\ call[c].attempts < Do!MaxAttempts
                       THEN "waiting" ELSE "returned"
  BY <1>1 DEF Do!AfterAttempt, Do!Calls
<1>4. \A d \in Clients : call'[d] = IF d = c THEN after ELSE call[d]
  BY DEF AttemptEnds, Inv, PgTypeOK
<1> HIDE DEF after
<1>5. /\ call' \in [Clients -> Do!Calls]
      /\ \A d \in Clients : doing'[d] = IF d # c THEN doing[d]
                                      ELSE IF after.phase = "waiting" THEN "retry" ELSE "idle"
      /\ doing' \in [Clients -> {"idle", "tx", "retry"}]
  BY <1>3, <1>4 DEF AttemptEnds, Inv, PgTypeOK, after
<1>6. Attempts'
  BY <1>3, <1>4, <1>5 DEF Inv, Attempts
<1>7. \A d \in Clients : writes'[d] = IF d = c THEN NoRows ELSE writes[d]
  BY DEF AttemptEnds, Rollback, Inv, PgTypeOK
<1>8. DOMAIN NoRows = {} /\ NoRows \in [{} -> Rows]
  BY DEF NoRows
<1>9. RowsHeldOnce'
  BY <1>5, <1>7, <1>8 DEF RowsHeldOnce, Held, InTx, Inv
<1>10. pos' \in [Clients -> Nat \ {0}] /\ \A d \in Clients : pos'[d] <= Len(ops'[d]) + 1
  <2>1. \A d \in Clients : Len(ops[d]) \in Nat
    BY CallsAssumption DEF Inv, PgTypeOK
  <2>2. \A d \in Clients : pos'[d] = IF d = c THEN 1 ELSE pos[d]
    BY DEF AttemptEnds, Inv, PgTypeOK
  <2> QED
    BY <2>1, <2>2 DEF AttemptEnds, Inv, PgTypeOK
<1>11. DOMAIN writes' = Clients
  BY DEF AttemptEnds, Rollback, Inv, PgTypeOK
<1>12. \A d \in Clients : DOMAIN writes'[d] \subseteq Ids /\ writes'[d] \in [DOMAIN writes'[d] -> Rows]
  BY <1>7, <1>8 DEF Inv, PgTypeOK
<1> QED
  BY <1>3, <1>4, <1>5, <1>6, <1>9, <1>10, <1>11, <1>12

LEMMA ErrorsAreOutcomes == ASSUME NEW how PROVE isRetriablePgError(how) \in {"retriable", "fatal"}
BY DEF isRetriablePgError

\* A commit: its rows are the table's, and the call has had its effect.
LEMMA CommitInv ==
    ASSUME Inv, NEW c \in Clients, InTx(c), NEW outcome \in Do!Outcomes \ {"retriable"},
           Committed(c), AttemptEnds(c, outcome)
    PROVE  Inv'
<1>1. outcome \in Do!Outcomes
  OBVIOUS
<1>2. table' \in [Ids -> Rows \cup {NoRow}]
  BY RowNow DEF Committed, Inv
<1>3. /\ \A d \in Clients : effects'[d] = IF d = c THEN effects[c] + 1 ELSE effects[d]
      /\ effects' \in [Clients -> Nat] /\ commits' \in Nat
  BY DEF Committed, Inv, PgTypeOK
<1>4. PgTypeOK'
  BY <1>1, <1>2, <1>3, AttemptOver DEF Inv, PgTypeOK, AttemptEnds
<1>5. effects[c] = 0 /\ doing'[c] = "idle"
  BY <1>1, AttemptOver DEF Inv, Applied, InTx
<1>6. \A d \in Clients : d # c => call'[d] = call[d] /\ doing'[d] = doing[d]
  BY <1>1, AttemptOver
<1>7. Applied'
  BY <1>3, <1>5, <1>6 DEF Inv, Applied, AttemptEnds
<1> QED
  BY <1>1, <1>4, <1>7, AttemptOver DEF Inv

\* An attempt that comes to nothing.
LEMMA FailedInv ==
    ASSUME Inv, NEW c \in Clients, InTx(c), NEW how,
           AttemptEnds(c, isRetriablePgError(how)), UNCHANGED <<table, ghosts>>
    PROVE  Inv'
<1>1. isRetriablePgError(how) \in Do!Outcomes /\ isRetriablePgError(how) # "ok"
  BY ErrorsAreOutcomes DEF Do!Outcomes
<1>2. PgTypeOK'
  BY <1>1, AttemptOver DEF Inv, PgTypeOK, AttemptEnds, ghosts
<1>3. effects[c] = 0 /\ call'[c].err # "ok"
  BY <1>1, AttemptOver DEF Inv, Applied, InTx
<1>4. \A d \in Clients : d # c => call'[d] = call[d] /\ doing'[d] = doing[d]
  BY <1>1, AttemptOver
<1>5. Applied'
  BY <1>3, <1>4 DEF Inv, Applied, AttemptEnds, ghosts
<1> QED
  BY <1>1, <1>2, <1>5, AttemptOver DEF Inv

-----------------------------------------------------------------------------

LEMMA InitInv == PgInit => Inv
<1> SUFFICES ASSUME PgInit PROVE Inv
  OBVIOUS
<1>1. Do!AfterAttempt(Do!Begin, "ok") \in Do!Calls
      /\ Do!AfterAttempt(Do!Begin, "ok").phase = "returned"
  BY BeginTyped DEF Do!AfterAttempt, Do!Calls, Do!Outcomes
<1>2. DOMAIN NoRows = {} /\ NoRows \in [{} -> Rows]
  BY DEF NoRows
<1>3. PgTypeOK
  BY <1>1, <1>2, BoundsAssumption DEF PgInit, PgTypeOK
<1>4. Attempts /\ RowsHeldOnce /\ Applied
  BY <1>1, <1>2 DEF PgInit, Attempts, RowsHeldOnce, Held, Applied
<1> QED
  BY <1>3, <1>4 DEF Inv

LEMMA NextInv == Inv /\ [PgNext]_pgVars => Inv'
<1> SUFFICES ASSUME Inv, [PgNext]_pgVars PROVE Inv'
  OBVIOUS
<1>a. PgTypeOK /\ Attempts /\ RowsHeldOnce /\ Applied
  BY DEF Inv
<1>b. \A d \in Clients : Len(ops[d]) \in Nat
  BY <1>a, CallsAssumption DEF PgTypeOK
<1>1. ASSUME NEW c \in Clients, NEW o \in UpdateCalls, Call(c, o) PROVE Inv'
  <2>1. Do!Begin \in Do!Calls /\ Do!Begin.phase = "calling"
    BY BeginTyped
  <2>2. /\ \A d \in Clients : doing'[d] = IF d = c THEN "tx" ELSE doing[d]
        /\ \A d \in Clients : call'[d] = IF d = c THEN Do!Begin ELSE call[d]
        /\ \A d \in Clients : effects'[d] = IF d = c THEN 0 ELSE effects[d]
        /\ \A d \in Clients : made'[d] = IF d = c THEN made[c] + 1 ELSE made[d]
        /\ \A d \in Clients : ops'[d] = IF d = c THEN o ELSE ops[d]
        /\ \A d \in Clients : pos'[d] = IF d = c THEN 1 ELSE pos[d]
    BY <1>1, <1>a DEF Call, PgTypeOK
  <2>3. Len(o) \in Nat
    BY CallsAssumption
  <2>4. made' \in [Clients -> 0..MaxCalls]
    BY <1>1, <1>a, BoundsAssumption DEF Call, PgTypeOK
  <2>5. pos' \in [Clients -> Nat \ {0}] /\ \A d \in Clients : pos'[d] <= Len(ops'[d]) + 1
    BY <1>1, <1>a, <1>b, <2>2, <2>3 DEF Call, PgTypeOK
  <2>6. PgTypeOK'
    BY <1>1, <1>a, <2>1, <2>4, <2>5 DEF Call, PgTypeOK
  <2>7. Attempts' /\ Applied'
    BY <1>a, <2>1, <2>2 DEF Attempts, Applied
  <2>8. RowsHeldOnce'
    BY <1>1, <1>a, <2>2 DEF Call, RowsHeldOnce, Held, InTx
  <2> QED
    BY <2>6, <2>7, <2>8 DEF Inv
<1>2. ASSUME NEW c \in Clients, Skip(c) PROVE Inv'
  <2>1. pos[c] + 1 \in Nat \ {0} /\ pos[c] + 1 <= Len(ops[c]) + 1
    BY <1>2, <1>a, OpTyped DEF Skip
  <2>2. \A d \in Clients : pos'[d] = IF d = c THEN pos[c] + 1 ELSE pos[d]
    BY <1>2, <1>a DEF Skip, PgTypeOK
  <2>3. PgTypeOK'
    BY <1>2, <1>a, <2>1, <2>2 DEF Skip, PgTypeOK, ghosts
  <2> QED
    BY <1>2, <1>a, <2>3 DEF Skip, Inv, Attempts, RowsHeldOnce, Held, InTx, Applied, ghosts
<1>3. ASSUME NEW c \in Clients, Exec(c) PROVE Inv'
  <2> DEFINE row == Visible(c, Op(c).id)
             wrote == Wrote(c, Op(c).id, Upsert(row, Op(c)))
  <2>1. /\ Op(c).id \in Ids /\ Op(c).amount \in Amounts
        /\ pos[c] + 1 \in Nat \ {0} /\ pos[c] + 1 <= Len(ops[c]) + 1
    BY <1>3, <1>a, OpTyped DEF Exec
  <2>2. Upsert(row, Op(c)) \in Rows
    BY <1>3, <1>a, <2>1, RowNow, UpsertTyped DEF Exec
  <2>3. /\ DOMAIN wrote = Held(c) \cup {Op(c).id}
        /\ DOMAIN wrote \subseteq Ids
        /\ wrote \in [DOMAIN wrote -> Rows]
    BY <1>a, <2>1, <2>2 DEF Wrote, Held, PgTypeOK
  <2>4. DOMAIN writes' = Clients /\ \A d \in Clients : writes'[d] = IF d = c THEN wrote ELSE writes[d]
    BY <1>3, <1>a DEF Exec, PgTypeOK
  <2>5. \A d \in Clients : pos'[d] = IF d = c THEN pos[c] + 1 ELSE pos[d]
    BY <1>3, <1>a DEF Exec, PgTypeOK
  <2>6. \A d \in Clients \ {c} : Op(c).id \notin Held(d)
    BY <1>3 DEF Exec, Free, Blockers
  <2> HIDE DEF wrote
  <2>7. PgTypeOK'
    <3>1. pos' \in [Clients -> Nat \ {0}] /\ \A d \in Clients : pos'[d] <= Len(ops'[d]) + 1
      BY <1>3, <1>a, <2>1, <2>5 DEF Exec, PgTypeOK
    <3>2. \A d \in Clients : DOMAIN writes'[d] \subseteq Ids /\ writes'[d] \in [DOMAIN writes'[d] -> Rows]
      BY <1>a, <2>3, <2>4 DEF PgTypeOK
    <3> QED
      BY <1>3, <1>a, <2>4, <3>1, <3>2 DEF Exec, PgTypeOK, ghosts
  <2>8. RowsHeldOnce'
    BY <1>3, <1>a, <2>3, <2>4, <2>6 DEF Exec, RowsHeldOnce, Held, InTx
  <2>9. Attempts' /\ Applied'
    BY <1>3, <1>a DEF Exec, Attempts, Applied, ghosts
  <2> QED
    BY <2>7, <2>8, <2>9 DEF Inv
<1>4. ASSUME NEW c \in Clients, Commit(c) PROVE Inv'
  BY <1>4, CommitInv DEF Commit, Do!Outcomes
<1>5. ASSUME NEW c \in Clients, CommitUnheard(c) PROVE Inv'
  BY <1>5, CommitInv DEF CommitUnheard, isRetriablePgError, Do!Outcomes
<1>6. ASSUME NEW c \in Clients, OutOfRange(c) PROVE Inv'
  BY <1>6, FailedInv DEF OutOfRange
<1>7. ASSUME NEW c \in Clients, Deadlock(c) PROVE Inv'
  <2>1. InTx(c)
    BY <1>7 DEF Deadlock, Waits
  <2> QED
    BY <1>7, <2>1, FailedInv DEF Deadlock
<1>8. ASSUME NEW c \in Clients, NEW how \in Failures, Fail(c, how) PROVE Inv'
  BY <1>8, FailedInv DEF Fail
<1>9. ASSUME NEW c \in Clients, Repeat(c) PROVE Inv'
  <2>1. call[c] \in Do!Calls /\ call[c].attempts < Do!MaxAttempts
    BY <1>9, <1>a DEF Repeat, PgTypeOK, Attempts
  <2>2. Do!AfterDelay(call[c]) \in Do!Calls /\ Do!AfterDelay(call[c]).phase = "calling"
    <3>1. call[c].attempts + 1 \in 1..Do!MaxAttempts
      BY <2>1, FourAttempts DEF Do!Calls
    <3> QED
      BY <2>1, <3>1 DEF Do!AfterDelay, Do!Calls
  <2>3. /\ \A d \in Clients : doing'[d] = IF d = c THEN "tx" ELSE doing[d]
        /\ \A d \in Clients : call'[d] = IF d = c THEN Do!AfterDelay(call[c]) ELSE call[d]
    BY <1>9, <1>a DEF Repeat, PgTypeOK
  <2>4. PgTypeOK'
    BY <1>9, <1>a, <2>2, <2>3 DEF Repeat, PgTypeOK, ghosts
  <2>5. Attempts' /\ Applied'
    BY <1>9, <1>a, <2>2, <2>3 DEF Repeat, Attempts, Applied, ghosts
  <2>6. RowsHeldOnce'
    BY <1>9, <1>a, <2>3 DEF Repeat, RowsHeldOnce, Held, InTx
  <2> QED
    BY <2>4, <2>5, <2>6 DEF Inv
<1>10. ASSUME NEW c \in Clients, Cancel(c) PROVE Inv'
  <2>1. call[c] \in Do!Calls /\ call[c].err = "retriable"
    BY <1>10, <1>a DEF Cancel, PgTypeOK, Attempts
  <2>2. /\ Do!AfterCancel(call[c]) \in Do!Calls /\ Do!AfterCancel(call[c]).phase = "returned"
        /\ Do!AfterCancel(call[c]).err = "retriable"
    BY <2>1 DEF Do!AfterCancel, Do!Calls
  <2>3. /\ \A d \in Clients : doing'[d] = IF d = c THEN "idle" ELSE doing[d]
        /\ \A d \in Clients : call'[d] = IF d = c THEN Do!AfterCancel(call[c]) ELSE call[d]
    BY <1>10, <1>a DEF Cancel, PgTypeOK
  <2>4. PgTypeOK'
    BY <1>10, <1>a, <2>2, <2>3 DEF Cancel, PgTypeOK, ghosts
  <2>5. Attempts' /\ Applied'
    BY <1>10, <1>a, <2>2, <2>3 DEF Cancel, Attempts, Applied, ghosts
  <2>6. RowsHeldOnce'
    BY <1>10, <1>a, <2>3 DEF Cancel, RowsHeldOnce, Held, InTx
  <2> QED
    BY <2>4, <2>5, <2>6 DEF Inv
<1>11. CASE UNCHANGED pgVars
  BY <1>11 DEF pgVars, ghosts, Inv, PgTypeOK, Attempts, RowsHeldOnce, Held, InTx, Applied
<1> QED
  BY <1>1, <1>2, <1>3, <1>4, <1>5, <1>6, <1>7, <1>8, <1>9, <1>10, <1>11 DEF PgNext, Finish

LEMMA Invariance == PgSafeSpec => []Inv
BY InitInv, NextInv, PTL DEF PgSafeSpec

-----------------------------------------------------------------------------

\* Every row of the table and of a transaction is one the columns can hold:
\* a counter leaves BIGINT in no call, the batch is refused instead
\* (storage.go:85-101).
THEOREM TypeCorrect == PgSafeSpec => []PgTypeOK
BY Invariance, PTL DEF Inv

\* A call is applied at most once whatever failed in which of its attempts,
\* and once if it returned nil (storage.go:66-102, retry.go:22-46).
THEOREM NoCallAppliedTwice == PgSafeSpec => []AppliedOnce
<1>1. Inv => AppliedOnce
  BY DEF Inv, Applied, AppliedOnce
<1> QED
  BY <1>1, Invariance, PTL

-----------------------------------------------------------------------------
\* What a call does to the metric i of one kind, operation by operation.

Kinds == {"gauge", "counter"}

\* What Gauges and Counters show of a row.
Reading(kind, row) ==
    IF row # NoRow /\ row.type = kind
    THEN IF kind = "gauge" THEN row.value ELSE row.delta
    ELSE Null

Effect(kind, i, held, op) ==
    IF op.id = i /\ op.type = kind /\ op.amount # Null
    THEN IF kind = "gauge" THEN op.amount
         ELSE Store!Plus(IF held = Null THEN 0 ELSE held, op.amount)
    ELSE held

\* v is the metric before the first operation of o and after each.
Follows(v, kind, i, o) == \A k \in 1..Len(o) : v[k] = Effect(kind, i, v[k - 1], o[k])

\* The same of the whole map, as MetricStore has it.
Measuring(held, op) == IF Store!Measures(op) THEN [held EXCEPT ![op.id] = op.amount] ELSE held
Counting(held, op) == IF Store!Counts(op) THEN Store!AddTo(held, op) ELSE held
StepOf(kind, held, op) == IF kind = "gauge" THEN Measuring(held, op) ELSE Counting(held, op)
InStore(kind, held, o) == IF kind = "gauge" THEN Store!Measured(held, o) ELSE Store!Counted(held, o)

Levels == [Ids -> Int \cup {Null}]
Operations == [type : STRING, id : Ids, amount : Amounts]

LEMMA PlusInRange ==
    ASSUME NEW a \in Int, NEW b \in Int, a + b \in (-MaxInt - 1)..MaxInt
    PROVE  Store!Plus(a, b) = a + b
<1> DEFINE x == a + b + MaxInt + 1
           n == 2 * MaxInt + 2
<1>1. x \in Nat /\ n \in Nat /\ x < n
  BY BoundsAssumption
<1>2. x - (MaxInt + 1) = a + b
  BY BoundsAssumption
<1> HIDE DEF n, x
<1>3. x % n = x
  BY <1>1
<1> QED
  BY <1>2, <1>3 DEF Store!Plus, x, n

LEMMA PlusIsInt == ASSUME NEW a \in Int, NEW b \in Int PROVE Store!Plus(a, b) \in Int
BY BoundsAssumption DEF Store!Plus

LEMMA OneOperation ==
    ASSUME NEW kind \in Kinds, NEW held \in Levels, NEW op \in Operations
    PROVE  /\ StepOf(kind, held, op) \in Levels
           /\ \A i \in Ids : StepOf(kind, held, op)[i] = Effect(kind, i, held[i], op)
<1>1. op.id \in Ids /\ op.amount \in Int \cup {Null}
  BY BoundsAssumption DEF Operations, Amounts
<1>2. CASE kind = "gauge"
  <2> DEFINE put == [held EXCEPT ![op.id] = op.amount]
  <2>1. StepOf(kind, held, op) = IF op.type = "gauge" /\ op.amount # Null THEN put ELSE held
    BY <1>2 DEF StepOf, Measuring, Store!Measures
  <2>2. put \in Levels /\ \A i \in Ids : put[i] = IF i = op.id THEN op.amount ELSE held[i]
    BY <1>1 DEF Levels
  <2> HIDE DEF put
  <2> QED
    BY <1>2, <2>1, <2>2 DEF Effect
<1>3. CASE kind = "counter"
  <2> DEFINE put == Store!AddTo(held, op)
             start == IF held[op.id] = Null THEN 0 ELSE held[op.id]
             sum == Store!Plus(start, op.amount)
  <2>1. StepOf(kind, held, op) = IF op.type = "counter" /\ op.amount # Null THEN put ELSE held
    BY <1>3 DEF StepOf, Counting, Store!Counts
  <2>2. start \in Int
    BY <1>1 DEF Levels
  <2>3. put = [held EXCEPT ![op.id] = sum]
    BY <1>1 DEF Store!AddTo, Levels
  <2>4. op.amount # Null => sum \in Int
    <3> HIDE DEF start
    <3> QED
      BY <1>1, <2>2, PlusIsInt
  <2> HIDE DEF put
  <2>5. ASSUME op.amount # Null
        PROVE  put \in Levels /\ \A i \in Ids : put[i] = IF i = op.id THEN sum ELSE held[i]
    <3> HIDE DEF sum
    <3> QED
      BY <1>1, <2>3, <2>4, <2>5 DEF Levels
  <2>6. ASSUME NEW i \in Ids
        PROVE  StepOf(kind, held, op)[i] = Effect(kind, i, held[i], op)
    <3>1. i = op.id /\ op.amount # Null /\ op.type = "counter" => Effect(kind, i, held[i], op) = sum
      BY <1>3 DEF Effect
    <3>2. ~(i = op.id /\ op.amount # Null /\ op.type = "counter") => Effect(kind, i, held[i], op) = held[i]
      BY <1>3 DEF Effect
    <3> HIDE DEF sum
    <3> QED
      BY <2>1, <2>5, <3>1, <3>2
  <2> QED
    BY <2>1, <2>5, <2>6
<1> QED
  BY <1>2, <1>3 DEF Kinds

\* The fold of SequencesExt, one name for both.
IsFold(f, kind, held, o) ==
    f = [s \in SUBSET DOMAIN o |->
            IF s = {} THEN held ELSE StepOf(kind, f[s \ {Largest(s)}], o[Largest(s)])]

LEMMA MeasuredIsFold ==
    ASSUME NEW held, NEW o, NEW f, IsFold(f, "gauge", held, o)
    PROVE  \E g : IsFold(g, "gauge", held, o) /\ Store!Measured(held, o) = g[DOMAIN o]
<1> DEFINE Fold(h) == h = [s \in SUBSET DOMAIN o |->
                              IF s = {} THEN held ELSE Measuring(h[s \ {Largest(s)}], o[Largest(s)])]
           g == CHOOSE h : Fold(h)
<1>1. \A h : Fold(h) <=> IsFold(h, "gauge", held, o)
  BY DEF IsFold, StepOf
<1>2. Store!Measured(held, o) = g[DOMAIN o]
  BY Zenon DEF Store!Measured, Store!FoldLeft, Store!MapThenFoldSet, Store!Max, Measuring, Largest
<1> HIDE DEF Fold
<1>3. Fold(g)
  BY <1>1, Zenon
<1> QED
  BY <1>1, <1>2, <1>3, Zenon

LEMMA CountedIsFold ==
    ASSUME NEW held, NEW o, NEW f, IsFold(f, "counter", held, o)
    PROVE  \E g : IsFold(g, "counter", held, o) /\ Store!Counted(held, o) = g[DOMAIN o]
<1> DEFINE Fold(h) == h = [s \in SUBSET DOMAIN o |->
                              IF s = {} THEN held ELSE Counting(h[s \ {Largest(s)}], o[Largest(s)])]
           g == CHOOSE h : Fold(h)
<1>1. \A h : Fold(h) <=> IsFold(h, "counter", held, o)
  BY DEF IsFold, StepOf
<1>2. Store!Counted(held, o) = g[DOMAIN o]
  BY Zenon DEF Store!Counted, Store!FoldLeft, Store!MapThenFoldSet, Store!Max, Counting, Largest
<1> HIDE DEF Fold
<1>3. Fold(g)
  BY <1>1, Zenon
<1> QED
  BY <1>1, <1>2, <1>3, Zenon

\* What MetricStore makes of a call is what each metric goes through.
LEMMA EachMetricFollows ==
    ASSUME NEW kind \in Kinds, NEW held \in Levels, NEW o \in UpdateCalls
    PROVE  /\ InStore(kind, held, o) \in Levels
           /\ \A i \in Ids : \E v : /\ v[0] = held[i] /\ v[Len(o)] = InStore(kind, held, o)[i]
                                    /\ Follows(v, kind, i, o)
<1> DEFINE n == Len(o)
           step == [k \in 1..n |-> [h \in Levels |-> StepOf(kind, h, o[k])]]
<1>1. n \in Nat /\ DOMAIN o = 1..n /\ \A k \in 1..n : o[k] \in Operations
  <2>1. o \in Seq(Operations)
    BY CallsAssumption DEF Operations
  <2> QED
    BY <2>1
<1>2. \A k \in 1..n : \A h \in Levels : StepOf(kind, h, o[k]) \in Levels
  BY <1>1, OneOperation
<1> HIDE DEF n
<1>3. /\ step \in [1..n -> [Levels -> Levels]]
      /\ \A k \in 1..n : \A h \in Levels : step[k][h] = StepOf(kind, h, o[k])
  BY <1>2
<1> HIDE DEF step
<1>4. PICK f : RepeatsInOrder(f, n, Levels, held, step)
  BY <1>1, <1>3, SequenceRecursion
<1>5. /\ f \in [SUBSET (1..n) -> Levels]
      /\ \A s \in SUBSET (1..n) :
             f[s] = IF s = {} THEN held ELSE StepOf(kind, f[s \ {Largest(s)}], o[Largest(s)])
  BY <1>3, <1>4 DEF RepeatsInOrder
<1>6. IsFold(f, kind, held, o)
  BY <1>1, <1>5 DEF IsFold
<1>7. PICK g : IsFold(g, kind, held, o) /\ InStore(kind, held, o) = g[1..n]
  BY <1>1, <1>6, MeasuredIsFold, CountedIsFold DEF InStore, Kinds
<1>8. \A s \in SUBSET (1..n) :
          g[s] = IF s = {} THEN held ELSE StepOf(kind, g[s \ {Largest(s)}], o[Largest(s)])
  BY <1>1, <1>7 DEF IsFold
<1>9. \A s \in SUBSET (1..n) : s # {} => Largest(s) \in 1..n
  BY <1>1, SomeLargest DEF Largest
<1>10. TakesLargestLast(g, n, Levels, held, step)
  <2>1. {} \in SUBSET (1..n)
    OBVIOUS
  <2> QED
    BY <1>3, <1>8, <1>9, <2>1 DEF TakesLargestLast
<1>11. PICK run : IsRun(run, n, Levels, held, step) /\ run[n] = g[1..n]
  BY <1>1, <1>3, <1>10, OneAfterAnother
<1>12. InStore(kind, held, o) \in Levels
  BY <1>1, <1>7, <1>11 DEF IsRun
<1>13. ASSUME NEW i \in Ids
       PROVE  \E v : /\ v[0] = held[i] /\ v[Len(o)] = InStore(kind, held, o)[i]
                     /\ Follows(v, kind, i, o)
  <2> DEFINE v == [k \in 0..n |-> run[k][i]]
  <2>1. v[0] = held[i] /\ v[n] = InStore(kind, held, o)[i]
    BY <1>1, <1>7, <1>11 DEF IsRun
  <2>2. ASSUME NEW k \in 1..n PROVE v[k] = Effect(kind, i, v[k - 1], o[k])
    <3>1. k \in 0..n /\ k - 1 \in 0..n
      BY <1>1
    <3>2. run[k] = StepOf(kind, run[k - 1], o[k])
      BY <1>3, <1>11, <3>1 DEF IsRun
    <3>3. run[k][i] = Effect(kind, i, run[k - 1][i], o[k])
      BY <1>1, <1>11, <3>1, <3>2, OneOperation DEF IsRun
    <3> QED
      BY <3>1, <3>3
  <2> HIDE DEF v
  <2>3. Follows(v, kind, i, o)
    BY <2>2 DEF Follows, n
  <2> QED
    BY <2>1, <2>3 DEF n
<1> QED
  BY <1>12, <1>13

-----------------------------------------------------------------------------
\* Where a transaction is.

\* The type of each name's metrics.
OneType(type) ==
    /\ type \in [Ids -> Kinds]
    /\ \A o \in UpdateCalls : \A k \in DOMAIN o : Runs(o[k]) => o[k].type = type[o[k].id]
KindOf == CHOOSE type : OneType(type)

OwnCall == \A c \in Clients : /\ doing[c] # "idle" => ops[c] \in UpdateCalls
                              /\ doing[c] = "retry" => pos[c] = 1

\* A row has the type of its name, and a value in that type's column.
OfItsKind(row, i) == /\ row.type = KindOf[i]
                     /\ row.type = "gauge" => row.value # Null
                     /\ row.type = "counter" => row.delta # Null
TableOfKinds == \A i \in Ids : table[i] # NoRow => OfItsKind(table[i], i)
WritesOfKinds == \A c \in Clients : \A i \in Held(c) : OfItsKind(writes[c][i], i)

\* A transaction holds the rows of the operations it has done.
Touched == \A c \in Clients : InTx(c) =>
               \A k \in 1..(pos[c] - 1) : Runs(ops[c][k]) => ops[c][k].id \in Held(c)

\* What it sees of a metric is what its operations so far make of the
\* metric as it is committed now, by whomever.
SeesOwnWork(c, kind, i, v) ==
    v[0] = Reading(kind, table[i]) /\ Follows(v, kind, i, ops[c])
        => v[pos[c] - 1] = Reading(kind, Visible(c, i))
Inside == \A c \in Clients : InTx(c) =>
              \A kind \in Kinds, i \in Ids : \A v : SeesOwnWork(c, kind, i, v)

Midway == OwnCall /\ TableOfKinds /\ WritesOfKinds /\ Touched /\ Inside

LEMMA KindsExist == ASSUME EachNameHasOneType PROVE OneType(KindOf)
<1>1. \E type : OneType(type)
  BY DEF EachNameHasOneType, OneType, Kinds
<1> QED
  BY <1>1 DEF KindOf

\* An upsert does to a row what the operation does to the metric.
LEMMA UpsertIsEffect ==
    ASSUME NEW i \in Ids, NEW row \in Rows \cup {NoRow}, row # NoRow => OfItsKind(row, i),
           KindOf \in [Ids -> Kinds],
           NEW op \in Operations, op.id = i, Runs(op), op.type = KindOf[i], ~Overflows(row, op)
    PROVE  /\ OfItsKind(Upsert(row, op), i)
           /\ \A kind \in Kinds : Reading(kind, Upsert(row, op)) = Effect(kind, i, Reading(kind, row), op)
<1>a. /\ op.amount \in Int /\ op.amount # Null /\ op.amount \in (-MaxInt - 1)..MaxInt
      /\ op.type \in Kinds /\ Null \notin Int /\ 0 \in Int
  BY AbsenceAssumption, BoundsAssumption DEF Runs, Operations, Amounts, Kinds
<1>b. Upsert(row, op) \in Rows /\ Upsert(row, op) # NoRow
  BY <1>a, UpsertTyped, AbsenceAssumption DEF Operations
<1>1. CASE op.type = "gauge"
  <2>1. row # NoRow => row.type = "gauge"
    BY <1>1 DEF OfItsKind
  <2>2. Upsert(row, op).type = "gauge" /\ Upsert(row, op).value = op.amount
    BY <1>1, <2>1 DEF Upsert, Rows
  <2>3. OfItsKind(Upsert(row, op), i)
    BY <1>1, <1>a, <2>2 DEF OfItsKind
  <2>4. ASSUME NEW kind \in Kinds
        PROVE  Reading(kind, Upsert(row, op)) = Effect(kind, i, Reading(kind, row), op)
    BY <1>1, <1>a, <1>b, <2>1, <2>2 DEF Reading, Effect, Kinds
  <2> QED
    BY <2>3, <2>4
<1>2. CASE op.type = "counter"
  <2> DEFINE old == IF row = NoRow THEN 0 ELSE row.delta
  <2>1. row # NoRow => row.type = "counter" /\ row.delta # Null /\ row.delta \in Int
    BY <1>2, BoundsAssumption DEF OfItsKind, Rows, Amounts
  <2>2. old \in Int /\ old + op.amount \in (-MaxInt - 1)..MaxInt
    <3>1. CASE row = NoRow
      BY <1>a, <3>1, BoundsAssumption
    <3>2. CASE row # NoRow
      BY <1>2, <2>1, <3>2 DEF Overflows
    <3> QED
      BY <3>1, <3>2
  <2>3. Upsert(row, op).type = "counter" /\ Upsert(row, op).delta = old + op.amount
    <3>1. CASE row = NoRow
      BY <1>2, <1>a, <3>1 DEF Upsert
    <3>2. CASE row # NoRow
      BY <1>2, <2>1, <3>2 DEF Upsert, Rows, Sum
    <3> QED
      BY <3>1, <3>2
  <2>4. OfItsKind(Upsert(row, op), i)
    BY <1>2, <1>a, <2>2, <2>3 DEF OfItsKind
  <2>5. old = IF Reading("counter", row) = Null THEN 0 ELSE Reading("counter", row)
    BY <2>1 DEF Reading
  <2> HIDE DEF old
  <2>6. Store!Plus(old, op.amount) = old + op.amount
    BY <1>a, <2>2, PlusInRange
  <2>7. Reading("counter", Upsert(row, op)) = Effect("counter", i, Reading("counter", row), op)
    <3>1. Reading("counter", Upsert(row, op)) = old + op.amount
      BY <1>b, <2>3 DEF Reading
    <3>2. Effect("counter", i, Reading("counter", row), op) = Store!Plus(old, op.amount)
      BY <1>2, <1>a, <2>5 DEF Effect
    <3> QED
      BY <2>6, <3>1, <3>2
  <2>8. Reading("gauge", Upsert(row, op)) = Effect("gauge", i, Reading("gauge", row), op)
    BY <1>2, <1>b, <2>1, <2>3 DEF Reading, Effect
  <2> QED
    BY <2>4, <2>7, <2>8 DEF Kinds
<1> QED
  BY <1>a, <1>1, <1>2 DEF Kinds

\* The operations that a transaction has done have not gone by a row that it
\* does not hold.
LEMMA NotTouched ==
    ASSUME Inv, Midway, NEW c \in Clients, InTx(c), NEW kind \in Kinds,
           NEW i \in Ids, i \notin Held(c), NEW v, Follows(v, kind, i, ops[c])
    PROVE  v[pos[c] - 1] = v[0]
<1>1. /\ Len(ops[c]) \in Nat /\ pos[c] \in Nat \ {0} /\ pos[c] <= Len(ops[c]) + 1
      /\ \A k \in 1..(pos[c] - 1) : Runs(ops[c][k]) => ops[c][k].id \in Held(c)
  BY CallsAssumption DEF Inv, PgTypeOK, Midway, OwnCall, Touched, InTx
<1> DEFINE T == {k \in Nat : k <= pos[c] - 1 => v[k] = v[0]}
<1>2. 0 \in T
  OBVIOUS
<1>3. ASSUME NEW k \in Nat, k \in T PROVE k + 1 \in T
  <2> SUFFICES ASSUME k + 1 <= pos[c] - 1 PROVE v[k + 1] = v[0]
    OBVIOUS
  <2>1. k <= pos[c] - 1 /\ k + 1 \in 1..Len(ops[c]) /\ k + 1 \in 1..(pos[c] - 1) /\ (k + 1) - 1 = k
    BY <1>1
  <2>2. v[k + 1] = Effect(kind, i, v[k], ops[c][k + 1])
    BY <2>1 DEF Follows
  <2>3. Effect(kind, i, v[k], ops[c][k + 1]) = v[k]
    BY <1>1, <2>1 DEF Effect, Runs, Kinds
  <2> QED
    BY <1>3, <2>1, <2>2, <2>3
<1> HIDE DEF T
<1>4. \A k \in Nat : k \in T
  BY <1>2, <1>3, Induction
<1>5. pos[c] - 1 \in Nat
  BY <1>1
<1> QED
  BY <1>4, <1>5 DEF T

\* When a transaction is over, what the others see is still their own work:
\* it left the rows they hold as they were.
LEMMA OverMidway ==
    ASSUME Inv, Midway, NEW c \in Clients, InTx(c),
           NEW outcome \in Do!Outcomes, AttemptEnds(c, outcome), TableOfKinds',
           \A d \in Clients \ {c} : \A i \in Held(d) : table'[i] = table[i]
    PROVE  Midway'
<1>1. /\ \A d \in Clients : d # c => doing'[d] = doing[d]
      /\ doing'[c] \in {"idle", "retry"}
  BY AttemptOver
<1>2. /\ ops' = ops
      /\ \A d \in Clients : pos'[d] = IF d = c THEN 1 ELSE pos[d]
      /\ \A d \in Clients : writes'[d] = IF d = c THEN NoRows ELSE writes[d]
  BY DEF AttemptEnds, Rollback, Inv, PgTypeOK
<1>3. OwnCall'
  BY <1>1, <1>2 DEF Midway, OwnCall, InTx
<1>4. WritesOfKinds'
  BY <1>2 DEF Midway, WritesOfKinds, Held, NoRows
<1>5. Touched'
  BY <1>1, <1>2 DEF Midway, Touched, InTx, Held
<1>6. ASSUME NEW d \in Clients, InTx(d)', NEW kind \in Kinds, NEW i \in Ids, NEW v
      PROVE  SeesOwnWork(d, kind, i, v)'
  <2>1. d # c /\ InTx(d)
    BY <1>1, <1>6 DEF InTx
  <2>2. SeesOwnWork(d, kind, i, v)
    BY <2>1 DEF Midway, Inside
  <2>3. ops'[d] = ops[d] /\ pos'[d] = pos[d] /\ writes'[d] = writes[d]
    BY <1>2, <2>1
  <2>4. CASE i \in Held(d)
    <3>1. table'[i] = table[i] /\ Visible(d, i)' = Visible(d, i)
      BY <2>1, <2>3, <2>4 DEF Visible, Held
    <3> QED
      BY <2>2, <2>3, <3>1 DEF SeesOwnWork
  <2>5. CASE i \notin Held(d)
    <3>1. Visible(d, i)' = table'[i]
      BY <2>3, <2>5 DEF Visible, Held
    <3>2. Follows(v, kind, i, ops[d]) => v[pos[d] - 1] = v[0]
      BY <2>1, <2>5, NotTouched
    <3> QED
      BY <2>3, <3>1, <3>2 DEF SeesOwnWork
  <2> QED
    BY <2>4, <2>5
<1>7. Inside'
  BY <1>6 DEF Inside
<1> QED
  BY <1>3, <1>4, <1>5, <1>7 DEF Midway

LEMMA FailedMidway ==
    ASSUME Inv, Midway, NEW c \in Clients, InTx(c), NEW how,
           AttemptEnds(c, isRetriablePgError(how)), UNCHANGED <<table, ghosts>>
    PROVE  Midway' /\ UNCHANGED Store!vars
<1>1. isRetriablePgError(how) \in Do!Outcomes
  BY ErrorsAreOutcomes DEF Do!Outcomes
<1>2. TableOfKinds'
  BY DEF Midway, TableOfKinds
<1>3. Midway'
  BY <1>1, <1>2, OverMidway
<1> QED
  BY <1>3 DEF Store!vars, Gauges, Counters, Reported, ghosts

\* A commit shows all of the call, applied to what was there, and nothing
\* else.
LEMMA CommitMidway ==
    ASSUME Inv, Midway, NEW c \in Clients, InTx(c), Done(c), NEW outcome \in Do!Outcomes,
           Committed(c), AttemptEnds(c, outcome)
    PROVE  Midway' /\ Store!Update(ops[c]) /\ ops[c] \in UpdateCalls
<1>1. \A i \in Ids : table'[i] = Visible(c, i)
  BY DEF Committed
<1>2. TableOfKinds'
  BY <1>1 DEF Midway, TableOfKinds, WritesOfKinds, Visible
<1>3. \A d \in Clients \ {c} : \A i \in Held(d) : table'[i] = table[i]
  BY <1>1 DEF Inv, PgTypeOK, RowsHeldOnce, Visible, Held
<1>4. Midway'
  BY <1>2, <1>3, OverMidway
<1>5. ops[c] \in UpdateCalls /\ pos[c] - 1 = Len(ops[c])
  <2>1. ops[c] \in UpdateCalls
    BY DEF Midway, OwnCall, InTx
  <2> QED
    BY <2>1, CallsAssumption DEF Inv, PgTypeOK, Done
<1> DEFINE Shown(kind) == IF kind = "gauge" THEN Gauges ELSE Counters
<1>6. \A kind \in Kinds : Shown(kind) = [i \in Ids |-> Reading(kind, table[i])]
  BY DEF Kinds, Gauges, Counters, Reported, Reading
<1>7. \A kind \in Kinds : Shown(kind)' = [i \in Ids |-> Reading(kind, table'[i])]
  BY DEF Kinds, Gauges, Counters, Reported, Reading
<1>8. \A kind \in Kinds : Shown(kind) \in Levels
  BY <1>6, BoundsAssumption DEF Reading, Levels, Inv, PgTypeOK, Rows, Amounts, Kinds
<1>9. ASSUME NEW kind \in Kinds
      PROVE  InStore(kind, Shown(kind), ops[c]) = [i \in Ids |-> Reading(kind, table'[i])]
  <2> DEFINE after == InStore(kind, Shown(kind), ops[c])
  <2>1. /\ after \in Levels
        /\ \A i \in Ids : \E v : /\ v[0] = Shown(kind)[i] /\ v[Len(ops[c])] = after[i]
                                 /\ Follows(v, kind, i, ops[c])
    BY <1>5, <1>8, EachMetricFollows
  <2> HIDE DEF after
  <2>2. ASSUME NEW i \in Ids PROVE after[i] = Reading(kind, table'[i])
    <3>1. PICK v : /\ v[0] = Shown(kind)[i] /\ v[Len(ops[c])] = after[i]
                   /\ Follows(v, kind, i, ops[c])
      BY <2>1
    <3>2. SeesOwnWork(c, kind, i, v)
      BY DEF Midway, Inside
    <3>3. v[0] = Reading(kind, table[i])
      BY <1>6, <3>1
    <3> HIDE DEF Shown
    <3> QED
      BY <1>1, <1>5, <3>1, <3>2, <3>3 DEF SeesOwnWork
  <2>3. after = [i \in Ids |-> Reading(kind, table'[i])]
    BY <2>1, <2>2 DEF Levels
  <2> QED
    BY <2>3 DEF after
<1>10. Gauges' = Store!Measured(Gauges, ops[c])
  BY <1>7, <1>9 DEF Kinds, InStore
<1>11. Counters' = Store!Counted(Counters, ops[c])
  BY <1>7, <1>9 DEF Kinds, InStore
<1>12. commits' = commits + 1
  BY DEF Committed
<1> QED
  BY <1>4, <1>5, <1>10, <1>11, <1>12 DEF Store!Update

-----------------------------------------------------------------------------

LEMMA InitMidway == ASSUME PgInit PROVE Midway /\ Store!Init
<1>1. \A c \in Clients : ~InTx(c) /\ Held(c) = {} /\ doing[c] = "idle"
  BY DEF PgInit, InTx, Held, NoRows
<1>2. \A i \in Ids : table[i] = NoRow
  BY DEF PgInit
<1>3. Midway
  BY <1>1, <1>2 DEF Midway, OwnCall, TableOfKinds, WritesOfKinds, Touched, Inside
<1>4. Gauges = [i \in Ids |-> Null] /\ Counters = [i \in Ids |-> Null]
  BY <1>2 DEF Gauges, Counters, Reported
<1> QED
  BY <1>3, <1>4 DEF PgInit, Store!Init

LEMMA CallMidway ==
    ASSUME Inv, Midway, NEW c \in Clients, NEW o \in UpdateCalls, Call(c, o)
    PROVE  Midway'
<1>1. /\ \A d \in Clients : doing'[d] = IF d = c THEN "tx" ELSE doing[d]
      /\ \A d \in Clients : ops'[d] = IF d = c THEN o ELSE ops[d]
      /\ \A d \in Clients : pos'[d] = IF d = c THEN 1 ELSE pos[d]
      /\ table' = table /\ writes' = writes /\ Held(c) = {}
  BY DEF Call, Inv, PgTypeOK, RowsHeldOnce, InTx
<1>2. OwnCall'
  BY <1>1 DEF Midway, OwnCall
<1>3. TableOfKinds' /\ WritesOfKinds'
  BY <1>1 DEF Midway, TableOfKinds, WritesOfKinds, Held
<1>4. Touched'
  BY <1>1 DEF Midway, Touched, InTx, Held
<1>5. ASSUME NEW d \in Clients, InTx(d)', NEW kind \in Kinds, NEW i \in Ids, NEW v
      PROVE  SeesOwnWork(d, kind, i, v)'
  <2>1. Visible(d, i)' = Visible(d, i)
    BY <1>1 DEF Visible, Held
  <2>2. CASE d = c
    <3>1. Visible(c, i) = table[i] /\ pos'[d] - 1 = 0
      BY <1>1, <2>2 DEF Visible
    <3> QED
      BY <1>1, <2>1, <2>2, <3>1 DEF SeesOwnWork
  <2>3. CASE d # c
    <3>1. SeesOwnWork(d, kind, i, v)
      BY <1>1, <1>5, <2>3 DEF Midway, Inside, InTx
    <3> QED
      BY <1>1, <2>1, <2>3, <3>1 DEF SeesOwnWork
  <2> QED
    BY <2>2, <2>3
<1>6. Inside'
  BY <1>5 DEF Inside
<1> QED
  BY <1>2, <1>3, <1>4, <1>6 DEF Midway

LEMMA SkipMidway == ASSUME Inv, Midway, NEW c \in Clients, Skip(c) PROVE Midway'
<1>1. /\ doing' = doing /\ ops' = ops /\ table' = table /\ writes' = writes /\ InTx(c)
      /\ \A d \in Clients : pos'[d] = IF d = c THEN pos[c] + 1 ELSE pos[d]
  BY DEF Skip, Inv, PgTypeOK
<1>2. pos[c] \in 1..Len(ops[c]) /\ ~Runs(ops[c][pos[c]])
  BY CallsAssumption DEF Skip, Done, Op, Inv, PgTypeOK
<1>3. OwnCall'
  BY <1>1 DEF Midway, OwnCall, InTx
<1>4. TableOfKinds' /\ WritesOfKinds'
  BY <1>1 DEF Midway, TableOfKinds, WritesOfKinds, Held
<1>5. Touched'
  <2> SUFFICES ASSUME NEW d \in Clients, InTx(d)', NEW k \in 1..(pos'[d] - 1), Runs(ops'[d][k])
               PROVE  ops'[d][k].id \in Held(d)'
    BY DEF Touched
  <2>1. k \in 1..(pos[d] - 1)
    BY <1>1, <1>2
  <2> QED
    BY <1>1, <2>1 DEF Midway, Touched, InTx, Held
<1>6. ASSUME NEW d \in Clients, InTx(d)', NEW kind \in Kinds, NEW i \in Ids, NEW v
      PROVE  SeesOwnWork(d, kind, i, v)'
  <2>1. Visible(d, i)' = Visible(d, i)
    BY <1>1 DEF Visible, Held
  <2>2. SeesOwnWork(d, kind, i, v)
    BY <1>1, <1>6 DEF Midway, Inside, InTx
  <2>3. CASE d = c
    <3>1. Follows(v, kind, i, ops[c]) => v[pos[c]] = v[pos[c] - 1]
      BY <1>2 DEF Follows, Effect, Runs, Kinds
    <3>2. pos'[d] - 1 = pos[c]
      BY <1>1, <1>2, <2>3
    <3> QED
      BY <1>1, <2>1, <2>2, <2>3, <3>1, <3>2 DEF SeesOwnWork
  <2>4. CASE d # c
    BY <1>1, <2>1, <2>2, <2>4 DEF SeesOwnWork
  <2> QED
    BY <2>3, <2>4
<1>7. Inside'
  BY <1>6 DEF Inside
<1> QED
  BY <1>3, <1>4, <1>5, <1>7 DEF Midway

LEMMA ExecMidway ==
    ASSUME EachNameHasOneType, Inv, Midway, NEW c \in Clients, Exec(c)
    PROVE  Midway'
<1> DEFINE id == Op(c).id
           row == Visible(c, id)
           wrote == Wrote(c, id, Upsert(row, Op(c)))
<1>1. /\ doing' = doing /\ ops' = ops /\ table' = table /\ InTx(c)
      /\ \A d \in Clients : pos'[d] = IF d = c THEN pos[c] + 1 ELSE pos[d]
      /\ \A d \in Clients : writes'[d] = IF d = c THEN wrote ELSE writes[d]
  BY DEF Exec, Inv, PgTypeOK
<1>2. /\ ops[c] \in UpdateCalls /\ Len(ops[c]) \in Nat /\ pos[c] \in 1..Len(ops[c])
      /\ Op(c) = ops[c][pos[c]] /\ Op(c) \in Operations
  <2>1. ops[c] \in UpdateCalls /\ pos[c] \in Nat \ {0} /\ pos[c] <= Len(ops[c]) /\ Len(ops[c]) \in Nat
    BY <1>1, CallsAssumption DEF Midway, OwnCall, InTx, Exec, Done, Inv, PgTypeOK
  <2>2. ops[c] \in Seq(Operations)
    BY <2>1, CallsAssumption DEF Operations
  <2> QED
    BY <2>1, <2>2 DEF Op
<1>3. /\ Runs(Op(c)) /\ Op(c).type = KindOf[id] /\ KindOf \in [Ids -> Kinds]
      /\ id \in Ids /\ ~Overflows(row, Op(c))
  BY <1>2, KindsExist DEF Exec, OneType, Operations
<1>4. row \in Rows \cup {NoRow} /\ (row # NoRow => OfItsKind(row, id))
  BY <1>3, RowNow DEF Inv, Midway, TableOfKinds, WritesOfKinds, Visible
<1>5. /\ OfItsKind(Upsert(row, Op(c)), id)
      /\ \A kind \in Kinds :
             Reading(kind, Upsert(row, Op(c))) = Effect(kind, id, Reading(kind, row), Op(c))
  BY <1>2, <1>3, <1>4, UpsertIsEffect
<1>6. /\ DOMAIN wrote = Held(c) \cup {id}
      /\ wrote[id] = Upsert(row, Op(c))
      /\ \A i \in Held(c) : i # id => wrote[i] = writes[c][i]
  BY DEF Wrote
<1> HIDE DEF wrote
<1>7. OwnCall'
  BY <1>1 DEF Midway, OwnCall, InTx
<1>8. TableOfKinds'
  BY <1>1 DEF Midway, TableOfKinds
<1>9. WritesOfKinds'
  <2> SUFFICES ASSUME NEW d \in Clients, NEW i \in Held(d)' PROVE OfItsKind(writes'[d][i], i)
    BY DEF WritesOfKinds
  <2>1. CASE d = c
    <3>1. writes'[c] = wrote /\ i \in Held(c) \cup {id}
      BY <1>1, <1>6, <2>1 DEF Held
    <3>2. CASE i = id
      BY <1>5, <1>6, <2>1, <3>1, <3>2
    <3>3. CASE i # id
      BY <1>6, <2>1, <3>1, <3>3 DEF Midway, WritesOfKinds
    <3> QED
      BY <3>2, <3>3
  <2>2. CASE d # c
    BY <1>1, <2>2 DEF Midway, WritesOfKinds, Held
  <2> QED
    BY <2>1, <2>2
<1>10. Touched'
  <2> SUFFICES ASSUME NEW d \in Clients, InTx(d)', NEW k \in 1..(pos'[d] - 1), Runs(ops'[d][k])
               PROVE  ops'[d][k].id \in Held(d)'
    BY DEF Touched
  <2>1. CASE d = c /\ k = pos[c]
    BY <1>1, <1>2, <1>6, <2>1 DEF Held
  <2>2. CASE ~(d = c /\ k = pos[c])
    <3>1. k \in 1..(pos[d] - 1)
      BY <1>1, <1>2, <2>2
    <3>2. ops[d][k].id \in Held(d)
      BY <1>1, <3>1 DEF Midway, Touched, InTx
    <3> QED
      BY <1>1, <1>6, <3>2 DEF Held
  <2> QED
    BY <2>1, <2>2
<1>11. ASSUME NEW d \in Clients, InTx(d)', NEW kind \in Kinds, NEW i \in Ids, NEW v
       PROVE  SeesOwnWork(d, kind, i, v)'
  <2>1. SeesOwnWork(d, kind, i, v)
    BY <1>1, <1>11 DEF Midway, Inside, InTx
  <2>2. CASE d = c
    <3>1. Follows(v, kind, i, ops[c]) => v[pos[c]] = Effect(kind, i, v[pos[c] - 1], Op(c))
      BY <1>2 DEF Follows
    <3>2. pos'[d] - 1 = pos[c] /\ writes'[c] = wrote
      BY <1>1, <1>2, <2>2
    <3>3. Reading(kind, Visible(c, i)') = Effect(kind, i, Reading(kind, Visible(c, i)), Op(c))
      <4>1. CASE i = id
        <5>1. Visible(c, i)' = Upsert(row, Op(c))
          BY <1>6, <3>2, <4>1 DEF Visible, Held
        <5> QED
          BY <1>5, <4>1, <5>1
      <4>2. CASE i # id
        <5>1. Visible(c, i)' = Visible(c, i)
          BY <1>1, <1>6, <3>2, <4>2 DEF Visible, Held
        <5> QED
          BY <4>2, <5>1 DEF Effect
      <4> QED
        BY <4>1, <4>2
    <3> QED
      BY <1>1, <2>1, <2>2, <3>1, <3>2, <3>3 DEF SeesOwnWork
  <2>3. CASE d # c
    <3>1. Visible(d, i)' = Visible(d, i)
      BY <1>1, <2>3 DEF Visible, Held
    <3> QED
      BY <1>1, <2>1, <2>3, <3>1 DEF SeesOwnWork
  <2> QED
    BY <2>2, <2>3
<1>12. Inside'
  BY <1>11 DEF Inside
<1> QED
  BY <1>7, <1>8, <1>9, <1>10, <1>12 DEF Midway

LEMMA RetryMidway ==
    ASSUME Inv, Midway, NEW c \in Clients, Repeat(c) \/ Cancel(c)
    PROVE  Midway'
<1>1. /\ \A d \in Clients : d # c => doing'[d] = doing[d]
      /\ doing'[c] \in {"tx", "idle"} /\ doing[c] = "retry"
      /\ table' = table /\ ops' = ops /\ pos' = pos /\ writes' = writes
  BY DEF Repeat, Cancel, Inv, PgTypeOK
<1>2. pos[c] = 1 /\ ops[c] \in UpdateCalls /\ Held(c) = {}
  BY <1>1 DEF Inv, RowsHeldOnce, InTx, Midway, OwnCall
<1>3. OwnCall'
  BY <1>1, <1>2 DEF Midway, OwnCall
<1>4. TableOfKinds' /\ WritesOfKinds'
  BY <1>1 DEF Midway, TableOfKinds, WritesOfKinds, Held
<1>5. Touched'
  BY <1>1, <1>2 DEF Midway, Touched, InTx, Held
<1>6. ASSUME NEW d \in Clients, InTx(d)', NEW kind \in Kinds, NEW i \in Ids, NEW v
      PROVE  SeesOwnWork(d, kind, i, v)'
  <2>1. Visible(d, i)' = Visible(d, i)
    BY <1>1 DEF Visible, Held
  <2>2. CASE d = c
    <3>1. Visible(c, i) = table[i] /\ pos[d] - 1 = 0
      BY <1>2, <2>2 DEF Visible
    <3> QED
      BY <1>1, <2>1, <2>2, <3>1 DEF SeesOwnWork
  <2>3. CASE d # c
    <3>1. SeesOwnWork(d, kind, i, v)
      BY <1>1, <1>6, <2>3 DEF Midway, Inside, InTx
    <3> QED
      BY <1>1, <2>1, <3>1 DEF SeesOwnWork
  <2> QED
    BY <2>2, <2>3
<1>7. Inside'
  BY <1>6 DEF Inside
<1> QED
  BY <1>3, <1>4, <1>5, <1>7 DEF Midway

LEMMA UnheardIsOutcome == isRetriablePgError("broken") \in Do!Outcomes /\ "ok" \in Do!Outcomes
BY DEF isRetriablePgError, Do!Outcomes

LEMMA SeenUnchanged == UNCHANGED <<table, commits>> => UNCHANGED Store!vars
BY DEF Store!vars, Gauges, Counters, Reported

LEMMA NextMidway ==
    ASSUME EachNameHasOneType, Inv, Midway, [PgNext]_pgVars
    PROVE  Midway' /\ [Store!Next]_(Store!vars)
<1>1. ASSUME NEW c \in Clients, NEW o \in UpdateCalls, Call(c, o)
      PROVE  Midway' /\ UNCHANGED Store!vars
  BY <1>1, CallMidway, SeenUnchanged DEF Call
<1>2. ASSUME NEW c \in Clients, Skip(c) PROVE Midway' /\ UNCHANGED Store!vars
  BY <1>2, SkipMidway, SeenUnchanged DEF Skip, ghosts
<1>3. ASSUME NEW c \in Clients, Exec(c) PROVE Midway' /\ UNCHANGED Store!vars
  BY <1>3, ExecMidway, SeenUnchanged DEF Exec, ghosts
<1>4. ASSUME NEW c \in Clients, Commit(c) PROVE Midway' /\ Store!Next
  BY <1>4, CommitMidway, UnheardIsOutcome DEF Commit, Store!Next
<1>5. ASSUME NEW c \in Clients, CommitUnheard(c) PROVE Midway' /\ Store!Next
  BY <1>5, CommitMidway, UnheardIsOutcome DEF CommitUnheard, Store!Next
<1>6. ASSUME NEW c \in Clients, OutOfRange(c) PROVE Midway' /\ UNCHANGED Store!vars
  BY <1>6, FailedMidway DEF OutOfRange
<1>7. ASSUME NEW c \in Clients, Deadlock(c) PROVE Midway' /\ UNCHANGED Store!vars
  <2>1. InTx(c)
    BY <1>7 DEF Deadlock, Waits
  <2> QED
    BY <1>7, <2>1, FailedMidway DEF Deadlock
<1>8. ASSUME NEW c \in Clients, NEW how \in Failures, Fail(c, how)
      PROVE  Midway' /\ UNCHANGED Store!vars
  BY <1>8, FailedMidway DEF Fail
<1>9. ASSUME NEW c \in Clients, Repeat(c) \/ Cancel(c) PROVE Midway' /\ UNCHANGED Store!vars
  BY <1>9, RetryMidway, SeenUnchanged DEF Repeat, Cancel, ghosts
<1>10. ASSUME UNCHANGED pgVars PROVE Midway' /\ UNCHANGED Store!vars
  <2>1. OwnCall' /\ TableOfKinds' /\ WritesOfKinds' /\ Touched'
    BY <1>10 DEF pgVars, Midway, OwnCall, TableOfKinds, WritesOfKinds, Touched, InTx, Held
  <2>2. Inside'
    BY <1>10 DEF pgVars, Midway, Inside, InTx, SeesOwnWork, Visible, Held
  <2> QED
    BY <1>10, <2>1, <2>2, SeenUnchanged DEF pgVars, ghosts, Midway
<1> QED
  BY <1>1, <1>2, <1>3, <1>4, <1>5, <1>6, <1>7, <1>8, <1>9, <1>10 DEF PgNext, Finish

\* Whatever is committed is a whole call applied to the state before it, with
\* the calls of any number of clients interleaved, repeated, refused and
\* aborted, if no name is used for a gauge and for a counter: the row of one
\* that is has the type of the first, and loses the other
\* (repository/storage.go:17-34, storage.go:47-141).
THEOREM StorageImplementsStore ==
    ASSUME EachNameHasOneType
    PROVE  PgSafeSpec => ImplementsStore
<1>1. PgInit => Midway /\ Store!Init
  BY InitMidway
<1>2. Inv /\ Midway /\ [PgNext]_pgVars => Midway' /\ [Store!Next]_(Store!vars)
  BY NextMidway
<1> QED
  BY <1>1, <1>2, Invariance, PTL DEF PgSafeSpec, ImplementsStore, Store!Spec

=============================================================================

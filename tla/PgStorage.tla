----------------------------- MODULE PgStorage -----------------------------
(***************************************************************************)
(* pg.Storage (internal/repository/pg/storage.go): concurrent calls of     *)
(* UpdateBatch, UpdateGauge and UpdateCounter on one table, each repeated  *)
(* by retry.Do.                                                            *)
(*                                                                         *)
(* PostgreSQL is modelled as the code uses it, READ COMMITTED: an upsert   *)
(* waits for a transaction that wrote the row, then works on the row as it *)
(* is committed; transactions that wait for each other in a circle are     *)
(* found and one of them is aborted.  What a transaction wrote is also     *)
(* what it has locked.                                                     *)
(***************************************************************************)
EXTENDS Integers, Sequences, SequencesExt, Functions

CONSTANTS Clients,  \* goroutines that call the storage
          Ids,      \* metric names
          UpdateCalls, \* the updates they make: each a sequence of operations
          Null,     \* SQL NULL, and Go's nil
          NoRow,    \* no row with that id
          MaxInt,   \* the largest BIGINT
          MaxCalls  \* bound: calls each client makes

ASSUME BoundsAssumption == MaxInt \in Nat /\ MaxCalls \in Nat

Do == INSTANCE Retry

Amounts == (-MaxInt - 1)..MaxInt \cup {Null}
Rows == [type : {"gauge", "counter"}, delta : Amounts, value : Amounts]

ASSUME AbsenceAssumption == Null \notin Int /\ NoRow \notin Rows
\* The type of an element is any string, its value one the request can hold.
ASSUME CallsAssumption == UpdateCalls \subseteq Seq([type : STRING, id : Ids, amount : Amounts])

VARIABLES table,   \* the committed rows
          doing,   \* "idle", "tx" in a transaction, "retry" in retry.Do's select
          ops,     \* the operations of each client's call
          pos,     \* the next operation
          writes,  \* the rows its transaction wrote
          call,    \* its call of retry.Do
          \* history
          made,    \* calls it has made
          effects, \* how often its current call was committed
          commits  \* how many calls were committed

ghosts == <<effects, commits>>
pgVars == <<table, doing, ops, pos, writes, call, made, ghosts>>

NoRows == <<>>  \* the function with no arguments: no rows

PgTypeOK ==
    /\ table \in [Ids -> Rows \cup {NoRow}]
    /\ doing \in [Clients -> {"idle", "tx", "retry"}]
    /\ ops \in [Clients -> UpdateCalls \cup {<<>>}]
    /\ pos \in [Clients -> Nat \ {0}] /\ \A c \in Clients : pos[c] <= Len(ops[c]) + 1
    /\ DOMAIN writes = Clients
    /\ \A c \in Clients : DOMAIN writes[c] \subseteq Ids /\ writes[c] \in [DOMAIN writes[c] -> Rows]
    /\ call \in [Clients -> Do!Calls]
    /\ made \in [Clients -> 0..MaxCalls]
    /\ effects \in [Clients -> Nat] /\ commits \in Nat

PgInit == /\ table = [i \in Ids |-> NoRow]
          /\ doing = [c \in Clients |-> "idle"]
          /\ ops = [c \in Clients |-> <<>>]
          /\ pos = [c \in Clients |-> 1]
          /\ writes = [c \in Clients |-> NoRows]
          /\ call = [c \in Clients |-> Do!AfterAttempt(Do!Begin, "ok")]
          /\ made = [c \in Clients |-> 0]
          /\ effects = [c \in Clients |-> 0] /\ commits = 0

-----------------------------------------------------------------------------
\* The statements.

\* An element of a batch whose type is unknown or whose value is nil runs no
\* statement.
Runs(op) == op.type \in {"gauge", "counter"} /\ op.amount # Null

Sum(delta, amount) == IF delta = Null THEN Null ELSE delta + amount

\* INSERT ... ON CONFLICT (id) DO UPDATE: the type of a row never changes,
\* and NULL plus anything is NULL.
Upsert(row, op) ==
    IF op.type = "gauge"
    THEN IF row = NoRow THEN [type |-> "gauge", delta |-> Null, value |-> op.amount]
                        ELSE [row EXCEPT !.value = op.amount]
    ELSE IF row = NoRow THEN [type |-> "counter", delta |-> op.amount, value |-> Null]
                        ELSE [row EXCEPT !.delta = Sum(@, op.amount)]

\* BIGINT out of range, where Go would wrap.
Overflows(row, op) ==
    op.type = "counter" /\ row # NoRow /\ row.delta # Null
        /\ row.delta + op.amount \notin (-MaxInt - 1)..MaxInt

Held(c) == DOMAIN writes[c]
\* The row a statement of c works on.
Visible(c, id) == IF id \in Held(c) THEN writes[c][id] ELSE table[id]
\* What it has written after that statement.
Wrote(c, id, row) == [i \in Held(c) \cup {id} |-> IF i = id THEN row ELSE writes[c][i]]

Blockers(c, id) == {d \in Clients \ {c} : id \in Held(d)}

-----------------------------------------------------------------------------
\* A call.

InTx(c) == doing[c] = "tx"
Done(c) == pos[c] > Len(ops[c])
Op(c) == ops[c][pos[c]]

Call(c, o) ==
    /\ doing[c] = "idle" /\ made[c] < MaxCalls
    /\ doing' = [doing EXCEPT ![c] = "tx"]
    /\ ops' = [ops EXCEPT ![c] = o]
    /\ pos' = [pos EXCEPT ![c] = 1]
    /\ call' = [call EXCEPT ![c] = Do!Begin]
    /\ made' = [made EXCEPT ![c] = @ + 1]
    /\ effects' = [effects EXCEPT ![c] = 0]
    /\ UNCHANGED <<table, writes, commits>>

Skip(c) ==
    /\ InTx(c) /\ ~Done(c)
    /\ ~Runs(Op(c))
    /\ pos' = [pos EXCEPT ![c] = @ + 1]
    /\ UNCHANGED <<table, doing, ops, writes, call, made, ghosts>>

Free(c) == Blockers(c, Op(c).id) = {}

\* Mutant: the statement is run by the pool, outside the transaction.
ExecByPool(c) ==
    /\ InTx(c) /\ ~Done(c)
    /\ Runs(Op(c)) /\ Free(c)
    /\ LET row == table[Op(c).id] IN
       /\ ~Overflows(row, Op(c))
       /\ table' = [table EXCEPT ![Op(c).id] = Upsert(row, Op(c))]
    /\ pos' = [pos EXCEPT ![c] = @ + 1]
    /\ UNCHANGED <<doing, ops, writes, call, made, ghosts>>
Exec(c) ==
    /\ InTx(c) /\ ~Done(c)
    /\ Runs(Op(c)) /\ Free(c)
    /\ LET row == Visible(c, Op(c).id) IN
       /\ ~Overflows(row, Op(c))
       /\ writes' = [writes EXCEPT ![c] = Wrote(c, Op(c).id, Upsert(row, Op(c)))]
    /\ pos' = [pos EXCEPT ![c] = @ + 1]
    /\ UNCHANGED <<table, doing, ops, call, made, ghosts>>

KeepsWrites(c) == UNCHANGED writes  \* Mutant
\* The deferred Rollback; after a Commit it does nothing more.
Rollback(c) == writes' = [writes EXCEPT ![c] = NoRows]

\* fn returns to retry.Do.
AttemptEnds(c, outcome) ==
    /\ call' = [call EXCEPT ![c] = Do!AfterAttempt(@, outcome)]
    /\ doing' = [doing EXCEPT ![c] = IF call'[c].phase = "waiting" THEN "retry" ELSE "idle"]
    /\ pos' = [pos EXCEPT ![c] = 1]
    /\ Rollback(c)
    /\ UNCHANGED <<ops, made>>

\* The answers of the server that a later attempt may change: SQLSTATE
\* classes 08 and 40.  A connection that breaks is no PgError.
BrokenIsRetriable(how) == "retriable"  \* Mutant
isRetriablePgError(how) == IF how \in {"class 08", "class 40"} THEN "retriable" ELSE "fatal"

Committed(c) == /\ table' = [i \in Ids |-> Visible(c, i)]
                /\ effects' = [effects EXCEPT ![c] = @ + 1]
                /\ commits' = commits + 1

Commit(c) ==
    /\ InTx(c) /\ Done(c)
    /\ Committed(c)
    /\ AttemptEnds(c, "ok")

\* The connection breaks, or the request's context ends, when the server has
\* committed and the answer is on its way.
CommitUnheard(c) ==
    /\ InTx(c) /\ Done(c)
    /\ Committed(c)
    /\ AttemptEnds(c, isRetriablePgError("broken"))

\* Any statement, Begin or Commit may fail with nothing committed.
Fail(c, how) ==
    /\ InTx(c)
    /\ AttemptEnds(c, isRetriablePgError(how))
    /\ UNCHANGED <<table, ghosts>>

\* 22003: the whole batch is refused.
OutOfRange(c) ==
    /\ InTx(c) /\ ~Done(c)
    /\ Runs(Op(c)) /\ Free(c)
    /\ Overflows(Visible(c, Op(c).id), Op(c))
    /\ AttemptEnds(c, isRetriablePgError("class 22"))
    /\ UNCHANGED <<table, ghosts>>

Waits(c) == InTx(c) /\ ~Done(c) /\ Runs(Op(c)) /\ ~Free(c)
Holders(S) == UNION {Blockers(c, Op(c).id) : c \in S}

\* 40P01: c is on a circle of waiting transactions.
Deadlock(c) ==
    /\ \E S \in SUBSET Clients : c \in S /\ (\A d \in S : Waits(d)) /\ Holders(S) = S
    /\ AttemptEnds(c, isRetriablePgError("class 40"))
    /\ UNCHANGED <<table, ghosts>>

Repeat(c) ==
    /\ doing[c] = "retry"
    /\ doing' = [doing EXCEPT ![c] = "tx"]
    /\ call' = [call EXCEPT ![c] = Do!AfterDelay(@)]
    /\ UNCHANGED <<table, ops, pos, writes, made, ghosts>>

\* The request's context ends while retry.Do waits.
Cancel(c) ==
    /\ doing[c] = "retry"
    /\ doing' = [doing EXCEPT ![c] = "idle"]
    /\ call' = [call EXCEPT ![c] = Do!AfterCancel(@)]
    /\ UNCHANGED <<table, ops, pos, writes, made, ghosts>>

-----------------------------------------------------------------------------
Failures == {"class 08", "class 40", "broken", "other"}

Finish(c) == Skip(c) \/ Exec(c) \/ Commit(c) \/ OutOfRange(c)

PgNext == \E c \in Clients :
            \/ Finish(c)
            \/ Deadlock(c)
            \/ Repeat(c)
            \/ Cancel(c)
            \/ CommitUnheard(c)
            \/ \E o \in UpdateCalls : Call(c, o)
            \/ \E how \in Failures : Fail(c, how)

PgSafeSpec == PgInit /\ [][PgNext]_pgVars

\* The server answers statements, serves those who wait for a row in turn,
\* and looks for deadlocks; timers fire.
PgFairness == \A c \in Clients : /\ SF_pgVars(Finish(c))
                                 /\ WF_pgVars(Deadlock(c))
                                 /\ WF_pgVars(Repeat(c))

PgSpec == PgSafeSpec /\ PgFairness

-----------------------------------------------------------------------------
\* Properties.

\* What GetGauge, GetCounter and GetAll report: a row counts under its own
\* type, and a NULL is left out.
Reported(type, column) ==
    [i \in Ids |-> IF table[i] # NoRow /\ table[i].type = type THEN column[i] ELSE Null]
Gauges == Reported("gauge", [i \in Ids |-> IF table[i] = NoRow THEN Null ELSE table[i].value])
Counters == Reported("counter", [i \in Ids |-> IF table[i] = NoRow THEN Null ELSE table[i].delta])

\* A name is used for metrics of one type.  The row of one that is not has
\* the type of the first, and what is written under the other is not
\* reported (storage.go:47, 104-173).
EachNameHasOneType ==
    \E type \in [Ids -> {"gauge", "counter"}] :
        \A o \in UpdateCalls : \A k \in DOMAIN o : Runs(o[k]) => o[k].type = type[o[k].id]

Store == INSTANCE MetricStore WITH
             Calls <- UpdateCalls, Absent <- Null, gauges <- Gauges, counters <- Counters, applied <- commits

\* Whatever is committed is a whole call of the interface, applied to the
\* state before it: no half of a batch is ever reported and no increment is
\* lost, to another transaction or otherwise (repository/storage.go:17-34).
ImplementsStore == Store!Spec

\* A call is applied at most once however often it was repeated, and exactly
\* once if it returned nil; one that returned an error may have been applied.
AppliedOnce ==
    \A c \in Clients :
        /\ effects[c] <= 1
        /\ doing[c] = "idle" /\ made[c] > 0 /\ call[c].err = "ok" => effects[c] = 1

\* Every call returns, also when batches lock their rows in opposite orders.
CallsReturn == \A c \in Clients : []<>(doing[c] = "idle")

=============================================================================

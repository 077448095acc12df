---------------------------- MODULE MetricStore ----------------------------
(***************************************************************************)
(* What repository.Storage promises its callers, as MemStorage             *)
(* (internal/repository/storage.go) keeps it: gauges and counters in two   *)
(* maps, and every call, a batch too, one step under the lock.             *)
(***************************************************************************)
EXTENDS Integers, Sequences, SequencesExt

CONSTANTS Ids,     \* metric names
          Calls,   \* the updates callers make: each a sequence of operations
          Absent,  \* no metric of that name
          MaxInt   \* the largest int64; the model's integers wrap after it

VARIABLES gauges, counters,
          applied  \* how many calls were applied

vars == <<gauges, counters, applied>>

\* An operation is an element of a batch.  MType is any string, and Value
\* and Delta may be nil: what a type does not use is not looked at.
Counts(op) == op.type = "counter" /\ op.amount # Absent
Measures(op) == op.type = "gauge" /\ op.amount # Absent

\* int64 addition.
Plus(a, b) == ((a + b + MaxInt + 1) % (2 * MaxInt + 2)) - (MaxInt + 1)

\* A name that is not in the map counts from 0.
AddTo(stock, op) ==
    [stock EXCEPT ![op.id] = Plus(IF @ = Absent THEN 0 ELSE @, op.amount)]

Counted(stock, ops) ==
    FoldLeft(LAMBDA s, op : IF Counts(op) THEN AddTo(s, op) ELSE s, stock, ops)

Measured(levels, ops) ==
    FoldLeft(LAMBDA l, op : IF Measures(op) THEN [l EXCEPT ![op.id] = op.amount] ELSE l,
             levels, ops)

Init == /\ gauges = [i \in Ids |-> Absent]
        /\ counters = [i \in Ids |-> Absent]
        /\ applied = 0

\* UpdateBatch; UpdateGauge and UpdateCounter are batches of one.
Update(ops) == /\ gauges' = Measured(gauges, ops)
               /\ counters' = Counted(counters, ops)
               /\ applied' = applied + 1

Next == \E ops \in Calls : Update(ops)

Spec == Init /\ [][Next]_vars

=============================================================================

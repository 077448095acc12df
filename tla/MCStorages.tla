----------------------------- MODULE MCStorages -----------------------------
(* TLC's instances of FileStore and PgStorage.  cmd/server/main.go starts    *)
(* one storage or the other, by cfg.DatabaseDSN; they share nothing.         *)
EXTENDS FileStore, PgStorage

CONSTANTS u1, u2, u3, gauge, counter, alloc, polls, errors

\* u1 and u2 write the same gauge, u3 a counter.
WritesGaugeTwice == [u \in Updates |-> IF u = u3 THEN counter ELSE gauge]

Metric(type, id, amount) == [type |-> type, id |-> id, amount |-> amount]

\* Two batches that write the same counters in opposite orders, one with an
\* element that runs no statement.
TypedCalls == {
    <<Metric("counter", polls, 1), Metric("gauge", alloc, 1), Metric("counter", errors, 1)>>,
    <<Metric("counter", errors, 1), Metric("gauge", alloc, Null), Metric("counter", polls, 2)>> }

ASSUME TypedAssumption == EachNameHasOneType

VARIABLE database  \* cfg.DatabaseDSN # ""

InFile == ~database /\ Next /\ UNCHANGED <<pgVars, database>>
InDatabase == database /\ PgNext /\ UNCHANGED <<vars, database>>

\* With a database the storing mode is not looked at.
StoragesInit == /\ Init /\ PgInit /\ database \in BOOLEAN
                /\ database => mode = "final"

StoragesSpec == /\ StoragesInit
                /\ [][InFile \/ InDatabase]_<<vars, pgVars, database>>
                /\ Fairness /\ PgFairness

=============================================================================

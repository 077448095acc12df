---------------------------- MODULE MCFileStore ----------------------------
(* TLC's instances of FileStore. *)
EXTENDS FileStore

CONSTANTS u1, u2, u3, gauge, counter

\* u1 and u2 write the same gauge, u3 a counter.
WritesGaugeTwice == [u \in Updates |-> IF u = u3 THEN counter ELSE gauge]

=============================================================================

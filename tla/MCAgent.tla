------------------------------ MODULE MCAgent ------------------------------
(* TLC's instances of Agent. *)
EXTENDS Agent, TLC

Symmetry == Permutations(Workers)

=============================================================================

---------------------------- MODULE MCAgentPool ----------------------------
(* TLC's instances of AgentPool. *)
EXTENDS AgentPool, TLC

Symmetry == Permutations(Callers) \cup Permutations(Workers) \cup Permutations(Batches)

=============================================================================

---------------------------- MODULE MCAuditSinks ----------------------------
(* TLC's instance of AuditSinks: its configuration names no definition of   *)
(* its own.  No symmetry: liveness is checked, and events are numbers.      *)
EXTENDS AuditSinks

=============================================================================

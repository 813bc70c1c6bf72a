-------------------------- MODULE MCAuditPipeline --------------------------
(* Small instances of AuditPipeline for TLC. *)
EXTENDS AuditPipeline, TLC

CONSTANTS e1, e2, e3, e4

Symmetry == Permutations(Events)
=============================================================================

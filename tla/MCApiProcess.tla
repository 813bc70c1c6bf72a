---------------------------- MODULE MCApiProcess ----------------------------
(* Small instances of ApiProcess for TLC. *)
EXTENDS ApiProcess, TLC

CONSTANTS p1, p2, lookup, mutation

OneOfEach == [q \in Requests |-> IF q = mutation THEN "admin" ELSE "api"]
=============================================================================

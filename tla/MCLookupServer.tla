--------------------------- MODULE MCLookupServer ---------------------------
(* Small instances of LookupServer for TLC. *)
EXTENDS LookupServer, TLC

CONSTANTS q1, q2

Symmetry == Permutations(Requests)
=============================================================================

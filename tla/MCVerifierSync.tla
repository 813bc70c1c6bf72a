--------------------------- MODULE MCVerifierSync ---------------------------
(* Small instances of VerifierSync for TLC. *)
EXTENDS VerifierSync, TLC

CONSTANTS k1, k2, a1, a2, r1, r2

(* Every admin request lands on r1; r2 only watches. *)
OneAdminPod == [a \in Admins |-> r1]
(* One admin pod each. *)
TwoAdminPods == [a \in Admins |-> IF a = a1 THEN r1 ELSE r2]

NoStatic == [r \in Replicas |-> {}]
(* A rollout: r2 already has k2 in API_KEYS, r1 has not. *)
Rollout == [r \in Replicas |-> IF r = r2 THEN {k2} ELSE {}]

(* For a run whose requests share one pod and whose pods share API_KEYS. *)
Symmetry == Permutations(KeyIds) \cup Permutations(Admins)
=============================================================================

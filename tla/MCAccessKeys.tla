---------------------------- MODULE MCAccessKeys ----------------------------
(* Small instances of AccessKeys for TLC. *)
EXTENDS AccessKeys, TLC

CONSTANTS k1, k2, k3, r1, r2, kidA, kidB

(* k3 comes back under the id of k1. *)
SharedKid == [k \in Keys |-> IF k = k2 THEN kidB ELSE kidA]

(* k1 is replaced by a key of another id, or of the same. *)
Rotations == {{k1}, {k2}, {k3}}

Token(kid, signer, encoded, sound, nbf, exp) ==
  [kid |-> kid, signer |-> signer, encoded |-> encoded, sound |-> sound,
   nbf |-> nbf, exp |-> exp]

(* One that expires, one that is not yet valid at first, a forged one, one  *)
(* that cannot be decoded, one for another audience, and one that names     *)
(* another key than the one it was signed with.                             *)
SomeTokens ==
  {Token(kidA, k1, TRUE, TRUE, 0, 0),
   Token(kidB, k2, TRUE, TRUE, 1, MaxTime),
   Token(kidA, NoKey, TRUE, TRUE, 0, 1),
   Token(kidB, k2, FALSE, TRUE, 0, 0),
   Token(kidA, k1, TRUE, FALSE, 0, MaxTime),
   Token(kidA, k2, TRUE, TRUE, 0, 0)}

Symmetry == Permutations(Requests)
=============================================================================

----------------------------- MODULE MCKeyStore -----------------------------
(* A small instance of KeyStore for TLC: two keys, two admin requests. *)
EXTENDS KeyStore

CONSTANTS k1, k2, a1, a2
=============================================================================

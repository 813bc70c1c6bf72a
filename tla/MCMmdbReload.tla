---------------------------- MODULE MCMmdbReload ----------------------------
(* Small instances of MmdbReload for TLC. *)
EXTENDS MmdbReload

CONSTANTS city, asn, j1, j2, h1, h2

CityThenASN == <<city, asn>>
=============================================================================

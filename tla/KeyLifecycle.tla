---------------------------- MODULE KeyLifecycle ----------------------------
(***************************************************************************)
(* What the managed key store promises about one machine credential,       *)
(* whatever the number of replicas, requests in flight and lost replies:   *)
(* a key is created with a secret nobody had before, a rotation replaces   *)
(* the secret and nothing else, a revocation is the last thing that        *)
(* happens to a key, and every change is atomic.  Only somebody working on *)
(* the bucket outside the program (the last two actions) can do more.      *)
(* KeyStore implements this module.                                        *)
(***************************************************************************)
CONSTANTS KeyIds,     \* the ids a key can have
          Digests,    \* the digests of the secrets that can be generated
          Lifetimes   \* the expiry times a key can be given, "never" included

VARIABLES key,        \* the stored state of every id
          used        \* the digests that were ever stored

vars == <<key, used>>

Absent == [status |-> "absent"]
Unreadable == [status |-> "unreadable"]
Credential(status, digest, expires) ==
  [status |-> status, digest |-> digest, expires |-> expires]

Init == key = [id \in KeyIds |-> Absent] /\ used = {}

Create(id) ==
  /\ key[id] = Absent
  /\ \E digest \in Digests \ used, expires \in Lifetimes :
       /\ key' = [key EXCEPT ![id] = Credential("active", digest, expires)]
       /\ used' = used \cup {digest}

Rotate(id) ==
  /\ key[id].status = "active"
  /\ \E digest \in Digests \ used :
       /\ key' = [key EXCEPT ![id] =
                    Credential("active", digest, key[id].expires)]
       /\ used' = used \cup {digest}

Revoke(id) ==
  /\ key[id].status = "active"
  /\ key' = [key EXCEPT ![id] =
               Credential("revoked", key[id].digest, key[id].expires)]
  /\ UNCHANGED used

(* The bucket edited by hand. *)
Remove(id) == key' = [key EXCEPT ![id] = Absent] /\ UNCHANGED used
Damage(id) == key' = [key EXCEPT ![id] = Unreadable] /\ UNCHANGED used

Next == \E id \in KeyIds :
  Create(id) \/ Rotate(id) \/ Revoke(id) \/ Remove(id) \/ Damage(id)

Spec == Init /\ [][Next]_vars
=============================================================================

------------------------------ MODULE KeyStore ------------------------------
(***************************************************************************)
(* internal/keystore: the managed API keys, one JSON record per key id in  *)
(* a JetStream KV bucket, and the Store operations that the admin handlers *)
(* of every API replica run concurrently.  Every mutation is a read        *)
(* followed by a compare-and-swap on the revision that was read, and any   *)
(* number of other requests run in between.                                *)
(*                                                                         *)
(* The bucket is the sequence of the entries ever stored: the revision of  *)
(* an entry is its position.  Of a record the model keeps what the         *)
(* verifier looks at: the digest of the secret, the expiry and whether the *)
(* key is revoked.  A secret is named after the revision that first stored *)
(* its digest, which makes every generated secret new, as 32 random bytes  *)
(* are.                                                                    *)
(***************************************************************************)
EXTENDS Naturals, Sequences

CONSTANTS
  KeyIds,       \* the ids that pass ValidateID
  Admins,       \* admin requests: each works on one mutation at a time
  Expiries,     \* the expiry times a request can ask for
  NoTime,       \* no expiry
  MaxRevision,  \* bound: entries ever stored
  MaxTime,      \* bound: ticks of the clock
  HandEdits     \* whether somebody edits the bucket by hand

ASSUME KeyStoreAssumption ==
  /\ MaxRevision \in Nat
  /\ MaxTime \in Nat
  /\ Expiries \subseteq Nat
  /\ NoTime \notin Nat
  /\ HandEdits \in BOOLEAN

VARIABLES
  stream,   \* the entries of the bucket, by revision
  latest,   \* the revision of the last entry of each id, 0 when there is none
  call,     \* what each admin request is doing
  clock

storeVars == <<stream, latest, call, clock>>

Lifetimes == Expiries \cup {NoTime}

(* SHA-256 of a secret, in hexadecimal: it tells secrets apart and cannot  *)
(* be mistaken for one.                                                    *)
Digest(secret) == [sha256 |-> secret]
Digests == [sha256 : Nat]

(* An entry holds a record ("put"), a delete marker, or bytes that         *)
(* decodeEntry refuses ("foreign").                                        *)
Entry == [key : KeyIds, kind : {"put", "delete", "foreign"},
          digest : Digests, expires : Lifetimes, revoked : BOOLEAN]

Put(id, digest, expires, revoked) ==
  [key |-> id, kind |-> "put",
   digest |-> digest, expires |-> expires, revoked |-> revoked]

NoRecord(id, kind) ==
  [key |-> id, kind |-> kind,
   digest |-> Digest(0), expires |-> NoTime, revoked |-> FALSE]

(* "read" is the time between the Get and the Update of a mutation, which  *)
(* holds the entry of revision base; "stored" means that the Store         *)
(* returned the record of revision rev to the handler.                     *)
Idle == [phase |-> "idle"]
Read(op, id, base) == [phase |-> "read", op |-> op, id |-> id, base |-> base]
Stored(op, id, base, rev) ==
  [phase |-> "stored", op |-> op, id |-> id, base |-> base, rev |-> rev]

Ops == {"create", "rotate", "revoke"}
Calls ==
  {Idle}
  \cup [phase : {"read"}, op : Ops, id : KeyIds, base : Nat]
  \cup [phase : {"stored"}, op : Ops, id : KeyIds, base : Nat, rev : Nat]

Revisions == 1 .. Len(stream)

TypeOK ==
  /\ stream \in Seq(Entry)
  /\ latest \in [KeyIds -> Nat]
  /\ call \in [Admins -> Calls]
  /\ clock \in Nat

Init ==
  /\ stream = <<>>
  /\ latest = [id \in KeyIds |-> 0]
  /\ call = [a \in Admins |-> Idle]
  /\ clock = 0

-----------------------------------------------------------------------------
(* The bucket. *)

(* kv.Get found an entry and decodeEntry accepted it. *)
Readable(id) == latest[id] # 0 /\ stream[latest[id]].kind = "put"

(* ... and the key is not revoked: Rotate refuses to go on otherwise. *)
Usable_EvenRevoked(id) == Readable(id)
Usable(id) == Readable(id) /\ ~ stream[latest[id]].revoked

(* kv.Update: the expected revision is still the last one of the id. *)
CasHolds_Ignored(id, base) == TRUE
CasHolds(id, base) == latest[id] = base

(* kv.Create: nothing stored under the id, or a delete marker. *)
Vacant(id) == latest[id] # 0 => stream[latest[id]].kind = "delete"

NextRevision == Len(stream) + 1

Store(entry) ==
  /\ NextRevision <= MaxRevision
  /\ stream' = Append(stream, entry)
  /\ latest' = [latest EXCEPT ![entry.key] = NextRevision]

(* The reply to a write can be lost: the entry is stored, the operation    *)
(* returns an error and the handler answers 409.                           *)
Reply(a, op, id, base) ==
  \E acked \in BOOLEAN :
    call' = [call EXCEPT ![a] =
               IF acked THEN Stored(op, id, base, NextRevision) ELSE Idle]

-----------------------------------------------------------------------------
(* Store operations.  One that ends in an error without having written     *)
(* leaves everything as it was: it is Abort after the Get and no step at   *)
(* all before it.                                                          *)

(* validateMetadata: a requested expiry lies in the future.  The handler   *)
(* has looked at the clock some time before the Store writes the record.   *)
ValidExpiry(expires, now) == expires = NoTime \/ (expires \in Nat /\ expires > now)

Create(a, id, expires) ==
  /\ call[a] = Idle
  /\ \E validated \in 0 .. clock : ValidExpiry(expires, validated)
  /\ Vacant(id)
  /\ Store(Put(id, Digest(NextRevision), expires, FALSE))
  /\ Reply(a, "create", id, latest[id])
  /\ UNCHANGED clock

RotateGet(a, id) ==
  /\ call[a] = Idle
  /\ Usable(id)
  /\ call' = [call EXCEPT ![a] = Read("rotate", id, latest[id])]
  /\ UNCHANGED <<stream, latest, clock>>

(* The record as read with a new digest; the expiry is kept, and a key     *)
(* that has expired can be rotated.                                        *)
Rotated_Forever(entry) == Put(entry.key, Digest(NextRevision), NoTime, FALSE)
Rotated_PlainSecret(entry) == Put(entry.key, [plain |-> NextRevision], entry.expires, FALSE)
Rotated(entry) == Put(entry.key, Digest(NextRevision), entry.expires, FALSE)

RotateUpdate(a) ==
  /\ call[a].phase = "read"
  /\ call[a].op = "rotate"
  /\ CasHolds(call[a].id, call[a].base)
  /\ Store(Rotated(stream[call[a].base]))
  /\ Reply(a, "rotate", call[a].id, call[a].base)
  /\ UNCHANGED clock

(* Revoking a revoked key returns its record and writes nothing. *)
RevokeGet(a, id) ==
  /\ call[a] = Idle
  /\ Readable(id)
  /\ call' = [call EXCEPT ![a] =
                IF stream[latest[id]].revoked
                THEN Stored("revoke", id, latest[id], latest[id])
                ELSE Read("revoke", id, latest[id])]
  /\ UNCHANGED <<stream, latest, clock>>

Revoked(entry) == Put(entry.key, entry.digest, entry.expires, TRUE)

RevokeUpdate(a) ==
  /\ call[a].phase = "read"
  /\ call[a].op = "revoke"
  /\ CasHolds(call[a].id, call[a].base)
  /\ Store(Revoked(stream[call[a].base]))
  /\ Reply(a, "revoke", call[a].id, call[a].base)
  /\ UNCHANGED clock

(* The Update is refused (somebody else wrote first) or fails. *)
Abort(a) ==
  /\ call[a].phase = "read"
  /\ call' = [call EXCEPT ![a] = Idle]
  /\ UNCHANGED <<stream, latest, clock>>

(* The handler answers. *)
Return(a) ==
  /\ call[a].phase = "stored"
  /\ call' = [call EXCEPT ![a] = Idle]
  /\ UNCHANGED <<stream, latest, clock>>

-----------------------------------------------------------------------------
(* The environment. *)

(* Somebody deletes or overwrites an entry with another tool. *)
HandEdit(id) ==
  /\ HandEdits
  /\ latest[id] # 0
  /\ \E kind \in {"delete", "foreign"} : Store(NoRecord(id, kind))
  /\ UNCHANGED <<call, clock>>

Tick ==
  /\ clock < MaxTime
  /\ clock' = clock + 1
  /\ UNCHANGED <<stream, latest, call>>

(* A rotation or a revocation, up to the answer of the Store. *)
Mutate(a) ==
  \/ \E id \in KeyIds : RotateGet(a, id) \/ RevokeGet(a, id)
  \/ RotateUpdate(a)
  \/ RevokeUpdate(a)
  \/ Abort(a)

Next ==
  \/ \E a \in Admins, id \in KeyIds, expires \in Lifetimes : Create(a, id, expires)
  \/ \E a \in Admins : Mutate(a) \/ Return(a)
  \/ \E id \in KeyIds : HandEdit(id)
  \/ Tick

Spec == Init /\ [][Next]_storeVars

-----------------------------------------------------------------------------
(* Correctness. *)

IsPut(n) == stream[n].kind = "put"
SameKey(m, n) == stream[m].key = stream[n].key

(* A delete of the key of entry m lies between entries m and n. *)
DeletedBetween(m, n) ==
  \E i \in Revisions :
    m < i /\ i < n /\ SameKey(i, m) /\ stream[i].kind = "delete"

(* A revoked key stays revoked: no rotation or creation, however it         *)
(* overlaps the revocation, stores a usable record for the id again, until  *)
(* the entry is deleted by hand.                                            *)
RevocationIsFinal ==
  \A m, n \in Revisions :
    /\ m < n /\ SameKey(m, n)
    /\ IsPut(m) /\ stream[m].revoked
    /\ IsPut(n)
    => DeletedBetween(m, n)

(* A secret that was rotated out never comes back: a mutation that read the *)
(* record before the rotation cannot store the old digest after it.         *)
RotatedSecretStaysOut ==
  \A l, m, n \in Revisions :
    /\ l < m /\ m < n
    /\ SameKey(l, m) /\ SameKey(m, n)
    /\ IsPut(l) /\ IsPut(m) /\ IsPut(n)
    /\ stream[l].digest # stream[m].digest
    => stream[n].digest # stream[l].digest

(* A mutation that reports success replaced the very entry it had read:     *)
(* nothing was stored under its id between the two revisions, so the record *)
(* it returned is the one that was stored and no concurrent change is lost. *)
ReplacedWhatItRead(c) ==
  /\ c.rev \in Revisions
  /\ stream[c.rev].key = c.id
  /\ IsPut(c.rev)
  /\ (c.op = "revoke") <=> stream[c.rev].revoked
  /\ \A n \in Revisions : c.base < n /\ n < c.rev => stream[n].key # c.id

SuccessReplacesWhatItRead ==
  \A a \in Admins : call[a].phase = "stored" => ReplacedWhatItRead(call[a])

(* KeyStore implements KeyLifecycle: read-then-swap with lost replies looks *)
(* like atomic changes of a key.                                            *)
KeyState(id) ==
  LET entry == stream[latest[id]] IN
  IF Vacant(id) THEN [status |-> "absent"]
  ELSE IF entry.kind = "foreign" THEN [status |-> "unreadable"]
  ELSE [status |-> IF entry.revoked THEN "revoked" ELSE "active",
        digest |-> entry.digest, expires |-> entry.expires]

Lifecycle == INSTANCE KeyLifecycle WITH
  Digests <- [sha256 : 1 .. MaxRevision],
  key <- [id \in KeyIds |-> KeyState(id)],
  used <- {stream[n].digest : n \in {m \in Revisions : IsPut(m)}}

ImplementsLifecycle == Lifecycle!Spec
=============================================================================

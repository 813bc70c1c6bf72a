--------------------------- MODULE KeyStoreProofs ---------------------------
(***************************************************************************)
(* The safety of KeyStore for any number of ids, admin requests, revisions *)
(* and expiry times: KeyStoreInv is inductive.  An operation either leaves *)
(* the bucket alone or appends one entry, so that the proof of each part   *)
(* only has to look at what the last entry adds.                           *)
(***************************************************************************)
EXTENDS KeyStore, TLAPS

(* Strengthens the safety properties of KeyStore to an inductive one.       *)
(* latest is the last entry of each id, a mutation                          *)
(* between its Get and its Update holds a record that was usable, and the   *)
(* digest of an entry is not newer than the entry: with them the invariant  *)
(* is inductive.                                                            *)
LatestOK ==
  \A id \in KeyIds :
    /\ latest[id] # 0 => latest[id] \in Revisions /\ stream[latest[id]].key = id
    /\ \A n \in Revisions : stream[n].key = id => n <= latest[id]

HoldsUsableRecord(c) ==
  /\ c.base \in Revisions
  /\ stream[c.base].key = c.id
  /\ IsPut(c.base)
  /\ ~ stream[c.base].revoked

ReadOK ==
  \A a \in Admins : call[a].phase = "read" => HoldsUsableRecord(call[a])

DigestsOK == \A n \in Revisions : stream[n].digest.sha256 <= n

KeyStoreInv ==
  /\ TypeOK /\ LatestOK /\ ReadOK /\ DigestsOK
  /\ RevocationIsFinal /\ RotatedSecretStaysOut /\ SuccessReplacesWhatItRead

-----------------------------------------------------------------------------
(* What a write to the bucket does: every old revision keeps its entry.     *)
LEMMA StoreAppends ==
  ASSUME TypeOK, NEW entry \in Entry, Store(entry)
  PROVE  /\ stream' \in Seq(Entry)
         /\ Len(stream') = Len(stream) + 1
         /\ Revisions' = Revisions \cup {NextRevision}
         /\ \A n \in Revisions : stream'[n] = stream[n]
         /\ stream'[NextRevision] = entry
         /\ latest' = [latest EXCEPT ![entry.key] = NextRevision]
         /\ NextRevision \in Nat
         /\ \A n \in Revisions : n < NextRevision /\ n \in Nat
  BY DEF TypeOK, Store, NextRevision, Revisions

(* What is stored is an entry. *)
LEMMA PutIsEntry ==
  ASSUME NEW id \in KeyIds, NEW digest \in Digests,
         NEW expires \in Lifetimes, NEW revoked \in BOOLEAN
  PROVE  Put(id, digest, expires, revoked) \in Entry
  BY DEF Put, Entry

LEMMA NoRecordIsEntry ==
  ASSUME NEW id \in KeyIds, NEW kind \in {"delete", "foreign"}
  PROVE  NoRecord(id, kind) \in Entry
  BY DEF NoRecord, Entry, Digest, Digests, Lifetimes

(* A call reads, has stored, or is idle. *)
LEMMA CallShapes ==
  ASSUME TypeOK, NEW a \in Admins
  PROVE  /\ call[a].phase = "read" =>
              call[a].op \in Ops /\ call[a].id \in KeyIds /\ call[a].base \in Nat
         /\ call[a].phase = "stored" =>
              /\ call[a].op \in Ops /\ call[a].id \in KeyIds
              /\ call[a].base \in Nat /\ call[a].rev \in Nat
         /\ Idle \in Calls
         /\ Idle.phase = "idle"
         /\ \A op \in Ops, id \in KeyIds, base \in Nat, rev \in Nat :
              /\ Read(op, id, base) \in Calls
              /\ Stored(op, id, base, rev) \in Calls
  BY DEF TypeOK, Calls, Idle, Read, Stored

-----------------------------------------------------------------------------
(* What every operation guarantees of the entry it appends: it is not a     *)
(* record, or the first record of a vacant id, or it replaces the usable    *)
(* record that is the last entry of the id; its secret is new or that of    *)
(* the record it replaces.                                                  *)
Follows(entry) ==
  \/ entry.kind # "put" /\ entry.digest = Digest(0)
  \/ /\ Vacant(entry.key)
     /\ entry.digest = Digest(NextRevision)
  \/ /\ Readable(entry.key)
     /\ ~ stream[latest[entry.key]].revoked
     /\ entry.digest \in {Digest(NextRevision), stream[latest[entry.key]].digest}

(* Such an entry keeps every part of the invariant that is about the bucket. *)
LEMMA BucketStep ==
  ASSUME KeyStoreInv, NEW entry \in Entry, Store(entry), Follows(entry)
  PROVE  LatestOK' /\ DigestsOK' /\ RevocationIsFinal' /\ RotatedSecretStaysOut'
<1> DEFINE new == NextRevision
<1>1. /\ Revisions' = Revisions \cup {new}
      /\ \A n \in Revisions : stream'[n] = stream[n]
      /\ stream'[new] = entry
      /\ latest' = [latest EXCEPT ![entry.key] = new]
      /\ new \in Nat
      /\ \A n \in Revisions : n < new /\ n \in Nat
      /\ \A n \in Revisions : stream[n] \in Entry
  BY StoreAppends DEF KeyStoreInv, TypeOK, Revisions
<1>2. entry.key \in KeyIds /\ latest \in [KeyIds -> Nat]
  BY DEF Entry, KeyStoreInv, TypeOK
<1> HIDE DEF new
<1>3. LatestOK'
  BY <1>1, <1>2, new \notin Revisions DEF KeyStoreInv, LatestOK
<1>4. DigestsOK'
  <2> SUFFICES ASSUME NEW n \in Revisions'
               PROVE  stream'[n].digest.sha256 <= n
    BY DEF DigestsOK
  <2>1. CASE n \in Revisions
    BY <1>1, <2>1 DEF KeyStoreInv, DigestsOK
  <2>2. CASE n = new
    <3>1. entry.digest = Digest(0) \/ entry.digest = Digest(new) => stream'[n].digest.sha256 <= n
      BY <1>1, <2>2 DEF Digest
    <3>2. CASE Readable(entry.key) /\ entry.digest = stream[latest[entry.key]].digest
      <4>1. latest[entry.key] \in Revisions
        BY <1>2, <3>2 DEF KeyStoreInv, LatestOK, Readable
      <4>2. stream[latest[entry.key]].digest.sha256 <= latest[entry.key]
        BY <4>1 DEF KeyStoreInv, DigestsOK
      <4>3. stream[latest[entry.key]].digest.sha256 \in Nat
        BY <4>1, <1>1 DEF Entry, Digests
      <4>4. latest[entry.key] \in Nat /\ latest[entry.key] < n
        BY <4>1, <1>1, <2>2
      <4>5. stream'[n].digest.sha256 = stream[latest[entry.key]].digest.sha256
        BY <3>2, <1>1, <2>2
      <4> QED BY <4>2, <4>3, <4>4, <4>5, <1>1, <2>2
    <3> QED BY <3>1, <3>2 DEF Follows, new
  <2> QED BY <2>1, <2>2, <1>1
<1>5. RevocationIsFinal'
  <2> SUFFICES ASSUME NEW m \in Revisions', NEW n \in Revisions',
                      m < n, SameKey(m, n)', IsPut(m)', stream'[m].revoked, IsPut(n)'
               PROVE  DeletedBetween(m, n)'
    BY DEF RevocationIsFinal
  <2>1. CASE n \in Revisions
    <3>1. m \in Revisions
      BY <1>1, <2>1
    <3>2. DeletedBetween(m, n)
      BY <1>1, <2>1, <3>1 DEF KeyStoreInv, RevocationIsFinal, SameKey, IsPut
    <3> QED BY <1>1, <3>1, <3>2 DEF DeletedBetween, SameKey
  <2>2. CASE n = new
    <3>0. m \in Revisions
      BY <1>1, <2>2
    <3>1. m \in Revisions /\ IsPut(m) /\ stream[m].revoked /\ stream[m].key = entry.key
      BY <1>1, <2>2, <3>0 DEF IsPut, SameKey
    <3>2. m <= latest[entry.key] /\ m # 0
      BY <3>1, <1>2 DEF KeyStoreInv, LatestOK, Revisions
    <3>3. latest[entry.key] \in Revisions /\ stream[latest[entry.key]].key = entry.key
      BY <3>2, <1>2, <3>1, <1>1 DEF KeyStoreInv, LatestOK
    <3>4. CASE Vacant(entry.key)
      <4>1. stream[latest[entry.key]].kind = "delete"
        BY <3>2, <3>3, <3>4, <1>1 DEF Vacant, Revisions
      <4>2. m < latest[entry.key]
        BY <4>1, <3>1, <3>2, <3>3, <1>1 DEF IsPut
      <4> QED BY <4>1, <4>2, <3>1, <3>3, <1>1, <2>2 DEF DeletedBetween, SameKey
    <3>5. CASE Readable(entry.key) /\ ~ stream[latest[entry.key]].revoked
      <4>1. m < latest[entry.key]
        BY <3>1, <3>2, <3>3, <3>5, <1>1
      <4>2. DeletedBetween(m, latest[entry.key])
        BY <4>1, <3>1, <3>3, <3>5 DEF KeyStoreInv, RevocationIsFinal, SameKey, IsPut, Readable
      <4>3. PICK i \in Revisions : /\ m < i /\ i < latest[entry.key]
                                   /\ SameKey(i, m) /\ stream[i].kind = "delete"
        BY <4>2 DEF DeletedBetween
      <4> QED BY <4>3, <3>1, <1>1, <2>2 DEF DeletedBetween, SameKey
    <3> QED BY <3>4, <3>5, <2>2, <1>1 DEF Follows, IsPut
  <2> QED BY <2>1, <2>2, <1>1
<1>6. RotatedSecretStaysOut'
  <2> SUFFICES ASSUME NEW l \in Revisions', NEW m \in Revisions', NEW n \in Revisions',
                      l < m, m < n, SameKey(l, m)', SameKey(m, n)',
                      IsPut(l)', IsPut(m)', IsPut(n)',
                      stream'[l].digest # stream'[m].digest
               PROVE  stream'[n].digest # stream'[l].digest
    BY DEF RotatedSecretStaysOut
  <2>1. CASE n \in Revisions
    <3>1. l \in Revisions /\ m \in Revisions
      BY <1>1, <2>1
    <3> QED BY <1>1, <2>1, <3>1 DEF KeyStoreInv, RotatedSecretStaysOut, SameKey, IsPut
  <2>2. CASE n = new
    <3>0. m \in Revisions /\ l \in Revisions
      <4>1. m \in Revisions
        BY <1>1, <2>2
      <4> QED BY <1>1, <4>1
    <3>1. /\ l \in Revisions /\ IsPut(l) /\ stream[l].key = entry.key
          /\ m \in Revisions /\ IsPut(m) /\ stream[m].key = entry.key
          /\ stream[l].digest # stream[m].digest
          /\ stream'[l] = stream[l]
      BY <1>1, <2>2, <3>0 DEF IsPut, SameKey
    <3>2. CASE entry.digest = Digest(new)
      <4>1. stream[l].digest.sha256 <= l /\ l < new
        BY <3>1, <1>1 DEF KeyStoreInv, DigestsOK
      <4>2. stream[l].digest.sha256 \in Nat
        BY <3>1, <1>1 DEF Entry, Digests
      <4>3. stream[l].digest # Digest(new)
        BY <4>1, <4>2, <3>1, <1>1 DEF Digest
      <4> QED BY <4>3, <3>1, <3>2, <1>1, <2>2
    <3>3. CASE Readable(entry.key) /\ entry.digest = stream[latest[entry.key]].digest
      <4>1. /\ latest[entry.key] \in Revisions
            /\ stream[latest[entry.key]].key = entry.key
            /\ IsPut(latest[entry.key])
            /\ m <= latest[entry.key]
        BY <3>1, <3>3, <1>2 DEF KeyStoreInv, LatestOK, Readable, IsPut
      <4>2. CASE m = latest[entry.key]
        BY <4>2, <3>1, <3>3, <1>1, <2>2
      <4>3. CASE m < latest[entry.key]
        <5>1. stream[latest[entry.key]].digest # stream[l].digest
          BY <4>1, <4>3, <3>1 DEF KeyStoreInv, RotatedSecretStaysOut, SameKey
        <5> QED BY <5>1, <3>1, <3>3, <1>1, <2>2
      <4> QED BY <4>1, <4>2, <4>3, <3>1, <1>1
    <3> QED BY <3>2, <3>3, <2>2, <1>1 DEF Follows, IsPut, new
  <2> QED BY <2>1, <2>2, <1>1
<1> QED BY <1>3, <1>4, <1>5, <1>6

-----------------------------------------------------------------------------
(* What is known of a call stays true when the bucket grows. *)
LEMMA CallKnowledgePersists ==
  ASSUME TypeOK, NEW entry \in Entry, Store(entry), NEW c
  PROVE  /\ HoldsUsableRecord(c) => HoldsUsableRecord(c)'
         /\ ReplacedWhatItRead(c) => ReplacedWhatItRead(c)'
<1>1. /\ Revisions' = Revisions \cup {NextRevision}
      /\ \A n \in Revisions : stream'[n] = stream[n]
      /\ \A n \in Revisions : n < NextRevision /\ n \in Nat
      /\ NextRevision \in Nat
  BY StoreAppends
<1>2. HoldsUsableRecord(c) => HoldsUsableRecord(c)'
  BY <1>1 DEF HoldsUsableRecord, IsPut
<1>3. ASSUME ReplacedWhatItRead(c) PROVE ReplacedWhatItRead(c)'
  <2>1. c.rev \in Revisions /\ stream'[c.rev] = stream[c.rev]
    BY <1>1, <1>3 DEF ReplacedWhatItRead
  <2>2. ASSUME NEW n \in Revisions', c.base < n, n < c.rev
        PROVE  stream'[n].key # c.id
    <3>1. n \in Revisions
      BY <1>1, <2>1, <2>2
    <3> QED BY <1>1, <1>3, <2>2, <3>1 DEF ReplacedWhatItRead
  <2> QED BY <1>1, <1>3, <2>1, <2>2 DEF ReplacedWhatItRead, IsPut
<1> QED BY <1>2, <1>3

(* A write of the entry e by request a, which replaces the last entry of    *)
(* e.key and is acknowledged or not, keeps the whole invariant.             *)
LEMMA WriteStep ==
  ASSUME KeyStoreInv, NEW a \in Admins, NEW op \in Ops, NEW entry \in Entry,
         Store(entry), Follows(entry), entry.kind = "put",
         (op = "revoke") <=> entry.revoked,
         Reply(a, op, entry.key, latest[entry.key]), clock' = clock
  PROVE  KeyStoreInv'
<1>1. LatestOK' /\ DigestsOK' /\ RevocationIsFinal' /\ RotatedSecretStaysOut'
  BY BucketStep
<1>2. /\ Revisions' = Revisions \cup {NextRevision}
      /\ stream' \in Seq(Entry)
      /\ \A n \in Revisions : stream'[n] = stream[n] /\ n < NextRevision /\ n \in Nat
      /\ stream'[NextRevision] = entry
      /\ latest' = [latest EXCEPT ![entry.key] = NextRevision]
      /\ NextRevision \in Nat
  BY StoreAppends DEF KeyStoreInv
<1>3. /\ entry.key \in KeyIds /\ latest[entry.key] \in Nat
      /\ latest \in [KeyIds -> Nat] /\ call \in [Admins -> Calls] /\ clock \in Nat
  BY DEF Entry, KeyStoreInv, TypeOK
<1> DEFINE reply == Stored(op, entry.key, latest[entry.key], NextRevision)
<1>4. /\ call' \in [Admins -> Calls]
      /\ call'[a] \in {reply, Idle}
      /\ \A b \in Admins \ {a} : call'[b] = call[b]
  BY CallShapes, <1>2, <1>3 DEF KeyStoreInv, Reply
<1>5. TypeOK'
  BY <1>2, <1>3, <1>4 DEF TypeOK
<1>6. reply.phase = "stored" /\ Idle.phase = "idle"
  BY DEF Stored, Idle
<1>7. ReadOK'
  <2> SUFFICES ASSUME NEW b \in Admins, call'[b].phase = "read"
               PROVE  HoldsUsableRecord(call[b])' /\ call'[b] = call[b]
    BY DEF ReadOK
  <2>1. call'[b] = call[b]
    BY <1>4, <1>6
  <2>2. HoldsUsableRecord(call[b])
    BY <2>1 DEF KeyStoreInv, ReadOK
  <2>3. \A c : HoldsUsableRecord(c) => HoldsUsableRecord(c)'
    BY CallKnowledgePersists DEF KeyStoreInv
  <2> QED BY <2>1, <2>2, <2>3 DEF HoldsUsableRecord, IsPut
<1>8. ASSUME NEW c, c = reply PROVE ReplacedWhatItRead(c)'
  <2>1. /\ c.rev = NextRevision /\ c.id = entry.key
        /\ c.op = op /\ c.base = latest[entry.key]
    BY <1>8 DEF Stored
  <2>2. c.rev \in Revisions' /\ stream'[c.rev].key = c.id /\ stream'[c.rev].kind = "put"
    BY <2>1, <1>2
  <2>3. (c.op = "revoke") <=> stream'[c.rev].revoked
    BY <2>1, <1>2
  <2>4. ASSUME NEW n \in Revisions', c.base < n, n < c.rev
        PROVE  stream'[n].key # c.id
    <3>1. n \in Revisions /\ stream'[n] = stream[n]
      BY <1>2, <2>1, <2>4
    <3> QED BY <3>1, <2>1, <2>4, <1>2, <1>3 DEF KeyStoreInv, LatestOK
  <2> QED BY <2>2, <2>3, <2>4 DEF ReplacedWhatItRead, IsPut
<1>9. SuccessReplacesWhatItRead'
  <2> SUFFICES ASSUME NEW b \in Admins, NEW c, c = call'[b], c.phase = "stored"
               PROVE  ReplacedWhatItRead(c)'
    BY DEF SuccessReplacesWhatItRead, ReplacedWhatItRead
  <2>1. CASE b = a
    BY <2>1, <1>4, <1>6, <1>8
  <2>2. CASE b # a
    <3>1. ReplacedWhatItRead(c)
      BY <1>4, <2>2 DEF KeyStoreInv, SuccessReplacesWhatItRead
    <3> QED BY <3>1, CallKnowledgePersists DEF KeyStoreInv
  <2> QED BY <2>1, <2>2
<1> QED BY <1>1, <1>5, <1>7, <1>9 DEF KeyStoreInv

KnownOf(c) ==
  \/ c.phase = "idle"
  \/ c.phase = "read" /\ HoldsUsableRecord(c)
  \/ c.phase = "stored" /\ ReplacedWhatItRead(c)

(* A step that leaves the bucket alone keeps the invariant when what it     *)
(* writes into a call is known of that call.                                *)
LEMMA CallStep ==
  ASSUME KeyStoreInv, stream' = stream, latest' = latest, clock' \in Nat,
         NEW a \in Admins, NEW c \in Calls, KnownOf(c), call' = [call EXCEPT ![a] = c]
  PROVE  KeyStoreInv'
<1>0. call' \in [Admins -> Calls] /\ \A b \in Admins : call'[b] \in {call[b], c}
  BY DEF KeyStoreInv, TypeOK
<1>1. TypeOK'
  BY <1>0 DEF KeyStoreInv, TypeOK
<1>2. LatestOK' /\ DigestsOK' /\ RevocationIsFinal' /\ RotatedSecretStaysOut'
  <2>1. LatestOK'
    BY DEF KeyStoreInv, LatestOK, Revisions
  <2>2. DigestsOK'
    BY DEF KeyStoreInv, DigestsOK, Revisions
  <2>3. RevocationIsFinal'
    BY DEF KeyStoreInv, RevocationIsFinal, Revisions, SameKey, IsPut, DeletedBetween
  <2>4. RotatedSecretStaysOut'
    BY DEF KeyStoreInv, RotatedSecretStaysOut, Revisions, SameKey, IsPut
  <2> QED BY <2>1, <2>2, <2>3, <2>4
<1>3. ReadOK'
  <2> SUFFICES ASSUME NEW b \in Admins, NEW d, d = call'[b], d.phase = "read"
               PROVE  HoldsUsableRecord(d)'
    BY DEF ReadOK, HoldsUsableRecord
  <2>1. HoldsUsableRecord(d)
    BY <1>0 DEF KeyStoreInv, ReadOK, KnownOf
  <2> QED BY <2>1 DEF HoldsUsableRecord, Revisions, IsPut
<1>4. SuccessReplacesWhatItRead'
  <2> SUFFICES ASSUME NEW b \in Admins, NEW d, d = call'[b], d.phase = "stored"
               PROVE  ReplacedWhatItRead(d)'
    BY DEF SuccessReplacesWhatItRead, ReplacedWhatItRead
  <2>1. ReplacedWhatItRead(d)
    BY <1>0 DEF KeyStoreInv, SuccessReplacesWhatItRead, KnownOf
  <2> QED BY <2>1 DEF ReplacedWhatItRead, Revisions, IsPut
<1> QED BY <1>1, <1>2, <1>3, <1>4 DEF KeyStoreInv

LEMMA InitEstablishesInv == Init => KeyStoreInv
  BY KeyStoreAssumption
     DEF Init, KeyStoreInv, TypeOK, LatestOK, ReadOK, DigestsOK, RevocationIsFinal,
         RotatedSecretStaysOut, SuccessReplacesWhatItRead, Revisions, Idle, Calls

(* The invariant is inductive. *)
LEMMA NextKeepsInv == KeyStoreInv /\ [Next]_storeVars => KeyStoreInv'
<1> SUFFICES ASSUME KeyStoreInv, [Next]_storeVars PROVE KeyStoreInv'
  OBVIOUS
<1> USE KeyStoreAssumption
<1>1. /\ TypeOK
      /\ latest \in [KeyIds -> Nat]
      /\ call \in [Admins -> Calls]
      /\ clock \in Nat
      /\ \A n \in Revisions : stream[n] \in Entry
  BY DEF KeyStoreInv, TypeOK, Revisions
<1>2. Digest(NextRevision) \in Digests
  BY <1>1 DEF Digest, Digests, NextRevision, TypeOK
<1>3. ASSUME NEW a \in Admins, NEW id \in KeyIds, NEW expires \in Lifetimes,
             Create(a, id, expires)
      PROVE  KeyStoreInv'
  <2> DEFINE entry == Put(id, Digest(NextRevision), expires, FALSE)
  <2>1. entry \in Entry
    BY <1>2, PutIsEntry
  <2>2. entry.key = id /\ entry.kind = "put" /\ entry.digest = Digest(NextRevision) /\ entry.revoked = FALSE
    BY DEF Put
  <2>3. Store(entry) /\ Reply(a, "create", id, latest[id]) /\ clock' = clock /\ Vacant(id)
    BY <1>3 DEF Create
  <2> HIDE DEF entry
  <2>4. Follows(entry)
    BY <2>2, <2>3 DEF Follows
  <2> QED BY <2>1, <2>2, <2>3, <2>4, WriteStep DEF Ops
<1>4. ASSUME NEW a \in Admins, NEW id \in KeyIds, RotateGet(a, id)
      PROVE  KeyStoreInv'
  <2> DEFINE c == Read("rotate", id, latest[id])
  <2>1. /\ c \in Calls /\ c.phase = "read"
        /\ call' = [call EXCEPT ![a] = c]
        /\ UNCHANGED <<stream, latest, clock>>
    BY <1>1, <1>4, CallShapes DEF RotateGet, Ops, Read
  <2>2. HoldsUsableRecord(c)
    BY <1>4, <1>1 DEF RotateGet, Usable, Readable, KeyStoreInv, LatestOK, HoldsUsableRecord, IsPut, Read
  <2> HIDE DEF c
  <2> QED BY <1>1, <2>1, <2>2, CallStep DEF KnownOf
<1>5. ASSUME NEW a \in Admins, NEW id \in KeyIds, RevokeGet(a, id)
      PROVE  KeyStoreInv'
  <2>1. /\ latest[id] \in Revisions /\ stream[latest[id]].key = id /\ IsPut(latest[id])
        /\ UNCHANGED <<stream, latest, clock>>
    BY <1>5, <1>1 DEF RevokeGet, Readable, KeyStoreInv, LatestOK, IsPut
  <2>2. CASE stream[latest[id]].revoked
    <3> DEFINE c == Stored("revoke", id, latest[id], latest[id])
    <3>1. c \in Calls /\ c.phase = "stored" /\ call' = [call EXCEPT ![a] = c]
      BY <1>1, <1>5, <2>2, CallShapes DEF RevokeGet, Ops, Stored
    <3>2. ReplacedWhatItRead(c)
      BY <2>1, <2>2, <1>1 DEF ReplacedWhatItRead, Stored, Revisions
    <3> HIDE DEF c
    <3> QED BY <1>1, <2>1, <3>1, <3>2, CallStep DEF KnownOf
  <2>3. CASE ~ stream[latest[id]].revoked
    <3> DEFINE c == Read("revoke", id, latest[id])
    <3>1. c \in Calls /\ c.phase = "read" /\ call' = [call EXCEPT ![a] = c]
      BY <1>1, <1>5, <2>3, CallShapes DEF RevokeGet, Ops, Read
    <3>2. HoldsUsableRecord(c)
      BY <2>1, <2>3 DEF HoldsUsableRecord, Read
    <3> HIDE DEF c
    <3> QED BY <1>1, <2>1, <3>1, <3>2, CallStep DEF KnownOf
  <2> QED BY <2>2, <2>3
<1>6. ASSUME NEW a \in Admins, RotateUpdate(a)
      PROVE  KeyStoreInv'
  <2> DEFINE read == stream[call[a].base]
             entry == Rotated(read)
  <2>1. /\ call[a].base \in Revisions /\ read \in Entry /\ read.key = call[a].id
        /\ read.kind = "put" /\ ~ read.revoked /\ latest[call[a].id] = call[a].base
    BY <1>6, <1>1 DEF RotateUpdate, CasHolds, KeyStoreInv, ReadOK, HoldsUsableRecord, IsPut
  <2>2. /\ entry.key = read.key /\ entry.kind = "put" /\ entry.revoked = FALSE
        /\ entry.digest = Digest(NextRevision)
    BY DEF Rotated, Put
  <2>3. read.key \in KeyIds /\ read.expires \in Lifetimes
    BY <2>1 DEF Entry
  <2>4. entry \in Entry
    BY <1>2, <2>3, PutIsEntry DEF Rotated
  <2>5. /\ Store(entry) /\ clock' = clock
        /\ Reply(a, "rotate", call[a].id, call[a].base)
    BY <1>6 DEF RotateUpdate
  <2> HIDE DEF entry
  <2>6. Follows(entry)
    BY <2>1, <2>2, <1>1 DEF Follows, Readable, Revisions
  <2> QED BY <2>1, <2>2, <2>4, <2>5, <2>6, WriteStep DEF Ops
<1>7. ASSUME NEW a \in Admins, RevokeUpdate(a)
      PROVE  KeyStoreInv'
  <2> DEFINE read == stream[call[a].base]
             entry == Revoked(read)
  <2>1. /\ call[a].base \in Revisions /\ read \in Entry /\ read.key = call[a].id
        /\ read.kind = "put" /\ ~ read.revoked /\ latest[call[a].id] = call[a].base
    BY <1>7, <1>1 DEF RevokeUpdate, CasHolds, KeyStoreInv, ReadOK, HoldsUsableRecord, IsPut
  <2>2. /\ entry.key = read.key /\ entry.kind = "put" /\ entry.revoked = TRUE
        /\ entry.digest = read.digest
    BY DEF Revoked, Put
  <2>3. read.key \in KeyIds /\ read.expires \in Lifetimes /\ read.digest \in Digests
    BY <2>1 DEF Entry
  <2>4. entry \in Entry
    BY <2>3, PutIsEntry DEF Revoked
  <2>5. /\ Store(entry) /\ clock' = clock
        /\ Reply(a, "revoke", call[a].id, call[a].base)
    BY <1>7 DEF RevokeUpdate
  <2> HIDE DEF entry
  <2>6. Follows(entry)
    BY <2>1, <2>2, <1>1 DEF Follows, Readable, Revisions
  <2> QED BY <2>1, <2>2, <2>4, <2>5, <2>6, WriteStep DEF Ops
<1>8. ASSUME NEW a \in Admins, Abort(a) \/ Return(a)
      PROVE  KeyStoreInv'
  <2>1. call' = [call EXCEPT ![a] = Idle] /\ UNCHANGED <<stream, latest, clock>>
    BY <1>8 DEF Abort, Return
  <2>2. Idle \in Calls /\ Idle.phase = "idle"
    BY <1>1, CallShapes
  <2> QED BY <1>1, <2>1, <2>2, CallStep DEF KnownOf
<1>9. ASSUME NEW id \in KeyIds, HandEdit(id)
      PROVE  KeyStoreInv'
  <2>1. PICK kind \in {"delete", "foreign"} : Store(NoRecord(id, kind))
    BY <1>9 DEF HandEdit
  <2>2. UNCHANGED <<call, clock>>
    BY <1>9 DEF HandEdit
  <2> DEFINE entry == NoRecord(id, kind)
  <2>3. entry \in Entry
    BY NoRecordIsEntry
  <2>4. entry.kind # "put" /\ entry.digest = Digest(0) /\ entry.key = id
    BY DEF NoRecord
  <2> HIDE DEF entry
  <2>5. LatestOK' /\ DigestsOK' /\ RevocationIsFinal' /\ RotatedSecretStaysOut'
    BY <2>1, <2>3, <2>4, BucketStep DEF Follows, entry
  <2>6. TypeOK'
    BY <1>1, <2>1, <2>2, <2>3, <2>4, StoreAppends DEF TypeOK, entry
  <2>7. ReadOK'
    BY <1>1, <2>1, <2>2, <2>3, CallKnowledgePersists
       DEF KeyStoreInv, ReadOK, HoldsUsableRecord, IsPut, entry
  <2>8. SuccessReplacesWhatItRead'
    BY <1>1, <2>1, <2>2, <2>3, CallKnowledgePersists
       DEF KeyStoreInv, SuccessReplacesWhatItRead, ReplacedWhatItRead, IsPut, entry
  <2> QED BY <2>5, <2>6, <2>7, <2>8 DEF KeyStoreInv
<1>10. ASSUME Tick \/ UNCHANGED storeVars
       PROVE  KeyStoreInv'
  <2>1. UNCHANGED <<stream, latest, call>> /\ clock' \in Nat
    BY <1>1, <1>10 DEF Tick, storeVars
  <2>2. TypeOK'
    BY <1>1, <2>1 DEF TypeOK
  <2> QED
    BY <2>1, <2>2
       DEF KeyStoreInv, LatestOK, ReadOK, HoldsUsableRecord, DigestsOK, RevocationIsFinal,
           RotatedSecretStaysOut, SuccessReplacesWhatItRead, ReplacedWhatItRead, Revisions,
           SameKey, IsPut, DeletedBetween
<1> QED
  BY <1>3, <1>4, <1>5, <1>6, <1>7, <1>8, <1>9, <1>10 DEF Next, Mutate

-----------------------------------------------------------------------------
(* The bucket, the calls and the clock keep their types, and a call in      *)
(* progress holds a record that was usable when it was read.                *)
THEOREM KeyStoreInvHolds == Spec => []KeyStoreInv
<1>1. Init => KeyStoreInv
  BY InitEstablishesInv
<1>2. KeyStoreInv /\ [Next]_storeVars => KeyStoreInv'
  BY NextKeepsInv
<1> QED BY <1>1, <1>2, PTL DEF Spec

THEOREM TypeCorrect == Spec => []TypeOK
  <1>1. KeyStoreInv => TypeOK
    BY DEF KeyStoreInv
  <1> QED BY <1>1, KeyStoreInvHolds, PTL

(* No interleaving of creations, rotations, revocations and hand edits,     *)
(* with any replies lost, makes a revoked key usable again: keystore.Rotate *)
(* and keystore.Revoke are safe under the compare-and-swap alone.           *)
THEOREM RevocationFinality == Spec => []RevocationIsFinal
  <1>1. KeyStoreInv => RevocationIsFinal
    BY DEF KeyStoreInv
  <1> QED BY <1>1, KeyStoreInvHolds, PTL

(* A secret that keystore.Rotate replaced is never stored again.            *)
THEOREM RotationFinality == Spec => []RotatedSecretStaysOut
  <1>1. KeyStoreInv => RotatedSecretStaysOut
    BY DEF KeyStoreInv
  <1> QED BY <1>1, KeyStoreInvHolds, PTL

(* A mutation that reports success lost no concurrent one.                  *)
THEOREM NoLostUpdate == Spec => []SuccessReplacesWhatItRead
  <1>1. KeyStoreInv => SuccessReplacesWhatItRead
    BY DEF KeyStoreInv
  <1> QED BY <1>1, KeyStoreInvHolds, PTL

-----------------------------------------------------------------------------
(* The refinement.  A step of the bucket is a step of one key. *)
Keys == [id \in KeyIds |-> KeyState(id)]
StoredDigests == {stream[n].digest : n \in {m \in Revisions : IsPut(m)}}

(* What the abstract key becomes when an entry is stored. *)
StateOf(entry) ==
  IF entry.kind = "delete" THEN Lifecycle!Absent
  ELSE IF entry.kind = "foreign" THEN Lifecycle!Unreadable
  ELSE Lifecycle!Credential(IF entry.revoked THEN "revoked" ELSE "active",
                            entry.digest, entry.expires)

LEMMA StoredKeyState ==
  ASSUME NEW id \in KeyIds
  PROVE  KeyState(id) = IF latest[id] = 0 THEN Lifecycle!Absent ELSE StateOf(stream[latest[id]])
  BY DEF KeyState, Vacant, StateOf, Lifecycle!Absent, Lifecycle!Unreadable, Lifecycle!Credential

LEMMA StoreChangesOneKey ==
  ASSUME KeyStoreInv, KeyStoreInv', NEW entry \in Entry, Store(entry)
  PROVE  /\ Keys' = [Keys EXCEPT ![entry.key] = StateOf(entry)]
         /\ entry.kind # "put" => StoredDigests' = StoredDigests
         /\ entry.kind = "put" => StoredDigests' = StoredDigests \cup {entry.digest}
<1>1. /\ Revisions' = Revisions \cup {NextRevision} /\ NextRevision \in Nat \ {0}
      /\ \A n \in Revisions : stream'[n] = stream[n]
      /\ stream'[NextRevision] = entry
      /\ latest' = [latest EXCEPT ![entry.key] = NextRevision]
      /\ entry.key \in KeyIds /\ latest \in [KeyIds -> Nat]
  <2>1. /\ TypeOK /\ stream \in Seq(Entry)
        /\ entry.key \in KeyIds /\ latest \in [KeyIds -> Nat]
    BY DEF KeyStoreInv, TypeOK, Entry
  <2>2. NextRevision \in Nat \ {0}
    BY <2>1 DEF NextRevision
  <2> QED BY <2>1, <2>2, StoreAppends
<1>2. ASSUME NEW id \in KeyIds
      PROVE  KeyState(id)' = IF id = entry.key THEN StateOf(entry) ELSE KeyState(id)
  <2>1. KeyState(id)'
          = IF latest'[id] = 0 THEN Lifecycle!Absent ELSE StateOf(stream'[latest'[id]])
    BY DEF KeyState, Vacant, StateOf, Lifecycle!Absent, Lifecycle!Unreadable,
           Lifecycle!Credential
  <2>2. CASE id = entry.key
    BY <1>1, <2>1, <2>2
  <2>3. CASE id # entry.key
    <3>1. latest'[id] = latest[id] /\ (latest[id] # 0 => latest[id] \in Revisions)
      BY <1>1, <2>3 DEF KeyStoreInv, LatestOK
    <3> QED BY <1>1, <2>1, <2>3, <3>1, StoredKeyState
  <2> QED BY <2>2, <2>3
<1>3. Keys' = [Keys EXCEPT ![entry.key] = StateOf(entry)]
  BY <1>1, <1>2 DEF Keys
<1>4. StoredDigests' = IF entry.kind = "put" THEN StoredDigests \cup {entry.digest}
                       ELSE StoredDigests
  BY <1>1 DEF StoredDigests, IsPut
<1> QED BY <1>3, <1>4

(* A secret is new: no record that was ever stored has its digest. *)
LEMMA NewDigestIsUnused ==
  ASSUME KeyStoreInv, NextRevision <= MaxRevision
  PROVE  Digest(NextRevision) \in [sha256 : 1 .. MaxRevision] \ StoredDigests
<1>1. /\ NextRevision \in Nat /\ NextRevision >= 1 /\ MaxRevision \in Nat
      /\ \A n \in Revisions : n < NextRevision /\ n \in Nat /\ stream[n] \in Entry
  BY KeyStoreAssumption DEF KeyStoreInv, TypeOK, NextRevision, Revisions, KeyStoreAssumption
<1>2. Digest(NextRevision) \in [sha256 : 1 .. MaxRevision]
  BY <1>1 DEF Digest
<1>3. ASSUME NEW n \in Revisions PROVE stream[n].digest # Digest(NextRevision)
  <2>1. stream[n].digest.sha256 \in Nat /\ stream[n].digest.sha256 <= n
    BY <1>1 DEF Entry, Digests, KeyStoreInv, DigestsOK
  <2>2. stream[n].digest.sha256 # NextRevision
    BY <1>1, <2>1
  <2> QED BY <2>2 DEF Digest
<1> QED BY <1>2, <1>3 DEF StoredDigests

LEMMA SameBucketSameKeys ==
  ASSUME stream' = stream, latest' = latest
  PROVE  Keys' = Keys /\ StoredDigests' = StoredDigests
  BY DEF Keys, StoredDigests, KeyState, Vacant, Revisions, IsPut

(* What is known of the record that an Update replaces. *)
LEMMA ReadRecordIsActive ==
  ASSUME KeyStoreInv, NEW a \in Admins, call[a].phase = "read",
         CasHolds(call[a].id, call[a].base)
  PROVE  LET read == stream[call[a].base] IN
         /\ read \in Entry /\ read.key = call[a].id /\ read.key \in KeyIds
         /\ read.digest \in StoredDigests /\ read.expires \in Lifetimes
         /\ KeyState(read.key) = Lifecycle!Credential("active", read.digest, read.expires)
<1> DEFINE read == stream[call[a].base]
<1>1. /\ call[a].base \in Revisions /\ read.key = call[a].id /\ IsPut(call[a].base)
      /\ ~ read.revoked /\ latest[call[a].id] = call[a].base /\ read \in Entry
  BY DEF CasHolds, KeyStoreInv, TypeOK, ReadOK, HoldsUsableRecord, Revisions
<1>2. read.key \in KeyIds /\ read.expires \in Lifetimes /\ call[a].base # 0
  BY <1>1 DEF Entry, Revisions
<1>3. KeyState(read.key) = StateOf(read)
  BY <1>1, <1>2, StoredKeyState
<1>4. StateOf(read) = Lifecycle!Credential("active", read.digest, read.expires)
  BY <1>1 DEF StateOf, IsPut
<1>5. read.digest \in StoredDigests
  BY <1>1 DEF StoredDigests
<1> QED BY <1>1, <1>2, <1>3, <1>4, <1>5

(* Every step of the store is a step of the lifecycle or none of it. *)
LEMMA StepImplementsLifecycle ==
  ASSUME KeyStoreInv, [Next]_storeVars
  PROVE  [Lifecycle!Next]_Lifecycle!vars
<1>0. KeyStoreInv'
  BY NextKeepsInv
<1>1. /\ latest \in [KeyIds -> Nat] /\ Keys \in [KeyIds -> {KeyState(id) : id \in KeyIds}]
      /\ Digest(NextRevision) \in Digests
  BY KeyStoreAssumption DEF KeyStoreInv, TypeOK, Keys, Digest, Digests, NextRevision
<1>2. ASSUME stream' = stream, latest' = latest PROVE [Lifecycle!Next]_Lifecycle!vars
  BY <1>2, SameBucketSameKeys DEF Lifecycle!vars, Keys, StoredDigests
<1>3. ASSUME NEW a \in Admins, NEW id \in KeyIds, NEW expires \in Lifetimes,
             Create(a, id, expires)
      PROVE  Lifecycle!Create(id)
  <2> DEFINE entry == Put(id, Digest(NextRevision), expires, FALSE)
  <2>1. entry \in Entry /\ Store(entry) /\ NextRevision <= MaxRevision /\ Vacant(id)
    BY <1>1, <1>3, PutIsEntry DEF Create, Store
  <2>2. /\ entry.key = id /\ entry.kind = "put"
        /\ entry.digest = Digest(NextRevision)
        /\ StateOf(entry) = Lifecycle!Credential("active", Digest(NextRevision), expires)
    BY DEF Put, StateOf
  <2> HIDE DEF entry
  <2>3. /\ Keys' = [Keys EXCEPT ![id] =
                      Lifecycle!Credential("active", Digest(NextRevision), expires)]
        /\ StoredDigests' = StoredDigests \cup {Digest(NextRevision)}
    BY <1>0, <2>1, <2>2, StoreChangesOneKey
  <2>4. Keys[id] = Lifecycle!Absent
    BY <2>1 DEF Keys, KeyState, Lifecycle!Absent
  <2>5. Digest(NextRevision) \in [sha256 : 1 .. MaxRevision] \ StoredDigests
    BY <2>1, NewDigestIsUnused
  <2> QED BY <2>3, <2>4, <2>5 DEF Lifecycle!Create, Keys, StoredDigests
<1>4. ASSUME NEW a \in Admins, RotateUpdate(a)
      PROVE  \E id \in KeyIds : Lifecycle!Rotate(id)
  <2> DEFINE read == stream[call[a].base]
             entry == Rotated(read)
             active == Lifecycle!Credential("active", read.digest, read.expires)
  <2>1. /\ read.key = call[a].id /\ read.key \in KeyIds /\ read.expires \in Lifetimes
        /\ KeyState(read.key) = active
    BY <1>4, ReadRecordIsActive DEF RotateUpdate
  <2>2. entry \in Entry /\ Store(entry) /\ NextRevision <= MaxRevision
    BY <1>1, <1>4, <2>1, PutIsEntry DEF RotateUpdate, Store, Rotated
  <2>3. /\ entry.key = read.key /\ entry.kind = "put"
        /\ entry.digest = Digest(NextRevision)
        /\ StateOf(entry) = Lifecycle!Credential("active", Digest(NextRevision), read.expires)
    BY DEF Rotated, Put, StateOf
  <2> HIDE DEF entry
  <2>4. /\ Keys' = [Keys EXCEPT ![read.key] =
                      Lifecycle!Credential("active", Digest(NextRevision), read.expires)]
        /\ StoredDigests' = StoredDigests \cup {Digest(NextRevision)}
    BY <1>0, <2>2, <2>3, StoreChangesOneKey
  <2>5. Keys[read.key].status = "active" /\ Keys[read.key].expires = read.expires
    BY <2>1 DEF Keys, Lifecycle!Credential
  <2>6. Digest(NextRevision) \in [sha256 : 1 .. MaxRevision] \ StoredDigests
    BY <2>2, NewDigestIsUnused
  <2> HIDE DEF read
  <2>7. PICK id \in KeyIds : id = read.key
    BY <2>1
  <2>8. Lifecycle!Rotate(id)
    BY <2>4, <2>5, <2>6, <2>7 DEF Lifecycle!Rotate, Keys, StoredDigests
  <2> QED BY <2>8
<1>5. ASSUME NEW a \in Admins, RevokeUpdate(a)
      PROVE  \E id \in KeyIds : Lifecycle!Revoke(id)
  <2> DEFINE read == stream[call[a].base]
             entry == Revoked(read)
  <2>1. /\ read \in Entry /\ read.key = call[a].id /\ read.key \in KeyIds
        /\ read.expires \in Lifetimes /\ read.digest \in StoredDigests /\ read.digest \in Digests
        /\ KeyState(read.key) = Lifecycle!Credential("active", read.digest, read.expires)
    BY <1>5, ReadRecordIsActive DEF RevokeUpdate, Entry
  <2>2. entry \in Entry /\ Store(entry)
    BY <1>5, <2>1, PutIsEntry DEF RevokeUpdate, Revoked
  <2>3. /\ entry.key = read.key /\ entry.kind = "put" /\ entry.digest = read.digest
        /\ StateOf(entry) = Lifecycle!Credential("revoked", read.digest, read.expires)
    BY DEF Revoked, Put, StateOf
  <2> HIDE DEF entry, read
  <2>4. /\ Keys' = [Keys EXCEPT ![read.key] =
                      Lifecycle!Credential("revoked", read.digest, read.expires)]
        /\ StoredDigests' = StoredDigests
    BY <1>0, <2>1, <2>2, <2>3, StoreChangesOneKey
  <2>5. /\ Keys[read.key].status = "active" /\ Keys[read.key].expires = read.expires
        /\ Keys[read.key].digest = read.digest
    BY <2>1 DEF Keys, Lifecycle!Credential
  <2>6. PICK id \in KeyIds : id = read.key
    BY <2>1
  <2>7. Lifecycle!Revoke(id)
    BY <2>4, <2>5, <2>6 DEF Lifecycle!Revoke, Keys, StoredDigests
  <2> QED BY <2>7
<1>6. ASSUME NEW id \in KeyIds, HandEdit(id)
      PROVE  Lifecycle!Remove(id) \/ Lifecycle!Damage(id)
  <2>1. PICK kind \in {"delete", "foreign"} : Store(NoRecord(id, kind))
    BY <1>6 DEF HandEdit
  <2> DEFINE entry == NoRecord(id, kind)
  <2>2. entry \in Entry /\ entry.key = id /\ entry.kind = kind
    BY NoRecordIsEntry DEF NoRecord
  <2> HIDE DEF entry
  <2>3. Keys' = [Keys EXCEPT ![id] = StateOf(entry)] /\ StoredDigests' = StoredDigests
    BY <1>0, <2>1, <2>2, StoreChangesOneKey DEF entry
  <2>4. StateOf(entry) = IF kind = "delete" THEN Lifecycle!Absent ELSE Lifecycle!Unreadable
    BY <2>2 DEF StateOf
  <2> QED BY <2>3, <2>4 DEF Lifecycle!Remove, Lifecycle!Damage, Keys, StoredDigests
<1>7. ASSUME NEW a \in Admins, NEW id \in KeyIds,
             RotateGet(a, id) \/ RevokeGet(a, id) \/ Abort(a) \/ Return(a)
      PROVE  stream' = stream /\ latest' = latest
  BY <1>7 DEF RotateGet, RevokeGet, Abort, Return
<1>8. ASSUME NEW a \in Admins, Abort(a) \/ Return(a)
      PROVE  stream' = stream /\ latest' = latest
  BY <1>8 DEF Abort, Return
<1>9. ASSUME Tick \/ UNCHANGED storeVars PROVE stream' = stream /\ latest' = latest
  BY <1>9 DEF Tick, storeVars
<1> QED
  BY <1>2, <1>3, <1>4, <1>5, <1>6, <1>7, <1>8, <1>9 DEF Next, Mutate, Lifecycle!Next

(* KeyStore implements KeyLifecycle: whatever requests overlap and replies  *)
(* are lost, the bucket looks like keys that change one at a time, each in  *)
(* one step, with a secret nobody had before and a final revocation.        *)
THEOREM StoreImplementsLifecycle == Spec => ImplementsLifecycle
<1>1. Init => Lifecycle!Init
  BY DEF Init, Lifecycle!Init, Lifecycle!Absent, KeyState, Vacant, Revisions
<1>2. KeyStoreInv /\ [Next]_storeVars => [Lifecycle!Next]_Lifecycle!vars
  BY StepImplementsLifecycle
<1> QED BY <1>1, <1>2, KeyStoreInvHolds, PTL DEF Spec, ImplementsLifecycle, Lifecycle!Spec
=============================================================================

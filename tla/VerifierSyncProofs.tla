-------------------------- MODULE VerifierSyncProofs --------------------------
(***************************************************************************)
(* The safety of VerifierSync for any number of replicas, requests, ids    *)
(* and entries, with hand edits, crashes and rollouts: SyncInv is          *)
(* inductive.  The bucket only grows, so what a replica knows of it up to  *)
(* its cursor stays true whatever the requests of other replicas store.    *)
(***************************************************************************)
EXTENDS VerifierSync, KeyStoreProofs, WellFoundedInduction

(* What follows is said of any log, so that it can be said of the bucket    *)
(* before and after a step.                                                 *)
Extends(new, old) ==
  Len(old) <= Len(new) /\ \A n \in 1 .. Len(old) : new[n] = old[n]

(* Under an id a map holds the revision of a record of that id. *)
Records(keys, log) ==
  \A id \in KeyIds : keys[id] # 0 =>
    /\ keys[id] \in 1 .. Len(log)
    /\ log[keys[id]].key = id /\ log[keys[id]].kind = "put"

Batch(log, last) ==
  {n \in 1 .. last : \A m \in (n + 1) .. last : log[m].key # log[n].key}

Readables(log, id, n) ==
  {m \in 1 .. n : /\ log[m].key = id /\ log[m].kind # "foreign"
                  /\ \A l \in (m + 1) .. n : log[l].key = id => log[l].kind = "foreign"}

(* Before the marker the map holds what the cursor has passed of the        *)
(* initial batch, and nothing in that was undecodable.                      *)
Loaded(keys, log, last, n) ==
  /\ \A id \in KeyIds : keys[id] # 0 => keys[id] \in Batch(log, last)
  /\ \A m \in Batch(log, last) : m <= n =>
       log[m].kind # "foreign" /\ (log[m].kind = "put" => keys[log[m].key] = m)

(* After it, it holds what is readable of the bucket up to revision n.      *)
Matches(keys, log, n) ==
  \A id \in KeyIds :
    /\ keys[id] # 0 => keys[id] \in Readables(log, id, n)
    /\ \A m \in Readables(log, id, n) : log[m].kind = "put" => keys[id] = m

After(keys, log, n) ==
  [keys EXCEPT ![log[n].key] = IF log[n].kind = "delete" THEN 0 ELSE n]

-----------------------------------------------------------------------------
(* Rotation and revocation keep the expiry of the record they replace.      *)
ExpiryIsKept ==
  \A m, n \in Revisions :
    /\ m < n /\ SameKey(m, n)
    /\ IsPut(m) /\ IsPut(n)
    /\ ~ DeletedBetween(m, n)
    => stream[m].expires = stream[n].expires

LogOK == Len(stream) <= MaxRevision /\ ExpiryIsKept

(* The watch of a replica, and its verifier: without admin requests a       *)
(* healthy one holds what the watch holds.                                  *)
ReplicaOK(r) ==
  /\ snapshot[r] <= Len(stream) /\ cursor[r] <= Len(stream)
  /\ Records(state[r], stream) /\ Records(managed[r], stream)
  /\ ~ Collides(r, managed[r])
  /\ sync[r] = "loading" => Loaded(state[r], stream, snapshot[r], cursor[r])
  /\ Serving(r) => Matches(state[r], stream, cursor[r])
  /\ healthy[r] => Serving(r) /\ (r \in Passive => managed[r] = state[r])

(* A List that has passed the id of its request has read the request's own  *)
(* write, or a later one, or the id has been deleted since.                 *)
ReadsOwnWrite(a) ==
  LET id == call[a].id IN
  \/ id \in refresh[a].todo
  \/ refresh[a].got[id] >= call[a].rev
  \/ \E n \in Revisions : n > call[a].rev /\ stream[n].key = id /\ stream[n].kind = "delete"

RequestOK(a) ==
  /\ Records(refresh[a].got, stream)
  /\ refresh[a].listing => call[a].phase = "stored" /\ ReadsOwnWrite(a)

SyncInv ==
  /\ KeyStoreInv /\ LogOK /\ SyncTypeOK
  /\ \A r \in Replicas : ReplicaOK(r)
  /\ \A a \in Admins : RequestOK(a)

-----------------------------------------------------------------------------
(* A set of revisions that is not empty has a last one. *)
LEMMA LastOf ==
  ASSUME NEW n \in Nat, NEW T \in SUBSET (1 .. n), T # {}
  PROVE  \E x \in T : \A y \in T : y <= x
<1> DEFINE R == {p \in Nat \X Nat : p[1] < p[2]}
           D == {d \in Nat : \E t \in T : d = n - t}
<1>1. IsWellFoundedOn(R, Nat)
  BY NatLessThanWellFounded DEF OpToRel
<1>2. \A t \in T : t \in Nat /\ t <= n /\ n - t \in D
  OBVIOUS
<1>3. D \subseteq Nat /\ D # {}
  BY <1>2
<1>4. PICK d \in D : \A e \in D : ~ (<<e, d>> \in R)
  <2> HIDE DEF R, D
  <2> QED BY <1>1, <1>3, WFMin
<1>5. \A e \in D : e \in Nat /\ d \in Nat /\ ~ (e < d)
  BY <1>4
<1>6. PICK x \in T : d = n - x
  BY <1>4
<1>7. ASSUME NEW y \in T PROVE y <= x
  <2>1. n - y \in D /\ n - x \in Nat /\ ~ (n - y < n - x)
    BY <1>2, <1>5, <1>6
  <2> QED BY <2>1, <1>2
<1> QED BY <1>7

(* There is one last readable entry of an id at most. *)
LEMMA OneReadable ==
  ASSUME NEW log, NEW id, NEW n \in Nat,
         NEW i \in Readables(log, id, n), NEW j \in Readables(log, id, n)
  PROVE  i = j
<1>1. ASSUME NEW k \in Readables(log, id, n), NEW m \in Readables(log, id, n), k < m
      PROVE  FALSE
  BY <1>1 DEF Readables
<1>2. i \in Nat /\ j \in Nat
  BY DEF Readables
<1> QED BY <1>1, <1>2

(* What a log says up to one of its entries it says for ever. *)
LEMMA LogsGrow ==
  ASSUME NEW old \in Seq(Entry), NEW new \in Seq(Entry), Extends(new, old),
         NEW last \in 0 .. Len(old)
  PROVE  /\ Batch(new, last) = Batch(old, last)
         /\ \A id : Readables(new, id, last) = Readables(old, id, last)
<1>1. /\ Len(old) \in Nat /\ Len(new) \in Nat /\ last \in Nat
      /\ \A n \in 1 .. last : new[n] = old[n]
  BY DEF Extends
<1>2. \A n \in 1 .. last : \A m \in (n + 1) .. last : m \in 1 .. last
  BY <1>1
<1>3. Batch(new, last) = Batch(old, last)
  BY <1>1, <1>2 DEF Batch
<1>4. ASSUME NEW id PROVE Readables(new, id, last) = Readables(old, id, last)
  BY <1>1, <1>2 DEF Readables
<1> QED BY <1>3, <1>4

LEMMA MapsKeep ==
  ASSUME NEW old \in Seq(Entry), NEW new \in Seq(Entry), Extends(new, old),
         NEW last \in 0 .. Len(old), NEW n \in Nat, NEW keys \in [KeyIds -> Nat]
  PROVE  /\ Records(keys, old) => Records(keys, new)
         /\ Matches(keys, old, last) => Matches(keys, new, last)
         /\ Loaded(keys, old, last, n) => Loaded(keys, new, last, n)
<1>1. /\ Len(old) \in Nat /\ Len(new) \in Nat /\ last \in Nat /\ Len(old) <= Len(new)
      /\ \A m \in 1 .. Len(old) : new[m] = old[m] /\ m \in 1 .. Len(new)
      /\ \A m \in 1 .. last : new[m] = old[m]
  BY DEF Extends
<1>2. /\ Batch(new, last) = Batch(old, last)
      /\ \A id : Readables(new, id, last) = Readables(old, id, last)
  BY LogsGrow
<1>3. /\ \A m \in Batch(old, last) : m \in 1 .. last
      /\ \A id : \A m \in Readables(old, id, last) : m \in 1 .. last
  BY DEF Batch, Readables
<1>4. Records(keys, old) => Records(keys, new)
  BY <1>1 DEF Records
<1>5. Matches(keys, old, last) => Matches(keys, new, last)
  BY <1>1, <1>2, <1>3 DEF Matches
<1>6. Loaded(keys, old, last, n) => Loaded(keys, new, last, n)
  BY <1>1, <1>2, <1>3 DEF Loaded
<1> QED BY <1>4, <1>5, <1>6

-----------------------------------------------------------------------------
(* The watch, one entry at a time. *)

LEMMA AfterFacts ==
  ASSUME NEW log \in Seq(Entry), NEW n \in 1 .. Len(log), NEW keys \in [KeyIds -> Nat]
  PROVE  /\ log[n].key \in KeyIds /\ log[n].kind \in {"put", "delete", "foreign"}
         /\ After(keys, log, n) \in [KeyIds -> Nat]
         /\ After(keys, log, n)[log[n].key] = IF log[n].kind = "delete" THEN 0 ELSE n
         /\ \A id \in KeyIds \ {log[n].key} : After(keys, log, n)[id] = keys[id]
<1>1. log[n] \in Entry /\ n \in Nat
  OBVIOUS
<1>2. log[n].key \in KeyIds /\ log[n].kind \in {"put", "delete", "foreign"}
  BY <1>1 DEF Entry
<1> QED BY <1>1, <1>2 DEF After

LEMMA AfterBounded ==
  ASSUME NEW log \in Seq(Entry), NEW n \in 1 .. Len(log), Len(log) <= MaxRevision,
         NEW keys \in [KeyIds -> Revs]
  PROVE  After(keys, log, n) \in [KeyIds -> Revs]
<1>1. log[n].key \in KeyIds
  <2>1. log[n] \in Entry
    OBVIOUS
  <2> QED BY <2>1 DEF Entry
<1>2. 0 \in Revs /\ n \in Revs
  BY KeyStoreAssumption DEF Revs, KeyStoreAssumption
<1> DEFINE v == IF log[n].kind = "delete" THEN 0 ELSE n
<1>3. v \in Revs
  BY <1>2
<1> QED BY <1>1, <1>3 DEF After

LEMMA AfterRecords ==
  ASSUME NEW log \in Seq(Entry), NEW n \in 1 .. Len(log), NEW keys \in [KeyIds -> Nat],
         Records(keys, log), log[n].kind # "foreign"
  PROVE  Records(After(keys, log, n), log)
<1> DEFINE new == After(keys, log, n)
<1>1. /\ log[n].kind \in {"put", "delete", "foreign"}
      /\ new[log[n].key] = IF log[n].kind = "delete" THEN 0 ELSE n
      /\ \A id \in KeyIds \ {log[n].key} : new[id] = keys[id]
  BY AfterFacts
<1> HIDE DEF new
<1>2. Records(new, log)
  BY <1>1 DEF Records
<1> QED BY <1>2 DEF new

(* The next entry of the initial batch. *)
LEMMA BatchEntryApplied ==
  ASSUME NEW log \in Seq(Entry), NEW last \in 0 .. Len(log), NEW c \in Nat,
         NEW keys \in [KeyIds -> Nat], Loaded(keys, log, last, c),
         NEW n \in Batch(log, last), c < n,
         \A m \in Batch(log, last) : c < m => n <= m,
         log[n].kind # "foreign"
  PROVE  Loaded(After(keys, log, n), log, last, n)
<1> DEFINE new == After(keys, log, n)
<1>0. n \in 1 .. Len(log) /\ n \in Nat /\ Len(log) \in Nat /\ last \in Nat
  BY DEF Batch
<1>1. /\ log[n].kind \in {"put", "delete", "foreign"}
      /\ new[log[n].key] = IF log[n].kind = "delete" THEN 0 ELSE n
      /\ \A id \in KeyIds \ {log[n].key} : new[id] = keys[id]
  BY <1>0, AfterFacts
<1> HIDE DEF new
<1>2. ASSUME NEW id \in KeyIds, new[id] # 0 PROVE new[id] \in Batch(log, last)
  BY <1>1, <1>2 DEF Loaded
<1>3. ASSUME NEW m \in Batch(log, last), m <= n
      PROVE  log[m].kind # "foreign" /\ (log[m].kind = "put" => new[log[m].key] = m)
  <2>1. CASE m = n
    BY <1>1, <2>1
  <2>2. CASE m # n
    <3>1. m \in Nat /\ m <= c /\ m \in 1 .. Len(log) /\ m < n
      BY <1>0, <1>3, <2>2 DEF Batch
    <3>2. log[m].key # log[n].key
      <4>1. n \in (m + 1) .. last
        BY <1>0, <3>1 DEF Batch
      <4> QED BY <4>1 DEF Batch
    <3>3. log[m].key \in KeyIds
      BY <3>1, AfterFacts
    <3> QED BY <1>1, <1>3, <3>1, <3>2, <3>3 DEF Loaded
  <2> QED BY <2>1, <2>2
<1>4. Loaded(new, log, last, n)
  BY <1>2, <1>3 DEF Loaded
<1> QED BY <1>4 DEF new

(* The marker: the initial batch tells all there is up to the snapshot,     *)
(* because nothing in it was undecodable.                                   *)
LEMMA BatchComplete ==
  ASSUME NEW log \in Seq(Entry), NEW last \in 0 .. Len(log), NEW c \in Nat,
         NEW keys \in [KeyIds -> Nat], Records(keys, log), Loaded(keys, log, last, c),
         \A m \in Batch(log, last) : m <= c
  PROVE  Matches(keys, log, last)
<1>0. last \in Nat /\ Len(log) \in Nat
  OBVIOUS
<1>1. ASSUME NEW id \in KeyIds, keys[id] # 0
      PROVE  keys[id] \in Readables(log, id, last)
  <2>1. /\ keys[id] \in Batch(log, last)
        /\ log[keys[id]].key = id /\ log[keys[id]].kind = "put"
    BY <1>1 DEF Records, Loaded
  <2> QED BY <2>1 DEF Batch, Readables
<1>2. ASSUME NEW id \in KeyIds, NEW m \in Readables(log, id, last), log[m].kind = "put"
      PROVE  keys[id] = m
  <2> DEFINE T == {n \in 1 .. last : log[n].key = id}
  <2>1. m \in T /\ m \in 1 .. last
    BY DEF Readables
  <2>2. PICK x \in T : \A y \in T : y <= x
    <3>1. T # {} /\ T \in SUBSET (1 .. last)
      BY <2>1
    <3> HIDE DEF T
    <3> QED BY <1>0, <3>1, LastOf
  <2>3. x \in Batch(log, last) /\ log[x].key = id /\ x \in Nat
    <3>1. ASSUME NEW y \in (x + 1) .. last, log[y].key = log[x].key PROVE FALSE
      <4>1. y \in T /\ x \in Nat /\ y \in Nat /\ y > x
        BY <1>0, <2>2, <3>1
      <4> QED BY <4>1, <2>2
    <3> QED BY <2>2, <3>1 DEF Batch
  <2>4. log[x].kind # "foreign"
    BY <2>3 DEF Loaded
  <2>5. x = m
    <3>1. m <= x /\ m \in Nat
      BY <2>1, <2>2
    <3>2. ~ (m < x)
      <4>1. m < x => x \in (m + 1) .. last
        BY <1>0, <2>2, <3>1
      <4> QED BY <4>1, <2>3, <2>4 DEF Readables
    <3> QED BY <3>1, <3>2, <2>3
  <2> QED BY <1>2, <2>3, <2>5 DEF Loaded
<1> QED BY <1>1, <1>2 DEF Matches

(* The updates after it. *)
LEMMA ReadablesStep ==
  ASSUME NEW log \in Seq(Entry), NEW n \in 1 .. Len(log), NEW id \in KeyIds
  PROVE  /\ log[n].key # id \/ log[n].kind = "foreign"
              => Readables(log, id, n) = Readables(log, id, n - 1)
         /\ log[n].key = id /\ log[n].kind # "foreign" => Readables(log, id, n) = {n}
<1>0. n \in Nat /\ n - 1 \in Nat /\ 1 .. n = 1 .. (n - 1) \cup {n}
  OBVIOUS
<1>1. ASSUME log[n].key # id \/ log[n].kind = "foreign"
      PROVE  Readables(log, id, n) = Readables(log, id, n - 1)
  <2>1. ASSUME NEW m \in Readables(log, id, n) PROVE m \in Readables(log, id, n - 1)
    BY <1>0, <1>1 DEF Readables
  <2>2. ASSUME NEW m \in Readables(log, id, n - 1) PROVE m \in Readables(log, id, n)
    <3>1. m \in 1 .. n /\ log[m].key = id /\ log[m].kind # "foreign"
      BY <1>0 DEF Readables
    <3>2. ASSUME NEW l \in (m + 1) .. n, log[l].key = id PROVE log[l].kind = "foreign"
      <4>1. l \in (m + 1) .. (n - 1) \/ l = n
        BY <1>0, <3>1
      <4> QED BY <4>1, <1>1, <3>2 DEF Readables
    <3> QED BY <3>1, <3>2 DEF Readables
  <2> QED BY <2>1, <2>2
<1>2. ASSUME log[n].key = id, log[n].kind # "foreign"
      PROVE  Readables(log, id, n) = {n}
  <2>1. n \in Readables(log, id, n)
    BY <1>0, <1>2 DEF Readables
  <2> QED BY <1>0, <2>1, OneReadable
<1> QED BY <1>1, <1>2

LEMMA UpdateApplied ==
  ASSUME NEW log \in Seq(Entry), NEW n \in 1 .. Len(log), NEW keys \in [KeyIds -> Nat],
         Matches(keys, log, n - 1)
  PROVE  /\ log[n].kind = "foreign" => Matches(keys, log, n)
         /\ log[n].kind # "foreign" => Matches(After(keys, log, n), log, n)
<1>1. ASSUME log[n].kind = "foreign" PROVE Matches(keys, log, n)
  <2>1. \A id \in KeyIds : Readables(log, id, n) = Readables(log, id, n - 1)
    BY <1>1, ReadablesStep
  <2> QED BY <2>1 DEF Matches
<1>2. ASSUME log[n].kind # "foreign" PROVE Matches(After(keys, log, n), log, n)
  <2> DEFINE new == After(keys, log, n)
  <2>1. /\ log[n].kind \in {"put", "delete", "foreign"}
        /\ new[log[n].key] = IF log[n].kind = "delete" THEN 0 ELSE n
        /\ \A id \in KeyIds \ {log[n].key} : new[id] = keys[id]
    BY AfterFacts
  <2> HIDE DEF new
  <2>2. ASSUME NEW id \in KeyIds
        PROVE  /\ new[id] # 0 => new[id] \in Readables(log, id, n)
               /\ \A m \in Readables(log, id, n) : log[m].kind = "put" => new[id] = m
    <3>1. CASE id = log[n].key
      <4>1. Readables(log, id, n) = {n}
        BY <1>2, <3>1, ReadablesStep
      <4> QED BY <4>1, <2>1, <3>1
    <3>2. CASE id # log[n].key
      <4>1. Readables(log, id, n) = Readables(log, id, n - 1) /\ new[id] = keys[id]
        BY <2>1, <3>2, ReadablesStep
      <4> QED BY <4>1 DEF Matches
    <3> QED BY <3>1, <3>2
  <2>3. Matches(new, log, n)
    BY <2>2 DEF Matches
  <2> QED BY <2>3 DEF new
<1> QED BY <1>1, <1>2

-----------------------------------------------------------------------------
(* The bucket under all the steps of VerifierSync. *)

LEMMA AppendKeepsLog ==
  ASSUME KeyStoreInv, LogOK, NEW entry \in Entry, Store(entry),
         \/ entry.kind # "put"
         \/ Vacant(entry.key)
         \/ Readable(entry.key) /\ entry.expires = stream[latest[entry.key]].expires
  PROVE  LogOK' /\ Extends(stream', stream)
<1> DEFINE new == NextRevision
<1>1. /\ Revisions' = Revisions \cup {new}
      /\ \A n \in Revisions : stream'[n] = stream[n] /\ n < new /\ n \in Nat
      /\ stream'[new] = entry /\ Len(stream') = Len(stream) + 1
      /\ new \in Nat /\ Len(stream) \in Nat
  BY StoreAppends DEF KeyStoreInv, TypeOK
<1>2. entry.key \in KeyIds /\ latest[entry.key] \in Nat
  BY DEF Entry, KeyStoreInv, TypeOK
<1>3. Extends(stream', stream)
  BY <1>1 DEF Extends, Revisions
<1>4. Len(stream') <= MaxRevision
  BY <1>1 DEF Store, NextRevision
<1> HIDE DEF new
<1>5. ExpiryIsKept'
  <2> SUFFICES ASSUME NEW m \in Revisions', NEW n \in Revisions',
                      m < n, SameKey(m, n)', IsPut(m)', IsPut(n)', ~ DeletedBetween(m, n)'
               PROVE  stream'[m].expires = stream'[n].expires
    BY DEF ExpiryIsKept
  <2>1. m \in Revisions
    BY <1>1
  <2>2. ASSUME NEW k \in Revisions, k <= n, DeletedBetween(m, k) PROVE FALSE
    <3>1. PICK i \in Revisions : /\ m < i /\ i < k /\ SameKey(i, m)
                                 /\ stream[i].kind = "delete"
      BY <2>2 DEF DeletedBetween
    <3>2. i < n /\ i \in Revisions' /\ stream'[i] = stream[i] /\ stream'[m] = stream[m]
      BY <1>1, <2>1, <2>2, <3>1
    <3> QED BY <3>1, <3>2 DEF DeletedBetween, SameKey
  <2>3. CASE n \in Revisions
    <3>1. ~ DeletedBetween(m, n)
      BY <2>2, <2>3, <1>1
    <3> QED BY <1>1, <2>1, <2>3, <3>1 DEF LogOK, ExpiryIsKept, SameKey, IsPut
  <2>4. CASE n = new
    <3>1. stream'[m] = stream[m] /\ IsPut(m) /\ stream[m].key = entry.key /\ entry.kind = "put"
      BY <1>1, <2>1, <2>4 DEF IsPut, SameKey
    <3>2. /\ m <= latest[entry.key] /\ latest[entry.key] \in Revisions
          /\ stream[latest[entry.key]].key = entry.key
      BY <1>1, <1>2, <2>1, <3>1 DEF KeyStoreInv, LatestOK, Revisions
    <3>3. CASE Vacant(entry.key)
      <4>1. stream[latest[entry.key]].kind = "delete"
        BY <1>1, <3>2, <3>3 DEF Vacant, Revisions
      <4>2. m < latest[entry.key]
        BY <1>1, <2>1, <3>1, <3>2, <4>1 DEF IsPut
      <4>3. latest[entry.key] < n /\ stream'[latest[entry.key]] = stream[latest[entry.key]]
            /\ latest[entry.key] \in Revisions'
        BY <1>1, <2>4, <3>2
      <4> QED BY <3>1, <3>2, <4>1, <4>2, <4>3 DEF DeletedBetween, SameKey
    <3>4. CASE Readable(entry.key) /\ entry.expires = stream[latest[entry.key]].expires
      <4>1. IsPut(latest[entry.key])
        BY <3>4 DEF Readable, IsPut
      <4>2. ~ DeletedBetween(m, latest[entry.key])
        <5>1. latest[entry.key] < n /\ latest[entry.key] \in Nat /\ n \in Nat
          BY <1>1, <1>2, <2>4, <3>2
        <5>2. latest[entry.key] <= n
          BY <5>1
        <5> QED BY <2>2, <3>2, <5>2
      <4>3. stream[m].expires = stream[latest[entry.key]].expires
        <5>1. CASE m = latest[entry.key]
          BY <5>1
        <5>2. CASE m < latest[entry.key]
          BY <2>1, <3>1, <3>2, <4>1, <4>2, <5>2 DEF LogOK, ExpiryIsKept, SameKey
        <5> QED BY <1>1, <2>1, <3>2, <5>1, <5>2
      <4> QED BY <1>1, <2>4, <3>1, <3>4, <4>3
    <3> QED BY <3>1, <3>3, <3>4
  <2> QED BY <1>1, <2>3, <2>4
<1> QED BY <1>3, <1>4, <1>5 DEF LogOK

LEMMA SameLogKept ==
  ASSUME KeyStoreInv, LogOK, stream' = stream
  PROVE  LogOK' /\ Extends(stream', stream)
<1>1. stream \in Seq(Entry)
  BY DEF KeyStoreInv, TypeOK
<1> QED
  BY <1>1 DEF LogOK, ExpiryIsKept, Revisions, SameKey, IsPut, DeletedBetween, Extends

LEMMA NextKeepsLog ==
  ASSUME KeyStoreInv, LogOK, [Next]_storeVars
  PROVE  LogOK' /\ Extends(stream', stream)
<1> USE KeyStoreAssumption
<1>1. /\ latest \in [KeyIds -> Nat] /\ stream \in Seq(Entry)
      /\ \A n \in Revisions : stream[n] \in Entry
      /\ Digest(NextRevision) \in Digests
  BY DEF KeyStoreInv, TypeOK, Revisions, Digest, Digests, NextRevision
<1>2. ASSUME NEW a \in Admins, NEW id \in KeyIds, NEW expires \in Lifetimes,
             Create(a, id, expires)
      PROVE  LogOK' /\ Extends(stream', stream)
  <2> DEFINE entry == Put(id, Digest(NextRevision), expires, FALSE)
  <2>1. entry \in Entry
    BY <1>1, PutIsEntry
  <2>2. entry.key = id
    BY DEF Put
  <2>3. Store(entry) /\ Vacant(id)
    BY <1>2 DEF Create
  <2> HIDE DEF entry
  <2> QED BY <2>1, <2>2, <2>3, AppendKeepsLog
<1>3. ASSUME NEW a \in Admins, RotateUpdate(a) \/ RevokeUpdate(a)
      PROVE  LogOK' /\ Extends(stream', stream)
  <2> DEFINE read == stream[call[a].base]
  <2>1. /\ call[a].base \in Revisions /\ read \in Entry /\ read.key = call[a].id
        /\ read.kind = "put" /\ latest[call[a].id] = call[a].base
    BY <1>1, <1>3 DEF RotateUpdate, RevokeUpdate, CasHolds, KeyStoreInv, ReadOK,
                      HoldsUsableRecord, IsPut
  <2>2. PICK entry \in {Rotated(read), Revoked(read)} : Store(entry)
    BY <1>3 DEF RotateUpdate, RevokeUpdate
  <2>3. read.key \in KeyIds /\ read.expires \in Lifetimes /\ read.digest \in Digests
    BY <2>1 DEF Entry
  <2>4. entry \in Entry
    BY <1>1, <2>2, <2>3, PutIsEntry DEF Rotated, Revoked
  <2>5. entry.key = read.key /\ entry.expires = read.expires
    BY <2>2 DEF Rotated, Revoked, Put
  <2>6. Readable(entry.key)
    BY <2>1, <2>5 DEF Readable, Revisions
  <2> QED BY <2>1, <2>2, <2>4, <2>5, <2>6, AppendKeepsLog
<1>4. ASSUME NEW id \in KeyIds, HandEdit(id)
      PROVE  LogOK' /\ Extends(stream', stream)
  <2>1. PICK kind \in {"delete", "foreign"} : Store(NoRecord(id, kind))
    BY <1>4 DEF HandEdit
  <2>2. NoRecord(id, kind) \in Entry /\ NoRecord(id, kind).kind # "put"
    BY NoRecordIsEntry DEF NoRecord
  <2> QED BY <2>1, <2>2, AppendKeepsLog
<1>5. ASSUME UNCHANGED stream PROVE LogOK' /\ Extends(stream', stream)
  BY <1>5, SameLogKept
<1> QED
  BY <1>2, <1>3, <1>4, <1>5
     DEF Next, Mutate, RotateGet, RevokeGet, Abort, Return, Tick, storeVars

(* A process that ends leaves its calls without an answer. *)
LEMMA CallsDropped ==
  ASSUME KeyStoreInv, UNCHANGED <<stream, latest, clock>>,
         call' \in [Admins -> Calls], \A a \in Admins : call'[a] \in {call[a], Idle}
  PROVE  KeyStoreInv'
<1>1. TypeOK' /\ Idle.phase = "idle"
  BY DEF KeyStoreInv, TypeOK, Idle
<1>2. LatestOK' /\ DigestsOK' /\ RevocationIsFinal' /\ RotatedSecretStaysOut'
  <2>1. LatestOK' /\ DigestsOK'
    BY DEF KeyStoreInv, LatestOK, DigestsOK, Revisions
  <2>2. RevocationIsFinal'
    BY DEF KeyStoreInv, RevocationIsFinal, Revisions, SameKey, IsPut, DeletedBetween
  <2>3. RotatedSecretStaysOut'
    BY DEF KeyStoreInv, RotatedSecretStaysOut, Revisions, SameKey, IsPut
  <2> QED BY <2>1, <2>2, <2>3
<1>3. ReadOK'
  <2> SUFFICES ASSUME NEW b \in Admins, NEW d, d = call'[b], d.phase = "read"
               PROVE  HoldsUsableRecord(d)'
    BY DEF ReadOK, HoldsUsableRecord
  <2>1. HoldsUsableRecord(d)
    BY <1>1 DEF KeyStoreInv, ReadOK
  <2> QED BY <2>1 DEF HoldsUsableRecord, Revisions, IsPut
<1>4. SuccessReplacesWhatItRead'
  <2> SUFFICES ASSUME NEW b \in Admins, NEW d, d = call'[b], d.phase = "stored"
               PROVE  ReplacedWhatItRead(d)'
    BY DEF SuccessReplacesWhatItRead, ReplacedWhatItRead
  <2>1. ReplacedWhatItRead(d)
    BY <1>1 DEF KeyStoreInv, SuccessReplacesWhatItRead
  <2> QED BY <2>1 DEF ReplacedWhatItRead, Revisions, IsPut
<1> QED BY <1>1, <1>2, <1>3, <1>4 DEF KeyStoreInv

-----------------------------------------------------------------------------
(* The replicas. *)

(* What the watch of r is after a step of r, when the step says what it has *)
(* made of each variable of r.                                              *)
LEMMA ReplicaStep ==
  ASSUME SyncInv, KeyStoreInv', stream' = stream, NEW r \in Replicas,
         NEW s \in {"down", "loading", "live", "stopped"}, NEW last \in 0 .. Len(stream),
         NEW c \in 0 .. Len(stream), NEW keys \in [KeyIds -> Revs], NEW h \in BOOLEAN,
         NEW held \in [KeyIds -> Revs],
         sync' = [sync EXCEPT ![r] = s], snapshot' = [snapshot EXCEPT ![r] = last],
         cursor' = [cursor EXCEPT ![r] = c], state' = [state EXCEPT ![r] = keys],
         healthy' = [healthy EXCEPT ![r] = h], managed' = [managed EXCEPT ![r] = held],
         Records(keys, stream), Records(held, stream), ~ Collides(r, held),
         s = "loading" => Loaded(keys, stream, last, c),
         s \in {"live", "stopped"} => Matches(keys, stream, c),
         h => s \in {"live", "stopped"} /\ (r \in Passive => held = keys),
         refresh' \in [Admins -> [listing : BOOLEAN, todo : SUBSET KeyIds,
                                  got : [KeyIds -> Revs]]],
         \A a \in Admins : refresh'[a] = NoRefresh
                           \/ (refresh'[a] = refresh[a] /\ call'[a] = call[a])
  PROVE  SyncInv'
<1>1. /\ SyncTypeOK /\ LogOK' /\ stream \in Seq(Entry) /\ Len(stream) \in Nat
      /\ Len(stream) <= MaxRevision /\ MaxRevision \in Nat
  BY SameLogKept, KeyStoreAssumption DEF SyncInv, KeyStoreInv, TypeOK, LogOK
<1>2. /\ sync' \in [Replicas -> {"down", "loading", "live", "stopped"}]
      /\ snapshot' \in [Replicas -> Revs] /\ cursor' \in [Replicas -> Revs]
      /\ state' \in [Replicas -> [KeyIds -> Revs]]
      /\ managed' \in [Replicas -> [KeyIds -> Revs]]
      /\ healthy' \in [Replicas -> BOOLEAN]
  <2>1. last \in Revs /\ c \in Revs
    BY <1>1 DEF Revs
  <2> QED BY <1>1, <2>1 DEF SyncTypeOK
<1>3. SyncTypeOK'
  BY <1>2 DEF SyncTypeOK, KeyStoreInv
<1>4. ASSUME NEW q \in Replicas PROVE ReplicaOK(q)'
  <2>1. CASE q = r
    <3>1. /\ sync'[q] = s /\ snapshot'[q] = last /\ cursor'[q] = c
          /\ state'[q] = keys /\ healthy'[q] = h /\ managed'[q] = held
      BY <1>1, <2>1 DEF SyncTypeOK
    <3>2. last <= Len(stream) /\ c <= Len(stream)
      BY <1>1
    <3> QED BY <2>1, <3>1, <3>2 DEF ReplicaOK, Serving, Collides
  <2>2. CASE q # r
    <3>1. /\ sync'[q] = sync[q] /\ snapshot'[q] = snapshot[q] /\ cursor'[q] = cursor[q]
          /\ state'[q] = state[q] /\ healthy'[q] = healthy[q] /\ managed'[q] = managed[q]
      BY <1>1, <2>2 DEF SyncTypeOK
    <3>2. ReplicaOK(q)
      BY DEF SyncInv
    <3> QED BY <3>1, <3>2 DEF ReplicaOK, Serving, Collides
  <2> QED BY <2>1, <2>2
<1>5. ASSUME NEW a \in Admins PROVE RequestOK(a)'
  <2>1. CASE refresh'[a] = NoRefresh
    <3>1. refresh'[a].listing = FALSE /\ \A id \in KeyIds : refresh'[a].got[id] = 0
      BY <2>1 DEF NoRefresh, NoKeys
    <3> QED BY <3>1 DEF RequestOK, Records
  <2>2. CASE refresh'[a] = refresh[a] /\ call'[a] = call[a]
    <3>1. RequestOK(a)
      BY DEF SyncInv
    <3> QED BY <2>2, <3>1 DEF RequestOK, ReadsOwnWrite, Revisions
  <2> QED BY <2>1, <2>2
<1> QED BY <1>1, <1>3, <1>4, <1>5 DEF SyncInv

LEMMA EmptyMaps ==
  /\ NoKeys \in [KeyIds -> Revs]
  /\ \A log : Records(NoKeys, log)
  /\ \A r : ~ Collides(r, NoKeys) \/ r \notin Replicas
  /\ \A log, last : Loaded(NoKeys, log, last, 0)
  /\ NoRefresh \in [listing : BOOLEAN, todo : SUBSET KeyIds, got : [KeyIds -> Revs]]
<1>1. NoKeys \in [KeyIds -> Revs] /\ \A id \in KeyIds : NoKeys[id] = 0
  BY KeyStoreAssumption DEF NoKeys, Revs, KeyStoreAssumption
<1>2. \A r \in Replicas : ~ Collides(r, NoKeys)
  BY <1>1, VerifierSyncAssumption DEF Collides, VerifierSyncAssumption
<1>3. \A log : Records(NoKeys, log)
  BY <1>1 DEF Records
<1>4. \A log, last : Loaded(NoKeys, log, last, 0)
  <2>1. \A log, last : \A m \in Batch(log, last) : ~ (m <= 0)
    BY DEF Batch
  <2> QED BY <1>1, <2>1 DEF Loaded
<1>5. NoRefresh \in [listing : BOOLEAN, todo : SUBSET KeyIds, got : [KeyIds -> Revs]]
  BY <1>1 DEF NoRefresh
<1> QED BY <1>1, <1>2, <1>3, <1>4, <1>5

LEMMA ReplicaFacts ==
  ASSUME SyncInv, NEW r \in Replicas
  PROVE  /\ stream \in Seq(Entry) /\ Len(stream) \in Nat /\ Len(stream) <= MaxRevision
         /\ MaxRevision \in Nat /\ \A n \in 0 .. Len(stream) : n \in Revs
         /\ sync \in [Replicas -> {"down", "loading", "live", "stopped"}]
         /\ sync[r] \in {"down", "loading", "live", "stopped"}
         /\ snapshot \in [Replicas -> Revs] /\ snapshot[r] \in 0 .. Len(stream)
         /\ cursor \in [Replicas -> Revs] /\ cursor[r] \in 0 .. Len(stream)
         /\ state \in [Replicas -> [KeyIds -> Revs]] /\ state[r] \in [KeyIds -> Revs]
         /\ managed \in [Replicas -> [KeyIds -> Revs]] /\ managed[r] \in [KeyIds -> Revs]
         /\ healthy \in [Replicas -> BOOLEAN] /\ healthy[r] \in BOOLEAN
         /\ refresh \in [Admins -> [listing : BOOLEAN, todo : SUBSET KeyIds,
                                    got : [KeyIds -> Revs]]]
         /\ \A keys \in [KeyIds -> Revs] : keys \in [KeyIds -> Nat]
         /\ ReplicaOK(r)
<1>1. /\ SyncTypeOK /\ ReplicaOK(r) /\ Len(stream) <= MaxRevision
      /\ stream \in Seq(Entry) /\ MaxRevision \in Nat /\ Len(stream) \in Nat
  BY KeyStoreAssumption DEF SyncInv, KeyStoreInv, TypeOK, LogOK, KeyStoreAssumption
<1>2. /\ sync \in [Replicas -> {"down", "loading", "live", "stopped"}]
      /\ snapshot \in [Replicas -> Revs] /\ cursor \in [Replicas -> Revs]
      /\ state \in [Replicas -> [KeyIds -> Revs]]
      /\ managed \in [Replicas -> [KeyIds -> Revs]]
      /\ healthy \in [Replicas -> BOOLEAN]
      /\ refresh \in [Admins -> [listing : BOOLEAN, todo : SUBSET KeyIds,
                                 got : [KeyIds -> Revs]]]
  BY <1>1 DEF SyncTypeOK
<1>3. snapshot[r] \in 0 .. Len(stream) /\ cursor[r] \in 0 .. Len(stream)
  BY <1>1, <1>2 DEF ReplicaOK, Revs
<1>4. /\ \A n \in 0 .. Len(stream) : n \in Revs
      /\ \A keys \in [KeyIds -> Revs] : keys \in [KeyIds -> Nat]
  BY <1>1 DEF Revs
<1> QED BY <1>1, <1>2, <1>3, <1>4

LEMMA SameCalls ==
  ASSUME SyncInv, UNCHANGED storeVars
  PROVE  KeyStoreInv' /\ stream' = stream /\ call' = call
<1>1. KeyStoreInv /\ [Next]_storeVars
  BY DEF SyncInv
<1>2. KeyStoreInv'
  BY <1>1, NextKeepsInv
<1> QED BY <1>2 DEF storeVars

LEMMA ExitKeepsInv ==
  ASSUME SyncInv, NEW r \in Replicas, Exit(r)
  PROVE  SyncInv'
<1>1. UNCHANGED <<stream, latest, clock>>
  BY DEF Exit
<1>2. /\ call' \in [Admins -> Calls] /\ \A a \in Admins : call'[a] \in {call[a], Idle}
      /\ \A a \in Admins : Host[a] # r => call'[a] = call[a]
  <2>1. call \in [Admins -> Calls] /\ Idle \in Calls
    BY DEF SyncInv, KeyStoreInv, TypeOK, Calls
  <2> QED BY <2>1 DEF Exit
<1>3. KeyStoreInv'
  BY <1>1, <1>2, CallsDropped DEF SyncInv
<1>4. /\ refresh' \in [Admins -> [listing : BOOLEAN, todo : SUBSET KeyIds,
                                  got : [KeyIds -> Revs]]]
      /\ \A a \in Admins : refresh'[a] = NoRefresh
                           \/ (refresh'[a] = refresh[a] /\ call'[a] = call[a])
  BY <1>2, ReplicaFacts, EmptyMaps DEF Exit
<1>5. /\ sync' = [sync EXCEPT ![r] = "down"] /\ snapshot' = [snapshot EXCEPT ![r] = 0]
      /\ cursor' = [cursor EXCEPT ![r] = 0] /\ state' = [state EXCEPT ![r] = NoKeys]
      /\ healthy' = [healthy EXCEPT ![r] = FALSE] /\ managed' = [managed EXCEPT ![r] = NoKeys]
  BY DEF Exit
<1>6. 0 \in 0 .. Len(stream)
  BY ReplicaFacts
<1> QED BY <1>1, <1>3, <1>4, <1>5, <1>6, EmptyMaps, ReplicaStep

(* A step of the watch that changes neither calls nor lists. *)
LEMMA WatchStepKeeps ==
  ASSUME SyncInv, UNCHANGED <<storeVars, refresh>>, NEW r \in Replicas,
         NEW s \in {"down", "loading", "live", "stopped"}, NEW last \in 0 .. Len(stream),
         NEW c \in 0 .. Len(stream), NEW keys \in [KeyIds -> Revs], NEW h \in BOOLEAN,
         NEW held \in [KeyIds -> Revs],
         sync' = [sync EXCEPT ![r] = s], snapshot' = [snapshot EXCEPT ![r] = last],
         cursor' = [cursor EXCEPT ![r] = c], state' = [state EXCEPT ![r] = keys],
         healthy' = [healthy EXCEPT ![r] = h], managed' = [managed EXCEPT ![r] = held],
         Records(keys, stream), Records(held, stream), ~ Collides(r, held),
         s = "loading" => Loaded(keys, stream, last, c),
         s \in {"live", "stopped"} => Matches(keys, stream, c),
         h => s \in {"live", "stopped"} /\ (r \in Passive => held = keys)
  PROVE  SyncInv'
<1>1. KeyStoreInv' /\ stream' = stream /\ call' = call /\ refresh' = refresh
  BY SameCalls
<1>2. /\ refresh' \in [Admins -> [listing : BOOLEAN, todo : SUBSET KeyIds,
                                  got : [KeyIds -> Revs]]]
      /\ \A a \in Admins : refresh'[a] = NoRefresh
                           \/ (refresh'[a] = refresh[a] /\ call'[a] = call[a])
  BY <1>1, ReplicaFacts
<1> QED BY <1>1, <1>2, ReplicaStep

LEMMA WatchKeepsInv ==
  ASSUME SyncInv, NEW r \in Replicas, WatchStep(r) \/ WatchError(r) \/ WatchClosed(r)
  PROVE  SyncInv'
<1>1. /\ stream \in Seq(Entry) /\ Len(stream) \in Nat /\ Len(stream) <= MaxRevision
      /\ \A n \in 0 .. Len(stream) : n \in Revs
      /\ sync[r] \in {"down", "loading", "live", "stopped"}
      /\ snapshot[r] \in 0 .. Len(stream) /\ cursor[r] \in 0 .. Len(stream)
      /\ state[r] \in [KeyIds -> Revs] /\ state[r] \in [KeyIds -> Nat]
      /\ managed[r] \in [KeyIds -> Revs] /\ healthy[r] \in BOOLEAN
      /\ ReplicaOK(r)
  BY ReplicaFacts
<1>2. /\ sync' = sync => sync' = [sync EXCEPT ![r] = sync[r]]
      /\ snapshot' = snapshot => snapshot' = [snapshot EXCEPT ![r] = snapshot[r]]
      /\ cursor' = cursor => cursor' = [cursor EXCEPT ![r] = cursor[r]]
      /\ state' = state => state' = [state EXCEPT ![r] = state[r]]
      /\ managed' = managed => managed' = [managed EXCEPT ![r] = managed[r]]
      /\ healthy' = healthy => healthy' = [healthy EXCEPT ![r] = healthy[r]]
  BY ReplicaFacts
<1>3. ASSUME StartVerifierSync(r) PROVE SyncInv'
  <2>1. /\ sync' = [sync EXCEPT ![r] = "loading"]
        /\ snapshot' = [snapshot EXCEPT ![r] = Len(stream)]
        /\ cursor' = [cursor EXCEPT ![r] = 0] /\ state' = [state EXCEPT ![r] = NoKeys]
        /\ healthy' = [healthy EXCEPT ![r] = FALSE]
        /\ managed' = [managed EXCEPT ![r] = managed[r]]
        /\ UNCHANGED <<storeVars, refresh>>
    BY <1>2, <1>3 DEF StartVerifierSync
  <2>2. 0 \in 0 .. Len(stream) /\ Len(stream) \in 0 .. Len(stream)
    BY <1>1
  <2>3. Records(managed[r], stream) /\ ~ Collides(r, managed[r])
    BY <1>1 DEF ReplicaOK
  <2> QED BY <1>1, <2>1, <2>2, <2>3, EmptyMaps, WatchStepKeeps
<1>4. ASSUME NEW n \in Undelivered(r), \A m \in Undelivered(r) : n <= m, sync[r] = "loading",
             stream[n].kind # "foreign", cursor' = [cursor EXCEPT ![r] = n],
             state' = [state EXCEPT ![r] = Updated(@, n)],
             UNCHANGED <<storeVars, sync, snapshot, healthy, managed, refresh>>
      PROVE  SyncInv'
  <2> DEFINE keys == After(state[r], stream, n)
  <2>1. n \in Batch(stream, snapshot[r]) /\ n > cursor[r]
        /\ \A m \in Batch(stream, snapshot[r]) : cursor[r] < m => n <= m
    BY <1>4 DEF Undelivered, InitialBatch, Batch
  <2>2. n \in 1 .. Len(stream)
    BY <1>1, <2>1 DEF Batch
  <2>3. state' = [state EXCEPT ![r] = keys]
    BY <1>4 DEF Updated, After
  <2>4. Loaded(keys, stream, snapshot[r], n)
    BY <1>1, <1>4, <2>1, BatchEntryApplied DEF ReplicaOK
  <2>5. Records(keys, stream)
    BY <1>1, <1>4, <2>2, AfterRecords DEF ReplicaOK
  <2>6. keys \in [KeyIds -> Revs]
    BY <1>1, <2>2, AfterBounded
  <2>7. /\ sync' = [sync EXCEPT ![r] = "loading"]
        /\ snapshot' = [snapshot EXCEPT ![r] = snapshot[r]]
        /\ healthy' = [healthy EXCEPT ![r] = FALSE]
        /\ managed' = [managed EXCEPT ![r] = managed[r]]
    BY <1>1, <1>2, <1>4 DEF ReplicaOK, Serving
  <2>8. Records(managed[r], stream) /\ ~ Collides(r, managed[r])
    BY <1>1 DEF ReplicaOK
  <2> HIDE DEF keys
  <2>9. n \in 0 .. Len(stream) /\ UNCHANGED <<storeVars, refresh>>
    BY <2>2, <1>1, <1>4
  <2> QED BY <1>1, <1>4, <2>3, <2>4, <2>5, <2>6, <2>7, <2>8, <2>9, WatchStepKeeps
<1>5. ASSUME DeliverSnapshot(r) PROVE SyncInv'
  BY <1>4, <1>5, ExitKeepsInv DEF DeliverSnapshot
<1>6. ASSUME Marker(r) PROVE SyncInv'
  <2>1. CASE Exit(r)
    BY <2>1, ExitKeepsInv
  <2>2. CASE ~ Collides(r, state[r]) /\ ~ Exit(r)
    <3>1. /\ sync' = [sync EXCEPT ![r] = "live"]
          /\ snapshot' = [snapshot EXCEPT ![r] = snapshot[r]]
          /\ cursor' = [cursor EXCEPT ![r] = snapshot[r]]
          /\ state' = [state EXCEPT ![r] = state[r]]
          /\ healthy' = [healthy EXCEPT ![r] = TRUE]
          /\ managed' = [managed EXCEPT ![r] = state[r]]
          /\ UNCHANGED <<storeVars, refresh>>
      BY <1>2, <1>6, <2>2 DEF Marker, Apply
    <3>2. \A n \in Batch(stream, snapshot[r]) : n <= cursor[r]
      BY <1>1, <1>6 DEF Marker, Undelivered, InitialBatch, Batch
    <3>3. Loaded(state[r], stream, snapshot[r], cursor[r]) /\ Records(state[r], stream)
      BY <1>1, <1>6 DEF Marker, ReplicaOK
    <3>4. Matches(state[r], stream, snapshot[r])
      BY <1>1, <3>2, <3>3, BatchComplete
    <3> QED BY <1>1, <2>2, <3>1, <3>3, <3>4, WatchStepKeeps
  <2> QED BY <1>6, <2>1, <2>2 DEF Marker
<1>7. ASSUME Deliver(r) PROVE SyncInv'
  <2> DEFINE n == cursor[r] + 1
             keys == After(state[r], stream, n)
  <2>1. /\ n \in 1 .. Len(stream) /\ n - 1 = cursor[r] /\ n \in 0 .. Len(stream)
        /\ cursor' = [cursor EXCEPT ![r] = n]
        /\ sync' = [sync EXCEPT ![r] = "live"]
        /\ snapshot' = [snapshot EXCEPT ![r] = snapshot[r]]
        /\ UNCHANGED <<storeVars, refresh>>
    BY <1>1, <1>2, <1>7 DEF Deliver
  <2>2. Matches(state[r], stream, n - 1) /\ Records(state[r], stream)
        /\ Records(managed[r], stream) /\ ~ Collides(r, managed[r])
    BY <1>1, <1>7, <2>1 DEF Deliver, ReplicaOK, Serving
  <2>3. /\ stream[n].kind = "foreign" => Matches(state[r], stream, n)
        /\ stream[n].kind # "foreign" => Matches(keys, stream, n) /\ Records(keys, stream)
    BY <1>1, <2>1, <2>2, UpdateApplied, AfterRecords
  <2>4. CASE stream[n].kind = "foreign"
    <3>1. /\ healthy' = [healthy EXCEPT ![r] = FALSE]
          /\ state' = [state EXCEPT ![r] = state[r]]
          /\ managed' = [managed EXCEPT ![r] = managed[r]]
      BY <1>2, <1>7, <2>4 DEF Deliver
    <3> HIDE DEF n, keys
    <3> QED BY <1>1, <2>1, <2>2, <2>3, <2>4, <3>1, WatchStepKeeps
  <2>5. CASE stream[n].kind # "foreign"
    <3>1. state' = [state EXCEPT ![r] = keys] /\ Apply(r, keys)
      BY <1>7, <2>5 DEF Deliver, Updated, After
    <3>2. keys \in [KeyIds -> Revs]
      BY <1>1, <2>1, AfterBounded
    <3> HIDE DEF n, keys
    <3>3. CASE Collides(r, keys)
      <4>1. /\ healthy' = [healthy EXCEPT ![r] = FALSE]
            /\ managed' = [managed EXCEPT ![r] = managed[r]]
        BY <3>1, <3>3 DEF Apply
      <4> QED BY <1>1, <2>1, <2>2, <2>3, <2>5, <3>1, <3>2, <4>1, WatchStepKeeps
    <3>4. CASE ~ Collides(r, keys)
      <4>1. /\ healthy' = [healthy EXCEPT ![r] = TRUE]
            /\ managed' = [managed EXCEPT ![r] = keys]
        BY <3>1, <3>4 DEF Apply
      <4> QED BY <1>1, <2>1, <2>2, <2>3, <2>5, <3>1, <3>2, <3>4, <4>1, WatchStepKeeps
    <3> QED BY <3>3, <3>4
  <2> QED BY <2>4, <2>5
<1>8. ASSUME NEW s \in {"live", "stopped"}, sync[r] = "live", sync' = [sync EXCEPT ![r] = s],
             healthy' = [healthy EXCEPT ![r] = FALSE],
             UNCHANGED <<storeVars, snapshot, cursor, state, managed, refresh>>
      PROVE  SyncInv'
  <2>1. /\ Matches(state[r], stream, cursor[r]) /\ Records(state[r], stream)
        /\ Records(managed[r], stream) /\ ~ Collides(r, managed[r])
    BY <1>1, <1>8 DEF ReplicaOK, Serving
  <2>2. UNCHANGED <<storeVars, refresh>>
    BY <1>8
  <2>3. s \in {"down", "loading", "live", "stopped"} /\ s # "loading"
    OBVIOUS
  <2>4. /\ snapshot' = [snapshot EXCEPT ![r] = snapshot[r]]
        /\ cursor' = [cursor EXCEPT ![r] = cursor[r]]
        /\ state' = [state EXCEPT ![r] = state[r]]
        /\ managed' = [managed EXCEPT ![r] = managed[r]]
    BY <1>2, <1>8
  <2> QED BY <1>1, <1>8, <2>1, <2>2, <2>3, <2>4, WatchStepKeeps
<1>9. ASSUME WatchError(r) \/ WatchClosed(r) PROVE SyncInv'
  <2>1. CASE Exit(r)
    BY <2>1, ExitKeepsInv
  <2>2. CASE ~ Exit(r)
    BY <1>2, <1>8, <1>9, <2>2 DEF WatchError, WatchClosed, HealthOnceStopped
  <2> QED BY <2>1, <2>2
<1> QED BY <1>3, <1>5, <1>6, <1>7, <1>9 DEF WatchStep

-----------------------------------------------------------------------------
(* The requests. *)

(* A step of the requests, of an editor or of the clock: the bucket may     *)
(* grow, and only the verifier of a replica with requests may change.       *)
LEMMA RequestStepKeeps ==
  ASSUME SyncInv, [Next]_storeVars, UNCHANGED <<sync, snapshot, cursor, state, healthy>>,
         managed' \in [Replicas -> [KeyIds -> Revs]],
         \A r \in Replicas :
           managed'[r] = managed[r]
           \/ (r \notin Passive /\ Records(managed'[r], stream) /\ ~ Collides(r, managed'[r])),
         refresh' \in [Admins -> [listing : BOOLEAN, todo : SUBSET KeyIds,
                                  got : [KeyIds -> Revs]]],
         \A a \in Admins :
           \/ refresh'[a] = NoRefresh
           \/ refresh'[a] = refresh[a] /\ (refresh[a].listing => call'[a] = call[a])
           \/ RequestOK(a)'
  PROVE  SyncInv'
<1>1. KeyStoreInv' /\ LogOK' /\ Extends(stream', stream)
  BY NextKeepsInv, NextKeepsLog DEF SyncInv
<1>2. stream \in Seq(Entry) /\ stream' \in Seq(Entry)
  BY <1>1 DEF SyncInv, KeyStoreInv, TypeOK
<1>3. SyncTypeOK'
  BY <1>1 DEF SyncInv, SyncTypeOK, KeyStoreInv
<1>4. ASSUME NEW r \in Replicas PROVE ReplicaOK(r)'
  <2>1. /\ sync'[r] = sync[r] /\ snapshot'[r] = snapshot[r] /\ cursor'[r] = cursor[r]
        /\ state'[r] = state[r] /\ healthy'[r] = healthy[r]
    OBVIOUS
  <2>2. /\ ReplicaOK(r) /\ snapshot[r] \in 0 .. Len(stream) /\ cursor[r] \in 0 .. Len(stream)
        /\ cursor[r] \in Nat /\ Len(stream) \in Nat
        /\ state[r] \in [KeyIds -> Nat] /\ managed[r] \in [KeyIds -> Nat]
    <3>1. /\ ReplicaOK(r) /\ snapshot[r] \in 0 .. Len(stream)
          /\ cursor[r] \in 0 .. Len(stream) /\ Len(stream) \in Nat
          /\ state[r] \in [KeyIds -> Revs] /\ managed[r] \in [KeyIds -> Revs]
      BY ReplicaFacts
    <3>2. Revs \subseteq Nat
      BY KeyStoreAssumption DEF Revs, KeyStoreAssumption
    <3>3. state[r] \in [KeyIds -> Nat] /\ managed[r] \in [KeyIds -> Nat]
      BY <3>1, <3>2
    <3> QED BY <3>1, <3>3
  <2>3. managed'[r] \in [KeyIds -> Nat]
    <3>1. managed'[r] \in [KeyIds -> Revs]
      OBVIOUS
    <3>2. Revs \subseteq Nat
      BY KeyStoreAssumption DEF Revs, KeyStoreAssumption
    <3> QED BY <3>1, <3>2
  <2>4. PICK held \in [KeyIds -> Nat] :
          /\ held = managed'[r]
          /\ Records(held, stream) /\ ~ Collides(r, held)
          /\ r \in Passive => held = managed[r]
    BY <2>2, <2>3 DEF ReplicaOK
  <2>5. PICK keys \in [KeyIds -> Nat] : keys = state[r]
    BY <2>2
  <2>6. /\ Records(keys, stream')
        /\ sync[r] = "loading" => Loaded(keys, stream', snapshot[r], cursor[r])
        /\ Serving(r) => Matches(keys, stream', cursor[r])
    BY <1>1, <1>2, <2>2, <2>5, MapsKeep DEF ReplicaOK
  <2>7. Records(held, stream')
    BY <1>1, <1>2, <2>2, <2>4, MapsKeep
  <2>8. snapshot[r] <= Len(stream') /\ cursor[r] <= Len(stream')
    <3>1. Len(stream') \in Nat /\ Len(stream) <= Len(stream')
      BY <1>1, <1>2 DEF Extends
    <3> QED BY <2>2, <3>1
  <2> QED BY <2>1, <2>2, <2>4, <2>5, <2>6, <2>7, <2>8 DEF ReplicaOK, Serving, Collides
<1>5. ASSUME NEW a \in Admins PROVE RequestOK(a)'
  <2>1. CASE refresh'[a] = NoRefresh
    <3>1. refresh'[a].listing = FALSE /\ \A id \in KeyIds : refresh'[a].got[id] = 0
      BY <2>1 DEF NoRefresh, NoKeys
    <3> QED BY <3>1 DEF RequestOK, Records
  <2>2. CASE refresh'[a] = refresh[a] /\ (refresh[a].listing => call'[a] = call[a])
    <3>1. RequestOK(a) /\ refresh[a].got \in [KeyIds -> Revs] /\ Len(stream) \in Nat
      BY <1>2 DEF SyncInv, SyncTypeOK
    <3>2. PICK got \in [KeyIds -> Nat] : got = refresh[a].got
      BY <3>1, KeyStoreAssumption DEF Revs
    <3>3. Records(got, stream')
      <4>1. 0 \in 0 .. Len(stream) /\ 0 \in Nat
        BY <3>1
      <4> QED BY <1>1, <1>2, <3>1, <3>2, <4>1, MapsKeep DEF RequestOK
    <3>4. \A n \in Revisions : n \in Revisions' /\ stream'[n] = stream[n]
      BY <1>1, <1>2 DEF Extends, Revisions
    <3> QED BY <2>2, <3>1, <3>2, <3>3, <3>4 DEF RequestOK, ReadsOwnWrite
  <2> QED BY <2>1, <2>2
<1> QED BY <1>1, <1>3, <1>4, <1>5 DEF SyncInv

LEMMA RequestFacts ==
  ASSUME SyncInv, NEW a \in Admins
  PROVE  /\ managed \in [Replicas -> [KeyIds -> Revs]]
         /\ refresh \in [Admins -> [listing : BOOLEAN, todo : SUBSET KeyIds,
                                    got : [KeyIds -> Revs]]]
         /\ refresh[a] \in [listing : BOOLEAN, todo : SUBSET KeyIds, got : [KeyIds -> Revs]]
         /\ call \in [Admins -> Calls] /\ latest \in [KeyIds -> Nat]
         /\ \A id \in KeyIds : latest[id] \in Revs
         /\ RequestOK(a)
         /\ Host[a] \in Replicas /\ Host[a] \notin Passive
         /\ KeyStoreInv
<1>1. /\ SyncTypeOK /\ KeyStoreInv /\ TypeOK /\ LatestOK /\ RequestOK(a)
      /\ Len(stream) <= MaxRevision /\ Len(stream) \in Nat
  BY DEF SyncInv, KeyStoreInv, TypeOK, LogOK
<1>2. /\ managed \in [Replicas -> [KeyIds -> Revs]]
      /\ refresh \in [Admins -> [listing : BOOLEAN, todo : SUBSET KeyIds,
                                 got : [KeyIds -> Revs]]]
      /\ call \in [Admins -> Calls] /\ latest \in [KeyIds -> Nat]
  BY <1>1 DEF SyncTypeOK, TypeOK
<1>3. ASSUME NEW id \in KeyIds PROVE latest[id] \in Revs
  <2>1. latest[id] \in Nat /\ (latest[id] # 0 => latest[id] <= Len(stream))
    BY <1>1, <1>2 DEF LatestOK, Revisions
  <2> QED BY <1>1, <2>1, KeyStoreAssumption DEF Revs, KeyStoreAssumption
<1>4. Host[a] \in Replicas /\ Host[a] \notin Passive
  BY VerifierSyncAssumption DEF VerifierSyncAssumption, Passive
<1> QED BY <1>1, <1>2, <1>3, <1>4

(* A call whose answer the Store has given stays as it is until the handler *)
(* answers.                                                                 *)
LEMMA StoreStepKeeps ==
  ASSUME SyncInv, [Next]_storeVars, UNCHANGED syncVars,
         \A b \in Admins : call[b].phase = "stored" => call'[b] = call[b]
  PROVE  SyncInv'
<1>1. /\ managed \in [Replicas -> [KeyIds -> Revs]]
      /\ refresh \in [Admins -> [listing : BOOLEAN, todo : SUBSET KeyIds,
                                 got : [KeyIds -> Revs]]]
  BY DEF SyncInv, SyncTypeOK
<1>2. ASSUME NEW b \in Admins, refresh[b].listing PROVE call[b].phase = "stored"
  BY <1>2 DEF SyncInv, RequestOK
<1>3. UNCHANGED <<sync, snapshot, cursor, state, healthy, managed, refresh>>
  BY DEF syncVars
<1> QED BY <1>1, <1>2, <1>3, RequestStepKeeps

LEMMA CreateKeyKeeps ==
  ASSUME SyncInv, NEW a \in Admins, CreateKey(a)
  PROVE  SyncInv'
<1>1. PICK id \in KeyIds, expires \in Lifetimes : Create(a, id, expires)
  BY DEF CreateKey
<1>2. Next /\ UNCHANGED syncVars
  BY <1>1 DEF CreateKey, Next
<1>3. call[a] = Idle /\ Idle.phase = "idle" /\ call \in [Admins -> Calls]
  BY <1>1, RequestFacts DEF Create, Idle
<1>4. \A b \in Admins : b # a => call'[b] = call[b]
  BY <1>1, <1>3 DEF Create, Reply
<1> QED BY <1>2, <1>3, <1>4, StoreStepKeeps

LEMMA RotateOrRevokeKeeps ==
  ASSUME SyncInv, NEW a \in Admins, RotateOrRevokeKey(a)
  PROVE  SyncInv'
<1>1. Mutate(a) /\ Next /\ UNCHANGED syncVars
  BY DEF RotateOrRevokeKey, Next
<1>2. Idle.phase = "idle" /\ call \in [Admins -> Calls]
  BY RequestFacts DEF Idle
<1>3. call[a].phase # "stored" /\ \A b \in Admins : b # a => call'[b] = call[b]
  <2>1. CASE \E id \in KeyIds : RotateGet(a, id)
    BY <1>2, <2>1 DEF RotateGet
  <2>2. CASE \E id \in KeyIds : RevokeGet(a, id)
    BY <1>2, <2>2 DEF RevokeGet
  <2>3. CASE RotateUpdate(a) \/ RevokeUpdate(a)
    BY <1>2, <2>3 DEF RotateUpdate, RevokeUpdate, Reply
  <2>4. CASE Abort(a)
    BY <1>2, <2>4 DEF Abort
  <2> QED BY <1>1, <2>1, <2>2, <2>3, <2>4 DEF Mutate
<1> QED BY <1>1, <1>3, StoreStepKeeps

(* What a request stored is still the last entry of its id, or older.       *)
LEMMA OwnWriteIsOld ==
  ASSUME SyncInv, NEW a \in Admins, call[a].phase = "stored"
  PROVE  /\ call[a].id \in KeyIds /\ call[a].rev \in Revisions
         /\ latest[call[a].id] \in Revisions
         /\ call[a].rev <= latest[call[a].id]
         /\ Vacant(call[a].id) => /\ call[a].rev < latest[call[a].id]
                                  /\ stream[latest[call[a].id]].key = call[a].id
                                  /\ stream[latest[call[a].id]].kind = "delete"
<1>1. ReplacedWhatItRead(call[a]) /\ LatestOK /\ TypeOK
  BY DEF SyncInv, KeyStoreInv, SuccessReplacesWhatItRead
<1>2. call[a].id \in KeyIds
  BY <1>1, CallShapes
<1>3. /\ call[a].rev \in Revisions /\ stream[call[a].rev].key = call[a].id
      /\ stream[call[a].rev].kind = "put"
  BY <1>1 DEF ReplacedWhatItRead, IsPut
<1>4. latest[call[a].id] \in Nat /\ call[a].rev <= latest[call[a].id]
      /\ call[a].rev \in Nat \ {0}
  BY <1>1, <1>2, <1>3 DEF LatestOK, TypeOK, Revisions
<1>5. latest[call[a].id] \in Revisions /\ stream[latest[call[a].id]].key = call[a].id
      /\ latest[call[a].id] # 0
  BY <1>1, <1>2, <1>4 DEF LatestOK
<1>6. ASSUME Vacant(call[a].id)
      PROVE  call[a].rev < latest[call[a].id] /\ stream[latest[call[a].id]].kind = "delete"
  <2>1. stream[latest[call[a].id]].kind = "delete"
    BY <1>5, <1>6 DEF Vacant
  <2> QED BY <1>3, <1>4, <2>1
<1> QED BY <1>2, <1>3, <1>4, <1>5, <1>6

LEMMA ListKeysKeeps ==
  ASSUME SyncInv, NEW a \in Admins, ListKeys(a)
  PROVE  SyncInv'
<1> DEFINE list == [listing |-> TRUE, todo |-> ListedKeys, got |-> NoKeys]
<1>1. /\ UNCHANGED <<storeVars, sync, snapshot, cursor, state, healthy, managed>>
      /\ refresh' = [refresh EXCEPT ![a] = list] /\ call[a].phase = "stored"
      /\ UNCHANGED <<stream, latest, call>>
  BY DEF ListKeys, storeVars
<1>2. list \in [listing : BOOLEAN, todo : SUBSET KeyIds, got : [KeyIds -> Revs]]
  BY EmptyMaps DEF ListedKeys
<1>3. RequestOK(a)'
  <2>1. /\ refresh'[a].listing = TRUE /\ refresh'[a].todo = ListedKeys
        /\ refresh'[a].got = NoKeys
    BY <1>1, RequestFacts
  <2>2. ReadsOwnWrite(a)'
    <3>1. CASE ~ Vacant(call[a].id)
      BY <1>1, <2>1, <3>1, OwnWriteIsOld DEF ListedKeys, ReadsOwnWrite
    <3>2. CASE Vacant(call[a].id)
      <4>1. /\ latest[call[a].id] \in Revisions /\ latest[call[a].id] > call[a].rev
            /\ stream[latest[call[a].id]].key = call[a].id
            /\ stream[latest[call[a].id]].kind = "delete"
        BY <1>1, <3>2, OwnWriteIsOld
      <4> QED BY <1>1, <4>1 DEF ReadsOwnWrite, Revisions
    <3> QED BY <3>1, <3>2
  <2>3. Records(refresh'[a].got, stream')
    BY <2>1, EmptyMaps
  <2> QED BY <1>1, <2>2, <2>3 DEF RequestOK
<1> HIDE DEF list
<1>4. /\ refresh' \in [Admins -> [listing : BOOLEAN, todo : SUBSET KeyIds,
                                  got : [KeyIds -> Revs]]]
      /\ managed' \in [Replicas -> [KeyIds -> Revs]]
      /\ \A b \in Admins : b # a => refresh'[b] = refresh[b]
  BY <1>1, <1>2, RequestFacts
<1>5. [Next]_storeVars /\ UNCHANGED <<sync, snapshot, cursor, state, healthy>>
      /\ managed' = managed /\ call' = call
  BY <1>1
<1> QED BY <1>3, <1>4, <1>5, RequestStepKeeps

LEMMA ListGetKeeps ==
  ASSUME SyncInv, NEW a \in Admins, ListGet(a)
  PROVE  SyncInv'
<1>0. PICK id \in refresh[a].todo :
        /\ Readable(id) \/ Vacant(id)
        /\ refresh' = [refresh EXCEPT ![a].todo = @ \ {id},
                         ![a].got[id] = IF Vacant(id) THEN 0 ELSE latest[id]]
  BY DEF ListGet
<1> DEFINE rev == IF Vacant(id) THEN 0 ELSE latest[id]
<1>1. /\ UNCHANGED <<storeVars, sync, snapshot, cursor, state, healthy, managed>>
      /\ UNCHANGED <<stream, latest, call>>
  BY DEF ListGet, storeVars
<1>2. /\ refresh[a] \in [listing : BOOLEAN, todo : SUBSET KeyIds, got : [KeyIds -> Revs]]
      /\ id \in KeyIds /\ rev \in Revs /\ latest[id] \in Revs /\ RequestOK(a) /\ KeyStoreInv
      /\ refresh \in [Admins -> [listing : BOOLEAN, todo : SUBSET KeyIds,
                                 got : [KeyIds -> Revs]]]
  BY RequestFacts, EmptyMaps, KeyStoreAssumption DEF Revs, KeyStoreAssumption
<1>3. /\ refresh'[a].listing = refresh[a].listing
      /\ refresh'[a].todo = refresh[a].todo \ {id}
      /\ refresh'[a].got = [refresh[a].got EXCEPT ![id] = rev]
      /\ refresh'[a] \in [listing : BOOLEAN, todo : SUBSET KeyIds, got : [KeyIds -> Revs]]
      /\ \A b \in Admins : b # a => refresh'[b] = refresh[b]
  BY <1>0, <1>2
<1>4. refresh'[a].got[id] = rev /\ \A k \in KeyIds \ {id} : refresh'[a].got[k] = refresh[a].got[k]
  BY <1>2, <1>3
<1>5. rev # 0 => rev = latest[id] /\ rev \in Revisions /\ stream[rev].key = id /\ IsPut(rev)
  BY <1>0, <1>2 DEF Vacant, Readable, KeyStoreInv, LatestOK, IsPut
<1>6. Records(refresh'[a].got, stream')
  <2>1. Records(refresh[a].got, stream)
    BY <1>2 DEF RequestOK
  <2> HIDE DEF rev
  <2> QED BY <1>1, <1>4, <1>5, <2>1 DEF Records, Revisions, IsPut
<1>7. ASSUME refresh[a].listing PROVE ReadsOwnWrite(a)'
  <2>1. call[a].phase = "stored" /\ ReadsOwnWrite(a)
    BY <1>2, <1>7 DEF RequestOK
  <2>2. call[a].id \in KeyIds
    BY <2>1, OwnWriteIsOld
  <2>3. CASE call[a].id # id
    BY <1>1, <1>3, <1>4, <2>1, <2>2, <2>3 DEF ReadsOwnWrite, Revisions
  <2>4. CASE call[a].id = id /\ Vacant(id)
    <3>1. /\ latest[id] \in Revisions /\ latest[id] > call[a].rev
          /\ stream[latest[id]].key = id /\ stream[latest[id]].kind = "delete"
      BY <2>1, <2>4, OwnWriteIsOld
    <3> QED BY <1>1, <2>4, <3>1 DEF ReadsOwnWrite, Revisions
  <2>5. CASE call[a].id = id /\ ~ Vacant(id)
    <3>1. latest[id] >= call[a].rev
      <4>1. call[a].rev <= latest[id] /\ call[a].rev \in Nat /\ latest[id] \in Nat
        BY <2>1, <2>5, OwnWriteIsOld DEF Revisions
      <4> QED BY <4>1
    <3> QED BY <1>1, <1>4, <2>5, <3>1 DEF ReadsOwnWrite
  <2> QED BY <2>3, <2>4, <2>5
<1>8. RequestOK(a)'
  <2>1. refresh[a].listing => call'[a].phase = "stored"
    BY <1>1, <1>2 DEF RequestOK
  <2> QED BY <1>3, <1>6, <1>7, <2>1 DEF RequestOK
<1>9. /\ refresh' \in [Admins -> [listing : BOOLEAN, todo : SUBSET KeyIds,
                                  got : [KeyIds -> Revs]]]
      /\ managed' \in [Replicas -> [KeyIds -> Revs]]
  <2>1. refresh' = [refresh EXCEPT ![a] = refresh'[a]]
    BY <1>0, <1>2
  <2> QED BY <1>1, <1>2, <1>3, <2>1, RequestFacts
<1> QED BY <1>1, <1>3, <1>8, <1>9, RequestStepKeeps

(* The end of a request, with a new map or without one. *)
LEMMA AnswerKeeps ==
  ASSUME SyncInv, NEW a \in Admins, ReplaceManaged(a) \/ ListError(a)
  PROVE  SyncInv'
<1>1. /\ Return(a) /\ refresh' = [refresh EXCEPT ![a] = NoRefresh]
      /\ UNCHANGED <<sync, snapshot, cursor, state, healthy>>
  BY DEF ReplaceManaged, ListError, Answer
<1>2. Next
  BY <1>1 DEF Next
<1>3. /\ managed \in [Replicas -> [KeyIds -> Revs]]
      /\ refresh \in [Admins -> [listing : BOOLEAN, todo : SUBSET KeyIds,
                                 got : [KeyIds -> Revs]]]
      /\ refresh[a].got \in [KeyIds -> Revs] /\ RequestOK(a) /\ call \in [Admins -> Calls]
      /\ Host[a] \in Replicas /\ Host[a] \notin Passive
  BY RequestFacts
<1>4. /\ refresh' \in [Admins -> [listing : BOOLEAN, todo : SUBSET KeyIds,
                                  got : [KeyIds -> Revs]]]
      /\ refresh'[a] = NoRefresh
      /\ \A b \in Admins : b # a => refresh'[b] = refresh[b] /\ call'[b] = call[b]
  BY <1>1, <1>3, EmptyMaps DEF Return
<1>5. managed' = managed
      \/ (managed' = [managed EXCEPT ![Host[a]] = refresh[a].got]
          /\ ~ Collides(Host[a], refresh[a].got))
  BY <1>3 DEF ReplaceManaged, ListError
<1>6. /\ managed' \in [Replicas -> [KeyIds -> Revs]]
      /\ \A r \in Replicas :
           managed'[r] = managed[r]
           \/ (r \notin Passive /\ Records(managed'[r], stream) /\ ~ Collides(r, managed'[r]))
  BY <1>3, <1>5 DEF RequestOK
<1> QED BY <1>1, <1>2, <1>4, <1>6, RequestStepKeeps

-----------------------------------------------------------------------------
LEMMA SyncInitEstablishesInv == SyncInit => SyncInv
<1> SUFFICES ASSUME SyncInit PROVE SyncInv
  OBVIOUS
<1>1. KeyStoreInv
  BY InitEstablishesInv DEF SyncInit
<1>2. stream = <<>> /\ Len(stream) = 0 /\ Revisions = {}
  BY DEF SyncInit, Init, Revisions
<1>3. LogOK
  BY <1>2, KeyStoreAssumption DEF LogOK, ExpiryIsKept, KeyStoreAssumption
<1>4. 0 \in Revs
  BY KeyStoreAssumption DEF Revs, KeyStoreAssumption
<1>5. SyncTypeOK
  BY <1>1, <1>4, EmptyMaps DEF SyncInit, SyncTypeOK, KeyStoreInv
<1>6. ASSUME NEW r \in Replicas PROVE ReplicaOK(r)
  BY <1>2, EmptyMaps DEF SyncInit, ReplicaOK, Serving
<1>7. ASSUME NEW a \in Admins PROVE RequestOK(a)
  <2>1. refresh[a] = NoRefresh /\ NoRefresh.listing = FALSE /\ NoRefresh.got = NoKeys
    BY DEF SyncInit, NoRefresh
  <2> QED BY <2>1, EmptyMaps DEF RequestOK
<1> QED BY <1>1, <1>3, <1>5, <1>6, <1>7 DEF SyncInv

LEMMA SyncNextKeepsInv == SyncInv /\ [SyncNext]_vars => SyncInv'
<1> SUFFICES ASSUME SyncInv, [SyncNext]_vars PROVE SyncInv'
  OBVIOUS
<1>1. ASSUME NEW r \in Replicas, WatchStep(r) \/ WatchError(r) \/ WatchClosed(r)
      PROVE  SyncInv'
  BY <1>1, WatchKeepsInv
<1>2. ASSUME NEW r \in Replicas, ReplicaCrash(r) PROVE SyncInv'
  BY <1>2, ExitKeepsInv DEF ReplicaCrash
<1>3. ASSUME NEW a \in Admins, CreateKey(a) \/ RotateOrRevokeKey(a) PROVE SyncInv'
  BY <1>3, CreateKeyKeeps, RotateOrRevokeKeeps
<1>4. ASSUME NEW a \in Admins, ListKeys(a) \/ ListGet(a) PROVE SyncInv'
  BY <1>4, ListKeysKeeps, ListGetKeeps
<1>5. ASSUME NEW a \in Admins, ReplaceManaged(a) \/ ListError(a) PROVE SyncInv'
  BY <1>5, AnswerKeeps
<1>6. ASSUME (\E id \in KeyIds : HandEdit(id)) \/ Tick, UNCHANGED syncVars PROVE SyncInv'
  <2>1. Next /\ call' = call
    BY <1>6 DEF Next, HandEdit, Tick
  <2> QED BY <1>6, <2>1, StoreStepKeeps
<1>7. ASSUME UNCHANGED vars PROVE SyncInv'
  <2>1. UNCHANGED storeVars /\ UNCHANGED syncVars /\ call' = call
    BY <1>7 DEF vars, storeVars
  <2> QED BY <2>1, StoreStepKeeps
<1> QED BY <1>1, <1>2, <1>3, <1>4, <1>5, <1>6, <1>7 DEF SyncNext

-----------------------------------------------------------------------------
(* What replicas, requests and bucket know of each other holds always. *)
THEOREM SyncInvHolds == SyncSpec => []SyncInv
<1>1. SyncInit => SyncInv
  BY SyncInitEstablishesInv
<1>2. SyncInv /\ [SyncNext]_vars => SyncInv'
  BY SyncNextKeepsInv
<1> QED BY <1>1, <1>2, PTL DEF SyncSpec

(* Every variable of the replicas and of the requests keeps its type. *)
THEOREM SyncTypeCorrect == SyncSpec => []SyncTypeOK
<1>1. SyncInv => SyncTypeOK
  BY DEF SyncInv
<1> QED BY <1>1, SyncInvHolds, PTL

(* keystore.StartVerifierSync: the map of a running watch is the bucket as  *)
(* of its cursor, whatever crashes, edits and interleavings there were.     *)
THEOREM WatchFollowsBucket == SyncSpec => []WatchStateMatchesBucket
<1>1. ASSUME SyncInv PROVE WatchStateMatchesBucket
  <2> SUFFICES ASSUME NEW r \in Replicas, NEW id \in KeyIds, Serving(r)
               PROVE  state[r][id] =
                        IF \E m \in LastReadable(id, cursor[r]) : IsPut(m)
                        THEN CHOOSE m \in LastReadable(id, cursor[r]) : TRUE
                        ELSE 0
    BY DEF WatchStateMatchesBucket, Serving
  <2> DEFINE R == LastReadable(id, cursor[r])
  <2>1. R = Readables(stream, id, cursor[r]) /\ cursor[r] \in Nat
    BY <1>1, ReplicaFacts DEF LastReadable, Readables
  <2>2. /\ state[r][id] # 0 => state[r][id] \in R /\ IsPut(state[r][id])
        /\ \A m \in R : IsPut(m) => state[r][id] = m
    BY <1>1, <2>1, ReplicaFacts DEF ReplicaOK, Matches, Records, IsPut
  <2>3. \A i, j \in R : i = j
    BY <2>1, OneReadable
  <2>4. CASE \E m \in R : IsPut(m)
    BY <2>2, <2>3, <2>4
  <2>5. CASE ~ \E m \in R : IsPut(m)
    BY <2>2, <2>5
  <2> QED BY <2>4, <2>5
<1> QED BY <1>1, SyncInvHolds, PTL

(* auth.ReplaceManaged: no replica ever has two digests for one id. *)
THEOREM IdsStayUnambiguous == SyncSpec => []NoAmbiguousId
<1>1. SyncInv => NoAmbiguousId
  BY DEF SyncInv, ReplicaOK, Collides, NoAmbiguousId
<1> QED BY <1>1, SyncInvHolds, PTL

(* A replica without admin requests that says it is healthy rejects every   *)
(* key whose revocation its watch has delivered.                            *)
THEOREM PassiveReplicasReject == SyncSpec => []PassiveRevocationRejects
<1>1. ASSUME SyncInv PROVE PassiveRevocationRejects
  <2> SUFFICES ASSUME NEW r \in Passive, NEW id \in KeyIds, healthy[r],
                      RevocationPropagated(r, id), NEW secret \in Revisions,
                      Accepts(r, id, secret)
               PROVE  FALSE
    BY DEF PassiveRevocationRejects, Rejected
  <2>1. r \in Replicas
    BY DEF Passive
  <2>2. managed[r] = state[r] /\ Matches(state[r], stream, cursor[r]) /\ cursor[r] \in Nat
    BY <1>1, <2>1, ReplicaFacts DEF ReplicaOK
  <2>3. PICK n \in 1 .. cursor[r] :
          /\ stream[n].key = id /\ IsPut(n) /\ stream[n].revoked
          /\ \A m \in (n + 1) .. cursor[r] : stream[m].key # id
    BY DEF RevocationPropagated
  <2>4. n \in Readables(stream, id, cursor[r]) /\ stream[n].kind = "put"
    BY <2>3 DEF Readables, IsPut
  <2>5. managed[r][id] = n
    BY <2>2, <2>4 DEF Matches
  <2> QED BY <2>3, <2>5 DEF Accepts, Barred
<1> QED BY <1>1, SyncInvHolds, PTL

(* adminhttp.refreshVerifier: the list that follows a mutation contains it. *)
THEOREM RefreshesReadOwnWrites == SyncSpec => []RefreshReadsOwnWrite
<1>1. SyncInv => RefreshReadsOwnWrite
  BY DEF SyncInv, RequestOK, ReadsOwnWrite, RefreshReadsOwnWrite
<1> QED BY <1>1, SyncInvHolds, PTL

(* However old the map of a replica is, it accepts no secret of a key whose *)
(* current record has expired: rotation keeps the expiry.                   *)
THEOREM ExpiryBindsStaleReplicas == SyncSpec => []ExpiredKeysAreRejectedEverywhere
<1>1. ASSUME SyncInv PROVE ExpiredKeysAreRejectedEverywhere
  <2> SUFFICES ASSUME NEW id \in KeyIds, Readable(id),
                      stream[latest[id]].expires # NoTime,
                      stream[latest[id]].expires <= clock,
                      \A n \in Revisions : stream[n].key = id => IsPut(n),
                      NEW r \in Replicas, NEW secret \in Revisions, Accepts(r, id, secret)
               PROVE  FALSE
    BY DEF ExpiredKeysAreRejectedEverywhere, Rejected
  <2>1. /\ managed[r][id] \in Revisions /\ stream[managed[r][id]].key = id
        /\ IsPut(managed[r][id])
    BY <1>1, ReplicaFacts DEF Accepts, ReplicaOK, Records, Revisions, IsPut
  <2>2. /\ latest[id] \in Revisions /\ stream[latest[id]].key = id /\ IsPut(latest[id])
        /\ managed[r][id] <= latest[id]
    BY <1>1, <2>1 DEF SyncInv, KeyStoreInv, LatestOK, Readable, IsPut
  <2>3. ~ DeletedBetween(managed[r][id], latest[id])
    BY <2>1 DEF DeletedBetween, SameKey, IsPut
  <2>4. stream[managed[r][id]].expires = stream[latest[id]].expires
    <3>1. CASE managed[r][id] < latest[id]
      BY <1>1, <2>1, <2>2, <2>3, <3>1 DEF SyncInv, LogOK, ExpiryIsKept, SameKey
    <3>2. CASE managed[r][id] = latest[id]
      BY <3>2
    <3>3. managed[r][id] \in Nat /\ latest[id] \in Nat
      BY <2>1, <2>2 DEF Revisions
    <3> QED BY <2>2, <3>1, <3>2, <3>3
  <2> QED BY <2>4 DEF Accepts, Barred, Expired
<1> QED BY <1>1, SyncInvHolds, PTL

(* Beside the bucket a step of the replicas does what KeyStore does, or     *)
(* nothing: the calls that die with a process wrote before or never.        *)
LEMMA SyncStepIsStoreStep ==
  ASSUME [SyncNext]_vars
  PROVE  [Next]_storeVars \/ (stream' = stream /\ latest' = latest)
<1>1. ASSUME NEW r \in Replicas, WatchStep(r) \/ ReplicaCrash(r) \/ WatchError(r) \/ WatchClosed(r)
      PROVE  stream' = stream /\ latest' = latest
  BY <1>1 DEF WatchStep, StartVerifierSync, DeliverSnapshot, Marker, Deliver, ReplicaCrash,
              WatchError, WatchClosed, Exit, storeVars
<1>2. ASSUME NEW a \in Admins, CreateKey(a) \/ RotateOrRevokeKey(a)
      PROVE  Next
  BY <1>2 DEF CreateKey, RotateOrRevokeKey, Next
<1>3. ASSUME NEW a \in Admins, ListKeys(a) \/ ListGet(a) \/ ReplaceManaged(a) \/ ListError(a)
      PROVE  stream' = stream /\ latest' = latest
  BY <1>3 DEF ListKeys, ListGet, ReplaceManaged, ListError, Answer, Return, storeVars
<1>4. ASSUME (\E id \in KeyIds : HandEdit(id)) \/ Tick
      PROVE  Next
  BY <1>4 DEF Next
<1> QED BY <1>1, <1>2, <1>3, <1>4 DEF SyncNext, vars, storeVars

(* The promise of KeyLifecycle survives the replicas: with processes that   *)
(* die between the read and the write of a mutation, or between the write   *)
(* and its answer, the bucket still looks like keys that change atomically. *)
THEOREM ReplicasImplementLifecycle == SyncSpec => ImplementsLifecycle
<1>1. SyncInit => Lifecycle!Init
  BY DEF SyncInit, Init, Lifecycle!Init, Lifecycle!Absent, KeyState, Vacant, Revisions
<1>2. ASSUME SyncInv, [SyncNext]_vars PROVE [Lifecycle!Next]_Lifecycle!vars
  <2>1. CASE [Next]_storeVars
    BY <1>2, <2>1, StepImplementsLifecycle DEF SyncInv
  <2>2. CASE stream' = stream /\ latest' = latest
    BY <2>2, SameBucketSameKeys DEF Lifecycle!vars, Keys, StoredDigests
  <2> QED BY <1>2, <2>1, <2>2, SyncStepIsStoreStep
<1> QED BY <1>1, <1>2, SyncInvHolds, PTL DEF SyncSpec, ImplementsLifecycle, Lifecycle!Spec
=============================================================================

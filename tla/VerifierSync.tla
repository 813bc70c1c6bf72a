---------------------------- MODULE VerifierSync ----------------------------
(***************************************************************************)
(* The API replicas: each one keeps the managed half of an auth.Verifier in *)
(* memory.  Two writers replace it, each with a complete map: the watch    *)
(* goroutine of keystore.StartVerifierSync, which replays the bucket entry *)
(* by entry, and adminhttp.refreshVerifier, which every admin mutation     *)
(* runs after its write with a List of the bucket that is read key by key. *)
(*                                                                         *)
(* A managed map is modelled by the revision of the record it holds for    *)
(* each id, 0 when it holds none.                                          *)
(***************************************************************************)
EXTENDS KeyStore, FiniteSets

CONSTANTS
  Replicas,   \* the API pods
  Host,       \* the pod that serves each admin request
  Static      \* the ids in the API_KEYS of each pod (a rollout mixes versions)

ASSUME VerifierSyncAssumption ==
  /\ Host \in [Admins -> Replicas]
  /\ Static \in [Replicas -> SUBSET KeyIds]

VARIABLES
  sync,      \* the watch goroutine: "down" while the process is not running,
             \* "loading" before the first complete snapshot, "live", or
             \* "stopped" when it has returned and the process goes on
  snapshot,  \* last revision of the initial batch of the watch
  cursor,    \* last revision the goroutine has consumed
  state,     \* its map of the records
  healthy,   \* syncHealthy, what /readyz reports of the key store
  managed,   \* the map of the Verifier
  refresh    \* the List a request is making: ids to read, revisions read

syncVars == <<sync, snapshot, cursor, state, healthy, managed, refresh>>
vars == <<storeVars, syncVars>>

NoKeys == [id \in KeyIds |-> 0]
NoRefresh == [listing |-> FALSE, todo |-> {}, got |-> NoKeys]
Revs == 0 .. MaxRevision

SyncTypeOK ==
  /\ TypeOK
  /\ sync \in [Replicas -> {"down", "loading", "live", "stopped"}]
  /\ snapshot \in [Replicas -> Revs]
  /\ cursor \in [Replicas -> Revs]
  /\ state \in [Replicas -> [KeyIds -> Revs]]
  /\ healthy \in [Replicas -> BOOLEAN]
  /\ managed \in [Replicas -> [KeyIds -> Revs]]
  /\ refresh \in [Admins -> [listing : BOOLEAN, todo : SUBSET KeyIds,
                             got : [KeyIds -> Revs]]]

SyncInit ==
  /\ Init
  /\ sync = [r \in Replicas |-> "down"]
  /\ snapshot = [r \in Replicas |-> 0]
  /\ cursor = [r \in Replicas |-> 0]
  /\ state = [r \in Replicas |-> NoKeys]
  /\ healthy = [r \in Replicas |-> FALSE]
  /\ managed = [r \in Replicas |-> NoKeys]
  /\ refresh = [a \in Admins |-> NoRefresh]

-----------------------------------------------------------------------------
(* auth.Verifier *)

(* ReplaceManaged refuses a map that holds an id of API_KEYS, and then     *)
(* keeps the old one.                                                      *)
Collides_Never(r, keys) == FALSE
Collides(r, keys) == \E id \in Static[r] : keys[id] # 0

Serving(r) == sync[r] \in {"live", "stopped"}

Expired_Late(entry) == entry.expires # NoTime /\ entry.expires < clock
Expired(entry) == entry.expires # NoTime /\ entry.expires <= clock

Barred_IgnoresRevocation(entry) == Expired(entry)
Barred(entry) == entry.revoked \/ Expired(entry)

(* VerifyAuthorization of a token "id.secret". *)
Accepts(r, id, secret) ==
  LET entry == stream[managed[r][id]] IN
  /\ Serving(r)
  /\ managed[r][id] # 0
  /\ ~ Barred(entry)
  /\ entry.digest = Digest(secret)

-----------------------------------------------------------------------------
(* The watch goroutine of replica r. *)

(* The process starts: WatchAll, then syncStarted and syncHealthy. *)
StartVerifierSync(r) ==
  /\ sync[r] = "down"
  /\ sync' = [sync EXCEPT ![r] = "loading"]
  /\ snapshot' = [snapshot EXCEPT ![r] = Len(stream)]
  /\ cursor' = [cursor EXCEPT ![r] = 0]
  /\ state' = [state EXCEPT ![r] = NoKeys]
  /\ healthy' = [healthy EXCEPT ![r] = FALSE]
  /\ UNCHANGED <<storeVars, managed, refresh>>

(* The process ends: on a crash, a restart of the pod, or a failure before *)
(* keyReady.  Its admin requests die with it; a write they had sent may    *)
(* have been stored (the unacknowledged outcome of KeyStore).              *)
Exit(r) ==
  /\ sync' = [sync EXCEPT ![r] = "down"]
  /\ snapshot' = [snapshot EXCEPT ![r] = 0]
  /\ cursor' = [cursor EXCEPT ![r] = 0]
  /\ state' = [state EXCEPT ![r] = NoKeys]
  /\ healthy' = [healthy EXCEPT ![r] = FALSE]
  /\ managed' = [managed EXCEPT ![r] = NoKeys]
  /\ call' = [a \in Admins |-> IF Host[a] = r THEN Idle ELSE call[a]]
  /\ refresh' = [a \in Admins |-> IF Host[a] = r THEN NoRefresh ELSE refresh[a]]
  /\ UNCHANGED <<stream, latest, clock>>

ReplicaCrash(r) == sync[r] # "down" /\ Exit(r)

(* apply(): the verifier takes the whole map, or refuses it and the        *)
(* replica reports itself unhealthy.                                       *)
Apply(r, keys) ==
  /\ healthy' = [healthy EXCEPT ![r] = ~ Collides(r, keys)]
  /\ managed' = [managed EXCEPT ![r] = IF Collides(r, keys) THEN @ ELSE keys]

(* The map after the entry of revision n: a delete marker or a record. *)
Updated_KeepsDeleted(keys, n) ==
  [keys EXCEPT ![stream[n].key] = IF stream[n].kind = "delete" THEN @ ELSE n]
Updated(keys, n) ==
  [keys EXCEPT ![stream[n].key] = IF stream[n].kind = "delete" THEN 0 ELSE n]

(* The initial batch: the last entry of each id up to the snapshot, in the *)
(* order of the revisions.                                                 *)
InitialBatch(r) ==
  {n \in 1 .. snapshot[r] :
     \A m \in (n + 1) .. snapshot[r] : stream[m].key # stream[n].key}
Undelivered(r) == {n \in InitialBatch(r) : n > cursor[r]}

DeliverSnapshot(r) ==
  /\ sync[r] = "loading"
  /\ \E n \in Undelivered(r) :
       /\ \A m \in Undelivered(r) : n <= m
       /\ \/ /\ stream[n].kind = "foreign"
             /\ Exit(r)
          \/ /\ stream[n].kind # "foreign"
             /\ cursor' = [cursor EXCEPT ![r] = n]
             /\ state' = [state EXCEPT ![r] = Updated(@, n)]
             /\ UNCHANGED <<storeVars, sync, snapshot, healthy, managed, refresh>>

(* The nil entry after the initial batch: the first apply decides whether  *)
(* the process starts to serve.                                            *)
Marker(r) ==
  /\ sync[r] = "loading"
  /\ Undelivered(r) = {}
  /\ \/ /\ Collides(r, state[r])
        /\ Exit(r)
     \/ /\ ~ Collides(r, state[r])
        /\ Apply(r, state[r])
        /\ sync' = [sync EXCEPT ![r] = "live"]
        /\ cursor' = [cursor EXCEPT ![r] = snapshot[r]]
        /\ UNCHANGED <<storeVars, snapshot, state, refresh>>

(* One update of the watch.  An entry that cannot be decoded is reported   *)
(* and skipped.                                                            *)
Deliver(r) ==
  LET n == cursor[r] + 1 IN
  /\ sync[r] = "live"
  /\ n <= Len(stream)
  /\ cursor' = [cursor EXCEPT ![r] = n]
  /\ IF stream[n].kind = "foreign"
     THEN healthy' = [healthy EXCEPT ![r] = FALSE] /\ UNCHANGED <<state, managed>>
     ELSE /\ state' = [state EXCEPT ![r] = Updated(@, n)]
          /\ Apply(r, Updated(state[r], n))
  /\ UNCHANGED <<storeVars, sync, snapshot, refresh>>

(* An error on the error channel of the watch: fatal before the snapshot,  *)
(* otherwise the goroutine goes on.                                        *)
WatchError(r) ==
  \/ sync[r] = "loading" /\ Exit(r)
  \/ /\ sync[r] = "live"
     /\ healthy' = [healthy EXCEPT ![r] = FALSE]
     /\ UNCHANGED <<storeVars, sync, snapshot, cursor, state, managed, refresh>>

(* The deferred Store of the goroutine. *)
HealthOnceStopped_Kept(r) == healthy[r]
HealthOnceStopped(r) == FALSE

(* The updates channel is closed, or the shutdown cancels the context: the *)
(* goroutine returns and nothing starts it again in this process.          *)
WatchClosed(r) ==
  \/ sync[r] = "loading" /\ Exit(r)
  \/ /\ sync[r] = "live"
     /\ sync' = [sync EXCEPT ![r] = "stopped"]
     /\ healthy' = [healthy EXCEPT ![r] = HealthOnceStopped(r)]
     /\ UNCHANGED <<storeVars, snapshot, cursor, state, managed, refresh>>

-----------------------------------------------------------------------------
(* The admin handlers of the replica that hosts request a. *)

(* createKey refuses an id of API_KEYS; the other handlers go straight to  *)
(* the Store.                                                              *)
CreateKey(a) ==
  /\ Serving(Host[a])
  /\ \E id \in KeyIds \ Static[Host[a]], expires \in Lifetimes : Create(a, id, expires)
  /\ UNCHANGED syncVars

RotateOrRevokeKey(a) == Serving(Host[a]) /\ Mutate(a) /\ UNCHANGED syncVars

(* kv.Keys *)
ListedKeys_ActiveOnly == {id \in KeyIds : Usable(id)}
ListedKeys == {id \in KeyIds : ~ Vacant(id)}

(* refreshVerifier: List asks for the ids that are not deleted ... *)
ListKeys(a) ==
  /\ call[a].phase = "stored"
  /\ ~ refresh[a].listing
  /\ refresh' = [refresh EXCEPT ![a] =
       [listing |-> TRUE, todo |-> ListedKeys, got |-> NoKeys]]
  /\ UNCHANGED <<storeVars, sync, snapshot, cursor, state, healthy, managed>>

(* ... and reads them one at a time, skipping those deleted meanwhile. *)
ListGet(a) ==
  /\ \E id \in refresh[a].todo :
       /\ Readable(id) \/ Vacant(id)
       /\ refresh' = [refresh EXCEPT ![a].todo = @ \ {id},
                        ![a].got[id] = IF Vacant(id) THEN 0 ELSE latest[id]]
  /\ UNCHANGED <<storeVars, sync, snapshot, cursor, state, healthy, managed>>

Answer(a) == Return(a) /\ refresh' = [refresh EXCEPT ![a] = NoRefresh]

(* The list is complete: ReplaceManaged, then the answer, with a warning   *)
(* when the map was refused.  The health of the watch is left alone.       *)
ReplaceManaged(a) ==
  /\ refresh[a].listing
  /\ refresh[a].todo = {}
  /\ managed' = [managed EXCEPT ![Host[a]] =
                   IF Collides(Host[a], refresh[a].got) THEN @ ELSE refresh[a].got]
  /\ Answer(a)
  /\ UNCHANGED <<sync, snapshot, cursor, state, healthy>>

(* The list fails, for one undecodable record or because of the bucket:    *)
(* the answer carries the warning and the verifier stays as it is.         *)
ListError(a) ==
  /\ Answer(a)
  /\ UNCHANGED <<sync, snapshot, cursor, state, healthy, managed>>

-----------------------------------------------------------------------------
WatchStep(r) ==
  \/ StartVerifierSync(r) \/ DeliverSnapshot(r) \/ Marker(r) \/ Deliver(r)

SyncNext ==
  \/ \E r \in Replicas :
       WatchStep(r) \/ ReplicaCrash(r) \/ WatchError(r) \/ WatchClosed(r)
  \/ \E a \in Admins :
       \/ CreateKey(a) \/ RotateOrRevokeKey(a)
       \/ ListKeys(a) \/ ListGet(a) \/ ReplaceManaged(a) \/ ListError(a)
  \/ (\E id \in KeyIds : HandEdit(id)) /\ UNCHANGED syncVars
  \/ Tick /\ UNCHANGED syncVars

SyncSpec == SyncInit /\ [][SyncNext]_vars

(* A process that runs keeps consuming its watch: the goroutine's select   *)
(* always returns to the updates channel, and Kubernetes starts a dead pod *)
(* again.                                                                  *)
FairSyncSpec == SyncSpec /\ \A r \in Replicas : WF_vars(WatchStep(r))

-----------------------------------------------------------------------------
(* Correctness. *)

(* A pod that serves no admin request: only the watch writes its verifier. *)
Passive == {r \in Replicas : \A a \in Admins : Host[a] # r}

(* The last entry of id up to revision n that the program can read. *)
LastReadable(id, n) ==
  {m \in 1 .. n : /\ stream[m].key = id /\ stream[m].kind # "foreign"
                  /\ \A l \in (m + 1) .. n :
                       stream[l].key = id => stream[l].kind = "foreign"}

(* Whatever crashes, restarts, edits and interleavings there were, the map *)
(* of a running watch is the bucket as of its cursor: the initial batch,   *)
(* which skips superseded entries, and the updates after it lose nothing   *)
(* and apply nothing twice.                                                *)
WatchStateMatchesBucket ==
  \A r \in Replicas, id \in KeyIds : sync[r] \in {"live", "stopped"} =>
    state[r][id] = IF \E m \in LastReadable(id, cursor[r]) : IsPut(m)
                   THEN CHOOSE m \in LastReadable(id, cursor[r]) : TRUE
                   ELSE 0

(* An id is never both in API_KEYS and in the managed map of a replica, so *)
(* that VerifyAuthorization never has two digests to choose from, also in  *)
(* a rollout in which another replica still creates managed keys under it. *)
NoAmbiguousId ==
  \A r \in Replicas : ~ \E id \in Static[r] : managed[r][id] # 0

(* The last secret stored for an id that the cursor of r has passed. *)
RevocationPropagated(r, id) ==
  \E n \in 1 .. cursor[r] :
    /\ stream[n].key = id /\ IsPut(n) /\ stream[n].revoked
    /\ \A m \in (n + 1) .. cursor[r] : stream[m].key # id

Rejected(r, id) == \A secret \in Revisions : ~ Accepts(r, id, secret)

(* docs/ADMIN_CONTROL_PLANE.md: a revoked managed token returns 401 once   *)
(* the update has propagated, that is, at a replica that reports its       *)
(* synchronization healthy and whose watch has delivered the revocation.   *)
PropagatedRevocationRejects ==
  \A r \in Replicas, id \in KeyIds :
    healthy[r] /\ RevocationPropagated(r, id) => Rejected(r, id)

(* The same for the replicas that serve no admin request, where the watch  *)
(* is the only writer: there it holds.                                     *)
PassiveRevocationRejects ==
  \A r \in Passive, id \in KeyIds :
    healthy[r] /\ RevocationPropagated(r, id) => Rejected(r, id)

(* A List that started after a mutation was stored reads that mutation or  *)
(* something newer under its id, so that the refresh of the handler never  *)
(* loses the handler's own write.                                          *)
RefreshReadsOwnWrite ==
  \A a \in Admins : refresh[a].listing =>
    LET id == call[a].id IN
    \/ id \in refresh[a].todo
    \/ refresh[a].got[id] >= call[a].rev
    \/ \E n \in Revisions : /\ n > call[a].rev /\ stream[n].key = id
                            /\ stream[n].kind = "delete"

(* Staleness never outlives the expiry: when the current record of a key   *)
(* that was never deleted has expired, no replica accepts any secret of    *)
(* it, however old its map is, since a rotation keeps the expiry.          *)
ExpiredKeysAreRejectedEverywhere ==
  \A id \in KeyIds :
    /\ Readable(id)
    /\ stream[latest[id]].expires # NoTime
    /\ stream[latest[id]].expires <= clock
    /\ \A n \in Revisions : stream[n].key = id => IsPut(n)
    => \A r \in Replicas : Rejected(r, id)

(* docs/ADMIN_CONTROL_PLANE.md: readiness degrades rather than silently    *)
(* claiming the authorization state is current.  A healthy replica holds   *)
(* no key whose last entry, as of its cursor, is not the one it holds.     *)
HealthyMeansCurrent ==
  \A r \in Passive, id \in KeyIds : healthy[r] /\ managed[r][id] # 0 =>
    \A n \in (managed[r][id] + 1) .. cursor[r] : stream[n].key # id

(* The secret that entry n revoked is of no use at replica r. *)
RejectsSecretOf(r, n) ==
  \A secret \in Revisions :
    n \in Revisions /\ stream[n].digest = Digest(secret)
    => ~ Accepts(r, stream[n].key, secret)

IsRevocation(n) == n \in Revisions /\ IsPut(n) /\ stream[n].revoked

(* A revocation reaches every replica that only watches: from some moment  *)
(* on it rejects the secret for good, or it does not report itself ready.  *)
RevocationReachesReadyReplicas ==
  \A r \in Passive, n \in 1 .. MaxRevision :
    IsRevocation(n) ~> [](healthy[r] => RejectsSecretOf(r, n))
=============================================================================

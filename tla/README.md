# Verification of geotagger

TLA+ models of geotagger's control plane and data paths, the TLC runs that check
them on small instances, and the theorems about them that TLAPS proves for every
instance. `PROJECT.json` lists the components, the runs, the source lines that
each definition stands for, the hazards and the findings.

## 1. The system

geotagger answers "where is this IP address?". Two to eight API pods hold the
MaxMind City and ASN databases in memory, authenticate each request with a bearer
token, look the address up and publish an audit event to NATS JetStream *before*
they answer. A worker moves the events to ClickHouse. A CronJob (and, at each
deployment, a bootstrap Job) brings new databases. Administrators create, rotate
and revoke tokens through the admin listener of any pod.

| Component | State it keeps | Operations | Talks to |
|---|---|---|---|
| `keystore.Store` | JetStream KV bucket: one record per key id, with revisions | `Create`, `Rotate`, `Revoke`, `List`, `StartVerifierSync` | bucket (CAS on revisions, watch), verifier |
| `auth.Verifier` | static and managed maps under an RWMutex | `ReplaceManaged`, `VerifyAuthorization` | called by handlers, watch and admin refresh |
| `adminhttp.Server` | none of its own | create, rotate, revoke, each followed by `refreshVerifier` | store, verifier |
| `natsaudit` | the connection; the stream `WorkQueue`/`DiscardNew` | provisioning, `Publish` | JetStream |
| `worker` | a bounded channel and a batch | subscription callback, `Run`, `flush` | JetStream, ClickHouse |
| `mmdb-updater` | release directories, the symlink `current` | stage, publish, activate, prune | file system shared with the pods |
| `maxmindgeo` | two readers and their stamps under an RWMutex | `Watch`, `snapshot`, `reload`, `Lookup` | file system |
| `httpapi.Server` | metrics | four handlers: authenticate, parse, look up, audit, answer | verifier, readers, publisher |
| `accessauth.Verifier` | cached JWKS with its lifetime | `Verify`, `refresh` | Cloudflare |
| `cmd/geotagger` | process lifecycle, listeners, readiness | start, serve, shutdown | all of the above |

What is hard about it:

* *Two round trips per mutation.* Rotation and revocation read a record, change it
  and write it back with the revision they read; replies get lost.
* *Two writers of one map.* The managed map of a pod is replaced by the watch
  goroutine and by the refresh that follows each admin mutation.
* *At-least-once delivery.* Confirmations, acknowledgements and inserts fail or are
  lost, the acknowledgement timer races the worker, the worker is killed anywhere,
  the channel and the stream fill up.
* *A cache that every handler refills.* Admin handlers that miss a signing key fetch
  the key set on their own and overwrite each other's, new or old, while Cloudflare
  rotates the keys.
* *Pods that start at once, and end under load.* Each finds or creates the stream and
  the bucket; each must let its handlers finish before it closes what they use, but
  not wait for them for ever.
* *A directory shared by processes that do not lock.* Updaters rename, relink and
  delete while pods resolve, open and map the same files.

What makes each component correct: a revoked key is revoked for good and a
rotated-out secret stays out; a replica's verifier follows the bucket, or the
replica is not ready; no result without an audit event that survives until it is a
row; no answer from two database generations, no use of a closed reader, a complete
active generation; no admission by a key withdrawn long ago, and no refusal of a good
token without a cause; every pod serves on a safe stream or refuses to, and comes up
again after whatever ended it.

## 2. Modules

| Module | Models | Actions and the code behind them |
|---|---|---|
| `KeyLifecycle` | the abstract promise about one credential | atomic create, rotate, revoke |
| `KeyStore` | the bucket and the mutations of `keystore.Store` | `Create`; `RotateGet`/`RotateUpdate`; `RevokeGet`/`RevokeUpdate`; `Abort` (refused or failed update); `Return`; `HandEdit`, `Tick` |
| `KeyStoreProofs` | TLAPS proofs about `KeyStore` and its refinement of `KeyLifecycle` | |
| `VerifierSync` | `KeyStore` + the verifier of each pod | watch goroutine: `StartVerifierSync`, `DeliverSnapshot`, `Marker`, `Deliver`, `WatchError`, `WatchClosed`; admin refresh: `ListKeys`, `ListGet`, `ReplaceManaged`, `ListError`; `ReplicaCrash` |
| `VerifierSyncProofs` | TLAPS proofs about `VerifierSync`; it rests on `KeyStoreProofs` | |
| `AuditDelivery` | the abstract promise of the audit path | record, answer, persist |
| `AuditPipeline` | publisher, stream, worker, ClickHouse | `Publish`, `AnswerOk`, `AnswerUnavailable`, `StoreEvent`, `DiscardNew`, `Deliver`, `DeliverToFullChan`, `AckWaitExpires`, and the steps of `Run` |
| `AuditPipelineProofs` | TLAPS proofs about `AuditPipeline` and its refinement of `AuditDelivery` | |
| `MmdbBundle` | `updateBundle`, `pruneReleases` | `Begin`, `Download`, `Name`, `Publish`, `Activate`, `ListReleases`, `RemoveFile`, `Complete`, failures and kills |
| `MmdbReload` | `MmdbBundle` + one pod's `maxmindgeo` | `StampFile`, `SnapshotRetry`, `OpenFile`, `OpenError`, `Swap`, `CloseOld`; `RLock`, `ReadNext`, `RUnlock` |
| `MmdbReloadProofs` | TLAPS proofs about `MmdbBundle` and `MmdbReload` | |
| `LookupServer` | the four request handlers and their metrics | `Arrive`, `Enter`, `Authenticate`, `Parse`, `LookupFails`, `LookupReturns`, `PublishAudit`, `Respond`, `Leave`, `ObserveRequest`; `Reload` of the databases |
| `LookupServerProofs` | TLAPS proofs about `LookupServer` | |
| `AccessKeys` | `accessauth.Verifier` under concurrent admin requests | `Arrive` (`requireAccess`, the claims); `ReadCache`, `Serve`, `Apply`, `FetchError`, `Reread` (`key`, `refresh`); Cloudflare's `Rotate` |
| `AccessKeysProofs` | TLAPS proofs about `AccessKeys` | |
| `StreamProvision` | `ensureAuditStream` and `keystore.Open` of several pods | `StreamInfo`, `StreamNotFound`, `AddStream`, `UpdateStream`; `OpenBucket`, `CreateBucket`, `BucketStatus`; `CallFails`, `HandEdit` |
| `ApiProcess` | `StreamProvision` + `main` of `cmd/geotagger` | `Serve`, `Signal`, `ListenerFails`, `Expire`, `ApiShutdown`, `AdminShutdown`, `Close`, `Exit`, `Kill`; handlers: `Accept`, `Use`, `Leave` |
| `ApiProcessProofs` | TLAPS proofs about `ApiProcess` and `StreamProvision` | |
| `MC*` | constants of the instances | |

### Keys

The bucket is the sequence `stream` of the entries ever stored and an entry's
revision is its position; `latest` is the last revision of each id. A record keeps
what the verifier looks at: digest, expiry, revoked or not. A secret is named by
the revision that first stored its digest, which models "32 random bytes are new";
SHA-256 is an injection. The bucket keeps only part of that history, and the
operators that model the program read only what it keeps (`latest`, the watch
after its snapshot); the properties speak of the whole of it.
A *put* with a lost reply stores the entry and answers with an error. A
creation may be stored any time after the handler compared its expiry with the
clock, so that a key can be created already expired (`ValidExpiry`). A
hand edit is a delete or an entry that `decodeEntry` refuses; edits that forge a
valid record are not modelled.

A managed map holds, for each id, the revision of the record it was built from.
Each watch has a `cursor`; a new watch replays the last entry of each id up to a
snapshot, then a marker, then every later entry, which is what
`nats.KeyValue.WatchAll` delivers. Before the marker any error ends the process (it
has not begun to serve); after it errors only lower `healthy`. `WatchClosed` is the
closed channel *and* a cancelled context: the goroutine ends, the process goes on.
`refreshVerifier` lists the ids and then gets the keys one by one in any order.

### Audit

One event per request. `published` and `confirmed` are messages on the wire; a
handler waits for its confirmation, gives up at any time and never retries. The
stream keeps an event until it is acknowledged and refuses new ones when full.
`pending` are the deliveries waiting for an answer; `AckWaitExpires` on a message
that the worker still holds counts as a fault (a slow flush), on any other message
not. `rows` counts the rows in ClickHouse up to "more than one". A flush is an
insert followed by one acknowledgement or rejection at a time, and with a cancelled
context it goes straight to the rejections. A failed insert may have stored any
part of the batch.

### Databases

A release name is a number: its place in the order of `sort.StringSlice`. A job reads
the clock for its name (`Name`) before it renames its staging directory (`Publish`), and
another job may publish a later name in between. With `ClockStepsBack = FALSE` a new name
is later than all that were given before; with `TRUE` it is any other one. The
steps of an updater are those that another process can see; the temporary symlink
and its rename are one step. `RemoveFile` deletes one file, so that a pod can meet
half-deleted releases. In the pod, `EvalSymlinks` and the `stat` that follows it are
one step (a file deleted between them gives the same error as one deleted before).
A lookup ends after both databases or, when a record does not decode, before (`RUnlock`).
The write lock keeps new lookups out while it waits, as `sync.RWMutex` does; the
critical section of `reload` is one step.

### Requests

A handler is the sequence of the steps that others can see: the two counters at
its start, the verification of the token, the parsing of the target, the lookup
with its counters, the publication of the event, the answer, the two deferred
counters. `target` is what is wrong with the address, if anything; `event.required`
tells `publishAudit`, whose failure turns the answer into 503, from
`publishFailureAudit`, whose failure is ignored. `looked` is not in the code: it
remembers the generation that a lookup read, to compare it with the event.
Whether the token is accepted, what the lookup finds and what becomes of the event
are free choices here; the other modules say more about each. An unknown path is
answered by the router without an event and is not modelled.

### Access keys

A token is the key id it names, its signer, its times, whether its signature can be
decoded, and whether everything else about it (form, issuer, audience, email) is in
order. The cache is a set of keys with its `keysUntil`. A fetch is three steps: it is
sent, the response is made from what is published then (`document`), and it is
applied or fails. `attempt` tells the three ways to a fetch apart: the cache has no
valid key (1), that failed (2), the signature does not fit (3). After `Apply` the
handler looks at the cache again in a step of its own, since `refresh` has let go of
the lock. Between the steps of a handler that do no I/O the clock stands still; a
fetch ends by its deadline, as `http.Client.Timeout` makes sure. `withdrawn`,
`steady`, `overtaken` and `fetches` exist for the properties. The instances are of a
configured control plane: without configuration every request is answered with 503.

### Processes

The settings of the stream are its storage, its retention and, as one value, the
settings that `ensureAuditStream` may repair in place: each of them differs in the stream
that `integration/audit_pipeline_test.go:180-205` prepares, and all are repaired by one
`UpdateStream`, so that a refusal of a single one is not modelled. A bucket
is on disk or `"unfit"`, which stands for every storage and history that `Open` refuses. `read` is what a pod is about to
write back. A call has its effect and loses its reply (`Replied`), or fails without
effect (`CallFails`), in which the timeout of the first snapshot is included; each
such failure before `serving` is an `os.Exit`, and Kubernetes starts the pod again.
`AddStream` and `CreateKeyValue` on something that has come up in between may fail
or not. What the snapshot holds, and that an error in it ends the process, is
`VerifierSync`.

A handler is here the sequence of the resources it uses: a lookup the readers and
then the publisher, an admin request the store. `listening` is what accepts
connections; `http.Server.Shutdown` closes its listener at once and waits for its
handlers or for `expired`. Until it returns, a request can still come in on a connection
that is open (`Reachable`). The deferred calls close one resource each, the last
opened first, and the end of `main` ends all handlers.

## 3. Runs

| Run | Question | Bounds and why they are enough |
|---|---|---|
| `keystore` | Are revocation and rotation final, is no update lost, and is the whole an atomic lifecycle? | 2 ids, 2 requests, one expiry, 4 entries: create, two racing mutations and one after them, or a delete and a re-creation |
| `sync_watch` | Does a watch follow the bucket through restarts, errors, edits and a rollout? | 2 replicas, one of them without admin requests, 2 ids of which one is static on one replica, 3 entries with edits; no clock tick, which `sync_admin` has |
| `sync_admin` | What do two refreshes and a watch on one replica guarantee? | 2 requests on one replica, 2 ids, 3 entries, one clock tick; symmetry of ids and of requests |
| `sync_liveness` | Does a revocation reach every ready replica? | 1 id, 3 entries, 2 replicas |
| `stale_refresh` | "A revoked managed token returns 401 once the update has propagated" | violated: see 5 |
| `skipped_entry` | "readiness degrades rather than silently claiming the authorization state is current" | violated: see 5 |
| `audit_delivery` | Is an answered event kept, is only a written one acknowledged, do duplicates need faults, does the pipeline implement `AuditDelivery`, does it drain? | 3 events, stream for 2, channel 1, batch 2, 2 pending, 1 fault: stream, channel, batch and pending deliveries all fill up, and the fault can be at any point; `AuditPipelineProofs` covers more faults |
| `mmdb_reload` | Reloads and lookups beside two updaters | 3 releases, 2 retained, 2 jobs, 1 pod with a handler, 2 snapshot attempts, 1 fault: a release can be pruned before, while and after it is opened, and two jobs can publish and activate against the order of their names |
| `lookup` | Is every answered result in the stream with its status and generation, and do the metrics add up? | 2 requests with any route and target, 2 generations; requests share only metrics and databases |
| `access_keys` | On which keys do admissions rest, and when is a good token refused? | 2 handlers that are used again and again, 3 keys of which 2 share an id, 2 rotations, lifetime 2 and fetch 1 of 3 ticks, a max-age over the limit, tokens that are forged, expired, garbled or name another key than their signer: two fetches overtake each other in both orders, across a rotation and an expiry |
| `api_process` | Does provisioning survive its races, and the shutdown its handlers? | 2 pods from any state of stream and bucket, 1 edit, 1 fault, a request on each listener again and again |
| `mmdb_clock` | "readers see old complete generation OR new complete generation" | violated: see 5; 3 retained as in the code, 1 job, no other fault |

Constants of the code that the instances shrink: `4 * BatchSize` and
`8 * BatchSize` (channel, pending), four snapshot attempts, three retained
releases. The properties compare these bounds only with each other's being
reached, and the instances reach them.

`TypeOK` and its like are one invariant per module. Every property of a passing run
has a mutant in `PROJECT.json`: a change of one definition, of the kind a plausible
bug would make, under which the property fails.

Deadlock is checked except in `keystore`, where the bound on entries ends a run
(after deletes nothing is left to rotate), in `audit_delivery`, where a finite number
of requests ends in a stream that is drained and a worker that waits, and in
`lookup`, where it ends when all requests are done.

### Fairness

* `FairSyncSpec`: weak fairness of each replica's watch. The goroutine's `select`
  returns to its updates channel, and Kubernetes starts a dead pod again. Nothing is
  assumed of administrators, of errors or of the clock.
* `FairSpec` of `AuditPipeline`: `Run` goes on, a cancelled context is seen in the
  end although Go's `select` may prefer other ready branches (strong fairness),
  JetStream delivers what can be delivered and its timer fires, the Deployment
  restarts the worker. Faults are finite in number.
* `FairSpec` of `ApiProcess`: `main` of each pod goes on, the deadline of its
  shutdown passes, and Kubernetes starts it again. Nothing is assumed of handlers,
  which may hang, of signals, which may come for ever, or of the operator.
* `FairSpec` of `MmdbReload`: the Watch goroutine and a lookup that holds the read
  lock go on. Lookups may arrive for ever; the priority of a waiting writer is what
  lets the swap happen. Nothing is assumed of the updaters.

## 4. Proofs

Every safety invariant and every action property that a passing run checks, and the
three refinements, are theorems: TLC shows them on the instance of the run, TLAPS for
all values of the constants that satisfy the named assumption of each module, which
TLC evaluates. Each proof module finds an inductive invariant, shows that the initial
states have it and that every step keeps it, and derives the properties from it. TLC
has checked the invariants of `KeyStore`, `VerifierSync`, `MmdbReload`,
`LookupServer` and `AccessKeys` on the instances of the runs before they were proved.

| Proof module | Inductive invariant | Theorems |
|---|---|---|
| `KeyStoreProofs` | `KeyStoreInv` | `TypeCorrect`, `RevocationFinality`, `RotationFinality`, `NoLostUpdate`, `StoreImplementsLifecycle` |
| `VerifierSyncProofs` | `SyncInv` | `SyncTypeCorrect`, `WatchFollowsBucket`, `IdsStayUnambiguous`, `PassiveReplicasReject`, `RefreshesReadOwnWrites`, `ExpiryBindsStaleReplicas`, `ReplicasImplementLifecycle` |
| `AuditPipelineProofs` | `AuditInv` | `AuditTypeCorrect`, `AnswersAreKept`, `AcksAreWritten`, `DuplicatesNeedFaults`, `PipelineDelivers` |
| `MmdbReloadProofs` | `ReloadInv`, `SoleInv` | `TypeCorrect`, `ActiveGenerationIsComplete`, `DiskStaysBounded`, `OneUpdaterKeepsCurrentComplete`, `AnswersDoNotMix`, `LookupsUseNoClosedReader`, `NoReaderLeaks` |
| `LookupServerProofs` | `LookupInv`, `MetricsInv` | `TypeCorrect`, `AnsweredMeansAudited`, `EventsNameTheirGeneration`, `RefusedTargetsStayOut`, `MetricsFitTogether` |
| `AccessKeysProofs` | `AccessInv`, `CauseInv` | `AccessTypeCorrect`, `AdmissionsStayCurrent`, `RefusalsAreForCause` |
| `ApiProcessProofs` | `ApiInv`, `RaceInv` | `ApiTypeCorrect`, `VouchedStreamsAreSafe`, `ShutdownSparesHandlers`, `LosersBind` |

### Key store

`RevocationIsFinal`, `RotatedSecretStaysOut` and `SuccessReplacesWhatItRead` speak
about pairs and triples of entries and are not inductive: that an update does not
revive a key depends on what the request read and on nobody having written since.
`KeyStoreInv` adds that `latest` is the last entry of each id (`LatestOK`), that a
request between its Get and its Update holds a record that was usable when stored
(`ReadOK`) and that a digest is no newer than the entry that holds it
(`DigestsOK`, which makes a new digest differ from all old ones). The argument:
the CAS holds only if the entry read is still the last one; it is not revoked; so
no revoked entry of that id lies before the new one without a delete in between.
The lemma `WriteStep` carries it for any entry appended under its three side
conditions; `CallStep` covers the steps that write nothing.

For the refinement of `KeyLifecycle` a store of one entry is shown to change the
abstract state of one key (`StoreChangesOneKey`), to a state that depends on the entry
alone (`StoredKeyState`). A creation or rotation brings a digest that no key has ever
had (`NewDigestIsUnused`), and the record that an update replaces is the one that was
read, hence active (`ReadRecordIsActive`); so each update is one atomic rotation or
revocation, and every other step changes no key.

### Verifiers

`SyncInv` rests on the bucket being a log that only grows: what a replica knows of it
up to its cursor stays true, whatever is stored behind it (`LogsGrow`). `ReplicaOK`
says that before the marker the map of a watch holds what the cursor has passed of the
initial batch (`Loaded`), that afterwards it holds exactly what is readable up to the
cursor (`Matches`), and that the verifier of a healthy passive replica holds what its
watch holds. `RequestOK` says that a `List` that has passed the id of its request has
read the request's own write, a later one, or the id has been deleted since. The log
itself keeps expiries (`ExpiryIsKept`): rotation and revocation store the expiry of the
record they replace, so that a stale map knows the same expiry as a current one.
`PassiveReplicasReject` combines the map with `RevocationIsFinal` of the store. For
`ReplicasImplementLifecycle` every step of the composition is a step of the store or
leaves it alone (`SyncStepIsStoreStep`).

### Audit

That an answered event is kept rests on what others hold: `AuditInv`
says that what is confirmed, or in the worker's channel or batch, has reached the
stream or ClickHouse (`HandsOK`), so that neither an answer nor an acknowledgement can
be for an event that is nowhere. `FreshOK` says that a publish message has left no
trace yet, since a handler sends it once. For the duplicates `CleanOK` says that before
the first fault each pending message is in the worker once, and that what is in the
stream *and* in ClickHouse is what the worker is acknowledging. For the refinement
each step is shown to record one event, to answer one request, to persist a part of the
journal, or to change none of the three (`StepImplements`).

### Databases

`BundleInv` is about the updaters. A release is *overtaken* when `Retained` ones
of a later name have been published. A chosen name is the job's own and not on the disk yet
(`NamedJobs`). Only overtaken releases are doomed (`DoomedOK`) or lack files
(`FilesOK`), and a release stays overtaken, however old the list is that a job prunes
from. The bound on the disk is the hard one: a job that ends must have
removed all but `Retained` of the directories it saw, but others may have published
since, and two jobs may hold the same release as doomed. `DiskOK` therefore quantifies
over the sets `Q` of pruning jobs: the directories that no job of `Q` has doomed, with
the leftovers, are no more than `Retained`, the publishers outside `Q`, and the faults.
With `Q` empty it is the property; when a job ends, what was true of `Q` with that job
is true of `Q` without it. `FewNewest` counts what `Beyond` leaves.

`ReaderInv` is about the pod: what is open at each place of the Watch goroutine
(`OpenOK`), that what it opens is one generation (`StampOK`), that what is in service is
one (`OneGeneration`), and that what a lookup has read is still in service
(`LookupOK`), since the swap waits for the read lock.

`OneUpdaterKeepsCurrentComplete` says when the promise that `mmdb_clock` refutes does
hold: one updater at a time and a clock that does not step back, with any crashes. Then
the name of a release is later than those of all published before, the job that reads the list has
just put the last one into service, and nobody else can publish before it is done
(`SoleInv`). `updateBundle` ensures neither condition by itself: the CronJob forbids a
second run of its own, but not the bootstrap Job.

### Requests

What an answer means is settled several steps earlier, when its event is made.
`LookupInv` says for each point of a handler what is known there: the
target is unread before authentication and permitted at the lookup; an event is
`Truthful` about its target and its lookup from the moment it is made; from the
publication on the stream holds exactly that event or nothing, and nothing only if
unconfirmed; the status written is `Status` of all that. `MetricsInv` says that each
counter is the cardinality of the requests that satisfy a predicate on their own
progress (`Counts`); `CountStep` turns the step of one handler, whose others count as
before, into the change of the counters. `MetricsAgree` is then about unions of
disjoint sets of requests. That lookups and refused tokens are counted for different
requests needs `LookupInv`: the event of a refusal has an unread target, and only a
permitted one is looked up.

### Processes

`ReadOK` says that what a pod is
about to write back is compatible with what it wants, and the lemma `ReconciledIsSafe`
that its repair is then the wanted stream: a late `UpdateStream` cannot undo that of
another pod. `OpenOK` and `HandlersOK` say what is open and which handlers are left at
each stage of the shutdown. For `LosersBind`, `RaceInv` says that a pod that is to look
again, or to update, without a fault of its own finds something there: nobody but an
operator removes the stream or the bucket.

### Access keys

`AccessInv`
dates what is in the cache by `keysUntil` (a cached key was published no longer ago than
a lifetime and a fetch before it, `CacheOK`) and what is on its way to it by the
deadline of its fetch (`ProgressOK`), whichever of two overlapping fetches ends last;
`TokenOK` bounds by the handler's own fetches how much time has passed since its token
was found in order. For the refusals `CauseInv` says that a signer that stays published
is in every response made for the request, and in the cache after it until another
handler replaces that; by `TheNamedKeyFits` it is the only cached key of its id. An
earlier form of `RefusedOnlyForCause` did not ask that the token names its signer: it
held on an instance whose tokens all did, and is false for one that names another
published key. The instance has such a token now.

### What is not proved

Liveness stays with TLC, since fairness and `ENABLED` are out of the prover's reach:
`RevocationReachesReadyReplicas`, `EventuallyPersisted`, `StreamDrains`,
`ActiveGenerationIsServed`, `PodsComeUp`. The three properties of the runs that expect a
violation are false. No definition is recursive, so no induction over data is needed;
the two minima that the proofs take over sets of numbers (`FirstOf`, `LastOf`) come from
the library's `WFMin`.

## 5. Findings

* **A refresh can undo a delivered revocation** (`stale_refresh`).
  `adminhttp.refreshVerifier` installs the list it read, whatever the watch has
  applied meanwhile. Request 1 lists the key, the key is revoked, the watch
  delivers the revocation, request 1 replaces the map: the token is accepted
  again until the next bucket change, by a replica that is healthy.
  `docs/ADMIN_CONTROL_PLANE.md:217` says otherwise. Replicas without admin
  requests have the property (`PassiveRevocationRejects`).
* **A skipped entry is forgotten** (`skipped_entry`). After an undecodable
  entry `syncHealthy` is false only until the next entry of any key.
  `docs/ADMIN_CONTROL_PLANE.md:171` says otherwise.
* **Pruning ignores `current`** (`mmdb_clock`). With three retained releases from
  a clock that was ahead, a job deletes the release it has just activated.
  `docs/ARCHITECTURE.md:271-275` and `README.md:197` say otherwise. What holds in
  general is `RecentCurrentIsComplete`; `OneUpdaterKeepsCurrentComplete` proves the
  promise for a single updater with a clock that never steps back.

## 6. Not modelled

* Latency histograms and the scrape that reads them, probes, the router.
* The connection state in `Healthy`: the models' `healthy` is the watch's half.
* `updateSingle` (legacy), fsync and machine crashes: a kill loses no written file.
* Deletion of the durable consumer by `Unsubscribe` in `worker.Close`: the consumer
  is taken to survive.
* The deadlines of connections (`WriteTimeout`), which may cut off an answer whose
  mutation is stored; settings of the stream that `ensureAuditStream` does not manage,
  which `UpdateStream` writes back as it read them.
* The requests that `http.Server` itself drops (on a connection that it takes for idle
  when `Shutdown` begins).
* Static credentials, beyond the ids they reserve: `Accepts` is about managed tokens.
* Configuration, key generator, admin UI, result formatting: pure or stateless.

## 7. Plan

1. The scrape of the histograms, whose buckets, count and sum are read one by one.
2. The legacy single-edition mode of the updater (`updateSingle`).
3. Abstract specifications of the lookups (one generation per answer, one event per
   answer) and their refinement by `MmdbReload` and `LookupServer`, with proofs.

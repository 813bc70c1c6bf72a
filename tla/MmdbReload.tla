----------------------------- MODULE MmdbReload -----------------------------
(***************************************************************************)
(* internal/maxmindgeo beside the updater: the Watch goroutine of one API  *)
(* pod takes a snapshot of the two configured paths, opens what changed,   *)
(* swaps the readers under the write lock and closes the old ones, while   *)
(* handlers look up addresses under the read lock.  Opening the databases  *)
(* when the pod starts is the same path, with no reader to replace; a pod  *)
(* that cannot is restarted and tries again.                               *)
(***************************************************************************)
EXTENDS MmdbBundle, Sequences

CONSTANTS
  EditionOrder,  \* the order of snapshot, reload and Lookup: City, ASN
  Handlers,      \* goroutines that call Lookup
  MaxAttempts    \* attempts of snapshot, 4 in the code

ASSUME MmdbReloadAssumption ==
  /\ EditionOrder \in Seq(Editions)
  /\ \A ed \in Editions : \E i \in DOMAIN EditionOrder : EditionOrder[i] = ed
  /\ Len(EditionOrder) = Cardinality(Editions)
  /\ MaxAttempts \in Nat \ {0}

VARIABLES
  serving,  \* cityReader and asnReader: the release each is a map of
  open,     \* the open memory maps, <<edition, release>>
  watch,    \* where the Watch goroutine is
  attempt,  \* attempt of snapshot
  stamp,    \* the releases that snapshot has resolved the paths to
  inside,   \* the handlers in Lookup, which hold the read lock
  seen      \* the releases that each of these has read so far

readerVars == <<serving, open, watch, attempt, stamp>>
lookupVars == <<inside, seen>>
vars == <<bundleVars, readerVars, lookupVars>>

N == Len(EditionOrder)

TypeOK ==
  /\ BundleTypeOK
  /\ serving \in [Editions -> Releases \cup {NoRelease}]
  /\ open \subseteq Editions \X Releases
  /\ watch \in {"waiting", "snapshot", "opening", "locking", "closing"}
  /\ attempt \in 1 .. MaxAttempts
  /\ stamp \in UNION {[1 .. k -> Releases] : k \in 0 .. N}
  /\ inside \subseteq Handlers
  /\ seen \in [Handlers -> UNION {[1 .. k -> Releases] : k \in 0 .. N}]

Init ==
  /\ BundleInit
  /\ serving = [ed \in Editions |-> NoRelease]
  /\ open = {}
  /\ watch = "waiting" /\ attempt = 1 /\ stamp = <<>>
  /\ inside = {}
  /\ seen = [h \in Handlers |-> <<>>]

Loaded == \A ed \in Editions : serving[ed] # NoRelease
StampOf(ed) == stamp[CHOOSE i \in DOMAIN stamp : EditionOrder[i] = ed]
Changed_FirstTimeOnly == {ed \in Editions : serving[ed] = NoRelease}
Changed == {ed \in Editions : StampOf(ed) # serving[ed]}
Fresh == {<<ed, StampOf(ed)>> : ed \in Changed}

-----------------------------------------------------------------------------
(* The Watch goroutine. *)

GoTo(place) == watch' = place /\ stamp' = <<>> /\ attempt' = 1

(* The ticker, or the start of the process. *)
Tick ==
  /\ watch = "waiting"
  /\ GoTo("snapshot")
  /\ UNCHANGED <<bundleVars, serving, open, lookupVars>>

(* stampFile: the path through `current` is resolved and the file is       *)
(* looked at.                                                              *)
Present == current # NoRelease /\ EditionOrder[Len(stamp) + 1] \in files[current]

StampFile ==
  /\ watch = "snapshot"
  /\ Len(stamp) < N
  /\ Present
  /\ stamp' = Append(stamp, current)
  /\ UNCHANGED <<bundleVars, serving, open, watch, attempt, lookupVars>>

StampError ==
  /\ watch = "snapshot"
  /\ Len(stamp) < N
  /\ ~ Present
  /\ GoTo("waiting")
  /\ UNCHANGED <<bundleVars, serving, open, lookupVars>>

(* Both files must be in one directory; otherwise the symlink has moved    *)
(* between the two and snapshot tries again, a few times.                  *)
Coherent_Always == TRUE
Coherent == \A i, k \in DOMAIN stamp : stamp[i] = stamp[k]

SnapshotDone ==
  /\ watch = "snapshot"
  /\ Len(stamp) = N
  /\ Coherent
  /\ watch' = IF Changed = {} THEN "waiting" ELSE "opening"
  /\ stamp' = IF Changed = {} THEN <<>> ELSE stamp
  /\ attempt' = 1
  /\ UNCHANGED <<bundleVars, serving, open, lookupVars>>

MayRetry_Endless == TRUE
MayRetry == attempt < MaxAttempts

SnapshotRetry ==
  /\ watch = "snapshot"
  /\ Len(stamp) = N
  /\ ~ Coherent
  /\ stamp' = <<>>
  /\ IF MayRetry
       THEN attempt' = attempt + 1 /\ UNCHANGED watch
       ELSE attempt' = 1 /\ watch' = "waiting"
  /\ UNCHANGED <<bundleVars, serving, open, lookupVars>>

(* openVerified of the next changed edition, at the resolved path. *)
ToOpen(ed) ==
  /\ ed \in Changed /\ <<ed, StampOf(ed)>> \notin open
  /\ \A k \in 1 .. N : EditionOrder[k] = ed =>
       \A i \in 1 .. k - 1 :
         EditionOrder[i] \in Changed => <<EditionOrder[i], StampOf(EditionOrder[i])>> \in open

OpenFile(ed) ==
  /\ watch = "opening"
  /\ ToOpen(ed)
  /\ ed \in files[StampOf(ed)]
  /\ open' = open \cup {<<ed, StampOf(ed)>>}
  /\ watch' = IF Fresh \subseteq open' THEN "locking" ELSE "opening"
  /\ UNCHANGED <<bundleVars, serving, attempt, stamp, lookupVars>>

(* The file was pruned since the snapshot: a reader that was opened before *)
(* it is closed, the old pair stays.                                       *)
AfterOpenError_Leaks == open
AfterOpenError == open \ Fresh

OpenError(ed) ==
  /\ watch = "opening"
  /\ ToOpen(ed)
  /\ ed \notin files[StampOf(ed)]
  /\ open' = AfterOpenError
  /\ GoTo("waiting")
  /\ UNCHANGED <<bundleVars, serving, lookupVars>>

(* The write lock is granted when no lookup holds the read lock. *)
LockFree_Always == TRUE
LockFree == inside = {}

Swap ==
  /\ watch = "locking"
  /\ LockFree
  /\ serving' = [ed \in Editions |-> StampOf(ed)]
  /\ watch' = "closing"
  /\ UNCHANGED <<bundleVars, open, attempt, stamp, lookupVars>>

(* The replaced readers are closed one by one after the unlock. *)
CloseOld ==
  /\ watch = "closing"
  /\ \E old \in open \ {<<ed, serving[ed]>> : ed \in Editions} : open' = open \ {old}
  /\ UNCHANGED <<bundleVars, serving, watch, attempt, stamp, lookupVars>>

ReloadDone ==
  /\ watch = "closing"
  /\ open = {<<ed, serving[ed]>> : ed \in Editions}
  /\ GoTo("waiting")
  /\ UNCHANGED <<bundleVars, serving, open, lookupVars>>

WatchStep ==
  \/ Tick \/ StampFile \/ StampError \/ SnapshotDone \/ SnapshotRetry
  \/ \E ed \in Editions : OpenFile(ed) \/ OpenError(ed)
  \/ Swap \/ CloseOld \/ ReloadDone

-----------------------------------------------------------------------------
(* Lookup: RLock, City, ASN, RUnlock.  A waiting writer keeps new readers  *)
(* out, as sync.RWMutex does.                                              *)

RLock(h) ==
  /\ h \notin inside
  /\ Loaded
  /\ watch # "locking"
  /\ inside' = inside \cup {h}
  /\ UNCHANGED <<bundleVars, readerVars, seen>>

ReadNext(h) ==
  /\ h \in inside
  /\ Len(seen[h]) < N
  /\ seen' = [seen EXCEPT ![h] = Append(@, serving[EditionOrder[Len(@) + 1]])]
  /\ UNCHANGED <<bundleVars, readerVars, inside>>

(* After both, or early: a record that does not decode ends the lookup.    *)
RUnlock(h) ==
  /\ h \in inside
  /\ inside' = inside \ {h}
  /\ seen' = [seen EXCEPT ![h] = <<>>]
  /\ UNCHANGED <<bundleVars, readerVars>>

(* The pod is killed; its successor starts with nothing loaded. *)
CrashPod ==
  /\ open # {}
  /\ serving' = [ed \in Editions |-> NoRelease]
  /\ open' = {}
  /\ GoTo("waiting")
  /\ inside' = {}
  /\ seen' = [h \in Handlers |-> <<>>]
  /\ Fault
  /\ UNCHANGED <<files, current, used, jobVars, leftover>>

LookupStep(h) == ReadNext(h) \/ RUnlock(h)

Next ==
  \/ \E j \in Jobs : UpdaterStep(j) /\ UNCHANGED <<readerVars, lookupVars>>
  \/ WatchStep
  \/ \E h \in Handlers : RLock(h) \/ LookupStep(h)
  \/ CrashPod

Spec == Init /\ [][Next]_vars

(* The goroutines are scheduled; a lookup that holds the read lock ends.   *)
(* Nothing is assumed of the updater or of the arrival of lookups.         *)
FairSpec ==
  /\ Spec
  /\ WF_vars(WatchStep)
  /\ \A h \in Handlers : WF_vars(LookupStep(h))

-----------------------------------------------------------------------------
(* docs/ARCHITECTURE.md, section 12: no answer combines City from one      *)
(* update with ASN from another.                                           *)
AnswersFromOneGeneration ==
  \A h \in inside : \A i, k \in DOMAIN seen[h] : seen[h][i] = seen[h][k]

(* The readers that a lookup holds or is going to use are not closed under *)
(* it (maxmind.go closes them after the unlock).                           *)
LookupsUseOpenReaders ==
  \A h \in inside :
    /\ \A ed \in Editions : <<ed, serving[ed]>> \in open
    /\ \A i \in DOMAIN seen[h] : <<EditionOrder[i], seen[h][i]>> \in open

(* Between two reloads exactly the readers in service are open, also after *)
(* a reload that failed halfway: no memory map leaks, none is closed twice. *)
OnlyServedReadersOpen ==
  watch = "waiting" =>
    open = {<<ed, serving[ed]>> : ed \in {e \in Editions : serving[e] # NoRelease}}

Serves(n) == \A ed \in Editions : serving[ed] = n

(* "API reloads it" (section 19): a complete generation that stays active  *)
(* and present is served in the end, whatever lookups arrive.              *)
ActiveGenerationIsServed ==
  \A n \in Releases :
    (current = n /\ files[n] = Editions)
      ~> (Serves(n) \/ current # n \/ files[n] # Editions)
=============================================================================

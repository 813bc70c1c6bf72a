----------------------------- MODULE MmdbBundle -----------------------------
(***************************************************************************)
(* cmd/mmdb-updater in bundle mode.  A job downloads every edition into a  *)
(* staging directory, publishes it as releases/release-<time>-<suffix>,    *)
(* turns the symlink `current` to it and removes all but the newest        *)
(* releases.  Release names are modelled by their place in the order in    *)
(* which pruneReleases sorts them.  The CronJob forbids a second run of    *)
(* its own, but the bootstrap Job of a deployment may run beside it.       *)
(***************************************************************************)
EXTENDS Naturals, FiniteSets

CONSTANTS
  Editions,        \* MAXMIND_EDITIONS
  Jobs,            \* updater processes that may run at the same time
  Retained,        \* retainedReleases, 3 in the code
  ClockStepsBack,  \* may a job read a clock behind an earlier release?
  MaxReleases,     \* bound: releases that are ever published
  MaxFaults        \* bound: crashes and failures that leave something behind

ASSUME MmdbBundleAssumption ==
  /\ IsFiniteSet(Editions) /\ Editions # {}
  /\ IsFiniteSet(Jobs)
  /\ Retained \in Nat \ {0}
  /\ ClockStepsBack \in BOOLEAN
  /\ MaxReleases \in Nat
  /\ MaxFaults \in Nat

Releases == 1 .. MaxReleases
NoRelease == 0

VARIABLES
  files,     \* the editions that each release directory holds
  current,   \* the release that the symlink names, or NoRelease
  used,      \* the names of the releases published so far
  job,       \* where each updater is
  stage,     \* the editions in its staging directory
  release,   \* the name it has chosen for its release
  doomed,    \* the releases it is removing
  leftover,  \* staging directories whose process died
  faults

jobVars == <<job, stage, release, doomed>>
bundleVars == <<files, current, used, jobVars, leftover, faults>>

(* Directories with the prefix "release-"; the staging ones do not have it. *)
ReleaseDirs == {n \in Releases : files[n] # {}}

BundleTypeOK ==
  /\ files \in [Releases -> SUBSET Editions]
  /\ current \in Releases \cup {NoRelease}
  /\ used \subseteq Releases
  /\ job \in [Jobs -> {"idle", "staging", "named", "published", "activated", "pruning"}]
  /\ stage \in [Jobs -> SUBSET Editions]
  /\ release \in [Jobs -> Releases \cup {NoRelease}]
  /\ doomed \in [Jobs -> SUBSET Releases]
  /\ leftover \in Nat
  /\ faults \in 0 .. MaxFaults

BundleInit ==
  /\ files = [n \in Releases |-> {}]
  /\ current = NoRelease
  /\ used = {}
  /\ job = [j \in Jobs |-> "idle"]
  /\ stage = [j \in Jobs |-> {}]
  /\ release = [j \in Jobs |-> NoRelease]
  /\ doomed = [j \in Jobs |-> {}]
  /\ leftover = 0
  /\ faults = 0

Fault == faults < MaxFaults /\ faults' = faults + 1

-----------------------------------------------------------------------------
(* MkdirTemp. *)
Begin(j) ==
  /\ job[j] = "idle"
  /\ used # Releases
  /\ job' = [job EXCEPT ![j] = "staging"]
  /\ UNCHANGED <<files, current, used, stage, release, doomed, leftover, faults>>

(* downloadEdition with its verification: the next edition is in place. *)
Download(j) ==
  /\ job[j] = "staging"
  /\ \E ed \in Editions \ stage[j] : stage' = [stage EXCEPT ![j] = @ \cup {ed}]
  /\ UNCHANGED <<files, current, used, job, release, doomed, leftover, faults>>

(* The clock names the release, after every name given before unless it    *)
(* steps back; the random suffix makes the name unique in any case.  Only  *)
(* a full staging directory gets here.                                     *)
Given == {NoRelease} \cup used \cup {release[j] : j \in Jobs}
Fresher(n) == n - 1 \in Given /\ \A m \in Given : m < n
Staged_Partly(j) == stage[j] # {}
Staged(j) == stage[j] = Editions

Name(j) ==
  /\ job[j] = "staging"
  /\ Staged(j)
  /\ \E n \in Releases \ Given :
       /\ ~ ClockStepsBack => Fresher(n)
       /\ release' = [release EXCEPT ![j] = n]
  /\ job' = [job EXCEPT ![j] = "named"]
  /\ UNCHANGED <<files, current, used, stage, doomed, leftover, faults>>

(* The rename of the staging directory: another job may have published a   *)
(* later name by then.                                                     *)
Publish(j) ==
  /\ job[j] = "named"
  /\ files' = [files EXCEPT ![release[j]] = stage[j]]
  /\ used' = used \cup {release[j]}
  /\ stage' = [stage EXCEPT ![j] = {}]
  /\ job' = [job EXCEPT ![j] = "published"]
  /\ UNCHANGED <<current, release, doomed, leftover, faults>>

(* A new symlink under another name, renamed over `current`. *)
Activate(j) ==
  /\ job[j] = "published"
  /\ current' = release[j]
  /\ job' = [job EXCEPT ![j] = "activated"]
  /\ UNCHANGED <<files, used, stage, release, doomed, leftover, faults>>

(* The directory is read once; names[keep:] of the sorted list will go,    *)
(* whether or not `current` is among them.                                 *)
Beyond_Oldest(dirs) == {n \in dirs : Cardinality({m \in dirs : m < n}) >= Retained}
Beyond(dirs) == {n \in dirs : Cardinality({m \in dirs : m > n}) >= Retained}

ListReleases(j) ==
  /\ job[j] = "activated"
  /\ doomed' = [doomed EXCEPT ![j] = Beyond(ReleaseDirs)]
  /\ job' = [job EXCEPT ![j] = "pruning"]
  /\ UNCHANGED <<files, current, used, stage, release, leftover, faults>>

(* RemoveAll of the first of them that is still there, one file at a time. *)
ToRemove(j) == doomed[j] \cap ReleaseDirs

RemoveFile(j) ==
  /\ job[j] = "pruning"
  /\ \E n \in ToRemove(j) :
       /\ \A m \in ToRemove(j) : m <= n
       /\ \E ed \in files[n] : files' = [files EXCEPT ![n] = @ \ {ed}]
  /\ UNCHANGED <<current, used, jobVars, leftover, faults>>

(* The process ends: nothing of it is left but the directories. *)
Ended(j) ==
  /\ job' = [job EXCEPT ![j] = "idle"]
  /\ stage' = [stage EXCEPT ![j] = {}]
  /\ release' = [release EXCEPT ![j] = NoRelease]
  /\ doomed' = [doomed EXCEPT ![j] = {}]
  /\ UNCHANGED <<files, current, used>>

Complete(j) ==
  /\ job[j] = "pruning"
  /\ ToRemove(j) = {}
  /\ Ended(j)
  /\ UNCHANGED <<leftover, faults>>

(* An error before the release is published: the deferred RemoveAll takes  *)
(* the staging directory away.                                             *)
StagesAfterError_Kept == leftover + 1
StagesAfterError == leftover

FailStaging(j) ==
  /\ job[j] \in {"staging", "named"}
  /\ Ended(j)
  /\ leftover' = StagesAfterError
  /\ UNCHANGED faults

(* An error or a kill after that ends the job before the prune or in it:   *)
(* the directories stay until a later job removes them.                    *)
FailPublished(j) ==
  /\ job[j] \in {"published", "activated", "pruning"}
  /\ Ended(j)
  /\ Fault
  /\ UNCHANGED leftover

(* The container is killed: deferred calls do not run. *)
CrashJob(j) ==
  /\ job[j] \in {"staging", "named"}
  /\ Ended(j)
  /\ leftover' = leftover + 1
  /\ Fault

UpdaterStep(j) ==
  \/ Begin(j) \/ Download(j) \/ Name(j) \/ Publish(j) \/ Activate(j)
  \/ ListReleases(j) \/ RemoveFile(j) \/ Complete(j) \/ FailStaging(j) \/ FailPublished(j) \/ CrashJob(j)

-----------------------------------------------------------------------------
(* docs/ARCHITECTURE.md, section 12: the active generation has all its     *)
(* databases.                                                              *)
CurrentIsComplete == current # NoRelease => files[current] = Editions

(* What the code gives in the general case: the active generation is       *)
(* complete until Retained releases with a later name have been published, *)
(* although pruning does not look at `current`, two jobs may prune at once *)
(* and each works from a list that may be old.                             *)
RecentCurrentIsComplete ==
  \/ current = NoRelease
  \/ files[current] = Editions
  \/ Cardinality({n \in used : n > current}) >= Retained

(* "without unbounded disk growth" (ibid.): apart from one directory for   *)
(* each running job, what exceeds the retained releases was left by a      *)
(* crash or by a failure after publication.                                *)
DiskUseIsBounded ==
  Cardinality(ReleaseDirs) + leftover + Cardinality({j \in Jobs : job[j] \in {"staging", "named"}})
    <= Retained + Cardinality(Jobs) + faults
=============================================================================

--------------------------- MODULE MmdbReloadProofs ---------------------------
(***************************************************************************)
(* The safety of the updater jobs beside a reloading pod, for any number   *)
(* of editions, jobs, handlers, retained releases and published ones, with *)
(* crashes of both and clocks that step back: ReloadInv is inductive.  Its *)
(* first half is about the release directories, its second about the       *)
(* readers; they share nothing but the releases that the pod stamps.       *)
(* SoleInv, at the end, is about an updater that runs alone.               *)
(***************************************************************************)
EXTENDS MmdbReload, FiniteSetTheorems, WellFoundedInduction, TLAPS

Places == {"idle", "staging", "named", "published", "activated", "pruning"}
USE DEF Places

(* The jobs whose release is out and that have not ended, those that have  *)
(* read the list of releases, and those that have a staging directory.     *)
Publishers == {j \in Jobs : job[j] \in {"published", "activated", "pruning"}}
Pruners == {j \in Jobs : job[j] = "pruning"}
Stagers == {j \in Jobs : job[j] \in {"staging", "named"}}

(* The later releases of n, and those that the jobs of Q will leave alone. *)
LaterThan(names, n) == {m \in names : m > n}
Kept(Q) == {n \in ReleaseDirs : \A j \in Q : n \notin doomed[j]}

(* A release may lose files only when Retained ones of a later name have   *)
(* been published.                                                         *)
Overtaken(n) == Cardinality(LaterThan(used, n)) >= Retained

(* A chosen name is nobody else's and not on the disk yet. *)
NamedJobs ==
  /\ \A j \in Jobs : job[j] = "named" => release[j] \in Releases \ used /\ stage[j] = Editions
  /\ \A j, k \in Jobs : job[j] = "named" /\ j # k => release[j] # release[k]

NamesOK ==
  /\ ReleaseDirs \subseteq used
  /\ current # NoRelease => current \in used
  /\ \A j \in Jobs : job[j] = "published" => release[j] \in used
  /\ NamedJobs

FilesOK == \A n \in used : files[n] = Editions \/ Overtaken(n)

DoomedOK == \A j \in Jobs : \A n \in doomed[j] : n \in used /\ Overtaken(n)

(* Each job answers for one directory from its publication to its end.     *)
(* When it ends it must have removed all but Retained of the directories   *)
(* it has seen, and what the others, which may end in any order, will      *)
(* remove counts for nothing twice: hence every set of pruning jobs.       *)
DiskOK ==
  /\ leftover <= faults
  /\ \A Q \in SUBSET Pruners :
       Cardinality(Kept(Q)) + leftover <= Retained + Cardinality(Publishers \ Q) + faults

BundleInv == BundleTypeOK /\ NamesOK /\ FilesOK /\ DoomedOK /\ DiskOK

(* The readers in service.                                                 *)
Served == {<<ed, serving[ed]>> : ed \in {e \in Editions : serving[e] # NoRelease}}

(* What is open in each place of the Watch goroutine.                      *)
OpenOK ==
  /\ watch \in {"waiting", "snapshot"} => open = Served
  /\ watch = "opening" => Served \subseteq open /\ open \subseteq Served \cup Fresh
  /\ watch = "locking" => open = Served \cup Fresh
  /\ watch = "closing" => Loaded /\ Served \subseteq open

StampOK ==
  watch \in {"opening", "locking"} => Len(stamp) = N /\ Coherent

OneGeneration == \A e, d \in Editions : serving[e] = serving[d]

LookupOK(h) ==
  /\ h \notin inside => seen[h] = <<>>
  /\ h \in inside => Loaded /\ \A i \in DOMAIN seen[h] : seen[h][i] = serving[EditionOrder[i]]

ReaderInv ==
  /\ TypeOK /\ OpenOK /\ StampOK /\ OneGeneration
  /\ \A h \in Handlers : LookupOK(h)

ReloadInv == BundleInv /\ ReaderInv

-----------------------------------------------------------------------------
(* Counting. *)

LEMMA FirstOf ==
  ASSUME NEW T \in SUBSET Nat, T # {}
  PROVE  \E x \in T : \A y \in T : x <= y
<1> DEFINE R == {p \in Nat \X Nat : p[1] < p[2]}
<1>1. IsWellFoundedOn(R, Nat)
  BY NatLessThanWellFounded DEF OpToRel
<1>2. PICK x \in T : \A y \in T : ~ (<<y, x>> \in R)
  <2> HIDE DEF R
  <2> QED BY <1>1, WFMin
<1>3. \A y \in T : x \in Nat /\ y \in Nat /\ ~ (y < x)
  BY <1>2
<1> QED BY <1>3

(* A finite set of names has few members with few members after them. *)
LEMMA FewNewest ==
  ASSUME NEW dirs \in SUBSET Nat, IsFiniteSet(dirs), NEW keep \in Nat \ {0},
         NEW K \in SUBSET dirs, \A n \in K : ~ (Cardinality({m \in dirs : m > n}) >= keep)
  PROVE  IsFiniteSet(K) /\ Cardinality(K) <= keep
<1>1. IsFiniteSet(K) /\ Cardinality(K) \in Nat
  BY FS_Subset, FS_CardinalityType
<1>2. CASE K = {}
  BY <1>1, <1>2, FS_EmptySet
<1>3. CASE K # {}
  <2>1. PICK n \in K : \A m \in K : n <= m
    BY <1>3, FirstOf
  <2> DEFINE after == {m \in dirs : m > n}
  <2>2. K \ {n} \subseteq after
    BY <2>1
  <2>3. IsFiniteSet(after) /\ Cardinality(after) \in Nat
    BY FS_Subset, FS_CardinalityType
  <2>4. /\ IsFiniteSet(K \ {n}) /\ Cardinality(K \ {n}) = Cardinality(K) - 1
        /\ Cardinality(K \ {n}) \in Nat
    BY <1>1, FS_RemoveElement, FS_CardinalityType
  <2>5. Cardinality(K \ {n}) <= Cardinality(after)
    <3> HIDE DEF after
    <3> QED BY <2>2, <2>3, FS_Subset
  <2>6. ~ (Cardinality(after) >= keep)
    BY <2>1
  <2> HIDE DEF after
  <2> QED BY <1>1, <2>3, <2>4, <2>5, <2>6
<1> QED BY <1>2, <1>3

LEMMA OneMore ==
  ASSUME NEW S, NEW T, NEW x, IsFiniteSet(S), T \subseteq S \cup {x}
  PROVE  Cardinality(T) <= Cardinality(S) + 1
<1>1. IsFiniteSet(S \cup {x}) /\ Cardinality(S \cup {x}) <= Cardinality(S) + 1
      /\ Cardinality(S) \in Nat
  BY FS_AddElement, FS_CardinalityType
<1>2. Cardinality(T) <= Cardinality(S \cup {x})
  BY <1>1, FS_Subset
<1>3. Cardinality(T) \in Nat /\ Cardinality(S \cup {x}) \in Nat
  BY <1>1, FS_Subset, FS_CardinalityType
<1> QED BY <1>1, <1>2, <1>3

LEMMA BundleIsFinite ==
  ASSUME BundleTypeOK
  PROVE  /\ IsFiniteSet(Releases) /\ Releases \subseteq Nat
         /\ IsFiniteSet(used) /\ IsFiniteSet(ReleaseDirs)
         /\ leftover \in Nat /\ faults \in Nat /\ Retained \in Nat \ {0}
         /\ \A T \in SUBSET Releases : IsFiniteSet(T) /\ Cardinality(T) \in Nat
         /\ \A T \in SUBSET Jobs : IsFiniteSet(T) /\ Cardinality(T) \in Nat
<1> USE MmdbBundleAssumption DEF MmdbBundleAssumption
<1>1. IsFiniteSet(Releases) /\ Releases \subseteq Nat
  <2>1. 1 \in Int /\ MaxReleases \in Int
    OBVIOUS
  <2> QED BY <2>1, FS_Interval DEF Releases
<1>2. \A T \in SUBSET Releases : IsFiniteSet(T) /\ Cardinality(T) \in Nat
  BY <1>1, FS_Subset, FS_CardinalityType
<1>3. \A T \in SUBSET Jobs : IsFiniteSet(T) /\ Cardinality(T) \in Nat
  BY FS_Subset, FS_CardinalityType
<1>4. used \subseteq Releases /\ ReleaseDirs \subseteq Releases
  BY DEF BundleTypeOK, ReleaseDirs
<1>5. leftover \in Nat /\ faults \in Nat
  BY DEF BundleTypeOK
<1> QED BY <1>1, <1>2, <1>3, <1>4, <1>5

(* Names are given out for ever: what has been overtaken stays so. *)
LEMMA OvertakenStays ==
  ASSUME BundleTypeOK, BundleTypeOK', used \subseteq used', NEW n, Overtaken(n)
  PROVE  Overtaken(n)'
<1>1. LaterThan(used, n) \subseteq LaterThan(used', n)
  BY DEF LaterThan
<1>2. LaterThan(used, n) \subseteq Releases /\ LaterThan(used', n) \subseteq Releases
  BY DEF LaterThan, BundleTypeOK
<1>3. /\ IsFiniteSet(LaterThan(used', n))
      /\ Cardinality(LaterThan(used, n)) \in Nat
      /\ Cardinality(LaterThan(used', n)) \in Nat /\ Retained \in Nat
  BY <1>2, BundleIsFinite
<1>4. Cardinality(LaterThan(used, n)) <= Cardinality(LaterThan(used', n))
  BY <1>1, <1>3, FS_Subset
<1>5. Cardinality(LaterThan(used, n)) >= Retained
  BY DEF Overtaken
<1>6. Cardinality(LaterThan(used', n)) >= Retained
  BY <1>3, <1>4, <1>5
<1> QED BY <1>6 DEF Overtaken

-----------------------------------------------------------------------------
(* A step of an updater. *)

LEMMA EndedKeepsTypes ==
  ASSUME BundleTypeOK, NEW j \in Jobs, Ended(j), leftover' \in Nat,
         faults' \in 0 .. MaxFaults
  PROVE  BundleTypeOK'
<1>1. job' \in [Jobs -> Places]
  BY DEF BundleTypeOK, Ended
<1>2. stage' \in [Jobs -> SUBSET Editions] /\ doomed' \in [Jobs -> SUBSET Releases]
  BY DEF BundleTypeOK, Ended
<1>3. release' \in [Jobs -> Releases \cup {NoRelease}]
  BY DEF BundleTypeOK, Ended
<1> QED BY <1>1, <1>2, <1>3 DEF BundleTypeOK, Ended

LEMMA FaultIsCounted ==
  ASSUME BundleTypeOK, Fault
  PROVE  faults' \in 0 .. MaxFaults /\ faults' = faults + 1
<1> USE MmdbBundleAssumption DEF MmdbBundleAssumption
<1> QED BY DEF BundleTypeOK, Fault

LEMMA UpdaterKeepsTypes ==
  ASSUME BundleTypeOK, NamesOK, NEW j \in Jobs, UpdaterStep(j)
  PROVE  BundleTypeOK'
<1>0. /\ files \in [Releases -> SUBSET Editions] /\ job \in [Jobs -> Places]
      /\ current \in Releases \cup {NoRelease} /\ used \subseteq Releases
      /\ stage \in [Jobs -> SUBSET Editions] /\ doomed \in [Jobs -> SUBSET Releases]
      /\ release \in [Jobs -> Releases \cup {NoRelease}]
      /\ leftover \in Nat /\ faults \in 0 .. MaxFaults
  BY DEF BundleTypeOK
<1>1. CASE Begin(j)
  BY <1>0, <1>1 DEF Begin, BundleTypeOK
<1>2. CASE Download(j)
  <2>1. PICK ed \in Editions : stage' = [stage EXCEPT ![j] = @ \cup {ed}]
    BY <1>2 DEF Download
  <2>2. stage' \in [Jobs -> SUBSET Editions]
    BY <1>0, <2>1
  <2> QED BY <1>0, <1>2, <2>2 DEF Download, BundleTypeOK
<1>3. CASE Publish(j)
  <2>1. files' \in [Releases -> SUBSET Editions] /\ used' \subseteq Releases
    BY <1>0, <1>3 DEF Publish, NamesOK, NamedJobs
  <2>2. stage' \in [Jobs -> SUBSET Editions] /\ job' \in [Jobs -> Places]
    BY <1>0, <1>3 DEF Publish
  <2> QED BY <1>0, <1>3, <2>1, <2>2 DEF Publish, BundleTypeOK
<1>4. CASE Activate(j)
  BY <1>0, <1>4 DEF Activate, BundleTypeOK
<1>5. CASE ListReleases(j)
  <2>1. Beyond(ReleaseDirs) \subseteq Releases
    BY DEF Beyond, ReleaseDirs
  <2>2. doomed' \in [Jobs -> SUBSET Releases] /\ job' \in [Jobs -> Places]
    BY <1>0, <1>5, <2>1 DEF ListReleases
  <2> QED BY <1>0, <1>5, <2>2 DEF ListReleases, BundleTypeOK
<1>6. CASE RemoveFile(j)
  <2>1. PICK n \in ToRemove(j) : \E ed \in files[n] : files' = [files EXCEPT ![n] = @ \ {ed}]
    BY <1>6 DEF RemoveFile
  <2>2. n \in Releases
    BY <2>1 DEF ToRemove, ReleaseDirs
  <2>3. files' \in [Releases -> SUBSET Editions]
    BY <1>0, <2>1, <2>2
  <2> QED BY <1>0, <1>6, <2>3 DEF RemoveFile, jobVars, BundleTypeOK
<1>7. CASE Complete(j)
  BY <1>0, <1>7, EndedKeepsTypes DEF Complete
<1>8. CASE FailStaging(j)
  BY <1>0, <1>8, EndedKeepsTypes DEF FailStaging, StagesAfterError
<1>9. CASE FailPublished(j)
  BY <1>0, <1>9, EndedKeepsTypes, FaultIsCounted DEF FailPublished
<1>10. CASE CrashJob(j)
  <2>1. leftover' \in Nat
    BY <1>0, <1>10 DEF CrashJob
  <2> QED BY <1>10, <2>1, EndedKeepsTypes, FaultIsCounted DEF CrashJob
<1>11. CASE Name(j)
  <2>1. PICK n \in Releases : release' = [release EXCEPT ![j] = n]
    BY <1>11 DEF Name
  <2>2. release' \in [Jobs -> Releases \cup {NoRelease}] /\ job' \in [Jobs -> Places]
    BY <1>0, <1>11, <2>1 DEF Name
  <2> QED BY <1>0, <1>11, <2>2 DEF Name, BundleTypeOK
<1> QED
  BY <1>1, <1>2, <1>3, <1>4, <1>5, <1>6, <1>7, <1>8, <1>9, <1>10, <1>11 DEF UpdaterStep

(* What a step can do to the directories and the names, whoever takes it:  *)
(* a release appears once, with all its files, and loses a file only when  *)
(* a job that has listed it removes it.                                    *)
Appears(j, n) ==
  /\ n \in Releases \ used /\ used' = used \cup {n}
  /\ files' = [files EXCEPT ![n] = Editions]
  /\ n = release[j] /\ release' = release

Shrinks(j, n) ==
  /\ n \in doomed[j] /\ n \in ReleaseDirs /\ used' = used
  /\ \E ed \in files[n] : files' = [files EXCEPT ![n] = @ \ {ed}]

LEMMA ReleasesChange ==
  ASSUME BundleTypeOK, NamesOK, NEW j \in Jobs, UpdaterStep(j)
  PROVE  \/ UNCHANGED <<files, used>>
         \/ \E n \in Releases : Appears(j, n) /\ job'[j] = "published"
         \/ \E n \in Releases : Shrinks(j, n) /\ UNCHANGED <<current, jobVars>>
<1>1. CASE Publish(j)
  <2>1. /\ stage[j] = Editions /\ job'[j] = "published"
        /\ release[j] \in Releases \ used
    BY <1>1 DEF Publish, NamesOK, NamedJobs, BundleTypeOK
  <2> QED BY <1>1, <2>1 DEF Publish, Appears
<1>2. CASE RemoveFile(j)
  <2>1. PICK n \in ToRemove(j) : \E ed \in files[n] : files' = [files EXCEPT ![n] = @ \ {ed}]
    BY <1>2 DEF RemoveFile
  <2>2. n \in Releases /\ n \in doomed[j] /\ n \in ReleaseDirs
    BY <2>1 DEF ToRemove, ReleaseDirs
  <2> QED BY <1>2, <2>1, <2>2 DEF RemoveFile, Shrinks
<1>3. CASE Complete(j) \/ FailStaging(j) \/ FailPublished(j) \/ CrashJob(j)
  BY <1>3 DEF Complete, FailStaging, FailPublished, CrashJob, Ended, BundleTypeOK
<1>4. CASE Begin(j) \/ Download(j) \/ Name(j) \/ Activate(j) \/ ListReleases(j)
  BY <1>4 DEF Begin, Download, Name, Activate, ListReleases
<1> QED BY <1>1, <1>2, <1>3, <1>4 DEF UpdaterStep

LEMMA UpdaterKeepsNamedJobs ==
  ASSUME BundleTypeOK, NamesOK, NEW j \in Jobs, UpdaterStep(j)
  PROVE  NamedJobs'
<1>1. /\ NamedJobs /\ NoRelease \notin Releases
      /\ job \in [Jobs -> Places] /\ stage \in [Jobs -> SUBSET Editions]
      /\ release \in [Jobs -> Releases \cup {NoRelease}]
  BY DEF NamesOK, NamedJobs, BundleTypeOK, NoRelease, Releases
<1>2. CASE Name(j)
  <2>1. PICK n \in Releases \ Given : release' = [release EXCEPT ![j] = n]
    BY <1>2 DEF Name
  <2>2. n \notin used /\ \A k \in Jobs : n # release[k]
    BY <2>1 DEF Given
  <2>3. /\ job' = [job EXCEPT ![j] = "named"] /\ UNCHANGED <<used, stage>>
        /\ stage[j] = Editions
    BY <1>2 DEF Name, Staged
  <2> QED BY <1>1, <2>1, <2>2, <2>3 DEF NamedJobs
<1>3. CASE Publish(j)
  <2>1. /\ job[j] = "named" /\ job' = [job EXCEPT ![j] = "published"]
        /\ stage' = [stage EXCEPT ![j] = {}] /\ release' = release
        /\ used' = used \cup {release[j]}
    BY <1>3 DEF Publish
  <2> QED BY <1>1, <2>1 DEF NamedJobs
<1>4. CASE Download(j)
  <2>1. /\ job[j] = "staging" /\ UNCHANGED <<job, release, used>>
        /\ \A k \in Jobs \ {j} : stage'[k] = stage[k]
    BY <1>1, <1>4 DEF Download
  <2> QED BY <1>1, <2>1 DEF NamedJobs
<1>5. CASE Begin(j) \/ Activate(j) \/ ListReleases(j) \/ RemoveFile(j)
  <2>1. /\ UNCHANGED <<release, used, stage>>
        /\ \A k \in Jobs : job'[k] = "named" => job[k] = "named"
    BY <1>1, <1>5 DEF Begin, Activate, ListReleases, RemoveFile, jobVars
  <2> QED BY <1>1, <2>1 DEF NamedJobs
<1>6. CASE Complete(j) \/ FailStaging(j) \/ FailPublished(j) \/ CrashJob(j)
  <2>1. Ended(j)
    BY <1>6 DEF Complete, FailStaging, FailPublished, CrashJob
  <2> QED BY <1>1, <2>1 DEF Ended, NamedJobs
<1> QED BY <1>2, <1>3, <1>4, <1>5, <1>6 DEF UpdaterStep

LEMMA UpdaterKeepsNames ==
  ASSUME BundleInv, NEW j \in Jobs, UpdaterStep(j)
  PROVE  NamesOK' /\ used \subseteq used' /\ ReleaseDirs' \subseteq ReleaseDirs \cup (used' \ used)
<1>1. /\ BundleTypeOK /\ NamesOK
      /\ files \in [Releases -> SUBSET Editions] /\ release \in [Jobs -> Releases \cup {NoRelease}]
      /\ job \in [Jobs -> Places]
  BY DEF BundleInv, BundleTypeOK
<1>2. /\ ReleaseDirs' \subseteq used' /\ used \subseteq used'
      /\ ReleaseDirs' \subseteq ReleaseDirs \cup (used' \ used)
  <2>1. CASE UNCHANGED <<files, used>>
    BY <1>1, <2>1 DEF NamesOK, ReleaseDirs
  <2>2. ASSUME NEW n \in Releases, Appears(j, n)
        PROVE  /\ ReleaseDirs' \subseteq used' /\ used \subseteq used'
               /\ ReleaseDirs' \subseteq ReleaseDirs \cup (used' \ used)
    BY <1>1, <2>2 DEF NamesOK, ReleaseDirs, Appears
  <2>3. ASSUME NEW n \in Releases, Shrinks(j, n)
        PROVE  /\ ReleaseDirs' \subseteq used' /\ used \subseteq used'
               /\ ReleaseDirs' \subseteq ReleaseDirs \cup (used' \ used)
    <3>1. \A m \in Releases : files'[m] \subseteq files[m]
      BY <1>1, <2>3 DEF Shrinks
    <3> QED BY <1>1, <2>3, <3>1 DEF NamesOK, ReleaseDirs, Shrinks
  <2> QED BY <1>1, <2>1, <2>2, <2>3, ReleasesChange
<1>3. current' # NoRelease => current' \in used'
  <2>1. CASE Activate(j)
    BY <1>1, <1>2, <2>1 DEF Activate, NamesOK
  <2>2. CASE ~ Activate(j)
    <3>1. current' = current
      BY <2>2 DEF UpdaterStep, Begin, Download, Name, Publish, ListReleases, RemoveFile, Complete,
                  FailStaging, FailPublished, CrashJob, Ended
    <3> QED BY <1>1, <1>2, <3>1 DEF NamesOK
  <2> QED BY <2>1, <2>2
<1>4. ASSUME NEW k \in Jobs, job'[k] = "published" PROVE release'[k] \in used'
  <2>1. CASE Publish(j)
    BY <1>1, <1>2, <1>4, <2>1 DEF Publish, NamesOK
  <2>2. CASE Begin(j) \/ Name(j) \/ Activate(j) \/ ListReleases(j)
    <3>1. k # j /\ job'[k] = job[k] /\ release'[k] = release[k]
      BY <1>1, <1>4, <2>2 DEF Begin, Name, Activate, ListReleases
    <3> QED BY <1>1, <1>2, <1>4, <3>1 DEF NamesOK
  <2>3. CASE Download(j) \/ RemoveFile(j)
    BY <1>1, <1>2, <1>4, <2>3 DEF Download, RemoveFile, jobVars, NamesOK
  <2>4. CASE Complete(j) \/ FailStaging(j) \/ FailPublished(j) \/ CrashJob(j)
    <3>1. Ended(j)
      BY <2>4 DEF Complete, FailStaging, FailPublished, CrashJob
    <3> QED BY <1>1, <1>2, <1>4, <3>1 DEF Ended, NamesOK
  <2> QED BY <2>1, <2>2, <2>3, <2>4 DEF UpdaterStep
<1>5. NamedJobs'
  BY UpdaterKeepsNamedJobs DEF BundleInv
<1> QED BY <1>2, <1>3, <1>4, <1>5 DEF NamesOK

(* What a job has listed and will remove has been overtaken: the list is   *)
(* of release directories, and every one of them carries a name in use.    *)
LEMMA BeyondIsOvertaken ==
  ASSUME BundleInv, NEW n \in Beyond(ReleaseDirs)
  PROVE  n \in used /\ Overtaken(n)
<1>1. BundleTypeOK /\ ReleaseDirs \subseteq used /\ used \subseteq Releases
  BY DEF BundleInv, BundleTypeOK, NamesOK
<1> DEFINE ahead == {m \in ReleaseDirs : m > n}
<1>2. ahead \subseteq LaterThan(used, n) /\ LaterThan(used, n) \subseteq Releases
  BY <1>1 DEF LaterThan
<1>3. Cardinality(ahead) >= Retained
  BY DEF Beyond
<1>4. n \in used
  BY <1>1 DEF Beyond
<1> HIDE DEF ahead
<1>5. /\ IsFiniteSet(LaterThan(used, n)) /\ Cardinality(LaterThan(used, n)) \in Nat
      /\ Cardinality(ahead) \in Nat /\ Retained \in Nat
  BY <1>1, <1>2, BundleIsFinite
<1>6. Cardinality(ahead) <= Cardinality(LaterThan(used, n))
  BY <1>2, <1>5, FS_Subset
<1> QED BY <1>3, <1>4, <1>5, <1>6 DEF Overtaken

LEMMA UpdaterKeepsReleases ==
  ASSUME BundleInv, NEW j \in Jobs, UpdaterStep(j)
  PROVE  FilesOK' /\ DoomedOK'
<1>1. /\ BundleTypeOK /\ NamesOK /\ FilesOK /\ DoomedOK
      /\ files \in [Releases -> SUBSET Editions] /\ used \subseteq Releases
      /\ doomed \in [Jobs -> SUBSET Releases]
  BY DEF BundleInv, BundleTypeOK
<1>2. BundleTypeOK' /\ used \subseteq used'
  BY <1>1, UpdaterKeepsTypes, UpdaterKeepsNames
<1>3. \A n \in Releases : Overtaken(n) => Overtaken(n)'
  BY <1>1, <1>2, OvertakenStays
<1>4. ASSUME NEW n \in used' PROVE files'[n] = Editions \/ Overtaken(n)'
  <2>1. CASE UNCHANGED <<files, used>>
    BY <1>1, <1>3, <1>4, <2>1 DEF FilesOK
  <2>2. ASSUME NEW m \in Releases, Appears(j, m)
        PROVE  files'[n] = Editions \/ Overtaken(n)'
    BY <1>1, <1>3, <1>4, <2>2 DEF FilesOK, Appears
  <2>3. ASSUME NEW m \in Releases, Shrinks(j, m)
        PROVE  files'[n] = Editions \/ Overtaken(n)'
    <3>1. CASE n = m
      BY <1>1, <1>3, <2>3, <3>1 DEF DoomedOK, Shrinks
    <3>2. CASE n # m
      BY <1>1, <1>3, <1>4, <2>3, <3>2 DEF FilesOK, Shrinks
    <3> QED BY <3>1, <3>2
  <2> QED BY <1>1, <2>1, <2>2, <2>3, ReleasesChange
<1>5. ASSUME NEW k \in Jobs, NEW n \in doomed'[k] PROVE n \in used' /\ Overtaken(n)'
  <2>1. CASE n \in doomed[k]
    BY <1>1, <1>2, <1>3, <2>1 DEF DoomedOK
  <2>2. CASE n \notin doomed[k]
    <3>1. ListReleases(j) /\ k = j
      <4>1. CASE \/ Begin(j) \/ Download(j) \/ Name(j) \/ Publish(j) \/ Activate(j)
                 \/ RemoveFile(j)
        BY <1>5, <2>2, <4>1 DEF Begin, Download, Name, Publish, Activate, RemoveFile, jobVars
      <4>2. CASE Complete(j) \/ FailStaging(j) \/ FailPublished(j) \/ CrashJob(j)
        BY <1>1, <1>5, <2>2, <4>2 DEF Complete, FailStaging, FailPublished, CrashJob, Ended
      <4>3. CASE ListReleases(j)
        BY <1>1, <1>5, <2>2, <4>3 DEF ListReleases
      <4> QED BY <4>1, <4>2, <4>3 DEF UpdaterStep
    <3>2. n \in Beyond(ReleaseDirs) /\ n \in Releases
      BY <1>1, <1>5, <3>1 DEF ListReleases, Beyond, ReleaseDirs
    <3> QED BY <1>2, <1>3, <3>2, BeyondIsOvertaken
  <2> QED BY <2>1, <2>2
<1> QED BY <1>4, <1>5 DEF FilesOK, DoomedOK

-----------------------------------------------------------------------------
(* The disk. *)

(* A step that leaves no more than what was left aside a set of jobs, and  *)
(* takes away no more owners of directories than it adds faults, is safe.  *)
LEMMA NoMoreKept ==
  ASSUME BundleInv, BundleTypeOK', NEW Q \in SUBSET Jobs, NEW R \in SUBSET Pruners,
         Kept(Q)' \subseteq Kept(R),
         Cardinality(Publishers \ R) + leftover' + faults
           <= Cardinality(Publishers' \ Q) + leftover + faults'
  PROVE  Cardinality(Kept(Q)') + leftover'
           <= Retained + Cardinality(Publishers' \ Q) + faults'
<1>1. /\ Kept(R) \subseteq Releases /\ Kept(Q)' \subseteq Releases
      /\ Publishers \ R \subseteq Jobs /\ Publishers' \ Q \subseteq Jobs
  BY DEF Kept, ReleaseDirs, Publishers
<1>2. /\ IsFiniteSet(Kept(R)) /\ Cardinality(Kept(R)) \in Nat
      /\ Cardinality(Kept(Q)') \in Nat
      /\ Cardinality(Publishers \ R) \in Nat /\ Cardinality(Publishers' \ Q) \in Nat
      /\ leftover \in Nat /\ faults \in Nat /\ Retained \in Nat
  BY <1>1, BundleIsFinite DEF BundleInv
<1>3. leftover' \in Nat /\ faults' \in Nat
  BY MmdbBundleAssumption DEF BundleTypeOK, MmdbBundleAssumption
<1>4. Cardinality(Kept(R)) + leftover <= Retained + Cardinality(Publishers \ R) + faults
  BY DEF BundleInv, DiskOK
<1>5. Cardinality(Kept(Q)') <= Cardinality(Kept(R))
  BY <1>2, FS_Subset
<1> QED BY <1>2, <1>3, <1>4, <1>5

(* The same for a step after which the same jobs own directories. *)
LEMMA SamePublishers ==
  ASSUME BundleInv, BundleTypeOK', NEW Q \in SUBSET Pruners,
         Publishers' = Publishers, Kept(Q)' \subseteq Kept(Q),
         \/ leftover' = leftover /\ faults' = faults
         \/ leftover' = leftover + 1 /\ faults' = faults + 1
  PROVE  Cardinality(Kept(Q)') + leftover'
           <= Retained + Cardinality(Publishers' \ Q) + faults'
<1>1. Publishers \ Q \subseteq Jobs /\ Q \subseteq Jobs
  BY DEF Publishers, Pruners
<1>2. Cardinality(Publishers \ Q) \in Nat /\ leftover \in Nat /\ faults \in Nat
  BY <1>1, BundleIsFinite DEF BundleInv
<1>3. Cardinality(Publishers \ Q) + leftover' + faults
        <= Cardinality(Publishers' \ Q) + leftover + faults'
  BY <1>2
<1> QED BY <1>1, <1>3, NoMoreKept

LEMMA PublishKeepsDisk ==
  ASSUME BundleInv, BundleTypeOK', NEW j \in Jobs, Publish(j), NEW Q \in SUBSET Pruners'
  PROVE  Cardinality(Kept(Q)') + leftover'
           <= Retained + Cardinality(Publishers' \ Q) + faults'
<1>1. PICK n \in Releases : files' = [files EXCEPT ![n] = stage[j]]
  BY DEF Publish, BundleInv, NamesOK, NamedJobs
<1>2. /\ job[j] = "named" /\ job' = [job EXCEPT ![j] = "published"]
      /\ UNCHANGED <<doomed, leftover, faults>>
      /\ job \in [Jobs -> Places]
      /\ files \in [Releases -> SUBSET Editions]
  BY DEF Publish, BundleInv, BundleTypeOK
<1>3. Q \subseteq Pruners /\ j \notin Q /\ j \notin Publishers
      /\ Publishers' = Publishers \cup {j}
  BY <1>2 DEF Pruners, Publishers
<1>4. Kept(Q)' \subseteq Kept(Q) \cup {n}
  BY <1>1, <1>2 DEF Kept, ReleaseDirs
<1>5. /\ Kept(Q) \subseteq Releases /\ Kept(Q)' \subseteq Releases /\ Publishers \ Q \subseteq Jobs
  BY DEF Kept, ReleaseDirs, Publishers
<1>6. /\ IsFiniteSet(Kept(Q)) /\ Cardinality(Kept(Q)) \in Nat
      /\ Cardinality(Kept(Q)') \in Nat
      /\ IsFiniteSet(Publishers \ Q) /\ Cardinality(Publishers \ Q) \in Nat
      /\ leftover \in Nat /\ faults \in Nat /\ Retained \in Nat
  BY <1>5, BundleIsFinite DEF BundleInv
<1>7. Cardinality(Kept(Q)') <= Cardinality(Kept(Q)) + 1
  BY <1>4, <1>6, OneMore
<1>8. Cardinality(Publishers' \ Q) = Cardinality(Publishers \ Q) + 1
  <2>1. Publishers' \ Q = (Publishers \ Q) \cup {j}
    BY <1>3
  <2> QED BY <1>3, <1>6, <2>1, FS_AddElement
<1>9. Cardinality(Kept(Q)) + leftover <= Retained + Cardinality(Publishers \ Q) + faults
  BY <1>3 DEF BundleInv, DiskOK
<1> QED BY <1>2, <1>6, <1>7, <1>8, <1>9

LEMMA ListKeepsDisk ==
  ASSUME BundleInv, BundleTypeOK', NEW j \in Jobs, ListReleases(j), NEW Q \in SUBSET Pruners'
  PROVE  Cardinality(Kept(Q)') + leftover'
           <= Retained + Cardinality(Publishers' \ Q) + faults'
<1>1. /\ job[j] = "activated" /\ job' = [job EXCEPT ![j] = "pruning"]
      /\ doomed' = [doomed EXCEPT ![j] = Beyond(ReleaseDirs)]
      /\ UNCHANGED <<files, leftover, faults>>
      /\ job \in [Jobs -> Places]
      /\ doomed \in [Jobs -> SUBSET Releases]
  BY DEF ListReleases, BundleInv, BundleTypeOK
<1>2. Pruners' = Pruners \cup {j} /\ j \notin Pruners /\ Publishers' = Publishers
  BY <1>1 DEF Pruners, Publishers
<1>3. CASE j \notin Q
  <2>1. Q \subseteq Pruners /\ Q \subseteq Jobs
    BY <1>2, <1>3 DEF Pruners
  <2>2. Kept(Q)' \subseteq Kept(Q)
    BY <1>1, <1>3, <2>1 DEF Kept, ReleaseDirs
  <2> QED BY <1>1, <1>2, <2>1, <2>2, SamePublishers
<1>4. CASE j \in Q
  <2>1. Kept(Q)' \subseteq ReleaseDirs
        /\ \A n \in Kept(Q)' : ~ (Cardinality({m \in ReleaseDirs : m > n}) >= Retained)
    <3>1. doomed'[j] = Beyond(ReleaseDirs)
      BY <1>1
    <3>2. ReleaseDirs' = ReleaseDirs
      BY <1>1 DEF ReleaseDirs
    <3> QED BY <1>4, <3>1, <3>2 DEF Kept, Beyond
  <2>2. ReleaseDirs \subseteq Nat /\ IsFiniteSet(ReleaseDirs) /\ Retained \in Nat \ {0}
        /\ leftover \in Nat /\ faults \in Nat
    BY BundleIsFinite DEF BundleInv, ReleaseDirs
  <2>3. Cardinality(Kept(Q)') <= Retained
    BY <2>1, <2>2, FewNewest
  <2>4. Publishers' \ Q \subseteq Jobs /\ Kept(Q)' \subseteq Releases
    BY DEF Publishers, Kept, ReleaseDirs
  <2>5. Cardinality(Publishers' \ Q) \in Nat /\ Cardinality(Kept(Q)') \in Nat
    BY <2>4, BundleIsFinite DEF BundleInv
  <2>6. leftover <= faults
    BY DEF BundleInv, DiskOK
  <2> QED BY <1>1, <2>2, <2>3, <2>5, <2>6
<1> QED BY <1>3, <1>4

(* A job that ends after its publication has removed all that it listed,   *)
(* or a fault answers for what it leaves. *)
LEMMA EndKeepsDisk ==
  ASSUME BundleInv, BundleTypeOK', NEW j \in Publishers, Ended(j), NEW Q \in SUBSET Pruners',
         leftover' = leftover,
         \/ j \in Pruners /\ ToRemove(j) = {} /\ faults' = faults
         \/ faults' = faults + 1
  PROVE  Cardinality(Kept(Q)') + leftover'
           <= Retained + Cardinality(Publishers' \ Q) + faults'
<1>0. j \in Jobs
  BY DEF Publishers
<1>1. /\ job' = [job EXCEPT ![j] = "idle"] /\ doomed' = [doomed EXCEPT ![j] = {}]
      /\ files' = files
      /\ job \in [Jobs -> Places]
      /\ doomed \in [Jobs -> SUBSET Releases]
  BY DEF Ended, BundleInv, BundleTypeOK
<1>2. /\ Pruners' = Pruners \ {j} /\ Publishers' = Publishers \ {j}
      /\ j \notin Q /\ Q \subseteq Pruners /\ Q \subseteq Jobs
  BY <1>0, <1>1 DEF Pruners, Publishers
<1>3. Kept(Q)' = Kept(Q)
  BY <1>1, <1>2 DEF Kept, ReleaseDirs
<1>4. \A P \in SUBSET Jobs : IsFiniteSet(P) /\ Cardinality(P) \in Nat
  BY BundleIsFinite DEF BundleInv
<1>5. leftover \in Nat /\ faults \in Nat
  BY BundleIsFinite DEF BundleInv
<1>6. CASE j \in Pruners /\ ToRemove(j) = {} /\ faults' = faults
  <2> DEFINE R == Q \cup {j}
  <2>1. R \in SUBSET Pruners
    BY <1>2, <1>6
  <2>2. Kept(Q)' \subseteq Kept(R)
    BY <1>3, <1>6 DEF Kept, ToRemove
  <2>3. Publishers \ R = Publishers' \ Q /\ Publishers \ R \subseteq Jobs
    BY <1>2 DEF Publishers
  <2>4. Cardinality(Publishers \ R) \in Nat
    BY <1>4, <2>3
  <2>5. Cardinality(Publishers \ R) + leftover' + faults
          <= Cardinality(Publishers' \ Q) + leftover + faults'
    <3>1. Cardinality(Publishers \ R) = Cardinality(Publishers' \ Q)
      BY <2>3
    <3> HIDE DEF R
    <3>2. Cardinality(Publishers' \ Q) \in Nat
      BY <2>4, <3>1
    <3> QED BY <1>5, <1>6, <3>1, <3>2
  <2> HIDE DEF R
  <2> QED BY <1>2, <2>1, <2>2, <2>5, NoMoreKept
<1>7. CASE faults' = faults + 1
  <2>1. Publishers \ Q = (Publishers' \ Q) \cup {j} /\ Publishers \ Q \subseteq Jobs
        /\ Publishers' \ Q \subseteq Jobs
    BY <1>2 DEF Publishers
  <2>2. /\ IsFiniteSet(Publishers' \ Q) /\ Cardinality(Publishers' \ Q) \in Nat
        /\ Cardinality(Publishers \ Q) \in Nat
    BY <1>4, <2>1
  <2>3. Cardinality(Publishers \ Q) <= Cardinality(Publishers' \ Q) + 1
    BY <2>1, <2>2, OneMore
  <2>4. Cardinality(Publishers \ Q) + leftover' + faults
          <= Cardinality(Publishers' \ Q) + leftover + faults'
    BY <1>5, <1>7, <2>2, <2>3
  <2> QED BY <1>2, <1>3, <2>4, NoMoreKept
<1> QED BY <1>6, <1>7

LEMMA UpdaterKeepsDisk ==
  ASSUME BundleInv, NEW j \in Jobs, UpdaterStep(j)
  PROVE  DiskOK'
<1>1. /\ BundleTypeOK /\ BundleTypeOK'
      /\ job \in [Jobs -> Places]
      /\ files \in [Releases -> SUBSET Editions] /\ doomed \in [Jobs -> SUBSET Releases]
  BY UpdaterKeepsTypes DEF BundleInv, BundleTypeOK
<1>2. leftover \in Nat /\ faults \in Nat /\ leftover <= faults
  BY BundleIsFinite DEF BundleInv, DiskOK
<1>3. leftover' <= faults'
  BY <1>2 DEF UpdaterStep, Begin, Download, Name, Publish, Activate, ListReleases, RemoveFile,
              Complete, FailStaging, FailPublished, CrashJob, StagesAfterError, Fault
<1>4. ASSUME NEW Q \in SUBSET Pruners'
      PROVE  Cardinality(Kept(Q)') + leftover'
               <= Retained + Cardinality(Publishers' \ Q) + faults'
  <2>1. CASE Begin(j) \/ Download(j) \/ Name(j) \/ Activate(j) \/ RemoveFile(j)
    <3>1. /\ leftover' = leftover /\ faults' = faults /\ doomed' = doomed
          /\ Pruners' = Pruners /\ Publishers' = Publishers
      BY <1>1, <2>1 DEF Begin, Download, Name, Activate, RemoveFile, jobVars, Pruners, Publishers
    <3>2. ReleaseDirs' \subseteq ReleaseDirs
      <4>1. CASE RemoveFile(j)
        <5>1. \A n \in Releases : files'[n] \subseteq files[n]
          BY <1>1, <4>1 DEF RemoveFile
        <5> QED BY <5>1 DEF ReleaseDirs
      <4>2. CASE Begin(j) \/ Download(j) \/ Name(j) \/ Activate(j)
        BY <4>2 DEF Begin, Download, Name, Activate, ReleaseDirs
      <4> QED BY <2>1, <4>1, <4>2
    <3>3. Kept(Q)' \subseteq Kept(Q)
      BY <3>1, <3>2 DEF Kept
    <3> QED BY <1>1, <3>1, <3>3, SamePublishers
  <2>2. CASE FailStaging(j) \/ CrashJob(j)
    <3>1. /\ job[j] \in {"staging", "named"} /\ job' = [job EXCEPT ![j] = "idle"]
          /\ doomed' = [doomed EXCEPT ![j] = {}] /\ files' = files
          /\ \/ leftover' = leftover /\ faults' = faults
             \/ leftover' = leftover + 1 /\ faults' = faults + 1
      BY <2>2 DEF FailStaging, CrashJob, Ended, StagesAfterError, Fault
    <3>2. Pruners' = Pruners /\ Publishers' = Publishers /\ j \notin Q /\ Q \subseteq Jobs
      BY <1>1, <3>1 DEF Pruners, Publishers
    <3>3. Kept(Q)' \subseteq Kept(Q)
      BY <1>1, <3>1, <3>2 DEF Kept, ReleaseDirs
    <3> QED BY <1>1, <3>1, <3>2, <3>3, SamePublishers
  <2>3. CASE Publish(j)
    BY <1>1, <2>3, PublishKeepsDisk
  <2>4. CASE ListReleases(j)
    BY <1>1, <2>4, ListKeepsDisk
  <2>5. CASE Complete(j)
    <3>1. j \in Pruners /\ j \in Publishers
      BY <2>5 DEF Complete, Pruners, Publishers
    <3> QED BY <1>1, <2>5, <3>1, EndKeepsDisk DEF Complete
  <2>6. CASE FailPublished(j)
    <3>1. j \in Publishers
      BY <2>6 DEF FailPublished, Publishers
    <3> QED BY <1>1, <2>6, <3>1, EndKeepsDisk DEF FailPublished, Fault
  <2> QED BY <2>1, <2>2, <2>3, <2>4, <2>5, <2>6 DEF UpdaterStep
<1> QED BY <1>3, <1>4 DEF DiskOK

LEMMA UpdaterKeepsInv ==
  ASSUME BundleInv, NEW j \in Jobs, UpdaterStep(j)
  PROVE  BundleInv'
<1>1. BundleTypeOK' /\ NamesOK'
  BY UpdaterKeepsTypes, UpdaterKeepsNames DEF BundleInv
<1>2. FilesOK' /\ DoomedOK' /\ DiskOK'
  BY UpdaterKeepsReleases, UpdaterKeepsDisk
<1> QED BY <1>1, <1>2 DEF BundleInv

(* The pod does nothing to the directories; its crash counts as a fault. *)
LEMMA PodKeepsBundle ==
  ASSUME BundleInv, UNCHANGED <<files, current, used, jobVars, leftover>>,
         Fault \/ faults' = faults
  PROVE  BundleInv'
<1>1. BundleTypeOK' /\ faults' \in Nat /\ faults <= faults' /\ faults \in Nat /\ leftover \in Nat
  <2>1. BundleTypeOK /\ faults \in Nat /\ faults \in 0 .. MaxFaults /\ leftover \in Nat
    BY BundleIsFinite DEF BundleInv, BundleTypeOK
  <2>2. faults' \in 0 .. MaxFaults /\ (faults' = faults \/ faults' = faults + 1)
    BY <2>1, FaultIsCounted
  <2> QED BY <2>1, <2>2 DEF BundleTypeOK, jobVars
<1>2. NamesOK' /\ FilesOK' /\ DoomedOK'
  BY DEF BundleInv, NamesOK, NamedJobs, FilesOK, DoomedOK, ReleaseDirs, Overtaken,
         LaterThan, jobVars
<1>3. ASSUME NEW Q \in SUBSET Pruners'
      PROVE  Cardinality(Kept(Q)') + leftover'
               <= Retained + Cardinality(Publishers' \ Q) + faults'
  <2>1. Pruners' = Pruners /\ Publishers' = Publishers /\ Kept(Q)' = Kept(Q)
        /\ leftover' = leftover
    BY DEF Pruners, Publishers, Kept, ReleaseDirs, jobVars
  <2>2. Publishers \ Q \subseteq Jobs /\ Q \subseteq Jobs
    BY <2>1 DEF Publishers, Pruners
  <2>3. Cardinality(Publishers \ Q) \in Nat
    BY <2>2, BundleIsFinite DEF BundleInv
  <2>4. Cardinality(Publishers \ Q) + leftover' + faults
          <= Cardinality(Publishers' \ Q) + leftover + faults'
    BY <1>1, <2>1, <2>3
  <2> QED BY <1>1, <2>1, <2>2, <2>4, NoMoreKept
<1>4. leftover' <= faults'
  BY <1>1 DEF BundleInv, DiskOK
<1> QED BY <1>1, <1>2, <1>3, <1>4 DEF BundleInv, DiskOK

-----------------------------------------------------------------------------
(* A step of the Watch goroutine or of a lookup. *)

LEMMA ShortSequences ==
  ASSUME NEW s
  PROVE  s \in UNION {[1 .. k -> Releases] : k \in 0 .. N}
           <=> s \in Seq(Releases) /\ Len(s) <= N
<1>1. N \in Nat /\ EditionOrder \in Seq(Editions)
  BY MmdbReloadAssumption DEF MmdbReloadAssumption, N
<1>2. ASSUME s \in UNION {[1 .. k -> Releases] : k \in 0 .. N}
      PROVE  s \in Seq(Releases) /\ Len(s) <= N
  <2>1. PICK k \in 0 .. N : s \in [1 .. k -> Releases]
    BY <1>2
  <2> QED BY <1>1, <2>1
<1>3. ASSUME s \in Seq(Releases), Len(s) <= N
      PROVE  s \in UNION {[1 .. k -> Releases] : k \in 0 .. N}
  <2>1. Len(s) \in 0 .. N /\ s \in [1 .. Len(s) -> Releases]
    BY <1>1, <1>3
  <2> QED BY <2>1
<1> QED BY <1>2, <1>3

LEMMA EmptyIsShort == <<>> \in UNION {[1 .. k -> Releases] : k \in 0 .. N}
<1>1. N \in Nat
  BY MmdbReloadAssumption DEF MmdbReloadAssumption, N
<1>2. <<>> \in Seq(Releases) /\ Len(<<>>) = 0
  OBVIOUS
<1>3. Len(<<>>) <= N
  BY <1>1, <1>2
<1> QED BY <1>2, <1>3, ShortSequences

LEMMA AppendedStaysShort ==
  ASSUME NEW s \in Seq(Releases), Len(s) < N, NEW n \in Releases
  PROVE  /\ Append(s, n) \in UNION {[1 .. k -> Releases] : k \in 0 .. N}
         /\ Append(s, n) \in Seq(Releases) /\ DOMAIN Append(s, n) = 1 .. Len(s) + 1
         /\ Append(s, n)[Len(s) + 1] = n /\ \A i \in DOMAIN s : Append(s, n)[i] = s[i]
<1>1. N \in Nat /\ Len(s) \in Nat
  BY MmdbReloadAssumption DEF MmdbReloadAssumption, N
<1>2. Append(s, n) \in Seq(Releases) /\ Len(Append(s, n)) = Len(s) + 1
  OBVIOUS
<1>3. Len(Append(s, n)) <= N
  BY <1>1, <1>2
<1>4. Append(s, n) \in UNION {[1 .. k -> Releases] : k \in 0 .. N}
  BY <1>2, <1>3, ShortSequences
<1>5. DOMAIN Append(s, n) = 1 .. Len(s) + 1 /\ Append(s, n)[Len(s) + 1] = n
  BY <1>1
<1>6. ASSUME NEW i \in DOMAIN s PROVE Append(s, n)[i] = s[i]
  BY <1>1
<1> QED BY <1>2, <1>4, <1>5, <1>6

LEMMA ReaderFacts ==
  ASSUME TypeOK
  PROVE  /\ N \in Nat /\ EditionOrder \in [1 .. N -> Editions]
         /\ stamp \in Seq(Releases) /\ Len(stamp) \in Nat /\ Len(stamp) <= N
         /\ serving \in [Editions -> Releases \cup {NoRelease}]
         /\ open \subseteq Editions \X Releases
         /\ \A h \in Handlers :
              seen[h] \in Seq(Releases) /\ Len(seen[h]) \in Nat /\ Len(seen[h]) <= N
         /\ NoRelease \notin Releases
<1>1. N \in Nat /\ EditionOrder \in [1 .. N -> Editions]
  BY MmdbReloadAssumption DEF MmdbReloadAssumption, N
<1>2. stamp \in Seq(Releases) /\ Len(stamp) <= N
  BY ShortSequences DEF TypeOK
<1>3. \A h \in Handlers : seen[h] \in Seq(Releases) /\ Len(seen[h]) <= N
  BY ShortSequences DEF TypeOK
<1> QED BY <1>1, <1>2, <1>3 DEF TypeOK, NoRelease, Releases

(* A full snapshot says a release of every edition, a coherent one the same. *)
LEMMA FullStamp ==
  ASSUME TypeOK, Len(stamp) = N
  PROVE  /\ \A ed \in Editions : StampOf(ed) \in Releases
         /\ Coherent => \A e, d \in Editions : StampOf(e) = StampOf(d)
<1>1. stamp \in Seq(Releases) /\ DOMAIN stamp = 1 .. N /\ N \in Nat
      /\ DOMAIN EditionOrder = 1 .. N
  BY ReaderFacts
<1>2. ASSUME NEW ed \in Editions
      PROVE  \E i \in DOMAIN stamp : StampOf(ed) = stamp[i]
  <2>1. \E i \in DOMAIN stamp : EditionOrder[i] = ed
    BY <1>1, MmdbReloadAssumption DEF MmdbReloadAssumption
  <2> QED BY <2>1 DEF StampOf
<1>3. \A i \in DOMAIN stamp : stamp[i] \in Releases
  BY <1>1
<1> QED BY <1>2, <1>3 DEF Coherent

LEMMA GoToKeepsTypes ==
  ASSUME TypeOK, BundleTypeOK', NEW place \in {"waiting", "snapshot"}, GoTo(place),
         serving' \in [Editions -> Releases \cup {NoRelease}],
         open' \subseteq Editions \X Releases, inside' \subseteq Handlers,
         seen' \in [Handlers -> UNION {[1 .. k -> Releases] : k \in 0 .. N}]
  PROVE  TypeOK'
<1>1. stamp' \in UNION {[1 .. k -> Releases] : k \in 0 .. N}
  BY EmptyIsShort DEF GoTo
<1>2. attempt' \in 1 .. MaxAttempts
  BY MmdbReloadAssumption DEF MmdbReloadAssumption, GoTo
<1> QED BY <1>1, <1>2 DEF TypeOK, GoTo

LEMMA WatchKeepsTypes ==
  ASSUME TypeOK, StampOK, BundleTypeOK', WatchStep
  PROVE  TypeOK'
<1>0. /\ <<>> \in UNION {[1 .. k -> Releases] : k \in 0 .. N}
      /\ 1 \in 1 .. MaxAttempts /\ MaxAttempts \in Nat /\ attempt \in 1 .. MaxAttempts
  BY EmptyIsShort, MmdbReloadAssumption DEF MmdbReloadAssumption, TypeOK
<1>1. CASE Tick \/ StampError \/ ReloadDone
  BY <1>1, GoToKeepsTypes DEF Tick, StampError, ReloadDone, lookupVars, TypeOK
<1>2. CASE StampFile
  <2>1. current \in Releases
    BY <1>2 DEF StampFile, Present, TypeOK, BundleTypeOK
  <2>2. stamp' \in UNION {[1 .. k -> Releases] : k \in 0 .. N}
    BY <1>2, <2>1, ReaderFacts, AppendedStaysShort DEF StampFile
  <2> QED BY <1>2, <2>2 DEF StampFile, lookupVars, TypeOK
<1>3. CASE SnapshotDone
  BY <1>0, <1>3 DEF SnapshotDone, lookupVars, TypeOK
<1>4. CASE SnapshotRetry
  <2>1. attempt' \in 1 .. MaxAttempts /\ watch' \in {"waiting", "snapshot"}
    BY <1>0, <1>4 DEF SnapshotRetry, MayRetry
  <2> QED BY <1>0, <1>4, <2>1 DEF SnapshotRetry, lookupVars, TypeOK
<1>5. ASSUME NEW ed \in Editions, OpenFile(ed) PROVE TypeOK'
  <2>1. StampOf(ed) \in Releases
    BY <1>5, FullStamp DEF OpenFile, StampOK
  <2>2. open' \subseteq Editions \X Releases
    BY <1>5, <2>1, ReaderFacts DEF OpenFile
  <2> QED BY <1>5, <2>2 DEF OpenFile, lookupVars, TypeOK
<1>6. ASSUME NEW ed \in Editions, OpenError(ed) PROVE TypeOK'
  BY <1>6, GoToKeepsTypes DEF OpenError, AfterOpenError, lookupVars, TypeOK
<1>7. CASE Swap
  <2>1. \A ed \in Editions : StampOf(ed) \in Releases
    BY <1>7, FullStamp DEF Swap, StampOK
  <2>2. serving' \in [Editions -> Releases \cup {NoRelease}]
    BY <1>7, <2>1 DEF Swap
  <2> QED BY <1>7, <2>2 DEF Swap, lookupVars, TypeOK
<1>8. CASE CloseOld
  BY <1>8 DEF CloseOld, lookupVars, TypeOK
<1> QED BY <1>1, <1>2, <1>3, <1>4, <1>5, <1>6, <1>7, <1>8 DEF WatchStep

(* What is open, in each place the Watch goroutine comes to. *)
LEMMA WatchKeepsOpen ==
  ASSUME ReaderInv, WatchStep
  PROVE  OpenOK' /\ StampOK'
<1>0. /\ TypeOK /\ OpenOK /\ StampOK
      /\ serving \in [Editions -> Releases \cup {NoRelease}] /\ NoRelease \notin Releases
      /\ watch \in {"waiting", "snapshot", "opening", "locking", "closing"}
  BY ReaderFacts DEF ReaderInv, TypeOK
<1>1. ASSUME serving' = serving, open' = Served, watch' \in {"waiting", "snapshot"}
      PROVE  OpenOK' /\ StampOK'
  <2>1. Served' = Served
    BY <1>1 DEF Served
  <2> QED BY <1>1, <2>1 DEF OpenOK, StampOK
<1>2. CASE Tick \/ StampFile \/ StampError \/ SnapshotRetry
  BY <1>0, <1>1, <1>2 DEF Tick, StampFile, StampError, SnapshotRetry, GoTo, OpenOK
<1>3. CASE SnapshotDone
  <2>1. CASE watch' = "waiting"
    BY <1>0, <1>1, <1>3, <2>1 DEF SnapshotDone, OpenOK
  <2>2. CASE watch' # "waiting"
    <3>1. watch' = "opening" /\ stamp' = stamp /\ Len(stamp) = N /\ Coherent
          /\ serving' = serving /\ open' = Served
      BY <1>0, <1>3, <2>2 DEF SnapshotDone, OpenOK
    <3>2. Served' = Served /\ Coherent'
      BY <3>1 DEF Served, Coherent
    <3> QED BY <3>1, <3>2 DEF OpenOK, StampOK
  <2> QED BY <2>1, <2>2
<1>4. ASSUME NEW ed \in Editions, OpenFile(ed)
      PROVE  OpenOK' /\ StampOK'
  <2>1. /\ watch = "opening" /\ UNCHANGED <<serving, stamp>>
        /\ open' = open \cup {<<ed, StampOf(ed)>>} /\ ed \in Changed
        /\ watch' = IF Fresh \subseteq open' THEN "locking" ELSE "opening"
    BY <1>4 DEF OpenFile, ToOpen
  <2>2. <<ed, StampOf(ed)>> \in Fresh
    BY <2>1 DEF Fresh
  <2>3. Served' = Served /\ Fresh' = Fresh /\ Coherent' = Coherent /\ Len(stamp') = Len(stamp)
    BY <2>1 DEF Served, Fresh, Changed, StampOf, Coherent
  <2>4. Served \subseteq open' /\ open' \subseteq Served \cup Fresh
    BY <1>0, <2>1, <2>2 DEF OpenOK
  <2>5. OpenOK'
    BY <2>1, <2>3, <2>4 DEF OpenOK
  <2>6. StampOK'
    BY <1>0, <2>1, <2>3 DEF StampOK
  <2> QED BY <2>5, <2>6
<1>5. ASSUME NEW ed \in Editions, OpenError(ed)
      PROVE  OpenOK' /\ StampOK'
  <2>1. Served \cap Fresh = {}
    BY DEF Served, Fresh, Changed
  <2>2. open' = Served
    BY <1>0, <1>5, <2>1 DEF OpenError, AfterOpenError, OpenOK
  <2> QED BY <1>1, <1>5, <2>2 DEF OpenError, GoTo
<1>6. CASE Swap
  <2>1. /\ watch = "locking" /\ watch' = "closing" /\ open' = open
        /\ serving' = [ed \in Editions |-> StampOf(ed)]
    BY <1>6 DEF Swap
  <2>2. \A ed \in Editions : StampOf(ed) \in Releases
    BY <1>0, <2>1, FullStamp DEF StampOK
  <2>3. Loaded'
    BY <1>0, <2>1, <2>2 DEF Loaded
  <2>4. ASSUME NEW ed \in Editions PROVE <<ed, serving'[ed]>> \in open'
    <3>1. CASE ed \in Changed
      BY <1>0, <2>1, <3>1 DEF OpenOK, Fresh
    <3>2. CASE ed \notin Changed
      <4>1. serving'[ed] = serving[ed] /\ serving[ed] # NoRelease
        BY <1>0, <2>1, <2>2, <3>2 DEF Changed
      <4> QED BY <1>0, <2>1, <4>1 DEF OpenOK, Served
    <3> QED BY <3>1, <3>2
  <2> QED BY <2>1, <2>3, <2>4 DEF OpenOK, StampOK, Served
<1>7. CASE CloseOld
  <2>1. /\ watch = "closing" /\ UNCHANGED <<serving, watch>>
        /\ \E old \in open \ {<<ed, serving[ed]>> : ed \in Editions} : open' = open \ {old}
    BY <1>7 DEF CloseOld
  <2>2. Served \subseteq open' /\ Served' = Served /\ Loaded'
    BY <1>0, <2>1 DEF OpenOK, Served, Loaded
  <2> QED BY <2>1, <2>2 DEF OpenOK, StampOK
<1>8. CASE ReloadDone
  <2>1. open = Served
    BY <1>0, <1>8 DEF ReloadDone, OpenOK, Loaded, Served
  <2> QED BY <1>1, <1>8, <2>1 DEF ReloadDone, GoTo
<1> QED BY <1>2, <1>3, <1>4, <1>5, <1>6, <1>7, <1>8 DEF WatchStep

LEMMA WatchKeepsInv ==
  ASSUME ReaderInv, BundleTypeOK', WatchStep
  PROVE  ReaderInv'
<1>1. TypeOK' /\ OpenOK' /\ StampOK'
  BY WatchKeepsTypes, WatchKeepsOpen DEF ReaderInv
<1>2. UNCHANGED lookupVars
  BY DEF WatchStep, Tick, StampFile, StampError, SnapshotDone, SnapshotRetry, OpenFile,
         OpenError, Swap, CloseOld, ReloadDone
<1>3. CASE Swap
  <2>1. /\ serving' = [ed \in Editions |-> StampOf(ed)] /\ inside = {}
        /\ Len(stamp) = N /\ Coherent /\ TypeOK
    BY <1>3 DEF Swap, LockFree, ReaderInv, StampOK
  <2>2. OneGeneration'
    BY <2>1, FullStamp DEF OneGeneration
  <2>3. \A h \in Handlers : LookupOK(h)'
    BY <1>2, <2>1 DEF ReaderInv, LookupOK, lookupVars
  <2> QED BY <1>1, <2>2, <2>3 DEF ReaderInv
<1>4. CASE ~ Swap
  <2>1. serving' = serving
    BY <1>4 DEF WatchStep, Tick, StampFile, StampError, SnapshotDone, SnapshotRetry, OpenFile,
                OpenError, CloseOld, ReloadDone, GoTo
  <2>2. OneGeneration' /\ \A h \in Handlers : LookupOK(h)'
    BY <1>2, <2>1 DEF ReaderInv, OneGeneration, LookupOK, Loaded, lookupVars
  <2> QED BY <1>1, <2>2 DEF ReaderInv
<1> QED BY <1>3, <1>4

LEMMA LookupsKeepInv ==
  ASSUME ReaderInv, NEW h \in Handlers, RLock(h) \/ LookupStep(h)
  PROVE  ReaderInv'
<1>1. /\ UNCHANGED <<bundleVars, readerVars>> /\ TypeOK /\ OpenOK /\ StampOK /\ OneGeneration
      /\ inside \subseteq Handlers
      /\ seen \in [Handlers -> UNION {[1 .. k -> Releases] : k \in 0 .. N}]
  BY DEF RLock, LookupStep, ReadNext, RUnlock, ReaderInv, TypeOK
<1>2. ASSUME inside' \subseteq Handlers,
             seen' \in [Handlers -> UNION {[1 .. k -> Releases] : k \in 0 .. N}]
      PROVE  TypeOK'
  BY <1>1, <1>2 DEF TypeOK, BundleTypeOK, bundleVars, jobVars, readerVars
<1>3. OpenOK' /\ StampOK' /\ OneGeneration' /\ serving' = serving /\ (Loaded' <=> Loaded)
  BY <1>1 DEF OpenOK, StampOK, OneGeneration, Served, Fresh, Changed, StampOf, Coherent, Loaded,
              readerVars
<1>4. CASE RLock(h)
  <2>1. TypeOK'
    BY <1>1, <1>2, <1>4 DEF RLock
  <2>2. \A g \in Handlers : LookupOK(g)'
    BY <1>3, <1>4, ReaderFacts DEF RLock, ReaderInv, LookupOK
  <2> QED BY <1>3, <2>1, <2>2 DEF ReaderInv
<1>5. CASE ReadNext(h)
  <2>1. /\ h \in inside /\ inside' = inside /\ Len(seen[h]) < N /\ seen[h] \in Seq(Releases)
        /\ Len(seen[h]) \in Nat /\ N \in Nat /\ EditionOrder \in [1 .. N -> Editions]
        /\ Loaded /\ \A i \in DOMAIN seen[h] : seen[h][i] = serving[EditionOrder[i]]
    BY <1>1, <1>5, ReaderFacts DEF ReadNext, ReaderInv, LookupOK
  <2> DEFINE n == serving[EditionOrder[Len(seen[h]) + 1]]
  <2>2. EditionOrder[Len(seen[h]) + 1] \in Editions
    BY <2>1
  <2>3. n \in Releases
    BY <1>1, <2>1, <2>2, ReaderFacts DEF Loaded
  <2>4. seen' = [seen EXCEPT ![h] = Append(seen[h], n)]
    BY <1>5 DEF ReadNext
  <2> HIDE DEF n
  <2>5. /\ Append(seen[h], n) \in UNION {[1 .. k -> Releases] : k \in 0 .. N}
        /\ DOMAIN Append(seen[h], n) = 1 .. Len(seen[h]) + 1
        /\ Append(seen[h], n)[Len(seen[h]) + 1] = n
        /\ \A i \in DOMAIN seen[h] : Append(seen[h], n)[i] = seen[h][i]
    BY <2>1, <2>3, AppendedStaysShort
  <2>6. TypeOK'
    BY <1>1, <1>2, <2>1, <2>4, <2>5
  <2>7. \A i \in DOMAIN seen'[h] : seen'[h][i] = serving[EditionOrder[i]]
    <3>1. seen'[h] = Append(seen[h], n)
      BY <1>1, <2>4
    <3>2. ASSUME NEW i \in 1 .. Len(seen[h]) + 1
          PROVE  Append(seen[h], n)[i] = serving[EditionOrder[i]]
      <4>1. CASE i = Len(seen[h]) + 1
        BY <2>5, <4>1 DEF n
      <4>2. CASE i # Len(seen[h]) + 1
        <5>1. i \in DOMAIN seen[h]
          BY <2>1, <4>2
        <5> QED BY <2>1, <2>5, <5>1
      <4> QED BY <4>1, <4>2
    <3> QED BY <2>5, <3>1, <3>2
  <2>8. \A g \in Handlers : LookupOK(g)'
    BY <1>1, <1>3, <2>1, <2>4, <2>7 DEF ReaderInv, LookupOK
  <2> QED BY <1>3, <2>6, <2>8 DEF ReaderInv
<1>6. CASE RUnlock(h)
  <2>1. /\ inside' = inside \ {h} /\ seen' = [seen EXCEPT ![h] = <<>>]
    BY <1>6 DEF RUnlock
  <2>2. <<>> \in UNION {[1 .. k -> Releases] : k \in 0 .. N}
    BY EmptyIsShort
  <2>3. TypeOK'
    BY <1>1, <1>2, <2>1, <2>2
  <2>4. \A g \in Handlers : LookupOK(g)'
    BY <1>1, <1>3, <2>1 DEF ReaderInv, LookupOK
  <2> QED BY <1>3, <2>3, <2>4 DEF ReaderInv
<1> QED BY <1>4, <1>5, <1>6 DEF LookupStep

-----------------------------------------------------------------------------
(* The specification. *)

LEMMA InitHasInv == Init => ReloadInv
<1> SUFFICES ASSUME Init PROVE ReloadInv
  OBVIOUS
<1>1. BundleTypeOK
  BY MmdbBundleAssumption
     DEF Init, BundleInit, BundleTypeOK, MmdbBundleAssumption, NoRelease, Releases
<1>2. NamesOK /\ FilesOK /\ DoomedOK
  BY DEF Init, BundleInit, NamesOK, NamedJobs, FilesOK, DoomedOK, ReleaseDirs
<1>3. DiskOK
  <2>1. leftover = 0 /\ faults = 0 /\ ReleaseDirs = {} /\ Retained \in Nat
    BY MmdbBundleAssumption DEF Init, BundleInit, ReleaseDirs, MmdbBundleAssumption
  <2>2. ASSUME NEW Q \in SUBSET Pruners
        PROVE  Cardinality(Kept(Q)) + leftover
                 <= Retained + Cardinality(Publishers \ Q) + faults
    <3>1. Kept(Q) = {} /\ Publishers \ Q \subseteq Jobs
      BY <2>1 DEF Kept, Publishers
    <3>2. Cardinality(Kept(Q)) = 0 /\ Cardinality(Publishers \ Q) \in Nat
      BY <1>1, <3>1, FS_EmptySet, BundleIsFinite
    <3> QED BY <2>1, <3>2
  <2> QED BY <2>1, <2>2 DEF DiskOK
<1>4. TypeOK
  BY <1>1, EmptyIsShort, MmdbReloadAssumption DEF Init, TypeOK, MmdbReloadAssumption
<1>5. OpenOK /\ StampOK /\ OneGeneration /\ \A h \in Handlers : LookupOK(h)
  BY DEF Init, OpenOK, StampOK, OneGeneration, LookupOK, Served
<1> QED BY <1>1, <1>2, <1>3, <1>4, <1>5 DEF ReloadInv, BundleInv, ReaderInv

LEMMA CrashKeepsInv ==
  ASSUME ReloadInv, CrashPod
  PROVE  ReloadInv'
<1>1. BundleInv'
  BY PodKeepsBundle DEF ReloadInv, CrashPod
<1>2. TypeOK'
  BY <1>1, EmptyIsShort, GoToKeepsTypes DEF CrashPod, ReloadInv, ReaderInv, BundleInv
<1>3. OpenOK' /\ StampOK' /\ OneGeneration' /\ \A h \in Handlers : LookupOK(h)'
  BY DEF CrashPod, GoTo, OpenOK, StampOK, OneGeneration, LookupOK, Served
<1> QED BY <1>1, <1>2, <1>3 DEF ReloadInv, ReaderInv

LEMMA SameReadersKeepInv ==
  ASSUME ReaderInv, BundleTypeOK', UNCHANGED <<readerVars, lookupVars>>
  PROVE  ReaderInv'
<1>1. /\ serving' = serving /\ open' = open /\ watch' = watch /\ attempt' = attempt
      /\ stamp' = stamp /\ inside' = inside /\ seen' = seen
  BY DEF readerVars, lookupVars
<1>2. TypeOK'
  BY <1>1 DEF ReaderInv, TypeOK
<1>3. Served' = Served /\ Fresh' = Fresh /\ (Coherent' <=> Coherent) /\ (Loaded' <=> Loaded)
  BY <1>1 DEF Served, Fresh, Changed, StampOf, Coherent, Loaded
<1>4. OpenOK' /\ StampOK'
  BY <1>1, <1>3 DEF ReaderInv, OpenOK, StampOK
<1>5. OneGeneration' /\ \A h \in Handlers : LookupOK(h)'
  BY <1>1, <1>3 DEF ReaderInv, OneGeneration, LookupOK
<1> QED BY <1>2, <1>4, <1>5 DEF ReaderInv

LEMMA NextKeepsInv == ReloadInv /\ [Next]_vars => ReloadInv'
<1> SUFFICES ASSUME ReloadInv, [Next]_vars PROVE ReloadInv'
  OBVIOUS
<1>1. ASSUME NEW j \in Jobs, UpdaterStep(j), UNCHANGED <<readerVars, lookupVars>>
      PROVE  ReloadInv'
  <2>1. BundleInv'
    BY <1>1, UpdaterKeepsInv DEF ReloadInv
  <2>2. ReaderInv'
    BY <1>1, <2>1, SameReadersKeepInv DEF ReloadInv, BundleInv
  <2> QED BY <2>1, <2>2 DEF ReloadInv
<1>2. CASE WatchStep
  <2>1. UNCHANGED bundleVars
    BY <1>2 DEF WatchStep, Tick, StampFile, StampError, SnapshotDone, SnapshotRetry, OpenFile,
                OpenError, Swap, CloseOld, ReloadDone
  <2>2. BundleInv'
    BY <2>1, PodKeepsBundle DEF ReloadInv, bundleVars
  <2> QED BY <1>2, <2>2, WatchKeepsInv DEF ReloadInv, BundleInv
<1>3. ASSUME NEW h \in Handlers, RLock(h) \/ LookupStep(h)
      PROVE  ReloadInv'
  <2>1. UNCHANGED bundleVars
    BY <1>3 DEF RLock, LookupStep, ReadNext, RUnlock
  <2>2. BundleInv'
    BY <2>1, PodKeepsBundle DEF ReloadInv, bundleVars
  <2> QED BY <1>3, <2>2, LookupsKeepInv DEF ReloadInv
<1>4. CASE CrashPod
  BY <1>4, CrashKeepsInv
<1>5. CASE UNCHANGED vars
  <2>1. BundleInv'
    BY <1>5, PodKeepsBundle DEF ReloadInv, bundleVars, vars
  <2>2. ReaderInv'
    BY <1>5, <2>1, SameReadersKeepInv DEF ReloadInv, BundleInv, vars
  <2> QED BY <2>1, <2>2 DEF ReloadInv
<1> QED BY <1>1, <1>2, <1>3, <1>4, <1>5 DEF Next

(* The invariant holds of the updaters beside a pod. *)
THEOREM ReloadInvHolds == Spec => []ReloadInv
<1> QED BY InitHasInv, NextKeepsInv, PTL DEF Spec

(* Directories, jobs, readers and lookups keep their types. *)
THEOREM TypeCorrect == Spec => []TypeOK
<1>1. ReloadInv => TypeOK
  BY DEF ReloadInv, ReaderInv
<1> QED BY <1>1, ReloadInvHolds, PTL

(* The release that `current` names is complete until Retained releases    *)
(* with later names have been published: pruning, by however many jobs and *)
(* from however old a list, touches no other.                              *)
THEOREM ActiveGenerationIsComplete == Spec => []RecentCurrentIsComplete
<1>1. ReloadInv => RecentCurrentIsComplete
  BY DEF ReloadInv, BundleInv, NamesOK, FilesOK, Overtaken, LaterThan, RecentCurrentIsComplete
<1> QED BY <1>1, ReloadInvHolds, PTL

(* Apart from one directory for each running job, the releases and the     *)
(* staging directories exceed the retained number only by what crashes and *)
(* failures after publication have left.                                   *)
THEOREM DiskStaysBounded == Spec => []DiskUseIsBounded
<1>1. ASSUME ReloadInv PROVE DiskUseIsBounded
  <2>1. BundleInv /\ DiskOK
    BY <1>1 DEF ReloadInv, BundleInv
  <2>2. /\ Stagers \subseteq Jobs /\ Publishers \subseteq Jobs /\ ReleaseDirs \subseteq Releases
        /\ Stagers \cap Publishers = {} /\ Publishers \ {} = Publishers
        /\ Kept({}) = ReleaseDirs
    BY DEF Stagers, Publishers, ReleaseDirs, Kept
  <2>3. Stagers \subseteq Jobs \ Publishers /\ Jobs \ Publishers \subseteq Jobs
    BY <2>2
  <2>4. /\ Cardinality(Stagers) \in Nat /\ Cardinality(Publishers) \in Nat
        /\ IsFiniteSet(Jobs) /\ Cardinality(Jobs) \in Nat
        /\ IsFiniteSet(Jobs \ Publishers) /\ Cardinality(Jobs \ Publishers) \in Nat
        /\ Cardinality(ReleaseDirs) \in Nat /\ leftover \in Nat /\ faults \in Nat /\ Retained \in Nat
    BY <2>1, <2>2, <2>3, BundleIsFinite DEF BundleInv
  <2>5. Cardinality(Stagers) <= Cardinality(Jobs \ Publishers)
    BY <2>3, <2>4, FS_Subset
  <2>6. Cardinality(Jobs \ Publishers) = Cardinality(Jobs) - Cardinality(Publishers)
    <3>1. Jobs \cap Publishers = Publishers
      BY <2>2
    <3>2. Cardinality(Jobs \ Publishers)
            = Cardinality(Jobs) - Cardinality(Jobs \cap Publishers)
      BY <2>4, FS_Difference
    <3> QED BY <3>1, <3>2
  <2>7. Cardinality(Kept({})) + leftover <= Retained + Cardinality(Publishers \ {}) + faults
    BY <2>1 DEF DiskOK
  <2>8. Cardinality(ReleaseDirs) + leftover <= Retained + Cardinality(Publishers) + faults
    BY <2>2, <2>7
  <2>9. Cardinality(ReleaseDirs) + leftover + Cardinality(Stagers)
          <= Retained + Cardinality(Jobs) + faults
    BY <2>4, <2>5, <2>6, <2>8
  <2> QED BY <2>9 DEF DiskUseIsBounded, Stagers
<1> QED BY <1>1, ReloadInvHolds, PTL

(* No answer combines editions of two generations. *)
THEOREM AnswersDoNotMix == Spec => []AnswersFromOneGeneration
<1>1. ASSUME ReloadInv PROVE AnswersFromOneGeneration
  <2> SUFFICES ASSUME NEW h \in inside, NEW i \in DOMAIN seen[h], NEW k \in DOMAIN seen[h]
               PROVE  seen[h][i] = seen[h][k]
    BY DEF AnswersFromOneGeneration
  <2>1. h \in Handlers /\ TypeOK /\ OneGeneration /\ LookupOK(h)
    BY <1>1 DEF ReloadInv, ReaderInv, TypeOK
  <2>2. EditionOrder[i] \in Editions /\ EditionOrder[k] \in Editions
    BY <2>1, ReaderFacts
  <2> QED BY <2>1, <2>2 DEF OneGeneration, LookupOK
<1> QED BY <1>1, ReloadInvHolds, PTL

(* No lookup holds, or is going to use, a reader that has been closed. *)
THEOREM LookupsUseNoClosedReader == Spec => []LookupsUseOpenReaders
<1>1. ASSUME ReloadInv PROVE LookupsUseOpenReaders
  <2> SUFFICES ASSUME NEW h \in inside
               PROVE  /\ \A ed \in Editions : <<ed, serving[ed]>> \in open
                      /\ \A i \in DOMAIN seen[h] : <<EditionOrder[i], seen[h][i]>> \in open
    BY DEF LookupsUseOpenReaders
  <2>1. h \in Handlers /\ TypeOK /\ LookupOK(h) /\ Loaded /\ OpenOK
        /\ watch \in {"waiting", "snapshot", "opening", "locking", "closing"}
    BY <1>1 DEF ReloadInv, ReaderInv, TypeOK, LookupOK
  <2>2. Served \subseteq open
    BY <2>1 DEF OpenOK
  <2>3. \A ed \in Editions : <<ed, serving[ed]>> \in open
    BY <2>1, <2>2 DEF Served, Loaded
  <2>4. \A i \in DOMAIN seen[h] : EditionOrder[i] \in Editions
    BY <2>1, ReaderFacts
  <2> QED BY <2>1, <2>3, <2>4 DEF LookupOK
<1> QED BY <1>1, ReloadInvHolds, PTL

(* Between two reloads exactly the readers in service are open. *)
THEOREM NoReaderLeaks == Spec => []OnlyServedReadersOpen
<1>1. ReloadInv => OnlyServedReadersOpen
  BY DEF ReloadInv, ReaderInv, OpenOK, Served, OnlyServedReadersOpen
<1> QED BY <1>1, ReloadInvHolds, PTL

-----------------------------------------------------------------------------
(* When the promise of the documentation holds: with one updater at a time *)
(* and a clock that does not step back, crashes included, the job has put  *)
(* the latest of all releases into service when it reads the list, so that *)
(* pruning cannot find it among the old ones.                              *)
OneUpdater == \A i, j \in Jobs : i = j

SoleInv ==
  /\ \A j \in Jobs :
       /\ job[j] = "named" => \A n \in used : n < release[j]
       /\ job[j] = "published" => /\ release[j] \in used /\ files[release[j]] = Editions
                                  /\ \A n \in used : n <= release[j]
       /\ job[j] = "activated" => \A n \in used : n <= current
       /\ job[j] = "pruning" => current \notin doomed[j]
  /\ CurrentIsComplete

LEMMA PublishKeepsSole ==
  ASSUME BundleInv, SoleInv, OneUpdater, NEW j \in Jobs, Publish(j)
  PROVE  SoleInv'
<1>1. /\ job[j] = "named" /\ release' = release /\ UNCHANGED <<current, doomed>>
      /\ files' = [files EXCEPT ![release[j]] = stage[j]]
      /\ used' = used \cup {release[j]}
      /\ job' = [job EXCEPT ![j] = "published"]
  BY DEF Publish
<1>2. /\ files \in [Releases -> SUBSET Editions] /\ used \subseteq Releases
      /\ job \in [Jobs -> Places] /\ used \subseteq Nat /\ Releases \subseteq Nat
      /\ current # NoRelease => current \in used
  BY BundleIsFinite DEF BundleInv, BundleTypeOK, NamesOK, Releases
<1>3. release[j] \in Releases \ used /\ stage[j] = Editions
  BY <1>1 DEF BundleInv, NamesOK, NamedJobs
<1>4. \A m \in used' : m <= release[j]
  <2>1. \A m \in used : m < release[j]
    BY <1>1 DEF SoleInv
  <2>2. ASSUME NEW m \in used' PROVE m <= release[j]
    <3>1. m \in Nat /\ release[j] \in Nat /\ (m \in used \/ m = release[j])
      BY <1>1, <1>2, <1>3
    <3> QED BY <2>1, <3>1
  <2> QED BY <2>2
<1>5. job'[j] = "published" /\ files'[release[j]] = Editions
  BY <1>1, <1>2, <1>3
<1>6. CurrentIsComplete'
  BY <1>1, <1>2, <1>3 DEF SoleInv, CurrentIsComplete
<1>7. \A i \in Jobs : i = j
  BY DEF OneUpdater
<1> QED BY <1>1, <1>4, <1>5, <1>6, <1>7 DEF SoleInv

LEMMA UpdaterKeepsSole ==
  ASSUME BundleInv, SoleInv, ~ ClockStepsBack, OneUpdater, NEW j \in Jobs, UpdaterStep(j)
  PROVE  SoleInv'
<1>1. /\ files \in [Releases -> SUBSET Editions] /\ used \subseteq Releases
      /\ job \in [Jobs -> Places]
      /\ release \in [Jobs -> Releases \cup {NoRelease}]
      /\ doomed \in [Jobs -> SUBSET Releases]
      /\ current # NoRelease => current \in used
      /\ ReleaseDirs \subseteq used /\ NoRelease \notin Releases
  BY DEF BundleInv, BundleTypeOK, NamesOK, NoRelease, Releases
<1>2. \A i \in Jobs : i = j
  BY DEF OneUpdater
<1>3. CASE Publish(j)
  BY <1>3, PublishKeepsSole
<1>4. CASE Begin(j) \/ Download(j)
  BY <1>1, <1>2, <1>4 DEF Begin, Download, SoleInv, CurrentIsComplete
<1>5. CASE Activate(j)
  <2>1. /\ job[j] = "published" /\ job' = [job EXCEPT ![j] = "activated"]
        /\ current' = release[j] /\ UNCHANGED <<files, used, release, doomed>>
    BY <1>5 DEF Activate
  <2> QED BY <1>1, <1>2, <2>1 DEF SoleInv, CurrentIsComplete
<1>6. CASE ListReleases(j)
  <2>1. /\ job[j] = "activated" /\ job' = [job EXCEPT ![j] = "pruning"]
        /\ doomed' = [doomed EXCEPT ![j] = Beyond(ReleaseDirs)]
        /\ UNCHANGED <<files, used, release, current>>
    BY <1>6 DEF ListReleases
  <2>2. current \notin Beyond(ReleaseDirs)
    <3> SUFFICES ASSUME current \in ReleaseDirs,
                        Cardinality({m \in ReleaseDirs : m > current}) >= Retained
                 PROVE  FALSE
      BY DEF Beyond
    <3>1. {m \in ReleaseDirs : m > current} = {}
      BY <1>1, <2>1, BundleIsFinite DEF SoleInv, BundleInv
    <3>2. Cardinality({m \in ReleaseDirs : m > current}) = 0
      BY <3>1, FS_EmptySet
    <3> QED BY <3>2, BundleIsFinite DEF BundleInv
  <2> QED BY <1>1, <1>2, <2>1, <2>2 DEF SoleInv, CurrentIsComplete
<1>7. CASE RemoveFile(j)
  <2>1. PICK n \in ToRemove(j), ed \in Editions : files' = [files EXCEPT ![n] = @ \ {ed}]
    <3>1. PICK n \in ToRemove(j) :
                 \E ed \in files[n] : files' = [files EXCEPT ![n] = @ \ {ed}]
      BY <1>7 DEF RemoveFile
    <3>2. n \in Releases
      BY DEF ToRemove, ReleaseDirs
    <3> QED BY <1>1, <3>1, <3>2
  <2>2. job[j] = "pruning" /\ UNCHANGED <<current, used, job, release, doomed>>
    BY <1>7 DEF RemoveFile, jobVars
  <2>3. n # current
    BY <2>2 DEF ToRemove, SoleInv
  <2> QED BY <1>1, <1>2, <2>1, <2>2, <2>3 DEF SoleInv, CurrentIsComplete
<1>8. CASE Ended(j)
  BY <1>1, <1>2, <1>8 DEF Ended, SoleInv, CurrentIsComplete
<1>9. CASE Name(j)
  <2>1. PICK n \in Releases : Fresher(n) /\ release' = [release EXCEPT ![j] = n]
    BY <1>9 DEF Name
  <2>2. \A m \in used : m < n
    BY <2>1 DEF Fresher, Given
  <2>3. job' = [job EXCEPT ![j] = "named"] /\ UNCHANGED <<files, current, used, doomed>>
    BY <1>9 DEF Name
  <2> QED BY <1>1, <1>2, <2>1, <2>2, <2>3 DEF SoleInv, CurrentIsComplete
<1> QED
  BY <1>3, <1>4, <1>5, <1>6, <1>7, <1>8, <1>9
     DEF UpdaterStep, Complete, FailStaging, FailPublished, CrashJob

LEMMA NextKeepsSole ==
  ASSUME BundleInv, SoleInv, ~ ClockStepsBack, OneUpdater, [Next]_vars
  PROVE  SoleInv'
<1>1. ASSUME UNCHANGED <<files, current, used, jobVars>> PROVE SoleInv'
  BY <1>1 DEF jobVars, SoleInv, CurrentIsComplete
<1>2. ASSUME NEW j \in Jobs, UpdaterStep(j) PROVE SoleInv'
  BY <1>2, UpdaterKeepsSole
<1>3. CASE WatchStep
  BY <1>1, <1>3 DEF WatchStep, Tick, StampFile, StampError, SnapshotDone, SnapshotRetry,
                    OpenFile, OpenError, Swap, CloseOld, ReloadDone, bundleVars
<1>4. ASSUME NEW h \in Handlers, RLock(h) \/ LookupStep(h) PROVE SoleInv'
  BY <1>1, <1>4 DEF RLock, LookupStep, ReadNext, RUnlock, bundleVars
<1>5. CASE CrashPod \/ UNCHANGED vars
  BY <1>1, <1>5 DEF CrashPod, vars, bundleVars
<1> QED BY <1>2, <1>3, <1>4, <1>5 DEF Next

(* "Readers see old complete generation OR new complete generation"        *)
(* (docs/ARCHITECTURE.md, section 12), for every reader that follows       *)
(* `current`: under these two conditions, which updateBundle does not      *)
(* ensure itself.                                                          *)
THEOREM OneUpdaterKeepsCurrentComplete ==
  ASSUME ~ ClockStepsBack, OneUpdater
  PROVE  Spec => []CurrentIsComplete
<1>1. Init => SoleInv
  BY DEF Init, BundleInit, SoleInv, CurrentIsComplete
<1>2. ReloadInv /\ SoleInv /\ [Next]_vars => SoleInv'
  BY NextKeepsSole DEF ReloadInv
<1>3. SoleInv => CurrentIsComplete
  BY DEF SoleInv
<1> QED BY <1>1, <1>2, <1>3, ReloadInvHolds, PTL DEF Spec
=============================================================================

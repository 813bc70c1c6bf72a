-------------------------- MODULE ApiProcessProofs --------------------------
(***************************************************************************)
(* The safety of ApiProcess for any number of pods and requests, and any   *)
(* number of faults and edits by hand: ApiInv is inductive.  RaceInv adds  *)
(* what a pod that has lost a race may rely on.                            *)
(***************************************************************************)
EXTENDS ApiProcess, TLAPS

(* What a pod is about to write back may be repaired in place. *)
ReadOK ==
  \A p \in Pods : stage[p] = "update" => read[p] \in Streams /\ Compatible(read[p])

(* Nothing is closed before the deferred calls run. *)
Running == {"serving", "api shutdown", "admin shutdown", "close store"}
OpenOK == \A p \in Pods : stage[p] \in Running => open[p] = Resources

(* A handler runs in a pod that serves or shuts down, and beyond the        *)
(* Shutdown of its listener only when the deadline is over.                 *)
Closed == {"close store", "close publisher", "close readers", "exit"}
HandlerOK(q) ==
  /\ stage[pod[q]] \notin StartStages \cup {"down"}
  /\ stage[pod[q]] = "admin shutdown" => ListenerOf[q] = "admin" \/ pod[q] \in expired
  /\ stage[pod[q]] \in Closed => pod[q] \in expired
HandlersOK == \A q \in Requests : pod[q] # Nowhere => HandlerOK(q)

ApiInv == TypeOK /\ ReadOK /\ OpenOK /\ HandlersOK /\ VouchedStreamIsSafe

StageNames == {"down", "serving"} \cup StartStages \cup ShutdownStages

-----------------------------------------------------------------------------
LEMMA AbsentIsNoStream == Absent \notin Streams /\ Provisioned \in Streams
  BY DEF Absent, Provisioned, Setting, Streams

(* What is repaired has every setting that is asked for, and what needs no  *)
(* repair has them already.                                                 *)
LEMMA ReconciledIsSafe ==
  ASSUME NEW s \in Streams, Compatible(s)
  PROVE  Reconciled(s) = Provisioned
<1>1. /\ Reconciled(s) \in Streams
      /\ Reconciled(s).storage = "file"
      /\ Reconciled(s).retention = "work queue"
      /\ Reconciled(s).limits = "safe"
  BY DEF Streams, Compatible, Reconciled
<1>2. ASSUME NEW t \in Streams PROVE t = Setting(t.storage, t.retention, t.limits)
  <2>1. t \in [storage : {"file", "memory"}, retention : {"work queue", "limits"},
               limits : {"safe", "weak"}]
    BY DEF Streams
  <2> QED BY <2>1 DEF Setting
<1> HIDE DEF Reconciled
<1> QED BY <1>1, <1>2 DEF Provisioned

LEMMA AfterInfoFacts ==
  ASSUME NEW s \in Streams
  PROVE  /\ AfterInfo(s) \in {"down", "update", "open"}
         /\ AfterInfo(s) = "update" => Compatible(s)
         /\ AfterInfo(s) = "open" => s = Provisioned
  BY ReconciledIsSafe DEF AfterInfo

(* Provisioning moves one pod among the places before the snapshot, and it  *)
(* leaves the stream and the bucket as they are or makes them safe.         *)
LEMMA ProvisionFacts ==
  ASSUME ApiInv, NEW p \in Pods, Provision(p) \/ CallFails(p)
  PROVE  /\ stage[p] \in StartStages \cup {"down"}
         /\ \E place \in StartStages \cup {"down"} : stage' = [stage EXCEPT ![p] = place]
         /\ stream' \in {stream, Provisioned}
         /\ bucket' = bucket \/ (bucket = "none" /\ bucket' = "file")
         /\ edited' \in {edited, edited \ {p}}
         /\ faulted' \in SUBSET Pods
         /\ faults' \in 0 .. MaxFaults
         /\ edits' = edits
         /\ read' \in [Pods -> Streams \cup {Absent}]
         /\ \A o \in Pods \ {p} : read'[o] = read[o]
         /\ stage'[p] = "update" => read'[p] \in Streams /\ Compatible(read'[p])
         /\ stage'[p] \in BucketStages \cup {"snapshot"} /\ p \notin edited'
              => stream' = Provisioned
         /\ stage'[p] = "snapshot" => bucket' = "file"
<1> USE DEF StreamStages, BucketStages, StartStages
<1>1. /\ stage \in [Pods -> StageNames]
      /\ stream \in Streams \cup {Absent} /\ bucket \in Buckets
      /\ read \in [Pods -> Streams \cup {Absent}]
      /\ faulted \in SUBSET Pods /\ edited \in SUBSET Pods
      /\ faults \in 0 .. MaxFaults /\ MaxFaults \in Nat
      /\ p \notin edited /\ stage[p] \in BucketStages => stream = Provisioned
      /\ stage[p] = "update" => Reconciled(read[p]) = Provisioned
  BY ReconciledIsSafe, StreamProvisionAssumption
     DEF ApiInv, TypeOK, ProvisionTypeOK, ReadOK, VouchedStreamIsSafe, StageNames,
         StreamProvisionAssumption
<1>2. CASE Start(p)
  BY <1>1, <1>2 DEF Start, GoTo
<1>3. CASE StreamInfo(p)
  BY <1>1, <1>3, AfterInfoFacts DEF StreamInfo, GoTo
<1>4. CASE StreamNotFound(p)
  <2>1. stage' = [stage EXCEPT ![p] = "add"] \/ stage' = [stage EXCEPT ![p] = "down"]
    BY <1>4 DEF StreamNotFound, GoTo
  <2> QED BY <1>1, <1>4, <2>1 DEF StreamNotFound
<1>5. CASE AddStream(p)
  BY <1>1, <1>5 DEF AddStream, GoTo, Replied, Fault, AfterAddError
<1>6. CASE UpdateStream(p)
  BY <1>1, <1>6 DEF UpdateStream, GoTo, Replied, Fault
<1>7. CASE OpenBucket(p)
  BY <1>1, <1>7 DEF OpenBucket, GoTo
<1>8. CASE CreateBucket(p)
  BY <1>1, <1>8 DEF CreateBucket, GoTo, Replied, Fault, AfterCreateError
<1>9. CASE BucketStatus(p)
  BY <1>1, <1>9 DEF BucketStatus, GoTo
<1>10. CASE CallFails(p)
  <2>1. \E place \in {"recheck", "reopen", "down"} : stage' = [stage EXCEPT ![p] = place]
    BY <1>10 DEF CallFails, GoTo, AfterAddError, AfterCreateError
  <2>2. stage[p] \in {"open", "create", "reopen", "status"} \/ stage'[p] # "reopen"
    BY <1>1, <1>10 DEF CallFails, GoTo, AfterAddError, AfterCreateError
  <2>3. /\ UNCHANGED <<stream, bucket, edited, edits>>
        /\ faulted' \in SUBSET Pods /\ faults' \in 0 .. MaxFaults
        /\ read' = [read EXCEPT ![p] = Absent]
        /\ stage[p] \in StartStages
    BY <1>1, <1>10 DEF CallFails, Fault
  <2> QED BY <1>1, <2>1, <2>2, <2>3
<1> QED
  BY <1>2, <1>3, <1>4, <1>5, <1>6, <1>7, <1>8, <1>9, <1>10 DEF Provision

LEMMA FaultFacts ==
  ASSUME TypeOK, NEW p \in Pods
  PROVE  /\ faults \in 0 .. MaxFaults /\ faulted \in SUBSET Pods
         /\ Fault => faults' \in 0 .. MaxFaults
<1>1. faults \in 0 .. MaxFaults /\ faulted \in SUBSET Pods /\ MaxFaults \in Nat
  BY StreamProvisionAssumption DEF TypeOK, ProvisionTypeOK, StreamProvisionAssumption
<1> QED BY <1>1 DEF Fault

-----------------------------------------------------------------------------
LEMMA InitEstablishesInv == Init => ApiInv
<1> SUFFICES ASSUME Init PROVE ApiInv
  OBVIOUS
<1>1. TypeOK
  BY StreamProvisionAssumption
     DEF Init, ProvisionInit, TypeOK, ProvisionTypeOK, StreamProvisionAssumption
<1>2. ReadOK /\ OpenOK /\ HandlersOK /\ VouchedStreamIsSafe
  BY DEF Init, ProvisionInit, ReadOK, OpenOK, Running, HandlersOK, VouchedStreamIsSafe
<1> QED BY <1>1, <1>2 DEF ApiInv

(* A step of the start of one pod: it has no handlers yet. *)
LEMMA ProvisionStep ==
  ASSUME ApiInv, NEW p \in Pods, Provision(p) \/ CallFails(p), UNCHANGED processVars
  PROVE  ApiInv'
<1> USE DEF StreamStages, BucketStages, StartStages
<1>1. UNCHANGED <<listening, open, expired, at, pod>>
  BY DEF processVars
<1>2. /\ stage[p] \in StartStages \cup {"down"}
      /\ \E place \in StartStages \cup {"down"} : stage' = [stage EXCEPT ![p] = place]
      /\ stream' \in {stream, Provisioned}
      /\ bucket' = bucket \/ (bucket = "none" /\ bucket' = "file")
      /\ edited' \in {edited, edited \ {p}}
      /\ faulted' \in SUBSET Pods /\ faults' \in 0 .. MaxFaults /\ edits' = edits
      /\ read' \in [Pods -> Streams \cup {Absent}]
      /\ \A o \in Pods \ {p} : read'[o] = read[o]
      /\ stage'[p] = "update" => read'[p] \in Streams /\ Compatible(read'[p])
      /\ stage'[p] \in BucketStages \cup {"snapshot"} /\ p \notin edited'
           => stream' = Provisioned
      /\ stage'[p] = "snapshot" => bucket' = "file"
  BY ProvisionFacts
<1>3. stage \in [Pods -> StageNames]
  BY DEF ApiInv, TypeOK, StageNames
<1>4. /\ stage' \in [Pods -> StageNames]
      /\ stage'[p] \in StartStages \cup {"down"}
      /\ \A o \in Pods \ {p} : stage'[o] = stage[o]
  BY <1>2, <1>3 DEF StageNames
<1>5. TypeOK'
  BY <1>1, <1>2, <1>4, AbsentIsNoStream
     DEF ApiInv, TypeOK, ProvisionTypeOK, StageNames, Buckets
<1>6. ReadOK' /\ OpenOK'
  BY <1>1, <1>2, <1>4 DEF ApiInv, ReadOK, OpenOK, Running
<1>7. HandlersOK'
  <2>1. ASSUME NEW q \in Requests, pod[q] # Nowhere PROVE pod[q] \in Pods \ {p}
    BY <1>2, <2>1 DEF ApiInv, TypeOK, HandlersOK, HandlerOK
  <2> QED BY <1>1, <1>4, <2>1 DEF ApiInv, HandlersOK, HandlerOK
<1>8. VouchedStreamIsSafe'
  BY <1>2, <1>4 DEF ApiInv, VouchedStreamIsSafe
<1> QED BY <1>5, <1>6, <1>7, <1>8 DEF ApiInv

(* The steps that change the stage of a running pod and leave the stores    *)
(* alone: a pod that has seen them safe still has.                          *)
LEMMA VouchedPersists ==
  ASSUME ApiInv, NEW p \in Pods, UNCHANGED <<stream, bucket, edited>>,
         stage[p] \notin StartStages \cup {"down"} \/ stage[p] = "snapshot",
         NEW place, stage' = [stage EXCEPT ![p] = place],
         place \notin StartStages
  PROVE  VouchedStreamIsSafe'
<1>1. stage \in [Pods -> StageNames]
  BY DEF ApiInv, TypeOK, StageNames
<1>2. /\ stage'[p] \notin StartStages
      /\ \A o \in Pods \ {p} : stage'[o] = stage[o]
  BY <1>1
<1> QED
  BY <1>1, <1>2 DEF ApiInv, VouchedStreamIsSafe, StartStages, StreamStages, BucketStages

LEMMA ServeStep == ASSUME ApiInv, NEW p \in Pods, Serve(p) PROVE ApiInv'
<1> USE DEF StreamStages, BucketStages, StartStages
<1>1. /\ UNCHANGED <<stream, bucket, read, edited, edits, faulted, faults, expired, at, pod>>
      /\ stage[p] = "snapshot" /\ stage' = [stage EXCEPT ![p] = "serving"]
      /\ listening' = [listening EXCEPT ![p] = Listeners]
      /\ open' = [open EXCEPT ![p] = Resources]
  BY DEF Serve, GoTo, stores, handlers
<1>2. VouchedStreamIsSafe'
  BY <1>1, VouchedPersists
<1>3. TypeOK'
  BY <1>1 DEF ApiInv, TypeOK, ProvisionTypeOK
<1>4. ReadOK' /\ OpenOK' /\ HandlersOK'
  BY <1>1 DEF ApiInv, TypeOK, ReadOK, OpenOK, Running, HandlersOK, HandlerOK, Closed
<1> QED BY <1>2, <1>3, <1>4 DEF ApiInv

(* A signal, a failed listener, the two Shutdown calls and the deadline. *)
LEMMA ShutdownStep ==
  ASSUME ApiInv, NEW p \in Pods,
         Signal(p) \/ ListenerFails(p) \/ Expire(p) \/ ApiShutdown(p) \/ AdminShutdown(p)
  PROVE  ApiInv'
<1> USE DEF StreamStages, BucketStages, StartStages
<1>1. /\ UNCHANGED <<stream, bucket, read, edited, edits, open, at, pod>>
      /\ TypeOK
  BY DEF Signal, ListenerFails, Expire, ApiShutdown, AdminShutdown, stores, handlers,
         provisionVars, ApiInv
<1>2. CASE Signal(p) \/ ListenerFails(p)
  <2>1. /\ stage[p] = "serving" /\ stage' = [stage EXCEPT ![p] = "api shutdown"]
        /\ listening' \in [Pods -> SUBSET Listeners]
        /\ \A o \in Pods \ {p} : listening'[o] = listening[o]
        /\ expired' = expired /\ faulted' \in SUBSET Pods /\ faults' \in 0 .. MaxFaults
    <3>1. CASE Signal(p)
      BY <1>1, <3>1 DEF Signal, GoTo, TypeOK, ProvisionTypeOK
    <3>2. CASE ListenerFails(p)
      <4>1. faults' \in 0 .. MaxFaults /\ faulted' \in SUBSET Pods
        BY <1>1, <3>2, FaultFacts DEF ListenerFails
      <4>2. PICK l \in Listeners : listening' = [listening EXCEPT ![p] = @ \ {l, "api"}]
        BY <3>2 DEF ListenerFails
      <4>3. listening' \in [Pods -> SUBSET Listeners]
            /\ \A o \in Pods \ {p} : listening'[o] = listening[o]
        BY <1>1, <4>2 DEF TypeOK
      <4> QED BY <3>2, <4>1, <4>3 DEF ListenerFails, GoTo
    <3> QED BY <1>2, <3>1, <3>2
  <2>2. VouchedStreamIsSafe'
    BY <1>1, <2>1, VouchedPersists
  <2>3. TypeOK'
    BY <1>1, <2>1 DEF TypeOK, ProvisionTypeOK, ShutdownStages
  <2>4. ReadOK' /\ OpenOK' /\ HandlersOK'
    BY <1>1, <2>1 DEF ApiInv, TypeOK, ReadOK, OpenOK, Running, HandlersOK, HandlerOK, Closed
  <2> QED BY <2>2, <2>3, <2>4 DEF ApiInv
<1>3. CASE Expire(p)
  <2>1. UNCHANGED <<stage, listening, faulted, faults>> /\ expired' = expired \cup {p}
    BY <1>3 DEF Expire, provisionVars
  <2> QED
    BY <1>1, <2>1
       DEF ApiInv, TypeOK, ProvisionTypeOK, ReadOK, OpenOK, HandlersOK, HandlerOK,
           VouchedStreamIsSafe
<1>4. CASE ApiShutdown(p)
  <2>1. /\ stage[p] = "api shutdown" /\ stage' = [stage EXCEPT ![p] = "admin shutdown"]
        /\ UNCHANGED <<faulted, faults, expired>>
        /\ listening' = [listening EXCEPT ![p] = {}]
        /\ Active(p, "api") = {} \/ p \in expired
    BY <1>4 DEF ApiShutdown, GoTo, stores, handlers, Drained
  <2>2. VouchedStreamIsSafe'
    BY <1>1, <2>1, VouchedPersists
  <2>3. TypeOK'
    BY <1>1, <2>1 DEF TypeOK, ProvisionTypeOK, ShutdownStages
  <2>4. ASSUME NEW q \in Requests, pod[q] = p PROVE ListenerOf[q] = "admin" \/ p \in expired
    BY <2>1, <2>4, ApiProcessAssumption DEF Active, ApiProcessAssumption, Listeners
  <2>5. ReadOK' /\ OpenOK' /\ HandlersOK'
    BY <1>1, <2>1, <2>4
       DEF ApiInv, TypeOK, ReadOK, OpenOK, Running, HandlersOK, HandlerOK, Closed
  <2> QED BY <2>2, <2>3, <2>5 DEF ApiInv
<1>5. CASE AdminShutdown(p)
  <2>1. /\ stage[p] = "admin shutdown" /\ stage' = [stage EXCEPT ![p] = "close store"]
        /\ UNCHANGED <<faulted, faults, expired, listening>>
        /\ Active(p, "admin") = {} \/ p \in expired
    BY <1>5 DEF AdminShutdown, GoTo, stores, handlers, Drained
  <2>2. VouchedStreamIsSafe'
    BY <1>1, <2>1, VouchedPersists
  <2>3. TypeOK'
    BY <1>1, <2>1 DEF TypeOK, ProvisionTypeOK, ShutdownStages
  <2>4. ASSUME NEW q \in Requests, pod[q] # Nowhere, pod[q] = p PROVE p \in expired
    BY <2>1, <2>4 DEF Active, ApiInv, HandlersOK, HandlerOK
  <2>5. ReadOK' /\ OpenOK' /\ HandlersOK'
    BY <1>1, <2>1, <2>4
       DEF ApiInv, TypeOK, ReadOK, OpenOK, Running, HandlersOK, HandlerOK, Closed
  <2> QED BY <2>2, <2>3, <2>5 DEF ApiInv
<1> QED BY <1>2, <1>3, <1>4, <1>5

(* The deferred calls: whatever handlers remain have outlived the deadline. *)
LEMMA CloseStep == ASSUME ApiInv, NEW p \in Pods, Close(p) PROVE ApiInv'
<1> USE DEF StreamStages, BucketStages, StartStages
<1>1. /\ UNCHANGED <<stream, bucket, read, edited, edits, faulted, faults, listening,
                     expired, at, pod>>
      /\ stage[p] \in {"close store", "close publisher", "close readers"}
      /\ TypeOK
  BY DEF Close, GoTo, stores, handlers, ApiInv
<1>2. Closing(stage[p]).next \in {"close publisher", "close readers", "exit"}
  BY <1>1 DEF Closing
<1>3. PICK place \in {"close publisher", "close readers", "exit"} :
        stage' = [stage EXCEPT ![p] = place]
  BY <1>2 DEF Close, GoTo
<1>4. /\ open' \in [Pods -> SUBSET Resources]
      /\ \A o \in Pods \ {p} : open'[o] = open[o]
  BY <1>1 DEF Close, TypeOK
<1>5. VouchedStreamIsSafe'
  BY <1>1, <1>3, VouchedPersists
<1>6. stage' \in [Pods -> {"down", "serving"} \cup StartStages \cup ShutdownStages]
      /\ stage'[p] = place /\ \A o \in Pods \ {p} : stage'[o] = stage[o]
  BY <1>1, <1>3 DEF TypeOK, ShutdownStages
<1>7. TypeOK'
  BY <1>1, <1>4, <1>6 DEF TypeOK, ProvisionTypeOK
<1>8. ReadOK' /\ OpenOK'
  BY <1>1, <1>4, <1>6 DEF ApiInv, ReadOK, OpenOK, Running
<1>9. HandlersOK'
  BY <1>1, <1>6 DEF ApiInv, TypeOK, HandlersOK, HandlerOK, Closed
<1> QED BY <1>5, <1>7, <1>8, <1>9 DEF ApiInv

(* A process that ends takes its handlers with it. *)
LEMMA DieStep == ASSUME ApiInv, NEW p \in Pods, Exit(p) \/ Kill(p) PROVE ApiInv'
<1> USE DEF StreamStages, BucketStages, StartStages
<1>1. /\ UNCHANGED <<stream, bucket, edited, edits>>
      /\ stage' = [stage EXCEPT ![p] = "down"]
      /\ at' = [q \in Requests |-> IF pod[q] = p THEN "idle" ELSE at[q]]
      /\ pod' = [q \in Requests |-> IF pod[q] = p THEN Nowhere ELSE pod[q]]
      /\ listening' = [listening EXCEPT ![p] = {}]
      /\ open' = [open EXCEPT ![p] = {}]
      /\ expired' = expired \ {p}
      /\ read' = [read EXCEPT ![p] = Absent]
      /\ TypeOK
  BY DEF Exit, Kill, Die, GoTo, ApiInv
<1>2. faults' \in 0 .. MaxFaults /\ faulted' \in SUBSET Pods
  BY <1>1, FaultFacts DEF Exit, Kill
<1>3. TypeOK'
  BY <1>1, <1>2 DEF TypeOK, ProvisionTypeOK
<1>4. HandlersOK'
  <2>1. ASSUME NEW q \in Requests, pod'[q] # Nowhere
        PROVE  pod[q] # Nowhere /\ pod[q] \in Pods \ {p} /\ pod'[q] = pod[q]
    BY <1>1, <2>1 DEF TypeOK
  <2> QED BY <1>1, <2>1 DEF ApiInv, TypeOK, HandlersOK, HandlerOK, Closed
<1>5. /\ stage'[p] = "down"
      /\ \A o \in Pods \ {p} : /\ stage'[o] = stage[o] /\ read'[o] = read[o]
                               /\ open'[o] = open[o]
  BY <1>1 DEF TypeOK, ProvisionTypeOK
<1>6. ReadOK' /\ OpenOK'
  BY <1>5 DEF ApiInv, ReadOK, OpenOK, Running
<1>7. VouchedStreamIsSafe'
  BY <1>1, <1>5 DEF ApiInv, VouchedStreamIsSafe
<1> QED BY <1>3, <1>4, <1>6, <1>7 DEF ApiInv

(* A request comes to a listener that is still open, or to one whose       *)
(* Shutdown has not returned.                                              *)
MayRun(p, l) ==
  stage[p] \in {"serving", "api shutdown"} \/ (stage[p] = "admin shutdown" /\ l = "admin")

LEMMA RequestStep ==
  ASSUME ApiInv, NEW q \in Requests, Accept(q) \/ Use(q) \/ Leave(q)
  PROVE  ApiInv'
<1>1. /\ UNCHANGED <<stage, stream, bucket, read, faulted, edited, faults, edits,
                     listening, open, expired>>
      /\ TypeOK
  BY DEF Accept, Use, Leave, provisionVars, ApiInv
<1>2. /\ at' \in [Requests -> Resources \cup {"answer", "idle"}]
      /\ pod' \in [Requests -> Pods \cup {Nowhere}]
      /\ \A r \in Requests \ {q} : pod'[r] = pod[r]
      /\ pod'[q] \in {pod[q], Nowhere} \/ MayRun(pod'[q], ListenerOf[q])
  <2>1. CASE Accept(q)
    <3>1. PICK p \in Pods : Reachable(p, ListenerOf[q]) /\ pod' = [pod EXCEPT ![q] = p]
      BY <2>1 DEF Accept
    <3>2. MayRun(p, ListenerOf[q])
      <4>1. ListenerOf[q] \in Listeners
        BY ApiProcessAssumption DEF ApiProcessAssumption
      <4> QED BY <1>1, <3>1, <4>1 DEF TypeOK, Reachable, Shutdown, Listeners, MayRun
    <3>3. at' \in [Requests -> Resources \cup {"answer", "idle"}]
      BY <1>1, <2>1 DEF Accept, FirstNeed, Resources, TypeOK
    <3> QED BY <1>1, <3>1, <3>2, <3>3 DEF TypeOK
  <2>2. CASE Use(q)
    BY <1>1, <2>2 DEF Use, NextNeed, Resources, TypeOK
  <2>3. CASE Leave(q)
    BY <1>1, <2>3 DEF Leave, TypeOK
  <2> QED BY <2>1, <2>2, <2>3
<1>3. TypeOK'
  BY <1>1, <1>2 DEF TypeOK, ProvisionTypeOK
<1>4. HandlersOK'
  <2>1. ASSUME NEW r \in Requests, pod'[r] # Nowhere PROVE HandlerOK(r)'
    <3>1. CASE pod'[r] = pod[r]
      BY <1>1, <2>1, <3>1 DEF ApiInv, HandlersOK, HandlerOK
    <3>2. CASE MayRun(pod'[r], ListenerOf[r])
      BY <1>1, <3>2
         DEF MayRun, HandlerOK, Closed, StartStages, StreamStages, BucketStages
    <3> QED BY <1>2, <2>1, <3>1, <3>2
  <2> QED BY <2>1 DEF HandlersOK
<1>5. ReadOK' /\ OpenOK' /\ VouchedStreamIsSafe'
  BY <1>1 DEF ApiInv, ReadOK, OpenOK, VouchedStreamIsSafe
<1> QED BY <1>3, <1>4, <1>5 DEF ApiInv

(* After an edit no pod has seen the stream and the bucket as they are.     *)
LEMMA EditStep == ASSUME ApiInv, HandEdit, UNCHANGED processVars PROVE ApiInv'
<1>1. /\ UNCHANGED <<stage, read, faulted, faults, listening, open, expired, at, pod>>
      /\ stream' \in Streams \cup {Absent} /\ bucket' \in Buckets
      /\ edited' = Pods /\ edits' \in 0 .. MaxEdits
      /\ TypeOK
  <2>1. TypeOK /\ stream \in Streams \cup {Absent} /\ bucket \in Buckets
        /\ edits \in 0 .. MaxEdits /\ MaxEdits \in Nat
    BY StreamProvisionAssumption
       DEF ApiInv, TypeOK, ProvisionTypeOK, StreamProvisionAssumption
  <2> QED BY <2>1 DEF HandEdit, processVars
<1>2. TypeOK'
  BY <1>1 DEF TypeOK, ProvisionTypeOK
<1>3. ReadOK' /\ OpenOK' /\ HandlersOK' /\ VouchedStreamIsSafe'
  BY <1>1 DEF ApiInv, ReadOK, OpenOK, HandlersOK, HandlerOK, VouchedStreamIsSafe
<1> QED BY <1>2, <1>3 DEF ApiInv

-----------------------------------------------------------------------------
LEMMA NextKeepsInv == ApiInv /\ [Next]_vars => ApiInv'
<1> SUFFICES ASSUME ApiInv, [Next]_vars PROVE ApiInv'
  OBVIOUS
<1>1. ASSUME NEW p \in Pods, PodNext(p) PROVE ApiInv'
  BY <1>1, ProvisionStep, ServeStep, ShutdownStep, CloseStep, DieStep DEF PodNext
<1>2. ASSUME NEW q \in Requests, Accept(q) \/ Use(q) \/ Leave(q) PROVE ApiInv'
  BY <1>2, RequestStep
<1>3. CASE HandEdit /\ UNCHANGED processVars
  BY <1>3, EditStep
<1>4. CASE UNCHANGED vars
  BY <1>4
     DEF vars, provisionVars, processVars, ApiInv, TypeOK, ProvisionTypeOK, ReadOK, OpenOK,
         HandlersOK, HandlerOK, VouchedStreamIsSafe
<1> QED BY <1>1, <1>2, <1>3, <1>4 DEF Next

(* Every reachable state satisfies the inductive invariant. *)
THEOREM ApiInvHolds == Spec => []ApiInv
<1> QED BY InitEstablishesInv, NextKeepsInv, PTL DEF Spec

(* The stores, the pods and their handlers keep their types, and a pod     *)
(* listens only while it serves or shuts down its API.                     *)
THEOREM ApiTypeCorrect == Spec => []TypeOK
<1>1. ApiInv => TypeOK
  BY DEF ApiInv
<1> QED BY <1>1, ApiInvHolds, PTL

(* However many pods race in natsaudit.ensureAuditStream and keystore.Open, *)
(* one that has passed them works on a stream and a bucket with all the     *)
(* settings it asks for, until somebody edits them.                         *)
THEOREM VouchedStreamsAreSafe == Spec => []VouchedStreamIsSafe
<1>1. ApiInv => VouchedStreamIsSafe
  BY DEF ApiInv
<1> QED BY <1>1, ApiInvHolds, PTL

(* main closes nothing under a handler before the deadline of its shutdown. *)
THEOREM ShutdownSparesHandlers == Spec => []HandlersKeepResources
<1>1. ASSUME ApiInv PROVE HandlersKeepResources
  <2>1. ASSUME NEW q \in Requests, pod[q] # Nowhere, pod[q] \notin expired
        PROVE  stage[pod[q]] \in Running
    BY <1>1, <2>1
       DEF ApiInv, TypeOK, HandlersOK, HandlerOK, Closed, Running, ShutdownStages
  <2> QED
    BY <1>1, <2>1 DEF ApiInv, TypeOK, OpenOK, HandlersOK, HandlerOK, HandlersKeepResources
<1> QED BY <1>1, ApiInvHolds, PTL

-----------------------------------------------------------------------------
(* Losing a race.  Between the call that found the stream or the bucket    *)
(* taken, or too different, and the next look at it, it does not go away.  *)
Raced(p) ==
  p \notin edited =>
    /\ stage[p] = "update" \/ (stage[p] = "recheck" /\ p \notin faulted) => stream # Absent
    /\ stage[p] = "status" \/ (stage[p] = "reopen" /\ p \notin faulted) => bucket # "none"

RaceInv == ApiInv /\ \A p \in Pods : Raced(p)

GivesUp(p) == stage[p] \in StartStages /\ stage'[p] = "down"
HasCause(p) ==
  \/ p \in faulted' \/ p \in edited
  \/ stream # Absent /\ ~ Compatible(stream)
  \/ bucket = "unfit"

(* The step of another pod. *)
LEMMA RacedPersists ==
  ASSUME NEW o \in Pods, Raced(o), stage'[o] = stage[o],
         stream' \in {stream, Provisioned},
         bucket' = bucket \/ bucket' = "file",
         o \in edited' <=> o \in edited, o \in faulted' <=> o \in faulted
  PROVE  Raced(o)' /\ ~ GivesUp(o)
<1>1. Provisioned # Absent
  BY AbsentIsNoStream
<1>2. ~ GivesUp(o)
  BY DEF GivesUp, StartStages, StreamStages, BucketStages
<1> QED BY <1>1, <1>2 DEF Raced

(* A step of the start of a pod, for the pod itself. *)
LEMMA StartRaces ==
  ASSUME RaceInv, NEW p \in Pods, Provision(p) \/ CallFails(p)
  PROVE  Raced(p)' /\ (GivesUp(p) => HasCause(p))
<1> USE DEF StreamStages, BucketStages, StartStages, Raced, GivesUp, HasCause
<1>1. /\ stage \in [Pods -> StageNames] /\ Raced(p)
      /\ stream \in Streams \cup {Absent} /\ bucket \in Buckets
      /\ Absent \notin Streams /\ Provisioned \in Streams
      /\ faulted \in SUBSET Pods /\ edited \in SUBSET Pods
  BY AbsentIsNoStream DEF RaceInv, ApiInv, TypeOK, ProvisionTypeOK, StageNames
<1>2. CASE Start(p)
  BY <1>1, <1>2 DEF Start, GoTo
<1>3. CASE StreamInfo(p)
  <2>1. /\ stage' = [stage EXCEPT ![p] = AfterInfo(stream)] /\ stream \in Streams
        /\ UNCHANGED <<stream, bucket, faulted>>
    BY <1>1, <1>3 DEF StreamInfo, GoTo
  <2>2. /\ AfterInfo(stream) \in {"down", "update", "open"}
        /\ AfterInfo(stream) = "down" => ~ Compatible(stream)
    BY <2>1 DEF AfterInfo
  <2> QED BY <1>1, <2>1, <2>2
<1>4. CASE StreamNotFound(p)
  BY <1>1, <1>4 DEF StreamNotFound, GoTo
<1>5. CASE AddStream(p)
  BY <1>1, <1>5 DEF AddStream, GoTo, Replied, Fault, AfterAddError
<1>6. CASE UpdateStream(p)
  BY <1>1, <1>6 DEF UpdateStream, GoTo, Replied, Fault
<1>7. CASE OpenBucket(p)
  BY <1>1, <1>7 DEF OpenBucket, GoTo
<1>8. CASE CreateBucket(p)
  BY <1>1, <1>8 DEF CreateBucket, GoTo, Replied, Fault, AfterCreateError
<1>9. CASE BucketStatus(p)
  BY <1>1, <1>9 DEF BucketStatus, GoTo, Buckets
<1>10. CASE CallFails(p)
  <2>1. \E place \in {"recheck", "reopen", "down"} : stage' = [stage EXCEPT ![p] = place]
    BY <1>10 DEF CallFails, GoTo, AfterAddError, AfterCreateError
  <2>2. p \in faulted'
    BY <1>10 DEF CallFails
  <2> QED BY <1>1, <2>1, <2>2
<1> QED
  BY <1>2, <1>3, <1>4, <1>5, <1>6, <1>7, <1>8, <1>9, <1>10 DEF Provision

(* A step of a pod touches only its own flags. *)
LEMMA PodsKeepTheirFlags ==
  ASSUME NEW p \in Pods, PodNext(p), NEW o \in Pods \ {p}
  PROVE  (o \in edited' <=> o \in edited) /\ (o \in faulted' <=> o \in faulted)
BY DEF PodNext, Provision, Start, StreamInfo, StreamNotFound, AddStream, UpdateStream,
       OpenBucket, CreateBucket, BucketStatus, CallFails, Replied, Serve, Signal,
       ListenerFails, Expire, ApiShutdown, AdminShutdown, Close, Exit, Kill, Die,
       stores, provisionVars

(* What happens to a pod after its start. *)
LEMMA LaterSteps ==
  ASSUME ApiInv, NEW p \in Pods, PodNext(p), ~ (Provision(p) \/ CallFails(p))
  PROVE  /\ UNCHANGED <<stream, bucket>>
         /\ \/ UNCHANGED <<stage, edited, faulted>>
            \/ \E place \in {"down", "serving"} \cup ShutdownStages :
                 /\ stage' = [stage EXCEPT ![p] = place]
                 /\ place = "down" => stage[p] = "exit" \/ p \in faulted'
<1> USE DEF GoTo, stores, ShutdownStages
<1>1. CASE Serve(p) \/ Signal(p) \/ ListenerFails(p)
  BY <1>1 DEF Serve, Signal, ListenerFails
<1>2. CASE Expire(p)
  BY <1>2 DEF Expire, provisionVars
<1>3. CASE ApiShutdown(p) \/ AdminShutdown(p)
  BY <1>3 DEF ApiShutdown, AdminShutdown
<1>4. CASE Close(p)
  <2>1. Closing(stage[p]).next \in ShutdownStages
    BY <1>4 DEF Close, Closing
  <2>2. stage' = [stage EXCEPT ![p] = Closing(stage[p]).next]
    BY <1>4 DEF Close
  <2> QED BY <1>4, <2>1, <2>2 DEF Close
<1>5. CASE Exit(p) \/ Kill(p)
  BY <1>5 DEF Exit, Kill, Die
<1> QED BY <1>1, <1>2, <1>3, <1>4, <1>5 DEF PodNext

LEMMA NextRaces ==
  ASSUME RaceInv, [Next]_vars
  PROVE  RaceInv' /\ \A p \in Pods : GivesUp(p) => HasCause(p)
<1>0. /\ ApiInv' /\ stage \in [Pods -> StageNames]
      /\ \A p \in Pods : Raced(p)
  BY NextKeepsInv DEF RaceInv, ApiInv, TypeOK, StageNames
<1> SUFFICES ASSUME NEW o \in Pods
             PROVE  Raced(o)' /\ (GivesUp(o) => HasCause(o))
  BY <1>0 DEF RaceInv
<1>1. ASSUME NEW p \in Pods, PodNext(p) PROVE Raced(o)' /\ (GivesUp(o) => HasCause(o))
  <2>1. CASE o = p /\ (Provision(p) \/ CallFails(p))
    BY <2>1, StartRaces
  <2>2. CASE o # p /\ (Provision(p) \/ CallFails(p))
    <3>1. /\ \E place \in StartStages \cup {"down"} : stage' = [stage EXCEPT ![p] = place]
          /\ stream' \in {stream, Provisioned}
          /\ bucket' = bucket \/ (bucket = "none" /\ bucket' = "file")
      BY <2>2, ProvisionFacts DEF RaceInv
    <3> QED BY <1>0, <1>1, <2>2, <3>1, PodsKeepTheirFlags, RacedPersists
  <2>3. CASE ~ (Provision(p) \/ CallFails(p))
    <3>1. UNCHANGED <<stream, bucket>>
      BY <1>1, <2>3, LaterSteps DEF RaceInv
    <3>2. CASE UNCHANGED <<stage, edited, faulted>>
      BY <1>0, <3>1, <3>2, RacedPersists
    <3>3. CASE \E place \in {"down", "serving"} \cup ShutdownStages :
                 /\ stage' = [stage EXCEPT ![p] = place]
                 /\ place = "down" => stage[p] = "exit" \/ p \in faulted'
      <4>1. CASE o = p
        BY <1>0, <3>3, <4>1
           DEF Raced, GivesUp, HasCause, ShutdownStages, StartStages, StreamStages,
               BucketStages
      <4>2. CASE o # p
        BY <1>0, <1>1, <3>1, <3>3, <4>2, PodsKeepTheirFlags, RacedPersists
      <4> QED BY <4>1, <4>2
    <3> QED BY <1>1, <2>3, <3>2, <3>3, LaterSteps DEF RaceInv
  <2> QED BY <2>1, <2>2, <2>3
<1>2. CASE UNCHANGED provisionVars
  BY <1>0, <1>2, RacedPersists DEF provisionVars
<1>3. CASE HandEdit
  BY <1>0, <1>3 DEF HandEdit, Raced, GivesUp, StartStages, StreamStages, BucketStages
<1> QED BY <1>1, <1>2, <1>3 DEF Next, Accept, Use, Leave, vars

(* Every reachable state satisfies the invariant of the races.             *)
THEOREM RaceInvHolds == Spec => []RaceInv
<1>1. Init => RaceInv
  BY InitEstablishesInv DEF RaceInv, Raced, Init, ProvisionInit
<1>2. RaceInv /\ [Next]_vars => RaceInv'
  BY NextRaces
<1> QED BY <1>1, <1>2, PTL DEF Spec

(* "A losing Pod binds to the bucket created by the other Pod rather than  *)
(* failing", and likewise for the stream: whatever the number of pods and  *)
(* the interleaving of their starts.                                       *)
THEOREM LosersBind == Spec => NoLoserFails
<1>1. RaceInv /\ [Next]_vars =>
        [\A p \in Pods :
           stage[p] \in StartStages /\ stage'[p] = "down" =>
             \/ p \in faulted' \/ p \in edited
             \/ stream # Absent /\ ~ Compatible(stream)
             \/ bucket = "unfit"]_provisionVars
  BY NextRaces DEF GivesUp, HasCause
<1> QED BY <1>1, RaceInvHolds, PTL DEF Spec, NoLoserFails
=============================================================================

--------------------------- MODULE StreamProvision --------------------------
(***************************************************************************)
(* How API pods start on NATS: each finds or creates the audit stream and  *)
(* refuses or repairs it (natsaudit.ensureAuditStream), finds or creates   *)
(* the key bucket (keystore.Open), and waits for the first snapshot of it  *)
(* (cmd/geotagger).  Pods do so at the same time; calls fail or lose their *)
(* replies, and an operator edits the stream and the bucket.               *)
(***************************************************************************)
EXTENDS Naturals, FiniteSets

CONSTANTS
  Pods,
  MaxFaults,  \* bound: failed calls, lost replies, killed pods
  MaxEdits    \* bound: edits by hand

ASSUME StreamProvisionAssumption ==
  IsFiniteSet(Pods) /\ MaxFaults \in Nat /\ MaxEdits \in Nat

VARIABLES
  stage,    \* where each pod is in main
  stream,   \* the settings of the audit stream
  bucket,   \* the storage of the key bucket
  read,     \* the settings that a pod is about to write back
  faulted,  \* the pods that met a fault since their start
  edited,   \* those that have not looked at the stream since an edit
  faults, edits

provisionVars == <<stage, stream, bucket, read, faulted, edited, faults, edits>>

(* limits: everything that may be changed in place. *)
Setting(storage, retention, limits) ==
  [storage |-> storage, retention |-> retention, limits |-> limits]
Absent == Setting("none", "none", "none")
Provisioned == Setting("file", "work queue", "safe")
Streams == [storage : {"file", "memory"}, retention : {"work queue", "limits"},
            limits : {"safe", "weak"}]
(* An "unfit" bucket is one that keystore.Open refuses, for its storage or   *)
(* for its history.                                                         *)
Buckets == {"none", "file", "unfit"}

StreamStages == {"info", "add", "recheck", "update"}
BucketStages == {"open", "create", "reopen", "status"}
StartStages == StreamStages \cup BucketStages \cup {"snapshot"}

ProvisionTypeOK ==
  /\ stream \in Streams \cup {Absent}
  /\ bucket \in Buckets
  /\ read \in [Pods -> Streams \cup {Absent}]
  /\ faulted \in SUBSET Pods
  /\ edited \in SUBSET Pods
  /\ faults \in 0 .. MaxFaults
  /\ edits \in 0 .. MaxEdits

ProvisionInit ==
  /\ stage = [p \in Pods |-> "down"]
  /\ stream \in Streams \cup {Absent}
  /\ bucket \in Buckets
  /\ read = [p \in Pods |-> Absent]
  /\ faulted = {} /\ edited = {}
  /\ faults = 0 /\ edits = 0

GoTo(p, place) == stage' = [stage EXCEPT ![p] = place]
Fault == faults < MaxFaults /\ faults' = faults + 1

(* The answer of a call gets lost, which is a fault, or not: the pod goes  *)
(* on at one place or at the other.                                        *)
Replied(p, answered, lost) ==
  \/ GoTo(p, answered) /\ UNCHANGED <<faulted, faults>>
  \/ GoTo(p, lost) /\ faulted' = faulted \cup {p} /\ Fault

-----------------------------------------------------------------------------
(* ensureAuditStream *)

Start(p) ==
  /\ stage[p] = "down"
  /\ GoTo(p, "info")
  /\ faulted' = faulted \ {p}
  /\ UNCHANGED <<stream, bucket, read, edited, faults, edits>>

(* What cannot be changed in place is refused; the rest is repaired. *)
Compatible_Storage(s) == s.storage = "file"
Compatible(s) == s.storage = "file" /\ s.retention = "work queue"
Reconciled(s) == [s EXCEPT !.limits = "safe"]

AfterInfo(s) ==
  CASE ~ Compatible(s)                      -> "down"
    [] Compatible(s) /\ s # Reconciled(s)   -> "update"
    [] OTHER                                -> "open"

StreamInfo(p) ==
  /\ stage[p] \in {"info", "recheck"}
  /\ stream # Absent
  /\ GoTo(p, AfterInfo(stream))
  /\ read' = [read EXCEPT ![p] = IF AfterInfo(stream) = "update" THEN stream ELSE Absent]
  /\ edited' = edited \ {p}
  /\ UNCHANGED <<stream, bucket, faulted, faults, edits>>

StreamNotFound(p) ==
  /\ stage[p] \in {"info", "recheck"}
  /\ stream = Absent
  /\ GoTo(p, IF stage[p] = "info" THEN "add" ELSE "down")
  /\ edited' = edited \ {p}
  /\ UNCHANGED <<stream, bucket, read, faulted, faults, edits>>

(* A stream that has come up in between makes AddStream fail, or not, if it *)
(* has the same settings.  Whatever the error is, the pod looks again.      *)
AfterAddError_Fails == "down"
AfterAddError == "recheck"

AddStream(p) ==
  /\ stage[p] = "add"
  /\ \/ /\ stream \in {Absent, Provisioned}
        /\ stream' = Provisioned
        /\ edited' = edited \ {p}
        /\ Replied(p, "open", AfterAddError)
     \/ /\ stream # Absent
        /\ GoTo(p, AfterAddError)
        /\ UNCHANGED <<stream, edited, faulted, faults>>
  /\ UNCHANGED <<bucket, read, edits>>

(* The whole of the settings read is written back.  NATS refuses to change *)
(* the storage or the retention of the stream that is there by now.        *)
UpdateStream(p) ==
  /\ stage[p] = "update"
  /\ IF stream # Absent /\ Compatible(stream)
     THEN /\ stream' = Reconciled(read[p])
          /\ Replied(p, "open", "down")
     ELSE GoTo(p, "down") /\ UNCHANGED <<stream, faulted, faults>>
  /\ read' = [read EXCEPT ![p] = Absent]
  /\ UNCHANGED <<bucket, edited, edits>>

-----------------------------------------------------------------------------
(* keystore.Open, and the select of main on the snapshot. *)

OpenBucket(p) ==
  /\ stage[p] \in {"open", "reopen"}
  /\ GoTo(p, CASE bucket # "none"                       -> "status"
               [] bucket = "none" /\ stage[p] = "open" -> "create"
               [] OTHER                                 -> "down")
  /\ UNCHANGED <<stream, bucket, read, faulted, edited, faults, edits>>

AfterCreateError == "reopen"

(* A bucket that has come up in between makes CreateKeyValue fail or not,   *)
(* depending on how close its settings are.                                 *)
CreateBucket(p) ==
  /\ stage[p] = "create"
  /\ IF bucket = "none"
     THEN bucket' = "file" /\ Replied(p, "status", AfterCreateError)
     ELSE /\ \E place \in {"status", AfterCreateError} : GoTo(p, place)
          /\ UNCHANGED <<bucket, faulted, faults>>
  /\ UNCHANGED <<stream, read, edited, edits>>

BucketStatus(p) ==
  /\ stage[p] = "status"
  /\ GoTo(p, IF bucket = "file" THEN "snapshot" ELSE "down")
  /\ UNCHANGED <<stream, bucket, read, faulted, edited, faults, edits>>

(* A call without effect; the timeout of the snapshot is one, too. *)
CallFails(p) ==
  /\ stage[p] \in StartStages
  /\ GoTo(p, CASE stage[p] = "add"    -> AfterAddError
               [] stage[p] = "create" -> AfterCreateError
               [] OTHER               -> "down")
  /\ read' = [read EXCEPT ![p] = Absent]
  /\ faulted' = faulted \cup {p}
  /\ Fault
  /\ UNCHANGED <<stream, bucket, edited, edits>>

(* Somebody deletes or replaces the stream or the bucket. *)
HandEdit ==
  /\ edits < MaxEdits
  /\ \/ stream' \in Streams \cup {Absent} /\ UNCHANGED bucket
     \/ bucket' \in Buckets /\ UNCHANGED stream
  /\ edited' = Pods
  /\ edits' = edits + 1
  /\ UNCHANGED <<stage, read, faulted, faults>>

Provision(p) ==
  \/ Start(p) \/ StreamInfo(p) \/ StreamNotFound(p) \/ AddStream(p) \/ UpdateStream(p)
  \/ OpenBucket(p) \/ CreateBucket(p) \/ BucketStatus(p)

-----------------------------------------------------------------------------
(* "A stale stream from an older deployment must not silently weaken        *)
(* durability": whatever several pods read and wrote at once, a pod that    *)
(* has passed ensureAuditStream, and keystore.Open, works on a stream and a *)
(* bucket with all the settings it asks for, until somebody edits them.     *)
VouchedStreamIsSafe ==
  \A p \in Pods \ edited :
    /\ stage[p] \notin StreamStages \cup {"down"} => stream = Provisioned
    /\ stage[p] \notin StartStages \cup {"down"} \/ stage[p] = "snapshot" => bucket = "file"

(* "Multiple API pods can race to provision the stream on first boot" and   *)
(* "a losing Pod binds to the bucket created by the other Pod rather than   *)
(* failing": without a fault or an edit, a pod gives up its start only for  *)
(* a stream or a bucket that it must refuse.                                *)
NoLoserFails ==
  [][\A p \in Pods :
       stage[p] \in StartStages /\ stage'[p] = "down" =>
         \/ p \in faulted' \/ p \in edited
         \/ stream # Absent /\ ~ Compatible(stream)
         \/ bucket = "unfit"]_provisionVars
=============================================================================

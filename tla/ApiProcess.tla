----------------------------- MODULE ApiProcess -----------------------------
(***************************************************************************)
(* cmd/geotagger: the life of the API pods.  A pod provisions its stores    *)
(* (StreamProvision), serves the API and the admin listener, and on a       *)
(* signal, or when a listener fails, shuts both down with one deadline and  *)
(* closes its resources in the reverse order of their opening.  Handlers    *)
(* run meanwhile; they are seen here as the resources they use in turn.     *)
(***************************************************************************)
EXTENDS StreamProvision

CONSTANTS
  Requests,
  ListenerOf   \* the listener each request comes to

Listeners == {"api", "admin"}
Resources == {"readers", "publisher", "store"}

ASSUME ApiProcessAssumption == ListenerOf \in [Requests -> Listeners]

VARIABLES
  listening,  \* the listeners of each pod that accept connections
  open,       \* the resources of each pod that are not closed
  expired,    \* the pods whose ShutdownTimeout is over
  at,         \* what a handler needs next
  pod         \* the pod it runs in

processVars == <<listening, open, expired, at, pod>>
vars == <<provisionVars, processVars>>

ShutdownStages == {"api shutdown", "admin shutdown", "close store", "close publisher",
                   "close readers", "exit"}
Shutdown(l) == IF l = "api" THEN "api shutdown" ELSE "admin shutdown"
Nowhere == "nowhere"

TypeOK ==
  /\ stage \in [Pods -> {"down", "serving"} \cup StartStages \cup ShutdownStages]
  /\ ProvisionTypeOK
  /\ listening \in [Pods -> SUBSET Listeners]
  /\ open \in [Pods -> SUBSET Resources]
  /\ expired \in SUBSET Pods
  /\ at \in [Requests -> Resources \cup {"answer", "idle"}]
  /\ pod \in [Requests -> Pods \cup {Nowhere}]
  /\ \A p \in Pods : listening[p] # {} => stage[p] \in {"serving", "api shutdown"}

Init ==
  /\ ProvisionInit
  /\ listening = [p \in Pods |-> {}]
  /\ open = [p \in Pods |-> {}]
  /\ expired = {}
  /\ at = [q \in Requests |-> "idle"]
  /\ pod = [q \in Requests |-> Nowhere]

Active(p, l) ==
  {q \in Requests : pod[q] = p /\ ListenerOf[q] = l}

stores == <<stream, bucket, read, edited, edits>>
handlers == <<at, pod>>

-----------------------------------------------------------------------------
(* A request of the API looks up and then publishes, one of the admin      *)
(* interface uses the store.                                               *)
FirstNeed(l) == IF l = "api" THEN "readers" ELSE "store"
NextNeed(need) == IF need = "readers" THEN "publisher" ELSE "answer"

(* On a new connection, or on one that was opened before and that the       *)
(* Shutdown of its server still waits for.                                  *)
Reachable(p, l) == l \in listening[p] \/ stage[p] = Shutdown(l)

Accept(q) ==
  /\ at[q] = "idle"
  /\ \E p \in Pods :
       /\ Reachable(p, ListenerOf[q])
       /\ pod' = [pod EXCEPT ![q] = p]
  /\ at' = [at EXCEPT ![q] = FirstNeed(ListenerOf[q])]
  /\ UNCHANGED <<provisionVars, listening, open, expired>>

(* A drained connection to NATS is an error to be answered. *)
Use(q) ==
  /\ at[q] \in Resources
  /\ at[q] = "readers" => "readers" \in open[pod[q]]
  /\ at' = [at EXCEPT ![q] = IF @ \in open[pod[q]] THEN NextNeed(@) ELSE "answer"]
  /\ UNCHANGED <<provisionVars, listening, open, expired, pod>>

(* The handler ends with its answer, or in a lookup that finds no readers.  *)
Leave(q) ==
  /\ \/ at[q] = "answer"
     \/ at[q] = "readers" /\ "readers" \notin open[pod[q]]
  /\ at' = [at EXCEPT ![q] = "idle"]
  /\ pod' = [pod EXCEPT ![q] = Nowhere]
  /\ UNCHANGED <<provisionVars, listening, open, expired>>

-----------------------------------------------------------------------------
(* main from keyReady on. *)
Serve(p) ==
  /\ stage[p] = "snapshot"
  /\ GoTo(p, "serving")
  /\ listening' = [listening EXCEPT ![p] = Listeners]
  /\ open' = [open EXCEPT ![p] = Resources]
  /\ UNCHANGED <<stores, faulted, faults, expired, handlers>>

(* SIGTERM: cancelRuntime, and Shutdown closes its listener at once.  The  *)
(* admin listener goes on.                                                 *)
Signal(p) ==
  /\ stage[p] = "serving"
  /\ GoTo(p, "api shutdown")
  /\ listening' = [listening EXCEPT ![p] = @ \ {"api"}]
  /\ UNCHANGED <<stores, faulted, faults, open, expired, handlers>>

(* errCh: the listener that failed is gone, and the pod shuts down. *)
ListenerFails(p) ==
  /\ stage[p] = "serving"
  /\ GoTo(p, "api shutdown")
  /\ \E l \in Listeners : listening' = [listening EXCEPT ![p] = @ \ {l, "api"}]
  /\ faulted' = faulted \cup {p}
  /\ Fault
  /\ UNCHANGED <<stores, open, expired, handlers>>

Expire(p) ==
  /\ stage[p] \in {"api shutdown", "admin shutdown"}
  /\ p \notin expired
  /\ expired' = expired \cup {p}
  /\ UNCHANGED <<provisionVars, listening, open, handlers>>

(* Shutdown returns when its handlers are done, or the deadline is over. *)
Drained_AtOnce(p, l) == TRUE
Drained_NoDeadline(p, l) == Active(p, l) = {}
Drained(p, l) == Active(p, l) = {} \/ p \in expired

ApiShutdown_Only(p) ==
  /\ stage[p] = "api shutdown"
  /\ Drained(p, "api")
  /\ GoTo(p, "admin shutdown")
  /\ UNCHANGED <<stores, faulted, faults, processVars>>

ApiShutdown(p) ==
  /\ stage[p] = "api shutdown"
  /\ Drained(p, "api")
  /\ GoTo(p, "admin shutdown")
  /\ listening' = [listening EXCEPT ![p] = {}]
  /\ UNCHANGED <<stores, faulted, faults, open, expired, handlers>>

AdminShutdown(p) ==
  /\ stage[p] = "admin shutdown"
  /\ Drained(p, "admin")
  /\ GoTo(p, "close store")
  /\ UNCHANGED <<stores, faulted, faults, listening, open, expired, handlers>>

(* The deferred calls. *)
Closing(place) ==
  CASE place = "close store"     -> [resource |-> "store", next |-> "close publisher"]
    [] place = "close publisher" -> [resource |-> "publisher", next |-> "close readers"]
    [] place = "close readers"   -> [resource |-> "readers", next |-> "exit"]

Close(p) ==
  /\ stage[p] \in {"close store", "close publisher", "close readers"}
  /\ GoTo(p, Closing(stage[p]).next)
  /\ open' = [open EXCEPT ![p] = @ \ {Closing(stage[p]).resource}]
  /\ UNCHANGED <<stores, faulted, faults, listening, expired, handlers>>

(* A process that ends takes its handlers with it. *)
Die(p) ==
  /\ GoTo(p, "down")
  /\ at' = [q \in Requests |-> IF pod[q] = p THEN "idle" ELSE at[q]]
  /\ pod' = [q \in Requests |-> IF pod[q] = p THEN Nowhere ELSE pod[q]]
  /\ listening' = [listening EXCEPT ![p] = {}]
  /\ open' = [open EXCEPT ![p] = {}]
  /\ expired' = expired \ {p}
  /\ read' = [read EXCEPT ![p] = Absent]
  /\ UNCHANGED <<stream, bucket, edited, edits>>

Exit(p) == stage[p] = "exit" /\ Die(p) /\ UNCHANGED <<faulted, faults>>

Kill(p) == stage[p] # "down" /\ Die(p) /\ faulted' = faulted \cup {p} /\ Fault

PodNext(p) ==
  \/ (Provision(p) \/ CallFails(p)) /\ UNCHANGED processVars
  \/ Serve(p) \/ Signal(p) \/ ListenerFails(p) \/ Expire(p)
  \/ ApiShutdown(p) \/ AdminShutdown(p) \/ Close(p) \/ Exit(p) \/ Kill(p)

Next ==
  \/ \E p \in Pods : PodNext(p)
  \/ \E q \in Requests : Accept(q) \/ Use(q) \/ Leave(q)
  \/ HandEdit /\ UNCHANGED processVars

Spec == Init /\ [][Next]_vars

(* main goes on, its deadline passes, and Kubernetes starts it again.      *)
(* Nothing is assumed of the handlers.                                     *)
FairSpec ==
  /\ Spec
  /\ \A p \in Pods :
       WF_vars(\/ Provision(p) /\ UNCHANGED processVars
               \/ Serve(p) \/ Expire(p) \/ ApiShutdown(p) \/ AdminShutdown(p)
               \/ Close(p) \/ Exit(p))

-----------------------------------------------------------------------------
(* No resource is closed while a handler of the pod runs, on either         *)
(* listener, and no process ends under it, unless the deadline of the       *)
(* shutdown has passed: Shutdown waits for both before the deferred Close.  *)
HandlersKeepResources ==
  \A q \in Requests :
    pod[q] # Nowhere =>
      /\ stage[pod[q]] \notin StartStages \cup {"down"}
      /\ open[pod[q]] = Resources \/ pod[q] \in expired

(* Every pod serves again and again, whatever crashes, fails or is sent a   *)
(* signal, unless it must refuse the stream or the bucket it finds: losing  *)
(* a race leaves no pod behind, and no shutdown hangs.                      *)
PodsComeUp ==
  \A p \in Pods :
    []<>(stage[p] = "serving" \/ (stream # Absent /\ ~ Compatible(stream)) \/ bucket = "unfit")
=============================================================================

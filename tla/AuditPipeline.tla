---------------------------- MODULE AuditPipeline ---------------------------
(***************************************************************************)
(* The audit path: the API publishes one event for each lookup and waits   *)
(* for JetStream to confirm it (httpapi.publishAudit, natsaudit.Publish);  *)
(* a WorkQueue stream keeps the event until it is acknowledged; the worker *)
(* (internal/worker) collects deliveries in a bounded channel and a batch, *)
(* inserts the batch into ClickHouse and acknowledges or rejects each of   *)
(* its messages.  Messages and replies are lost, the acknowledgement timer *)
(* of the stream fires, inserts fail halfway, and the worker is stopped or *)
(* killed anywhere.                                                        *)
(***************************************************************************)
EXTENDS Naturals, Sequences, FiniteSets

CONSTANTS
  Events,          \* one audit event per request
  StreamCapacity,  \* events the stream can hold (MaxBytes with DiscardNew)
  BatchSize,
  ChanCapacity,    \* 4 * BatchSize in the code
  MaxAckPending,   \* 8 * BatchSize in the code
  MaxFaults        \* bound: losses, failures, crashes and restarts

ASSUME AuditPipelineAssumption ==
  /\ IsFiniteSet(Events)
  /\ StreamCapacity \in Nat
  /\ BatchSize \in Nat \ {0}
  /\ ChanCapacity \in Nat \ {0}
  /\ MaxAckPending \in Nat \ {0}
  /\ MaxFaults \in Nat

VARIABLES
  request,    \* what the handler of each event is doing
  published,  \* publish messages on their way to the stream
  confirmed,  \* confirmations on their way back to the handler
  stream,     \* the events stored and not acknowledged
  pending,    \* those delivered to the consumer, waiting for an answer
  chan,       \* Worker.ch
  batch,      \* the batch that Run is collecting or writing
  worker,     \* where Run is
  stopping,   \* the context of Run is cancelled
  rows,       \* rows of each event in ClickHouse: none, one, or 2 for more
  faults

vars == <<request, published, confirmed, stream, pending, chan, batch, worker,
          stopping, rows, faults>>
apiVars == <<request, published, confirmed>>
workerVars == <<chan, batch, worker, stopping>>

Elements(seq) == {seq[i] : i \in DOMAIN seq}

TypeOK ==
  /\ request \in [Events -> {"new", "waiting", "ok", "failed"}]
  /\ published \subseteq Events
  /\ confirmed \subseteq Events
  /\ stream \subseteq Events
  /\ pending \subseteq stream
  /\ Cardinality(stream) <= StreamCapacity
  /\ Cardinality(pending) <= MaxAckPending
  /\ chan \in Seq(Events) /\ Len(chan) <= ChanCapacity
  /\ batch \in Seq(Events) /\ Len(batch) <= BatchSize
  /\ worker \in {"down", "select", "inserting", "acking", "naking", "leaving"}
  /\ stopping \in BOOLEAN
  /\ rows \in [Events -> 0 .. 2]
  /\ faults \in 0 .. MaxFaults

Init ==
  /\ request = [e \in Events |-> "new"]
  /\ published = {} /\ confirmed = {}
  /\ stream = {} /\ pending = {}
  /\ chan = <<>> /\ batch = <<>>
  /\ worker = "down" /\ stopping = FALSE
  /\ rows = [e \in Events |-> 0]
  /\ faults = 0

Fault == faults < MaxFaults /\ faults' = faults + 1

(* A message that is lost when lost holds, which counts as a fault. *)
MayLose(lost) == IF lost THEN Fault ELSE UNCHANGED faults

-----------------------------------------------------------------------------
(* The API. *)

(* publishAudit with a deadline on the reply; no retry. *)
Publish(e) ==
  /\ request[e] = "new"
  /\ request' = [request EXCEPT ![e] = "waiting"]
  /\ published' = published \cup {e}
  /\ UNCHANGED <<confirmed, stream, pending, workerVars, rows, faults>>

(* The reply arrives: only now is the result of the lookup written. *)
Answered_WhenSent(e) == request[e] = "waiting"
Answered(e) == e \in confirmed

AnswerOk(e) ==
  /\ request[e] = "waiting"
  /\ Answered(e)
  /\ request' = [request EXCEPT ![e] = "ok"]
  /\ confirmed' = confirmed \ {e}
  /\ UNCHANGED <<published, stream, pending, workerVars, rows, faults>>

(* Timeout or transport error: 503, whatever becomes of the message. *)
AnswerUnavailable(e) ==
  /\ request[e] = "waiting"
  /\ request' = [request EXCEPT ![e] = "failed"]
  /\ UNCHANGED <<published, confirmed, stream, pending, workerVars, rows, faults>>

-----------------------------------------------------------------------------
(* The stream, as ensureAuditStream configures it. *)

HasRoom_Always == TRUE
HasRoom == Cardinality(stream) < StreamCapacity

(* File storage, then the confirmation, which can be lost. *)
StoreEvent(e) ==
  /\ e \in published
  /\ HasRoom
  /\ published' = published \ {e}
  /\ stream' = stream \cup {e}
  /\ \E lost \in BOOLEAN :
       /\ confirmed' = IF lost THEN confirmed ELSE confirmed \cup {e}
       /\ MayLose(lost)
  /\ UNCHANGED <<request, pending, workerVars, rows>>

(* DiscardNew: a full stream refuses the event with an error reply. *)
DiscardNew(e) ==
  /\ e \in published
  /\ ~ HasRoom
  /\ published' = published \ {e}
  /\ request' = [request EXCEPT ![e] = IF @ = "waiting" THEN "failed" ELSE @]
  /\ UNCHANGED <<confirmed, stream, pending, workerVars, rows, faults>>

PublishLost(e) ==
  /\ e \in published
  /\ published' = published \ {e}
  /\ Fault
  /\ UNCHANGED <<request, confirmed, stream, pending, workerVars, rows>>

Deliverable(e) ==
  /\ e \in stream \ pending
  /\ Cardinality(pending) < MaxAckPending
  /\ worker # "down"

(* A rejected message is delivered again; a lost rejection leaves that to  *)
(* the timer.                                                              *)
Nak(e) ==
  \E lost \in BOOLEAN :
    /\ pending' = IF lost THEN pending ELSE pending \ {e}
    /\ MayLose(lost)

(* WorkQueue retention: an acknowledged message is removed. *)
Ack(e) ==
  \E lost \in BOOLEAN :
    /\ stream' = IF lost THEN stream ELSE stream \ {e}
    /\ pending' = IF lost THEN pending ELSE pending \ {e}
    /\ MayLose(lost)

(* AckWait has passed since the delivery of e.  It may pass although the   *)
(* worker still holds the message, when flushes are slow.                  *)
Held(e) == e \in Elements(chan) \cup Elements(batch)
AckWaitExpires(e) ==
  /\ e \in pending
  /\ pending' = pending \ {e}
  /\ MayLose(Held(e))
  /\ UNCHANGED <<apiVars, stream, workerVars, rows>>

-----------------------------------------------------------------------------
(* The worker. *)

(* The callback of the subscription: into the channel when there is room,  *)
(* otherwise back to the stream.                                           *)
Deliver(e) ==
  /\ Deliverable(e)
  /\ Len(chan) < ChanCapacity
  /\ chan' = Append(chan, e)
  /\ pending' = pending \cup {e}
  /\ UNCHANGED <<apiVars, stream, batch, worker, stopping, rows, faults>>

DeliverToFullChan(e) ==
  /\ Deliverable(e)
  /\ Len(chan) = ChanCapacity
  /\ \E lost \in BOOLEAN :
       /\ pending' = IF lost THEN pending \cup {e} ELSE pending
       /\ MayLose(lost)
  /\ UNCHANGED <<apiVars, stream, workerVars, rows>>

(* Insert with a context that is already cancelled sends nothing. *)
Flushing == IF stopping THEN "naking" ELSE "inserting"

(* Run takes a message; a full batch is flushed at once. *)
Receive ==
  /\ worker = "select"
  /\ chan # <<>>
  /\ batch' = Append(batch, Head(chan))
  /\ chan' = Tail(chan)
  /\ worker' = IF Len(batch') >= BatchSize THEN Flushing ELSE "select"
  /\ UNCHANGED <<apiVars, stream, pending, stopping, rows, faults>>

(* The ticker flushes what there is. *)
WorthFlushing_Full == Len(batch) >= BatchSize
WorthFlushing == batch # <<>>

Flush ==
  /\ worker = "select"
  /\ WorthFlushing
  /\ worker' = Flushing
  /\ UNCHANGED <<apiVars, stream, pending, chan, batch, stopping, rows, faults>>

(* One more row for each message of the batch that is in saved. *)
Persisted(saved) ==
  [e \in Events |->
     LET copies == Cardinality({i \in DOMAIN batch : batch[i] = e /\ i \in saved})
     IN  IF rows[e] + copies > 2 THEN 2 ELSE rows[e] + copies]

(* A 2xx reply of ClickHouse. *)
AfterInsertOk_Naks == "naking"
AfterInsertOk == "acking"

InsertOk ==
  /\ worker = "inserting"
  /\ rows' = Persisted(DOMAIN batch)
  /\ worker' = AfterInsertOk
  /\ UNCHANGED <<apiVars, stream, pending, chan, batch, stopping, faults>>

(* An error, a timeout or the cancelled context: the worker does not know  *)
(* which rows are in.                                                      *)
AfterInsertError_Acks == "acking"
AfterInsertError == "naking"

InsertError ==
  /\ worker = "inserting"
  /\ \E saved \in SUBSET DOMAIN batch : rows' = Persisted(saved)
  /\ worker' = AfterInsertError
  /\ Fault
  /\ UNCHANGED <<apiVars, stream, pending, chan, batch, stopping>>

(* The loops over the batch, one message at a time; then it is emptied. *)
Finish(answer, e) ==
  /\ worker = answer
  /\ e = Head(batch)
  /\ batch' = Tail(batch)
  /\ worker' = IF Tail(batch) = <<>> /\ answer # "leaving" THEN "select" ELSE answer

AckNext ==
  \E e \in Elements(batch) :
    Finish("acking", e) /\ Ack(e) /\ UNCHANGED <<apiVars, chan, stopping, rows>>

NakNext ==
  \E e \in Elements(batch) :
    /\ Finish("naking", e) \/ Finish("leaving", e)
    /\ Nak(e)
    /\ UNCHANGED <<apiVars, stream, chan, stopping, rows>>

(* The signal that stops the worker; it is seen at the next select, where  *)
(* Go may still prefer a message or the ticker.                            *)
Stop ==
  /\ worker # "down"
  /\ ~ stopping
  /\ stopping' = TRUE
  /\ Fault
  /\ UNCHANGED <<apiVars, stream, pending, chan, batch, worker, rows>>

(* Run returns after its last flush; the channel goes with the process.    *)
Gone ==
  /\ worker' = "down" /\ stopping' = FALSE
  /\ chan' = <<>> /\ batch' = <<>>
  /\ UNCHANGED <<apiVars, stream, pending, rows>>

(* The ctx.Done branch flushes, which rejects the batch, and returns. *)
ContextDone ==
  /\ worker = "select"
  /\ stopping
  /\ worker' = "leaving"
  /\ UNCHANGED <<apiVars, stream, pending, chan, batch, stopping, rows, faults>>

Exit == worker = "leaving" /\ batch = <<>> /\ Gone /\ UNCHANGED faults
WorkerCrash == worker # "down" /\ Gone /\ Fault

Start ==
  /\ worker = "down"
  /\ worker' = "select"
  /\ UNCHANGED <<apiVars, stream, pending, chan, batch, stopping, rows, faults>>

-----------------------------------------------------------------------------
Run == Receive \/ Flush \/ InsertOk \/ InsertError \/ AckNext \/ NakNext \/ ContextDone \/ Exit

Next ==
  \/ \E e \in Events :
       \/ Publish(e) \/ AnswerOk(e) \/ AnswerUnavailable(e)
       \/ StoreEvent(e) \/ DiscardNew(e) \/ PublishLost(e)
       \/ Deliver(e) \/ DeliverToFullChan(e) \/ AckWaitExpires(e)
  \/ Run \/ Stop \/ WorkerCrash \/ Start

Spec == Init /\ [][Next]_vars

(* Run always takes one of the ready branches of its select, none of them  *)
(* for ever before the others, and Insert returns within its timeout;      *)
(* JetStream delivers again what was not answered within AckWait; the      *)
(* Deployment starts the worker again.                                     *)
FairSpec ==
  /\ Spec
  /\ WF_vars(Run) /\ SF_vars(ContextDone)
  /\ WF_vars(Start)
  /\ \A e \in Events : WF_vars(Deliver(e)) /\ WF_vars(AckWaitExpires(e))

-----------------------------------------------------------------------------
(* Correctness. *)

(* docs/ARCHITECTURE.md, "Audit durability": a result leaves the API only  *)
(* for an event that is in the stream or in the database.                  *)
AnsweredIsKept ==
  \A e \in Events : request[e] = "ok" => e \in stream \/ rows[e] > 0

(* Duplicates come from failures only: with no loss, timeout, failed        *)
(* insert, crash or restart there is one row per event, also when the      *)
(* channel overflows and messages go back to the stream.                   *)
OneRowUnlessFault ==
  faults = 0 => \A e \in Events : rows[e] <= 1

(* A message in the hands of the acknowledging loop has been written.      *)
OnlyWrittenIsAcked ==
  worker = "acking" => \A e \in Elements(batch) : rows[e] > 0

(* AuditPipeline implements AuditDelivery: no loss, failed insert, full    *)
(* channel or restart makes an event leave the stream before it has a row. *)
Delivery == INSTANCE AuditDelivery WITH
  answered <- {e \in Events : request[e] = "ok"},
  journal <- stream \cup {e \in Events : rows[e] > 0},
  persisted <- {e \in Events : rows[e] > 0}

ImplementsDelivery == Delivery!Spec

(* When the faults stop, every stored event becomes a row ...              *)
EventuallyPersisted ==
  \A e \in Events : e \in stream ~> rows[e] > 0

(* ... and the stream gives its space back.                                *)
StreamDrains == \A e \in Events : e \in stream ~> e \notin stream
=============================================================================

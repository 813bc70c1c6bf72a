------------------------ MODULE AuditPipelineProofs ------------------------
(***************************************************************************)
(* The safety of AuditPipeline for any number of events, any capacities    *)
(* and any number of losses, failures, stops and crashes: AuditInv is      *)
(* inductive, and AuditPipeline implements AuditDelivery.                  *)
(***************************************************************************)
EXTENDS AuditPipeline, FiniteSetTheorems, SequenceTheorems, TLAPS

(* The audit path has the event: in the stream or in the database. *)
Kept(e) == e \in stream \/ rows[e] > 0

(* A batch that Run still fills has room, and a worker that is down holds   *)
(* nothing.                                                                 *)
BatchOK ==
  /\ worker = "select" => Len(batch) < BatchSize
  /\ worker = "down" => chan = <<>> /\ batch = <<>>

(* What is confirmed, or in the worker's hands, has reached the stream. *)
HandsOK == \A e \in Events : e \in confirmed \/ Held(e) => Kept(e)

(* A message on its way to the stream has left no trace yet: publishAudit   *)
(* sends it once.                                                           *)
FreshOK ==
  \A e \in Events :
    /\ request[e] = "new" => e \notin published
    /\ request[e] = "new" \/ e \in published => ~ Kept(e)

Injective(seq) == \A i, j \in DOMAIN seq : seq[i] = seq[j] => i = j

(* Without faults the worker holds each pending message once, and only what *)
(* it is acknowledging is both in the stream and in the database.           *)
OneCopy ==
  /\ worker \notin {"naking", "leaving"} /\ ~ stopping
  /\ Injective(chan) /\ Injective(batch)
  /\ Elements(chan) \cap Elements(batch) = {}
  /\ \A e \in Events : Held(e) => e \in pending
  /\ \A e \in Events :
       /\ rows[e] <= 1
       /\ rows[e] > 0 /\ e \in stream => worker = "acking" /\ e \in Elements(batch)

CleanOK == faults = 0 => OneCopy

AuditInv ==
  /\ TypeOK /\ BatchOK /\ HandsOK /\ FreshOK
  /\ AnsweredIsKept /\ OnlyWrittenIsAcked /\ CleanOK

-----------------------------------------------------------------------------
(* What the channel and the batch hold after a send and after a receive. *)
LEMMA AppendElements ==
  ASSUME NEW seq \in Seq(Events), NEW e \in Events
  PROVE  /\ Append(seq, e) \in Seq(Events)
         /\ Len(Append(seq, e)) = Len(seq) + 1
         /\ Elements(Append(seq, e)) = Elements(seq) \cup {e}
         /\ Injective(seq) /\ e \notin Elements(seq) => Injective(Append(seq, e))
<1> DEFINE new == Append(seq, e)
<1>1. /\ new \in Seq(Events) /\ Len(new) = Len(seq) + 1 /\ Len(seq) \in Nat
      /\ DOMAIN seq = 1 .. Len(seq) /\ DOMAIN new = 1 .. Len(seq) + 1
      /\ \A i \in 1 .. Len(seq) : new[i] = seq[i]
      /\ new[Len(seq) + 1] = e
  OBVIOUS
<1> HIDE DEF new
<1>2. Elements(new) = Elements(seq) \cup {e}
  <2>1. ASSUME NEW x \in Elements(new) PROVE x \in Elements(seq) \cup {e}
    BY <1>1 DEF Elements
  <2>2. ASSUME NEW x \in Elements(seq) PROVE x \in Elements(new)
    BY <1>1 DEF Elements
  <2>3. e \in Elements(new)
    <3>1. Len(seq) + 1 \in DOMAIN new
      BY <1>1
    <3> QED BY <1>1, <3>1 DEF Elements
  <2> QED BY <2>1, <2>2, <2>3
<1>3. ASSUME Injective(seq), e \notin Elements(seq) PROVE Injective(new)
  BY <1>1, <1>3 DEF Injective, Elements
<1> QED BY <1>1, <1>2, <1>3 DEF new

LEMMA TailElements ==
  ASSUME NEW seq \in Seq(Events), seq # <<>>
  PROVE  /\ Head(seq) \in Events
         /\ Tail(seq) \in Seq(Events)
         /\ Len(Tail(seq)) = Len(seq) - 1
         /\ Elements(seq) = {Head(seq)} \cup Elements(Tail(seq))
         /\ Injective(seq) => Injective(Tail(seq)) /\ Head(seq) \notin Elements(Tail(seq))
<1> DEFINE rest == Tail(seq)
<1>1. /\ rest \in Seq(Events) /\ Len(rest) = Len(seq) - 1 /\ Len(seq) \in Nat \ {0}
      /\ DOMAIN seq = 1 .. Len(seq) /\ DOMAIN rest = 1 .. Len(seq) - 1
      /\ \A i \in 1 .. Len(seq) - 1 : rest[i] = seq[i + 1]
      /\ Head(seq) = seq[1] /\ Head(seq) \in Events
  BY HeadTailProperties, EmptySeq, LenProperties
<1> HIDE DEF rest
<1>2. Elements(seq) = {Head(seq)} \cup Elements(rest)
  <2>1. ASSUME NEW i \in DOMAIN seq PROVE seq[i] \in {Head(seq)} \cup Elements(rest)
    <3>1. CASE i = 1
      BY <1>1, <3>1
    <3>2. CASE i # 1
      <4>1. i - 1 \in DOMAIN rest /\ rest[i - 1] = seq[i]
        BY <1>1, <3>2
      <4> QED BY <4>1 DEF Elements
    <3> QED BY <3>1, <3>2
  <2>2. ASSUME NEW i \in DOMAIN rest PROVE rest[i] \in Elements(seq)
    <3>1. i + 1 \in DOMAIN seq /\ rest[i] = seq[i + 1]
      BY <1>1
    <3> QED BY <3>1 DEF Elements
  <2>3. Head(seq) \in Elements(seq)
    <3>1. 1 \in DOMAIN seq
      BY <1>1
    <3> QED BY <1>1, <3>1 DEF Elements
  <2> QED BY <2>1, <2>2, <2>3 DEF Elements
<1>3. ASSUME Injective(seq)
      PROVE  Injective(rest) /\ Head(seq) \notin Elements(rest)
  <2>1. ASSUME NEW i \in DOMAIN rest
        PROVE  i + 1 \in DOMAIN seq /\ rest[i] = seq[i + 1] /\ i + 1 # 1 /\ i \in Int
    BY <1>1
  <2>2. 1 \in DOMAIN seq
    BY <1>1
  <2>3. Injective(rest)
    BY <1>3, <2>1 DEF Injective
  <2>4. Head(seq) \notin Elements(rest)
    BY <1>1, <1>3, <2>1, <2>2 DEF Injective, Elements
  <2> QED BY <2>3, <2>4
<1> QED BY <1>1, <1>2, <1>3 DEF rest

(* How an insert of the rows numbered saved counts the rows of an event. *)
LEMMA PersistedRows ==
  ASSUME TypeOK, NEW saved \in SUBSET DOMAIN batch
  PROVE  /\ Persisted(saved) \in [Events -> 0 .. 2]
         /\ \A e \in Events :
              /\ Persisted(saved)[e] >= rows[e]
              /\ rows[e] = 0 /\ Persisted(saved)[e] > 0 => e \in Elements(batch)
              /\ e \in Elements(batch) /\ saved = DOMAIN batch => Persisted(saved)[e] > 0
              /\ e \notin Elements(batch) => Persisted(saved)[e] = rows[e]
              /\ Injective(batch) /\ rows[e] = 0 => Persisted(saved)[e] <= 1
<1> DEFINE at(e) == {i \in DOMAIN batch : batch[i] = e /\ i \in saved}
<1>1. batch \in Seq(Events) /\ rows \in [Events -> 0 .. 2]
      /\ Len(batch) \in Nat /\ DOMAIN batch = 1 .. Len(batch)
  BY LenProperties DEF TypeOK
<1>2. IsFiniteSet(DOMAIN batch)
  BY <1>1, FS_Interval
<1>3. ASSUME NEW e \in Events
      PROVE  IsFiniteSet(at(e)) /\ Cardinality(at(e)) \in Nat
             /\ (Cardinality(at(e)) = 0 <=> at(e) = {})
  <2>1. at(e) \in SUBSET DOMAIN batch
    OBVIOUS
  <2>2. IsFiniteSet(at(e))
    BY <1>2, <2>1, FS_Subset
  <2> QED BY <2>2, FS_CardinalityType, FS_EmptySet
<1>4. ASSUME NEW e \in Events
      PROVE  Persisted(saved)[e] = IF rows[e] + Cardinality(at(e)) > 2 THEN 2
                                   ELSE rows[e] + Cardinality(at(e))
  BY <1>4 DEF Persisted
<1>5. ASSUME NEW e \in Events
      PROVE  /\ at(e) # {} => e \in Elements(batch)
             /\ e \in Elements(batch) /\ saved = DOMAIN batch => at(e) # {}
  BY DEF Elements
<1>6. ASSUME NEW e \in Events, Injective(batch) PROVE Cardinality(at(e)) <= 1
  <2>1. CASE at(e) = {}
    <3>1. Cardinality({}) = 0
      BY FS_EmptySet
    <3> QED BY <2>1, <3>1
  <2>2. CASE at(e) # {}
    <3>1. PICK i \in DOMAIN batch : i \in at(e)
      BY <2>2
    <3>2. at(e) = {i}
      BY <1>6, <3>1 DEF Injective
    <3> QED BY <3>2, FS_Singleton
  <2> QED BY <2>1, <2>2
<1> HIDE DEF at
<1>7. ASSUME NEW e \in Events
      PROVE  /\ Persisted(saved)[e] \in 0 .. 2
             /\ Persisted(saved)[e] >= rows[e]
             /\ Cardinality(at(e)) = 0 => Persisted(saved)[e] = rows[e]
             /\ Cardinality(at(e)) # 0 => Persisted(saved)[e] > 0
             /\ Cardinality(at(e)) <= 1 /\ rows[e] = 0 => Persisted(saved)[e] <= 1
  BY <1>1, <1>3, <1>4
<1>8. Persisted(saved) \in [Events -> 0 .. 2]
  BY <1>7 DEF Persisted
<1> QED BY <1>1, <1>3, <1>5, <1>6, <1>7, <1>8

-----------------------------------------------------------------------------
(* The stream and its pending deliveries keep their types and bounds. *)
BrokerOK ==
  /\ stream \subseteq Events /\ pending \subseteq stream
  /\ Cardinality(stream) <= StreamCapacity
  /\ Cardinality(pending) <= MaxAckPending

LEMMA Bounded ==
  ASSUME NEW S \in SUBSET Events, NEW e \in Events, NEW n \in Nat,
         Cardinality(S) <= n
  PROVE  /\ Cardinality(S \ {e}) <= n
         /\ Cardinality(S) < n => Cardinality(S \cup {e}) <= n
<1>1. IsFiniteSet(S)
  BY FS_Subset, AuditPipelineAssumption DEF AuditPipelineAssumption
<1>2. Cardinality(S) \in Nat
  BY <1>1, FS_CardinalityType
<1>3. Cardinality(S \ {e}) = IF e \in S THEN Cardinality(S) - 1 ELSE Cardinality(S)
  BY <1>1, FS_RemoveElement
<1>4. Cardinality(S \cup {e}) = IF e \in S THEN Cardinality(S) ELSE Cardinality(S) + 1
  BY <1>1, FS_AddElement
<1> QED BY <1>2, <1>3, <1>4

(* Faults are counted and never taken back. *)
LEMMA FaultFacts ==
  ASSUME TypeOK, NEW lost \in BOOLEAN
  PROVE  /\ Fault => faults' \in 0 .. MaxFaults /\ faults' # 0
         /\ UNCHANGED faults => faults' \in 0 .. MaxFaults
         /\ MayLose(lost) => /\ faults' \in 0 .. MaxFaults
                             /\ faults' = 0 => ~ lost /\ faults = 0
  BY AuditPipelineAssumption DEF TypeOK, Fault, MayLose, AuditPipelineAssumption

LEMMA InitEstablishesInv == Init => AuditInv
<1> SUFFICES ASSUME Init PROVE AuditInv
  OBVIOUS
<1>1. Elements(<<>>) = {} /\ Injective(<<>>)
  BY DEF Elements, Injective
<1>2. /\ Cardinality({}) = 0
      /\ <<>> \in Seq(Events) /\ Len(<<>>) = 0
  BY FS_EmptySet, EmptySeq
<1>3. TypeOK
  <2>1. /\ Cardinality(stream) <= StreamCapacity
        /\ Cardinality(pending) <= MaxAckPending
        /\ Len(chan) <= ChanCapacity /\ Len(batch) <= BatchSize
    BY <1>2, AuditPipelineAssumption DEF Init, AuditPipelineAssumption
  <2>2. /\ request \in [Events -> {"new", "waiting", "ok", "failed"}]
        /\ rows \in [Events -> 0 .. 2]
        /\ faults \in 0 .. MaxFaults
    BY AuditPipelineAssumption DEF Init, AuditPipelineAssumption
  <2>3. chan \in Seq(Events) /\ batch \in Seq(Events)
    BY <1>2 DEF Init
  <2> QED BY <2>1, <2>2, <2>3 DEF Init, TypeOK
<1>4. BatchOK /\ HandsOK /\ FreshOK /\ AnsweredIsKept /\ OnlyWrittenIsAcked /\ CleanOK
  BY <1>1 DEF Init, BatchOK, HandsOK, FreshOK, Kept, Held, AnsweredIsKept,
              OnlyWrittenIsAcked, CleanOK, OneCopy
<1> QED BY <1>3, <1>4 DEF AuditInv

(* What a handler does: it neither touches the stream nor the worker, it    *)
(* reports a result for a confirmed event only, and it starts from "new".   *)
LEMMA HandlerStep ==
  ASSUME AuditInv, NEW e \in Events,
         Publish(e) \/ AnswerOk(e) \/ AnswerUnavailable(e)
  PROVE  AuditInv'
<1>1. UNCHANGED <<stream, pending, workerVars, rows, faults>>
  BY DEF Publish, AnswerOk, AnswerUnavailable
<1>2. /\ request \in [Events -> {"new", "waiting", "ok", "failed"}]
      /\ published \subseteq Events
  BY DEF AuditInv, TypeOK
<1>3. /\ request' \in [Events -> {"new", "waiting", "ok", "failed"}]
      /\ published' \subseteq Events /\ confirmed' \subseteq confirmed
      /\ \A f \in Events :
           /\ request'[f] = "new" => request[f] = "new" /\ f # e
           /\ f \in published' => f \in published \/ (f = e /\ request[e] = "new")
           /\ request'[f] = "ok" => request[f] = "ok" \/ f \in confirmed
  <2>1. CASE Publish(e)
    BY <1>2, <2>1 DEF Publish
  <2>2. CASE AnswerOk(e)
    BY <1>2, <2>2 DEF AnswerOk, Answered
  <2>3. CASE AnswerUnavailable(e)
    BY <1>2, <2>3 DEF AnswerUnavailable
  <2> QED BY <2>1, <2>2, <2>3
<1>4. TypeOK'
  BY <1>1, <1>3 DEF AuditInv, TypeOK, workerVars
<1>5. FreshOK'
  <2>1. ASSUME NEW f \in Events, request'[f] = "new" PROVE f \notin published'
    <3>1. CASE Publish(e)
      BY <1>3, <2>1, <3>1 DEF AuditInv, FreshOK, Publish
    <3>2. CASE AnswerOk(e)
      BY <1>3, <2>1, <3>2 DEF AuditInv, FreshOK, AnswerOk
    <3>3. CASE AnswerUnavailable(e)
      BY <1>3, <2>1, <3>3 DEF AuditInv, FreshOK, AnswerUnavailable
    <3> QED BY <3>1, <3>2, <3>3
  <2> QED BY <1>1, <1>3, <2>1 DEF AuditInv, FreshOK, Kept
<1>6. HandsOK' /\ AnsweredIsKept'
  BY <1>1, <1>3 DEF AuditInv, HandsOK, AnsweredIsKept, Held, Kept, Elements, workerVars
<1>7. BatchOK' /\ OnlyWrittenIsAcked' /\ CleanOK'
  BY <1>1 DEF AuditInv, BatchOK, OnlyWrittenIsAcked, CleanOK, OneCopy, Injective, Held,
              Elements, workerVars
<1> QED BY <1>4, <1>5, <1>6, <1>7 DEF AuditInv

(* The stream stores, refuses or loses a publish message.  A stored event   *)
(* is new to the audit path.                                                *)
LEMMA StreamStep ==
  ASSUME AuditInv, NEW e \in Events,
         StoreEvent(e) \/ DiscardNew(e) \/ PublishLost(e)
  PROVE  AuditInv'
<1>1. /\ UNCHANGED <<pending, workerVars, rows>>
      /\ e \in published /\ published' = published \ {e}
  BY DEF StoreEvent, DiscardNew, PublishLost
<1>2. UNCHANGED <<chan, batch, worker, stopping, rows, pending>>
  BY <1>1 DEF workerVars
<1>3. /\ request \in [Events -> {"new", "waiting", "ok", "failed"}]
      /\ published \subseteq Events /\ confirmed \subseteq Events /\ stream \subseteq Events
      /\ rows \in [Events -> 0 .. 2] /\ TypeOK
  BY DEF AuditInv, TypeOK
<1>4. /\ request' \in [Events -> {"new", "waiting", "ok", "failed"}]
      /\ \A f \in Events :
           /\ request'[f] = "new" => request[f] = "new"
           /\ request'[f] = "ok" => request[f] = "ok"
  <2>1. CASE StoreEvent(e) \/ PublishLost(e)
    BY <1>3, <2>1 DEF StoreEvent, PublishLost
  <2>2. CASE DiscardNew(e)
    BY <1>3, <2>2 DEF DiscardNew
  <2> QED BY <2>1, <2>2
<1>5. /\ stream' \subseteq stream \cup {e} /\ stream \subseteq stream'
      /\ confirmed' \subseteq confirmed \cup {e}
      /\ e \in confirmed' => e \in confirmed \/ e \in stream'
      /\ Cardinality(stream') <= StreamCapacity
  <2>1. CASE StoreEvent(e)
    <3>1. Cardinality(stream \cup {e}) <= StreamCapacity
      BY <1>3, <2>1, Bounded, AuditPipelineAssumption
         DEF TypeOK, StoreEvent, HasRoom, AuditPipelineAssumption
    <3> QED BY <2>1, <3>1 DEF StoreEvent
  <2>2. CASE DiscardNew(e) \/ PublishLost(e)
    BY <1>3, <2>2 DEF TypeOK, DiscardNew, PublishLost
  <2> QED BY <2>1, <2>2
<1>6. faults' \in 0 .. MaxFaults /\ (faults' = 0 => faults = 0)
  <2>1. CASE StoreEvent(e)
    BY <1>3, <2>1, FaultFacts DEF StoreEvent
  <2>2. CASE DiscardNew(e) \/ PublishLost(e)
    BY <1>3, <2>2, FaultFacts DEF DiscardNew, PublishLost
  <2> QED BY <2>1, <2>2
<1>7. TypeOK'
  BY <1>1, <1>2, <1>3, <1>4, <1>5, <1>6 DEF TypeOK
<1>8. ~ Kept(e) /\ request[e] # "new"
  BY <1>1 DEF AuditInv, FreshOK
<1>9. FreshOK'
  BY <1>1, <1>2, <1>4, <1>5, <1>8 DEF AuditInv, FreshOK, Kept
<1>10. HandsOK' /\ AnsweredIsKept' /\ OnlyWrittenIsAcked' /\ BatchOK'
  BY <1>1, <1>2, <1>4, <1>5
     DEF AuditInv, HandsOK, AnsweredIsKept, OnlyWrittenIsAcked, BatchOK, Held, Kept, Elements
<1>11. CleanOK'
  <2>1. ~ (rows[e] > 0)
    BY <1>8 DEF Kept
  <2> QED
    BY <1>2, <1>5, <1>6, <2>1 DEF AuditInv, CleanOK, OneCopy, Injective, Held, Elements
<1> QED BY <1>7, <1>9, <1>10, <1>11 DEF AuditInv

(* A delivery, or the end of one: the pending set and the channel change.   *)
LEMMA DeliveryStep ==
  ASSUME AuditInv, NEW e \in Events,
         Deliver(e) \/ DeliverToFullChan(e) \/ AckWaitExpires(e)
  PROVE  AuditInv'
<1>1. UNCHANGED <<request, published, confirmed, stream, batch, worker, stopping, rows>>
  BY DEF Deliver, DeliverToFullChan, AckWaitExpires, apiVars, workerVars
<1>2. /\ TypeOK /\ pending \in SUBSET Events /\ e \in stream
      /\ chan \in Seq(Events) /\ Len(chan) \in Nat /\ ChanCapacity \in Nat
      /\ MaxAckPending \in Nat
  BY LenProperties, AuditPipelineAssumption
     DEF AuditInv, TypeOK, AuditPipelineAssumption, Deliver, DeliverToFullChan, Deliverable,
         AckWaitExpires
<1>3. pending' \subseteq stream /\ Cardinality(pending') <= MaxAckPending
  <2>1. CASE Deliver(e) \/ DeliverToFullChan(e)
    <3>1. Cardinality(pending \cup {e}) <= MaxAckPending
      BY <1>2, <2>1, Bounded DEF TypeOK, Deliver, DeliverToFullChan, Deliverable
    <3> QED BY <1>2, <2>1, <3>1 DEF TypeOK, Deliver, DeliverToFullChan
  <2>2. CASE AckWaitExpires(e)
    BY <1>2, <2>2, Bounded DEF TypeOK, AckWaitExpires
  <2> QED BY <2>1, <2>2
<1>4. /\ chan' \in Seq(Events) /\ Len(chan') <= ChanCapacity
      /\ Elements(chan') \subseteq Elements(chan) \cup {e}
      /\ worker = "down" => UNCHANGED chan
  <2>1. CASE Deliver(e)
    BY <1>2, <2>1, AppendElements DEF Deliver, Deliverable
  <2>2. CASE DeliverToFullChan(e) \/ AckWaitExpires(e)
    BY <1>2, <2>2 DEF TypeOK, DeliverToFullChan, AckWaitExpires, workerVars
  <2> QED BY <2>1, <2>2
<1>5. faults' \in 0 .. MaxFaults /\ (faults' = 0 => faults = 0)
  <2>1. Held(e) \in BOOLEAN
    BY DEF Held
  <2> QED BY <1>2, <2>1, FaultFacts DEF Deliver, DeliverToFullChan, AckWaitExpires
<1>6. TypeOK'
  BY <1>1, <1>2, <1>3, <1>4, <1>5 DEF TypeOK
<1>7. BatchOK' /\ FreshOK' /\ HandsOK' /\ AnsweredIsKept' /\ OnlyWrittenIsAcked'
  BY <1>1, <1>2, <1>4
     DEF AuditInv, BatchOK, FreshOK, HandsOK, AnsweredIsKept, OnlyWrittenIsAcked, Kept, Held,
         Elements
<1>8. ASSUME faults' = 0 PROVE OneCopy'
  <2>1. OneCopy
    BY <1>5, <1>8 DEF AuditInv, CleanOK
  <2>2. CASE Deliver(e)
    <3>1. e \notin Elements(chan) /\ e \notin Elements(batch)
      BY <2>1, <2>2 DEF OneCopy, Held, Deliver, Deliverable
    <3>2. /\ Elements(chan') = Elements(chan) \cup {e} /\ Injective(chan')
          /\ pending' = pending \cup {e}
      BY <1>2, <2>1, <2>2, <3>1, AppendElements DEF OneCopy, Deliver
    <3>3. Elements(batch)' = Elements(batch) /\ Injective(batch)'
      BY <1>1, <2>1 DEF Elements, Injective, OneCopy
    <3> QED BY <1>1, <2>1, <3>1, <3>2, <3>3 DEF OneCopy, Held
  <2>3. CASE DeliverToFullChan(e) \/ AckWaitExpires(e)
    <3>1. UNCHANGED chan
      BY <2>3 DEF DeliverToFullChan, AckWaitExpires, workerVars
    <3>2. \A f \in Events : Held(f) /\ f \in pending => f \in pending'
      <4>1. CASE DeliverToFullChan(e)
        BY <4>1 DEF DeliverToFullChan
      <4>2. CASE AckWaitExpires(e)
        <5>1. ~ Held(e)
          BY <1>2, <1>8, <4>2, FaultFacts DEF AckWaitExpires, Held
        <5> QED BY <4>2, <5>1 DEF AckWaitExpires
      <4> QED BY <2>3, <4>1, <4>2
    <3> QED BY <1>1, <2>1, <3>1, <3>2 DEF OneCopy, Held, Elements, Injective
  <2> QED BY <2>2, <2>3
<1>9. CleanOK'
  BY <1>8 DEF CleanOK
<1> QED BY <1>6, <1>7, <1>9 DEF AuditInv

(* Run takes a message from the channel: what the worker holds stays the same. *)
LEMMA ReceiveStep == ASSUME AuditInv, Receive PROVE AuditInv'
<1>1. /\ UNCHANGED <<request, published, confirmed, stream, pending, stopping, rows, faults>>
      /\ chan # <<>> /\ worker = "select"
      /\ batch' = Append(batch, Head(chan)) /\ chan' = Tail(chan)
      /\ worker' \in {"select", "inserting", "naking"}
      /\ worker' = "select" => Len(batch') < BatchSize
      /\ worker' = "naking" => stopping
  <2>1. TypeOK /\ BatchSize \in Nat
    BY AuditPipelineAssumption DEF AuditInv, AuditPipelineAssumption
  <2>2. Len(Append(batch, Head(chan))) \in Nat
    BY <2>1, TailElements, AppendElements, LenProperties DEF TypeOK, Receive
  <2> QED BY <2>1, <2>2 DEF Receive, Flushing, apiVars
<1>2. /\ chan \in Seq(Events) /\ batch \in Seq(Events)
      /\ Len(chan) \in Nat /\ Len(batch) \in Nat /\ BatchSize \in Nat /\ ChanCapacity \in Nat
      /\ Len(batch) < BatchSize /\ Len(chan) <= ChanCapacity
  BY <1>1, LenProperties, AuditPipelineAssumption
     DEF AuditInv, TypeOK, BatchOK, AuditPipelineAssumption
<1>3. /\ Head(chan) \in Events /\ chan' \in Seq(Events) /\ Len(chan') = Len(chan) - 1
      /\ Elements(chan) = {Head(chan)} \cup Elements(chan')
      /\ Injective(chan) => Injective(chan') /\ Head(chan) \notin Elements(chan')
  BY <1>1, <1>2, TailElements
<1>4. /\ batch' \in Seq(Events) /\ Len(batch') = Len(batch) + 1
      /\ Elements(batch') = Elements(batch) \cup {Head(chan)}
      /\ Injective(batch) /\ Head(chan) \notin Elements(batch) => Injective(batch')
  BY <1>1, <1>2, <1>3, AppendElements
<1>5. TypeOK'
  BY <1>1, <1>2, <1>3, <1>4 DEF AuditInv, TypeOK
<1>6. \A e \in Events : Held(e)' <=> Held(e)
  BY <1>3, <1>4 DEF Held
<1>7. BatchOK' /\ FreshOK' /\ HandsOK' /\ AnsweredIsKept' /\ OnlyWrittenIsAcked'
  BY <1>1, <1>6
     DEF AuditInv, BatchOK, FreshOK, HandsOK, AnsweredIsKept, OnlyWrittenIsAcked, Kept
<1>8. CleanOK'
  <2>1. ASSUME faults = 0, OneCopy PROVE OneCopy'
    BY <1>1, <1>3, <1>4, <1>6, <2>1 DEF OneCopy
  <2> QED BY <1>1, <2>1 DEF AuditInv, CleanOK
<1> QED BY <1>5, <1>7, <1>8 DEF AuditInv

(* The steps of Run, and of those who start, stop or kill it, that leave    *)
(* the channel and the batch alone or empty both.                           *)
LEMMA ControlStep ==
  ASSUME AuditInv, Flush \/ Stop \/ ContextDone \/ Exit \/ WorkerCrash \/ Start
  PROVE  AuditInv'
<1>1. UNCHANGED <<request, published, confirmed, stream, pending, rows>>
  BY DEF Flush, Stop, ContextDone, Exit, WorkerCrash, Start, Gone, apiVars
<1>2. TypeOK
  BY DEF AuditInv
<1>3. CASE Flush \/ Start
  <2>1. UNCHANGED <<chan, batch, stopping, faults>>
    BY <1>3 DEF Flush, Start
  <2>2. /\ worker' \in {"select", "inserting", "naking"} /\ worker # "acking"
        /\ worker' = "naking" => stopping
        /\ worker' = "select" => batch = <<>>
    BY <1>3 DEF Flush, Start, Flushing, AuditInv, BatchOK
  <2>3. Len(<<>>) < BatchSize
    BY EmptySeq, AuditPipelineAssumption DEF AuditPipelineAssumption
  <2>4. TypeOK'
    BY <1>1, <1>2, <2>1, <2>2 DEF TypeOK
  <2>5. CleanOK'
    BY <1>1, <2>1, <2>2 DEF AuditInv, CleanOK, OneCopy, Held, Elements, Injective
  <2>6. BatchOK' /\ FreshOK' /\ HandsOK' /\ AnsweredIsKept' /\ OnlyWrittenIsAcked'
    BY <1>1, <2>1, <2>2, <2>3
       DEF AuditInv, BatchOK, FreshOK, HandsOK, AnsweredIsKept, OnlyWrittenIsAcked, Kept, Held,
           Elements
  <2> QED BY <2>4, <2>5, <2>6 DEF AuditInv
<1>4. CASE Stop \/ ContextDone
  <2>1. /\ UNCHANGED <<chan, batch>>
        /\ worker' \in {worker, "leaving"}
        /\ stopping' = TRUE
        /\ faults' \in 0 .. MaxFaults
        /\ faults' = 0 => faults = 0 /\ stopping
        /\ worker' = "select" => worker = "select"
        /\ worker' = "down" => worker = "down"
        /\ worker' = "acking" => worker = "acking"
    BY <1>2, <1>4, FaultFacts DEF Stop, ContextDone, TypeOK
  <2>2. TypeOK'
    BY <1>1, <1>2, <2>1 DEF TypeOK
  <2>3. CleanOK'
    BY <2>1 DEF AuditInv, CleanOK, OneCopy
  <2>4. BatchOK' /\ FreshOK' /\ HandsOK' /\ AnsweredIsKept' /\ OnlyWrittenIsAcked'
    BY <1>1, <2>1
       DEF AuditInv, BatchOK, FreshOK, HandsOK, AnsweredIsKept, OnlyWrittenIsAcked, Kept, Held,
           Elements
  <2> QED BY <2>2, <2>3, <2>4 DEF AuditInv
<1>5. CASE Exit \/ WorkerCrash
  <2>1. /\ chan' = <<>> /\ batch' = <<>> /\ worker' = "down" /\ stopping' = FALSE
        /\ faults' \in 0 .. MaxFaults
        /\ faults' = 0 => faults = 0 /\ worker = "leaving"
    BY <1>2, <1>5, FaultFacts DEF Exit, WorkerCrash, Gone
  <2>2. /\ <<>> \in Seq(Events) /\ Len(<<>>) = 0 /\ Elements(<<>>) = {}
    BY EmptySeq DEF Elements
  <2>3. TypeOK'
    <3>1. 0 <= ChanCapacity /\ 0 <= BatchSize
      BY AuditPipelineAssumption DEF AuditPipelineAssumption
    <3> QED BY <1>1, <1>2, <2>1, <2>2, <3>1 DEF TypeOK
  <2> QED
    BY <1>1, <2>1, <2>2, <2>3
       DEF AuditInv, BatchOK, FreshOK, HandsOK, AnsweredIsKept, OnlyWrittenIsAcked,
           CleanOK, OneCopy, Kept, Held
<1> QED BY <1>3, <1>4, <1>5

(* An insert: rows are only added, and only for what the batch holds. *)
LEMMA InsertStep ==
  ASSUME AuditInv, NEW saved \in SUBSET DOMAIN batch, rows' = Persisted(saved),
         worker = "inserting",
         UNCHANGED <<apiVars, stream, pending, chan, batch, stopping>>,
         \/ worker' = "acking" /\ saved = DOMAIN batch /\ UNCHANGED faults
         \/ worker' = "naking" /\ Fault
  PROVE  AuditInv'
<1>1. /\ UNCHANGED <<request, published, confirmed, stream, pending, chan, batch, stopping>>
      /\ TypeOK
  BY DEF apiVars, AuditInv
<1>2. /\ rows' \in [Events -> 0 .. 2]
      /\ \A e \in Events :
           /\ rows'[e] >= rows[e]
           /\ rows[e] = 0 /\ rows'[e] > 0 => e \in Elements(batch)
           /\ e \in Elements(batch) /\ saved = DOMAIN batch => rows'[e] > 0
           /\ e \notin Elements(batch) => rows'[e] = rows[e]
           /\ Injective(batch) /\ rows[e] = 0 => rows'[e] <= 1
  BY <1>1, PersistedRows
<1>3. /\ faults' \in 0 .. MaxFaults
      /\ faults' = 0 => faults = 0 /\ worker' = "acking"
  BY <1>1, FaultFacts
<1>4. TypeOK'
  BY <1>1, <1>2, <1>3 DEF TypeOK
<1>5. batch \in Seq(Events) /\ rows \in [Events -> 0 .. 2] /\ Elements(batch) \subseteq Events
  BY <1>1 DEF TypeOK, Elements
<1>6. \A e \in Events : Kept(e) => Kept(e)'
  BY <1>1, <1>2, <1>5 DEF Kept
<1>7. BatchOK' /\ HandsOK' /\ AnsweredIsKept'
  BY <1>1, <1>6 DEF AuditInv, BatchOK, HandsOK, AnsweredIsKept, Kept, Held, Elements
<1>8. OnlyWrittenIsAcked'
  BY <1>1, <1>2, <1>5 DEF OnlyWrittenIsAcked, Elements
<1>9. FreshOK'
  <2>1. ASSUME NEW e \in Events, ~ Kept(e) PROVE ~ Kept(e)'
    <3>1. e \notin Elements(batch)
      BY <2>1 DEF AuditInv, HandsOK, Held
    <3> QED BY <1>1, <1>2, <2>1, <3>1 DEF Kept
  <2> QED BY <1>1, <2>1 DEF AuditInv, FreshOK
<1>10. CleanOK'
  <2>1. ASSUME faults = 0, OneCopy, worker' = "acking" PROVE OneCopy'
    <3>1. ASSUME NEW e \in Events
          PROVE  /\ rows'[e] <= 1
                 /\ rows'[e] > 0 /\ e \in stream => e \in Elements(batch)
      <4>1. CASE e \in Elements(batch)
        <5>1. e \in stream
          BY <1>1, <2>1, <3>1, <4>1 DEF OneCopy, Held, TypeOK
        <5>2. rows[e] = 0
          BY <1>5, <2>1, <5>1 DEF OneCopy
        <5> QED BY <1>2, <2>1, <4>1, <5>2 DEF OneCopy
      <4>2. CASE e \notin Elements(batch)
        BY <1>2, <2>1, <3>1, <4>2 DEF OneCopy
      <4> QED BY <4>1, <4>2
    <3> QED BY <1>1, <2>1, <3>1 DEF OneCopy, Held, Elements, Injective
  <2> QED BY <1>3, <2>1 DEF AuditInv, CleanOK
<1> QED BY <1>4, <1>7, <1>8, <1>9, <1>10 DEF AuditInv

(* The worker is done with the first message of its batch. *)
LEMMA FinishFacts ==
  ASSUME AuditInv, NEW e, NEW answer \in {"acking", "naking", "leaving"}, Finish(answer, e),
         batch # <<>>
  PROVE  /\ e \in Events /\ batch' \in Seq(Events) /\ Len(batch') <= BatchSize
         /\ Elements(batch) = {e} \cup Elements(batch')
         /\ Injective(batch) => Injective(batch') /\ e \notin Elements(batch')
         /\ worker = answer /\ worker' \in {"select", answer}
         /\ worker' = "select" => Len(batch') < BatchSize /\ Elements(batch') = {}
<1>1. /\ batch \in Seq(Events) /\ Len(batch) <= BatchSize
      /\ Len(batch) \in Nat /\ BatchSize \in Nat \ {0}
  BY LenProperties, AuditPipelineAssumption DEF AuditInv, TypeOK, AuditPipelineAssumption
<1>2. /\ e = Head(batch) /\ batch' = Tail(batch) /\ worker = answer
      /\ worker' = IF Tail(batch) = <<>> /\ answer # "leaving" THEN "select" ELSE answer
  BY DEF Finish
<1>3. Elements(<<>>) = {} /\ Len(<<>>) = 0
  BY EmptySeq DEF Elements
<1>4. /\ e \in Events /\ batch' \in Seq(Events)
      /\ Len(batch') = Len(batch) - 1
      /\ Elements(batch) = {e} \cup Elements(batch')
      /\ Injective(batch) => Injective(batch') /\ e \notin Elements(batch')
  BY <1>1, <1>2, TailElements
<1>5. worker' = "select" => batch' = <<>>
  BY <1>2
<1>6. worker' = "select" => Len(batch') < BatchSize /\ Elements(batch') = {}
  BY <1>1, <1>3, <1>5
<1> QED BY <1>1, <1>2, <1>4, <1>6

LEMMA AckStep == ASSUME AuditInv, AckNext PROVE AuditInv'
<1>1. PICK e \in Elements(batch) :
        Finish("acking", e) /\ Ack(e) /\ UNCHANGED <<apiVars, chan, stopping, rows>>
  BY DEF AckNext
<1>2. /\ UNCHANGED <<request, published, confirmed, chan, stopping, rows>>
      /\ TypeOK
  BY <1>1 DEF apiVars, AuditInv
<1>3. batch # <<>>
  BY <1>1 DEF Elements
<1>4. /\ e \in Events /\ batch' \in Seq(Events) /\ Len(batch') <= BatchSize
      /\ Elements(batch) = {e} \cup Elements(batch')
      /\ Injective(batch) => Injective(batch') /\ e \notin Elements(batch')
      /\ worker = "acking" /\ worker' \in {"select", "acking"}
      /\ worker' = "select" => Len(batch') < BatchSize /\ Elements(batch') = {}
  BY <1>1, <1>3, FinishFacts
<1>5. PICK lost \in BOOLEAN :
        /\ stream' = IF lost THEN stream ELSE stream \ {e}
        /\ pending' = IF lost THEN pending ELSE pending \ {e}
        /\ MayLose(lost)
  BY <1>1 DEF Ack
<1>6. faults' \in 0 .. MaxFaults /\ (faults' = 0 => faults = 0 /\ ~ lost)
  BY <1>2, <1>5, FaultFacts
<1>7. /\ stream' \subseteq stream /\ pending' \subseteq stream'
      /\ Cardinality(stream') <= StreamCapacity /\ Cardinality(pending') <= MaxAckPending
  <2>1. stream \in SUBSET Events /\ pending \in SUBSET Events /\ pending \subseteq stream
    BY <1>2 DEF TypeOK
  <2>2. Cardinality(stream \ {e}) <= StreamCapacity /\ Cardinality(pending \ {e}) <= MaxAckPending
    BY <1>2, <1>4, <2>1, Bounded, AuditPipelineAssumption DEF TypeOK, AuditPipelineAssumption
  <2> QED BY <1>2, <1>5, <2>1, <2>2 DEF TypeOK
<1>8. TypeOK'
  BY <1>2, <1>4, <1>6, <1>7 DEF TypeOK
<1>9. rows[e] > 0
  BY <1>1, <1>4 DEF AuditInv, OnlyWrittenIsAcked
<1>10. \A f \in Events : (Kept(f) => Kept(f)') /\ (~ Kept(f) => ~ Kept(f)')
  BY <1>2, <1>5, <1>7, <1>9 DEF Kept
<1>11. BatchOK' /\ FreshOK' /\ HandsOK' /\ OnlyWrittenIsAcked'
  BY <1>2, <1>4, <1>10
     DEF AuditInv, BatchOK, FreshOK, HandsOK, OnlyWrittenIsAcked, Held, Elements
<1>12. AnsweredIsKept'
  BY <1>2, <1>10 DEF AuditInv, AnsweredIsKept, Kept
<1>13. CleanOK'
  <2>1. ASSUME faults = 0, OneCopy, ~ lost PROVE OneCopy'
    <3>1. stream' = stream \ {e} /\ pending' = pending \ {e}
      BY <1>5, <2>1
    <3>2. e \notin Elements(chan)
      BY <1>1, <2>1 DEF OneCopy
    <3>3. Elements(chan)' = Elements(chan) /\ Injective(chan)'
      BY <1>2, <2>1 DEF OneCopy, Elements, Injective
    <3>4. \A f \in Events : Held(f)' => f \in pending'
      BY <1>4, <2>1, <3>1, <3>2, <3>3 DEF OneCopy, Held
    <3>5. \A f \in Events : rows'[f] > 0 /\ f \in stream'
                              => worker' = "acking" /\ f \in Elements(batch')
      BY <1>2, <1>4, <2>1, <3>1 DEF OneCopy
    <3> QED BY <1>2, <1>4, <2>1, <3>3, <3>4, <3>5 DEF OneCopy
  <2> QED BY <1>6, <2>1 DEF AuditInv, CleanOK
<1> QED BY <1>8, <1>11, <1>12, <1>13 DEF AuditInv

LEMMA NakStep == ASSUME AuditInv, NakNext PROVE AuditInv'
<1>1. PICK e \in Elements(batch) :
        /\ Finish("naking", e) \/ Finish("leaving", e)
        /\ Nak(e)
        /\ UNCHANGED <<apiVars, stream, chan, stopping, rows>>
  BY DEF NakNext
<1>2. /\ UNCHANGED <<request, published, confirmed, stream, chan, stopping, rows>>
      /\ TypeOK
  BY <1>1 DEF apiVars, AuditInv
<1>3. batch # <<>>
  BY <1>1 DEF Elements
<1>4. /\ e \in Events /\ batch' \in Seq(Events) /\ Len(batch') <= BatchSize
      /\ Elements(batch') \subseteq Elements(batch)
      /\ worker \in {"naking", "leaving"} /\ worker' \in {"select", "naking", "leaving"}
      /\ worker' = "select" => Len(batch') < BatchSize
  BY <1>1, <1>3, FinishFacts
<1>5. /\ faults' \in 0 .. MaxFaults /\ (faults' = 0 => faults = 0)
      /\ pending' \subseteq pending /\ Cardinality(pending') <= MaxAckPending
  <2>1. PICK lost \in BOOLEAN :
          pending' = (IF lost THEN pending ELSE pending \ {e}) /\ MayLose(lost)
    BY <1>1 DEF Nak
  <2>2. pending \in SUBSET Events
    BY <1>2 DEF TypeOK
  <2>3. Cardinality(pending \ {e}) <= MaxAckPending
    BY <1>2, <1>4, <2>2, Bounded, AuditPipelineAssumption DEF TypeOK, AuditPipelineAssumption
  <2> QED BY <1>2, <2>1, <2>3, FaultFacts DEF TypeOK
<1>6. TypeOK'
  BY <1>2, <1>4, <1>5 DEF TypeOK
<1>7. BatchOK' /\ FreshOK' /\ HandsOK' /\ AnsweredIsKept' /\ OnlyWrittenIsAcked'
  BY <1>2, <1>4
     DEF AuditInv, BatchOK, FreshOK, HandsOK, AnsweredIsKept, OnlyWrittenIsAcked, Kept, Held,
         Elements
<1>8. CleanOK'
  BY <1>4, <1>5 DEF AuditInv, CleanOK, OneCopy
<1> QED BY <1>6, <1>7, <1>8 DEF AuditInv

-----------------------------------------------------------------------------
LEMMA NextKeepsInv == AuditInv /\ [Next]_vars => AuditInv'
<1> SUFFICES ASSUME AuditInv, [Next]_vars PROVE AuditInv'
  OBVIOUS
<1>1. CASE \E e \in Events :
             \/ Publish(e) \/ AnswerOk(e) \/ AnswerUnavailable(e)
             \/ StoreEvent(e) \/ DiscardNew(e) \/ PublishLost(e)
             \/ Deliver(e) \/ DeliverToFullChan(e) \/ AckWaitExpires(e)
  BY <1>1, HandlerStep, StreamStep, DeliveryStep
<1>2. CASE InsertOk
  <2>1. /\ rows' = Persisted(DOMAIN batch) /\ worker = "inserting" /\ worker' = "acking"
        /\ UNCHANGED <<apiVars, stream, pending, chan, batch, stopping>> /\ UNCHANGED faults
    BY <1>2 DEF InsertOk, AfterInsertOk
  <2> QED BY <2>1, InsertStep
<1>3. CASE InsertError
  <2>1. PICK saved \in SUBSET DOMAIN batch : rows' = Persisted(saved)
    BY <1>3 DEF InsertError
  <2>2. /\ worker = "inserting" /\ worker' = "naking" /\ Fault
        /\ UNCHANGED <<apiVars, stream, pending, chan, batch, stopping>>
    BY <1>3 DEF InsertError, AfterInsertError
  <2> QED BY <2>1, <2>2, InsertStep
<1>4. CASE Receive \/ Flush \/ AckNext \/ NakNext \/ ContextDone \/ Exit
  BY <1>4, ReceiveStep, ControlStep, AckStep, NakStep
<1>5. CASE Stop \/ WorkerCrash \/ Start
  BY <1>5, ControlStep
<1>6. CASE UNCHANGED vars
  <2>1. TypeOK'
    BY <1>6 DEF vars, AuditInv, TypeOK
  <2>2. BatchOK' /\ FreshOK' /\ HandsOK' /\ AnsweredIsKept' /\ OnlyWrittenIsAcked'
    BY <1>6 DEF vars, AuditInv, BatchOK, FreshOK, HandsOK, AnsweredIsKept, OnlyWrittenIsAcked,
                Kept, Held, Elements
  <2>3. CleanOK'
    BY <1>6 DEF vars, AuditInv, CleanOK, OneCopy, Held, Elements, Injective
  <2> QED BY <2>1, <2>2, <2>3 DEF AuditInv
<1> QED BY <1>1, <1>2, <1>3, <1>4, <1>5, <1>6 DEF Next, Run

(* Every reachable state satisfies the inductive invariant. *)
THEOREM AuditInvHolds == Spec => []AuditInv
<1> QED BY InitEstablishesInv, NextKeepsInv, PTL DEF Spec

(* The stream, the channel and the batch keep within their capacities.      *)
THEOREM AuditTypeCorrect == Spec => []TypeOK
<1>1. AuditInv => TypeOK
  BY DEF AuditInv
<1> QED BY <1>1, AuditInvHolds, PTL

(* publishAudit writes no result before the event of the lookup is in the   *)
(* stream, and no failure after that loses it.                              *)
THEOREM AnswersAreKept == Spec => []AnsweredIsKept
<1>1. AuditInv => AnsweredIsKept
  BY DEF AuditInv
<1> QED BY <1>1, AuditInvHolds, PTL

(* worker.flush acknowledges messages only after their rows are in.         *)
THEOREM AcksAreWritten == Spec => []OnlyWrittenIsAcked
<1>1. AuditInv => OnlyWrittenIsAcked
  BY DEF AuditInv
<1> QED BY <1>1, AuditInvHolds, PTL

(* A second row of an event takes a failure, whatever the capacities are.   *)
THEOREM DuplicatesNeedFaults == Spec => []OneRowUnlessFault
<1>1. AuditInv => OneRowUnlessFault
  BY DEF AuditInv, CleanOK, OneCopy, OneRowUnlessFault
<1> QED BY <1>1, AuditInvHolds, PTL

-----------------------------------------------------------------------------
(* A step of the pipeline is a step of AuditDelivery or stutters: the store *)
(* records, the reply answers, the insert persists.                         *)
LEMMA StepImplements == AuditInv /\ [Next]_vars => [Delivery!Next]_(Delivery!vars)
<1> SUFFICES ASSUME AuditInv, [Next]_vars PROVE [Delivery!Next]_(Delivery!vars)
  OBVIOUS
<1> DEFINE answered == {e \in Events : request[e] = "ok"}
           persisted == {e \in Events : rows[e] > 0}
           journal == stream \cup {e \in Events : rows[e] > 0}
<1>1. TypeOK /\ stream \subseteq Events
      /\ request \in [Events -> {"new", "waiting", "ok", "failed"}]
  BY DEF AuditInv, TypeOK
<1>2. ASSUME UNCHANGED <<request, stream, rows>> PROVE UNCHANGED Delivery!vars
  BY <1>2 DEF Delivery!vars
<1>3. ASSUME NEW e \in Events, Publish(e) \/ AnswerUnavailable(e) \/ DiscardNew(e)
      PROVE  UNCHANGED Delivery!vars
  <2>1. UNCHANGED <<stream, rows>>
    BY <1>3 DEF Publish, AnswerUnavailable, DiscardNew
  <2>2. ASSUME NEW f \in Events PROVE request'[f] = "ok" <=> request[f] = "ok"
    <3>1. CASE Publish(e)
      BY <1>1, <3>1 DEF Publish
    <3>2. CASE AnswerUnavailable(e)
      BY <1>1, <3>2 DEF AnswerUnavailable
    <3>3. CASE DiscardNew(e)
      BY <1>1, <3>3 DEF DiscardNew
    <3> QED BY <1>3, <3>1, <3>2, <3>3
  <2> QED BY <2>1, <2>2 DEF Delivery!vars
<1>4. ASSUME NEW e \in Events, AnswerOk(e) PROVE Delivery!Answer(e)
  <2>1. Kept(e)
    BY <1>4 DEF AuditInv, HandsOK, AnswerOk, Answered
  <2>2. UNCHANGED <<stream, rows>> /\ answered' = answered \cup {e}
    BY <1>1, <1>4 DEF AnswerOk
  <2> QED BY <2>1, <2>2 DEF Delivery!Answer, Kept
<1>5. ASSUME NEW e \in Events, StoreEvent(e) PROVE Delivery!Record(e)
  BY <1>5 DEF StoreEvent, Delivery!Record
<1>6. ASSUME NEW e \in Events,
             PublishLost(e) \/ Deliver(e) \/ DeliverToFullChan(e) \/ AckWaitExpires(e)
      PROVE  UNCHANGED Delivery!vars
  BY <1>2, <1>6 DEF PublishLost, Deliver, DeliverToFullChan, AckWaitExpires, apiVars
<1>7. ASSUME InsertOk \/ InsertError PROVE \E E \in SUBSET journal : Delivery!Persist(E)
  <2>1. PICK saved \in SUBSET DOMAIN batch : rows' = Persisted(saved)
    BY <1>7 DEF InsertOk, InsertError
  <2>2. UNCHANGED <<request, stream>>
    BY <1>7 DEF InsertOk, InsertError, apiVars
  <2>3. \A e \in Events : /\ rows[e] > 0 => rows'[e] > 0
                          /\ rows'[e] > 0 => rows[e] > 0 \/ e \in Elements(batch)
    BY <1>1, <2>1, PersistedRows DEF TypeOK
  <2>4. ASSUME NEW e \in Events, rows'[e] > 0 PROVE e \in journal
    BY <2>3, <2>4 DEF AuditInv, HandsOK, Held, Kept
  <2>5. persisted' \in SUBSET journal
    BY <2>4
  <2>6. persisted' = persisted \cup persisted' /\ journal' = journal
    BY <2>2, <2>3, <2>4
  <2> QED BY <2>2, <2>5, <2>6 DEF Delivery!Persist
<1>8. ASSUME AckNext PROVE UNCHANGED Delivery!vars
  <2>1. PICK e \in Elements(batch) :
          Finish("acking", e) /\ Ack(e) /\ UNCHANGED <<apiVars, chan, stopping, rows>>
    BY <1>8 DEF AckNext
  <2>2. e \in Events /\ rows[e] > 0
    BY <2>1 DEF AuditInv, OnlyWrittenIsAcked, Finish, TypeOK, Elements
  <2>3. stream' \in {stream, stream \ {e}} /\ UNCHANGED <<request, rows>>
    BY <2>1 DEF Ack, apiVars
  <2> QED BY <2>2, <2>3 DEF Delivery!vars
<1>9. ASSUME Receive \/ Flush \/ NakNext \/ ContextDone \/ Exit \/ Stop \/ WorkerCrash \/ Start
      PROVE  UNCHANGED Delivery!vars
  BY <1>2, <1>9
     DEF Receive, Flush, NakNext, ContextDone, Exit, Stop, WorkerCrash, Start, Gone, apiVars
<1>10. CASE UNCHANGED vars
  BY <1>2, <1>10 DEF vars
<1> QED
  BY <1>1, <1>3, <1>4, <1>5, <1>6, <1>7, <1>8, <1>9, <1>10
     DEF Next, Run, Delivery!Next

(* Whatever is lost, refused, retried or restarted, the pipeline answers    *)
(* only what it has, and keeps that until it is a row.                      *)
THEOREM PipelineDelivers == Spec => ImplementsDelivery
<1>1. Init => Delivery!Init
  BY DEF Init, Delivery!Init
<1> QED
  BY <1>1, StepImplements, AuditInvHolds, PTL DEF Spec, ImplementsDelivery, Delivery!Spec
=============================================================================

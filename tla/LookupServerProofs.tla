------------------------- MODULE LookupServerProofs -------------------------
(***************************************************************************)
(* The audit and privacy promises of LookupServer, and its metrics, for    *)
(* any number of requests and reloads.  None of the promises is inductive: *)
(* what an answer means was settled when its event was made, several steps *)
(* before.  LookupInv says what is known of a request at each point of its *)
(* handler, MetricsInv which requests each counter has counted.            *)
(***************************************************************************)
EXTENDS LookupServer, FiniteSetTheorems, TLAPS

Unparsed == {"new", "counted", "authenticate", "parse"}
Answered == {"written", "left", "done"}

(* What an event knows about the target and the lookup it was made from.   *)
Truthful(e, t, generationUsed) ==
  /\ e.required <=> generationUsed # 0
  /\ e.required => e.status \in {200, 404, 500} /\ Permitted(t)
  /\ ~ e.required => e.status \in {400, 401, 413, 422}
  /\ e.outcome \in {"ok", "not_found"} => generationUsed # 0 /\ e.version = generationUsed
  /\ e.ip => t \in {"private", "public"}
  /\ e.outcome = "unauthorized" => t = "unread"

Known(q) ==
  /\ phase[q] \in Unparsed => target[q] = "unread"
  /\ phase[q] = "lookup" => Permitted(target[q])
  /\ phase[q] \in Unparsed \cup {"lookup"} => looked[q] = 0
  /\ phase[q] \notin Unparsed \cup {"lookup"} => Truthful(event[q], target[q], looked[q])
  /\ IF phase[q] \in {"answer"} \cup Answered
     THEN journal[q] = <<event[q]>> \/ (journal[q] = <<>> /\ ~ confirmed[q])
     ELSE journal[q] = <<>>
  /\ answer[q] = IF phase[q] \in Answered THEN Status(q) ELSE 0

LookupInv == RequestsOK /\ \A q \in Requests : Known(q)

-----------------------------------------------------------------------------
(* LookupInv implies the three properties. *)

LEMMA AuditedByInv == LookupInv => AnswersAreAudited
<1> SUFFICES ASSUME LookupInv, NEW q \in Requests, answer[q] # 0
    PROVE  /\ Len(journal[q]) <= 1
           /\ answer[q] \in {200, 404, 500} =>
                \E i \in DOMAIN journal[q] : journal[q][i].status = answer[q]
           /\ answer[q] = 503 <=> (looked[q] # 0 /\ ~ confirmed[q])
  BY DEF AnswersAreAudited
<1>1. /\ phase[q] \in Answered
      /\ answer[q] = Status(q)
      /\ Truthful(event[q], target[q], looked[q])
      /\ journal[q] = <<event[q]>> \/ (journal[q] = <<>> /\ ~ confirmed[q])
      /\ confirmed[q] \in BOOLEAN /\ event[q] \in Events
  BY DEF LookupInv, RequestsOK, Known, Answered, Unparsed
<1>2. Len(journal[q]) <= 1
  <2>1. CASE journal[q] = <<>>
    BY <2>1
  <2>2. CASE journal[q] = <<event[q]>>
    BY <2>2
  <2> QED BY <1>1, <2>1, <2>2
<1>3. answer[q] = 503 <=> (looked[q] # 0 /\ ~ confirmed[q])
  BY <1>1 DEF Truthful, Status
<1>4. ASSUME answer[q] \in {200, 404, 500}
      PROVE  \E i \in DOMAIN journal[q] : journal[q][i].status = answer[q]
  <2>1. event[q].required /\ confirmed[q] /\ answer[q] = event[q].status
    BY <1>1, <1>4 DEF Truthful, Status
  <2>2. journal[q] = <<event[q]>>
    BY <1>1, <2>1
  <2> QED BY <2>1, <2>2
<1> QED BY <1>2, <1>3, <1>4

LEMMA EventsByInv == LookupInv => EventNamesGenerationUsed /\ NothingAboutRefusedTargets
<1> SUFFICES ASSUME LookupInv, NEW q \in Requests
    PROVE  /\ looked[q] # 0 => target[q] = "public" \/ AllowPrivateIPs
           /\ \A i \in DOMAIN journal[q] :
                /\ journal[q][i].outcome \in {"ok", "not_found"} =>
                     journal[q][i].version = looked[q]
                /\ journal[q][i].ip => target[q] \in {"private", "public"}
                /\ journal[q][i].outcome = "unauthorized" => target[q] = "unread"
  BY DEF EventNamesGenerationUsed, NothingAboutRefusedTargets
<1>1. Known(q)
  BY DEF LookupInv
<1>2. looked[q] # 0 => target[q] = "public" \/ AllowPrivateIPs
  BY <1>1 DEF Known, Truthful, Permitted
<1>3. ASSUME NEW i \in DOMAIN journal[q]
      PROVE  /\ journal[q][i] = event[q]
             /\ Truthful(event[q], target[q], looked[q])
  BY <1>1, <1>3 DEF Known, Answered, Unparsed
<1> QED BY <1>2, <1>3 DEF Truthful

-----------------------------------------------------------------------------
(* LookupInv is inductive. *)

LEMMA InitEstablishesInv == Init => LookupInv
<1> SUFFICES ASSUME Init PROVE LookupInv
  OBVIOUS
<1>1. NoEvent \in Events
  BY LookupServerAssumption DEF NoEvent, Event, Events, Outcomes, Statuses, Generations
<1>2. RequestsOK
  BY <1>1, LookupServerAssumption DEF Init, RequestsOK, Generations, Statuses
<1>3. ASSUME NEW q \in Requests PROVE Known(q)
  BY DEF Init, Known, Unparsed, Answered
<1> QED BY <1>2, <1>3 DEF LookupInv

(* Nothing that Known speaks of has changed. *)
LEMMA KnownPersists ==
  ASSUME NEW q \in Requests, Known(q),
         phase'[q] = phase[q], target'[q] = target[q], looked'[q] = looked[q],
         event'[q] = event[q], confirmed'[q] = confirmed[q],
         journal'[q] = journal[q], answer'[q] = answer[q]
  PROVE  Known(q)'
BY DEF Known, Truthful, Permitted, Status, Unparsed, Answered

(* The events that the handlers make. *)
LEMMA RefusalsAreTruthful ==
  ASSUME NEW r \in Routes, NEW t \in Targets(r), ~ Permitted(t)
  PROVE  Refusal(r, t) \in Events /\ Truthful(Refusal(r, t), t, 0)
<1>1. t \in {"missing", "oversized", "garbled", "private"}
  BY DEF Targets, Permitted, Routes
<1>2. 0 \in Generations
  BY LookupServerAssumption DEF Generations
<1> QED BY <1>1, <1>2 DEF Refusal, Failure, Event, Events, Outcomes, Statuses, Truthful

Results(g) == { Event("lookup_error", 500, TRUE, TRUE, 0),
                Event("not_found", 404, TRUE, TRUE, g),
                Event("ok", 200, TRUE, TRUE, g) }

LEMMA ResultsAreTruthful ==
  ASSUME NEW t, Permitted(t), NEW g \in Generations \ {0}, NEW e \in Results(g)
  PROVE  e \in Events /\ Truthful(e, t, g)
<1>1. t \in {"private", "public"}
  BY DEF Permitted
<1>2. 0 \in Generations /\ g \in Generations /\ g # 0
  BY LookupServerAssumption DEF Generations
<1>3. CASE e = Event("lookup_error", 500, TRUE, TRUE, 0)
  BY <1>1, <1>2, <1>3 DEF Event, Events, Outcomes, Statuses, Truthful
<1>4. CASE e = Event("not_found", 404, TRUE, TRUE, g)
  BY <1>1, <1>2, <1>4 DEF Event, Events, Outcomes, Statuses, Truthful
<1>5. CASE e = Event("ok", 200, TRUE, TRUE, g)
  BY <1>1, <1>2, <1>5 DEF Event, Events, Outcomes, Statuses, Truthful
<1> QED BY <1>3, <1>4, <1>5 DEF Results

(* publishAudit completes the event without making it less truthful. *)
LEMMA VersionKeepsTruth ==
  ASSUME RequestsOK, NEW q \in Requests, Truthful(event[q], target[q], looked[q]),
         NEW e, e = [event[q] EXCEPT !.version = AuditVersion(event[q])]
  PROVE  e \in Events /\ Truthful(e, target[q], looked[q])
<1>1. event[q] \in Events /\ generation \in Generations
  BY DEF RequestsOK
<1>2. AuditVersion(event[q]) \in Generations
  BY <1>1 DEF AuditVersion, Events
<1>3. /\ e \in Events
      /\ e.outcome = event[q].outcome /\ e.status = event[q].status
      /\ e.ip = event[q].ip /\ e.required = event[q].required
      /\ e.version = AuditVersion(event[q])
  BY <1>1, <1>2 DEF Events
<1> QED BY <1>3 DEF Truthful, AuditVersion

LEMMA NextKeepsInv == LookupInv /\ [Next]_vars => LookupInv'
<1> SUFFICES ASSUME LookupInv, [Next]_vars PROVE LookupInv'
  OBVIOUS
<1> USE DEF LookupInv
<1>1. ASSUME NEW q \in Requests, Arrive(q) PROVE LookupInv'
  <2>1. RequestsOK'
    BY <1>1 DEF Arrive, GoTo, RequestsOK
  <2>2. Known(q)'
    BY <1>1 DEF Arrive, GoTo, RequestsOK, Known, Unparsed, Answered
  <2>3. ASSUME NEW p \in Requests \ {q} PROVE Known(p)'
    BY <1>1, KnownPersists DEF Arrive, GoTo, RequestsOK
  <2> QED BY <2>1, <2>2, <2>3
<1>2. ASSUME NEW q \in Requests, Enter(q) PROVE LookupInv'
  <2>1. RequestsOK'
    BY <1>2 DEF Enter, GoTo, RequestsOK
  <2>2. Known(q)'
    BY <1>2 DEF Enter, GoTo, RequestsOK, Known, Unparsed, Answered
  <2>3. ASSUME NEW p \in Requests \ {q} PROVE Known(p)'
    BY <1>2, KnownPersists DEF Enter, GoTo, RequestsOK
  <2> QED BY <2>1, <2>2, <2>3
<1>3. ASSUME NEW q \in Requests, Authenticate(q) PROVE LookupInv'
  <2> DEFINE e == Failure("unauthorized", 401, FALSE)
  <2>1. e \in Events /\ Truthful(e, "unread", 0)
    BY LookupServerAssumption
       DEF Failure, Event, Events, Outcomes, Statuses, Generations, Truthful
  <2> HIDE DEF e
  <2>2. \/ phase' = [phase EXCEPT ![q] = "parse"] /\ UNCHANGED event
        \/ /\ phase' = [phase EXCEPT ![q] = "audit"]
           /\ event' = [event EXCEPT ![q] = e]
    BY <1>3 DEF Authenticate, Audit, GoTo, e
  <2>3. /\ phase[q] = "authenticate"
        /\ UNCHANGED <<route, target, generation, looked, confirmed, journal, answer>>
    BY <1>3 DEF Authenticate
  <2>4. RequestsOK'
    <3>1. CASE phase' = [phase EXCEPT ![q] = "parse"] /\ UNCHANGED event
      BY <2>3, <3>1 DEF RequestsOK
    <3>2. CASE /\ phase' = [phase EXCEPT ![q] = "audit"]
               /\ event' = [event EXCEPT ![q] = e]
      BY <2>1, <2>3, <3>2 DEF RequestsOK
    <3> QED BY <2>2, <3>1, <3>2
  <2>5. Known(q)'
    BY <2>1, <2>2, <2>3 DEF RequestsOK, Known, Unparsed, Answered
  <2>6. ASSUME NEW p \in Requests \ {q} PROVE Known(p)'
    BY <2>2, <2>3, KnownPersists DEF RequestsOK
  <2> QED BY <2>4, <2>5, <2>6
<1>4. ASSUME NEW q \in Requests, Parse(q) PROVE LookupInv'
  <2>1. PICK t \in Targets(route[q]) :
          /\ target' = [target EXCEPT ![q] = t]
          /\ IF Permitted(t)
             THEN GoTo(q, "lookup") /\ UNCHANGED event
             ELSE Audit(q, Refusal(route[q], t))
    BY <1>4 DEF Parse
  <2>2. /\ phase[q] = "parse"
        /\ UNCHANGED <<route, generation, looked, confirmed, journal, answer>>
    BY <1>4 DEF Parse
  <2>3. /\ route[q] \in Routes
        /\ t \in {"missing", "oversized", "garbled", "private", "public"}
    BY <2>2 DEF RequestsOK, Targets
  <2> DEFINE e == Refusal(route[q], t)
  <2>4. ~ Permitted(t) => e \in Events /\ Truthful(e, t, 0)
    BY <2>3, RefusalsAreTruthful
  <2>5. \/ Permitted(t) /\ phase' = [phase EXCEPT ![q] = "lookup"] /\ UNCHANGED event
        \/ /\ ~ Permitted(t)
           /\ phase' = [phase EXCEPT ![q] = "audit"]
           /\ event' = [event EXCEPT ![q] = e]
    BY <2>1 DEF GoTo, Audit
  <2> HIDE DEF e
  <2>6. RequestsOK'
    <3>1. CASE phase' = [phase EXCEPT ![q] = "lookup"] /\ UNCHANGED event
      BY <2>1, <2>2, <2>3, <3>1 DEF RequestsOK
    <3>2. CASE /\ ~ Permitted(t)
               /\ phase' = [phase EXCEPT ![q] = "audit"]
               /\ event' = [event EXCEPT ![q] = e]
      BY <2>1, <2>2, <2>3, <2>4, <3>2 DEF RequestsOK
    <3> QED BY <2>5, <3>1, <3>2
  <2>7. Known(q)'
    <3>1. looked[q] = 0 /\ journal[q] = <<>> /\ answer[q] = 0 /\ target'[q] = t
      BY <2>1, <2>2 DEF RequestsOK, Known, Unparsed, Answered
    <3>2. Permitted(t)' <=> Permitted(t)
      BY DEF Permitted
    <3> QED BY <2>2, <2>4, <2>5, <3>1, <3>2 DEF RequestsOK, Known, Unparsed, Answered
  <2>8. ASSUME NEW p \in Requests \ {q} PROVE Known(p)'
    BY <2>1, <2>2, <2>5, KnownPersists DEF RequestsOK
  <2> QED BY <2>6, <2>7, <2>8
<1>5. ASSUME NEW q \in Requests, LookupFails(q) \/ LookupReturns(q) PROVE LookupInv'
  <2>1. PICK e \in Results(generation) : Audit(q, e)
    <3>1. CASE LookupFails(q)
      <4>1. Audit(q, Event("lookup_error", 500, TRUE, TRUE, 0))
        BY <3>1 DEF LookupFails
      <4> QED BY <4>1 DEF Results
    <3>2. CASE LookupReturns(q)
      <4>1. PICK found : Audit(q, LookupEvent(q, found))
        BY <3>2 DEF LookupReturns
      <4>2. LookupEvent(q, found) \in Results(generation)
        BY DEF LookupEvent, Results
      <4> QED BY <4>1, <4>2
    <3> QED BY <1>5, <3>1, <3>2
  <2>2. /\ phase[q] = "lookup"
        /\ looked' = [looked EXCEPT ![q] = generation]
        /\ UNCHANGED <<route, target, generation, confirmed, journal, answer>>
    BY <1>5 DEF LookupFails, LookupReturns
  <2>3. Permitted(target[q])
    BY <2>2 DEF Known
  <2>4. e \in Events /\ Truthful(e, target[q], generation)
    BY <2>3, ResultsAreTruthful DEF RequestsOK
  <2>5. phase' = [phase EXCEPT ![q] = "audit"] /\ event' = [event EXCEPT ![q] = e]
    BY <2>1 DEF Audit, GoTo
  <2>6. RequestsOK'
    BY <2>2, <2>4, <2>5 DEF RequestsOK
  <2>7. Known(q)'
    BY <2>2, <2>4, <2>5 DEF RequestsOK, Known, Unparsed, Answered
  <2>8. ASSUME NEW p \in Requests \ {q} PROVE Known(p)'
    BY <2>2, <2>5, KnownPersists DEF RequestsOK
  <2> QED BY <2>6, <2>7, <2>8
<1>6. ASSUME NEW q \in Requests, PublishAudit(q) PROVE LookupInv'
  <2> DEFINE e == [event[q] EXCEPT !.version = AuditVersion(event[q])]
  <2>1. PICK stored \in BOOLEAN, acked \in BOOLEAN :
          /\ acked => stored
          /\ event' = [event EXCEPT ![q] = e]
          /\ journal' = IF stored THEN [journal EXCEPT ![q] = Append(@, e)] ELSE journal
          /\ confirmed' = [confirmed EXCEPT ![q] = acked]
    BY <1>6 DEF PublishAudit
  <2>2. /\ phase[q] = "audit"
        /\ phase' = [phase EXCEPT ![q] = "answer"]
        /\ UNCHANGED <<route, target, generation, looked, answer>>
    BY <1>6 DEF PublishAudit, GoTo
  <2>3. /\ Truthful(event[q], target[q], looked[q])
        /\ journal[q] = <<>> /\ answer[q] = 0
    BY <2>2 DEF Known, Unparsed, Answered
  <2>4. e \in Events /\ Truthful(e, target[q], looked[q])
    BY <2>3, VersionKeepsTruth
  <2> HIDE DEF e
  <2>5. journal'[q] = IF stored THEN <<e>> ELSE <<>>
    BY <2>1, <2>3, <2>4 DEF RequestsOK
  <2>6. RequestsOK'
    BY <2>1, <2>2, <2>4 DEF RequestsOK
  <2>7. Known(q)'
    BY <2>1, <2>2, <2>3, <2>4, <2>5 DEF RequestsOK, Known, Unparsed, Answered
  <2>8. ASSUME NEW p \in Requests \ {q} PROVE Known(p)'
    BY <2>1, <2>2, KnownPersists DEF RequestsOK
  <2> QED BY <2>6, <2>7, <2>8
<1>7. ASSUME NEW q \in Requests, Respond(q) PROVE LookupInv'
  <2>1. /\ phase[q] = "answer"
        /\ phase' = [phase EXCEPT ![q] = "written"]
        /\ answer' = [answer EXCEPT ![q] = Status(q)]
        /\ UNCHANGED <<route, target, generation, looked, event, confirmed, journal>>
    BY <1>7 DEF Respond, GoTo
  <2>2. Status(q) \in Statuses /\ Status(q)' = Status(q)
    BY <2>1 DEF RequestsOK, Status, Statuses, Events
  <2>3. RequestsOK'
    BY <2>1, <2>2 DEF RequestsOK
  <2>4. Known(q)'
    BY <2>1, <2>2 DEF RequestsOK, Known, Unparsed, Answered
  <2>5. ASSUME NEW p \in Requests \ {q} PROVE Known(p)'
    BY <2>1, KnownPersists DEF RequestsOK
  <2> QED BY <2>3, <2>4, <2>5
<1>8. ASSUME NEW q \in Requests, Leave(q) \/ ObserveRequest(q) PROVE LookupInv'
  <2>1. /\ phase[q] \in Answered
        /\ \E place \in {"left", "done"} : phase' = [phase EXCEPT ![q] = place]
        /\ UNCHANGED <<route, target, generation, looked, event, confirmed, journal, answer>>
    BY <1>8 DEF Leave, ObserveRequest, GoTo, Answered
  <2>2. RequestsOK'
    BY <2>1 DEF RequestsOK, Answered
  <2>3. Known(q)'
    BY <2>1 DEF RequestsOK, Known, Unparsed, Answered, Status, Truthful, Permitted
  <2>4. ASSUME NEW p \in Requests \ {q} PROVE Known(p)'
    BY <2>1, KnownPersists DEF RequestsOK
  <2> QED BY <2>2, <2>3, <2>4
<1>9. ASSUME Reload PROVE LookupInv'
  <2>1. RequestsOK'
    BY <1>9, LookupServerAssumption DEF Reload, RequestsOK, Generations
  <2>2. ASSUME NEW q \in Requests PROVE Known(q)'
    BY <1>9, KnownPersists DEF Reload
  <2> QED BY <2>1, <2>2
<1>10. ASSUME UNCHANGED vars PROVE LookupInv'
  <2>1. RequestsOK'
    BY <1>10 DEF vars, RequestsOK
  <2>2. ASSUME NEW q \in Requests PROVE Known(q)'
    BY <1>10, KnownPersists DEF vars
  <2> QED BY <2>1, <2>2
<1> QED
  BY <1>1, <1>2, <1>3, <1>4, <1>5, <1>6, <1>7, <1>8, <1>9, <1>10 DEF Next, Handle

-----------------------------------------------------------------------------
(* What is known of each request, at every step of its handler.            *)
THEOREM LookupInvHolds == Spec => []LookupInv
<1> QED BY InitEstablishesInv, NextKeepsInv, PTL DEF Spec

(* httpapi never answers with a result, or with the failure of a lookup,   *)
(* that the audit stream did not take and confirm.                         *)
THEOREM AnsweredMeansAudited == Spec => []AnswersAreAudited
<1> QED BY LookupInvHolds, AuditedByInv, PTL

(* The database version in an audit event is that of the result, whatever  *)
(* reloads happen meanwhile (auditMMDBVersion).                            *)
THEOREM EventsNameTheirGeneration == Spec => []EventNamesGenerationUsed
<1> QED BY LookupInvHolds, EventsByInv, PTL

(* Nothing of a target is read before authentication, nor looked up when   *)
(* it is not permitted (authenticate, parseIP, me).                        *)
THEOREM RefusedTargetsStayOut == Spec => []NothingAboutRefusedTargets
<1> QED BY LookupInvHolds, EventsByInv, PTL

-----------------------------------------------------------------------------
(* The metrics: each counter is the number of requests that a predicate on *)
(* their progress holds of.  The events say what the counters of failures  *)
(* have counted.                                                           *)
Counts(q, c) ==
  CASE c = "requests"       -> phase[q] # "new"
    [] c = "inflight"       -> phase[q] \in {"authenticate", "parse", "lookup", "audit",
                                             "answer", "written"}
    [] c = "observed"       -> phase[q] = "done"
    [] c = "lookups"        -> looked[q] # 0
    [] c = "audits"         -> phase[q] \in {"answer", "written", "left", "done"}
    [] c = "authFailures"   -> event[q].outcome = "unauthorized"
    [] c = "lookupFailures" -> event[q].outcome = "lookup_error"
    [] c = "auditFailures"  -> phase[q] \in {"answer", "written", "left", "done"}
                               /\ ~ confirmed[q]

Counted(c) == {q \in Requests : Counts(q, c)}

(* Before the audit a request has no event. *)
EventIsMade(q) ==
  phase[q] \in Unparsed \cup {"lookup"} => event[q] = NoEvent

MetricsInv ==
  /\ LookupInv
  /\ \A q \in Requests : EventIsMade(q)
  /\ metrics = [c \in Counters |-> Cardinality(Counted(c))]

LEMMA RequestSets ==
  ASSUME NEW T \in SUBSET Requests
  PROVE  /\ IsFiniteSet(T) /\ Cardinality(T) \in Nat /\ Cardinality(Requests) \in Nat
         /\ Cardinality(T) <= Cardinality(Requests)
  BY LookupServerAssumption, FS_Subset, FS_CardinalityType DEF LookupServerAssumption

LEMMA CountedType ==
  ASSUME NEW c
  PROVE  Counted(c) \in SUBSET Requests /\ Cardinality(Counted(c)) \in Nat
<1>1. Counted(c) \in SUBSET Requests
  BY DEF Counted
<1> QED BY <1>1, RequestSets

(* What the other requests count for depends on them alone. *)
LEMMA OthersCountTheSame ==
  ASSUME NEW p \in Requests, phase'[p] = phase[p], looked'[p] = looked[p],
         event'[p].outcome = event[p].outcome, confirmed'[p] = confirmed[p], NEW c \in Counters
  PROVE  Counts(p, c)' <=> Counts(p, c)
  BY DEF Counts, Counters

(* A step of one request that adds to the counters it then counts for. *)
LEMMA CountStep ==
  ASSUME metrics = [c \in Counters |-> Cardinality(Counted(c))],
         NEW q \in Requests, NEW cs \in SUBSET Counters, Count(cs),
         \A p \in Requests \ {q} : \A c \in Counters : Counts(p, c)' <=> Counts(p, c),
         \A c \in cs : ~ Counts(q, c) /\ Counts(q, c)',
         \A c \in Counters \ cs : Counts(q, c)' <=> Counts(q, c)
  PROVE  metrics' = [c \in Counters |-> Cardinality(Counted(c)')]
<1>1. ASSUME NEW c \in Counters
      PROVE  Cardinality(Counted(c)') = metrics[c] + IF c \in cs THEN 1 ELSE 0
  <2>1. Cardinality(Counted(c)) \in Nat /\ IsFiniteSet(Counted(c))
        /\ metrics[c] = Cardinality(Counted(c))
    BY <1>1, CountedType, RequestSets
  <2>2. CASE c \in cs
    <3>1. Counted(c)' = Counted(c) \cup {q} /\ q \notin Counted(c)
      BY <1>1, <2>2 DEF Counted
    <3>2. Cardinality(Counted(c) \cup {q}) = Cardinality(Counted(c)) + 1
      BY <2>1, <3>1, FS_AddElement
    <3> QED BY <2>1, <2>2, <3>1, <3>2
  <2>3. CASE c \notin cs
    <3>1. Counted(c)' = Counted(c)
      BY <1>1, <2>3 DEF Counted
    <3> QED BY <2>1, <2>3, <3>1
  <2> QED BY <2>2, <2>3
<1> QED BY <1>1 DEF Count

LEMMA UncountedStep ==
  ASSUME metrics = [c \in Counters |-> Cardinality(Counted(c))], UNCHANGED metrics,
         \A p \in Requests : \A c \in Counters : Counts(p, c)' <=> Counts(p, c)
  PROVE  metrics' = [c \in Counters |-> Cardinality(Counted(c)')]
<1>1. \A c \in Counters : Counted(c)' = Counted(c)
  BY DEF Counted
<1> QED BY <1>1

LEMMA LeaveStep ==
  ASSUME metrics = [c \in Counters |-> Cardinality(Counted(c))], RequestsOK,
         NEW q \in Requests, Leave(q)
  PROVE  metrics' = [c \in Counters |-> Cardinality(Counted(c)')]
<1>1. /\ phase[q] = "written" /\ phase' = [phase EXCEPT ![q] = "left"]
      /\ UNCHANGED <<looked, event, confirmed>>
      /\ metrics' = [metrics EXCEPT !["inflight"] = @ - 1]
      /\ phase \in [Requests -> {"new", "counted", "authenticate", "parse", "lookup",
                                 "audit", "answer", "written", "left", "done"}]
  BY DEF Leave, GoTo, Finished, RequestsOK
<1>2. \A p \in Requests \ {q} : \A c \in Counters : Counts(p, c)' <=> Counts(p, c)
  BY <1>1, OthersCountTheSame
<1>3. \A c \in Counters \ {"inflight"} : Counts(q, c)' <=> Counts(q, c)
  BY <1>1 DEF Counts, Counters
<1>4. ~ Counts(q, "inflight")' /\ Counts(q, "inflight")
  BY <1>1 DEF Counts
<1>5. \A c \in Counters \ {"inflight"} : Counted(c)' = Counted(c)
  BY <1>2, <1>3 DEF Counted
<1>6. Counted("inflight")' = Counted("inflight") \ {q} /\ q \in Counted("inflight")
  BY <1>2, <1>4 DEF Counted, Counters
<1>7. Cardinality(Counted("inflight") \ {q}) = Cardinality(Counted("inflight")) - 1
  <2>1. IsFiniteSet(Counted("inflight"))
    BY CountedType, RequestSets
  <2> QED BY <1>6, <2>1, FS_RemoveElement
<1> QED BY <1>1, <1>5, <1>6, <1>7 DEF Counters

LEMMA RequestFacts ==
  ASSUME MetricsInv, NEW q \in Requests
  PROVE  /\ RequestsOK /\ Known(q) /\ EventIsMade(q)
         /\ phase \in [Requests -> {"new", "counted", "authenticate", "parse", "lookup",
                                    "audit", "answer", "written", "left", "done"}]
         /\ looked \in [Requests -> Generations] /\ event \in [Requests -> Events]
         /\ confirmed \in [Requests -> BOOLEAN] /\ generation \in Generations \ {0}
         /\ metrics = [c \in Counters |-> Cardinality(Counted(c))]
  BY DEF MetricsInv, LookupInv, RequestsOK

LEMMA HandlersKeepMetrics ==
  ASSUME MetricsInv, NEW q \in Requests, Arrive(q) \/ Handle(q)
  PROVE  metrics' = [c \in Counters |-> Cardinality(Counted(c)')]
<1>0. /\ RequestsOK /\ Known(q) /\ EventIsMade(q)
      /\ phase \in [Requests -> {"new", "counted", "authenticate", "parse", "lookup",
                                 "audit", "answer", "written", "left", "done"}]
      /\ looked \in [Requests -> Generations] /\ event \in [Requests -> Events]
      /\ confirmed \in [Requests -> BOOLEAN] /\ generation \in Generations \ {0}
      /\ metrics = [c \in Counters |-> Cardinality(Counted(c))]
  BY RequestFacts
<1>1. CASE Arrive(q)
  <2>1. /\ phase[q] = "new" /\ phase' = [phase EXCEPT ![q] = "counted"]
        /\ Count({"requests"}) /\ UNCHANGED <<looked, event, confirmed>>
    BY <1>1 DEF Arrive, GoTo
  <2>2. \A p \in Requests \ {q} : \A c \in Counters : Counts(p, c)' <=> Counts(p, c)
    BY <1>0, <2>1, OthersCountTheSame
  <2>3. /\ ~ Counts(q, "requests") /\ Counts(q, "requests")'
        /\ \A c \in Counters \ {"requests"} : Counts(q, c)' <=> Counts(q, c)
    BY <1>0, <2>1 DEF Counts, Counters
  <2> QED BY <1>0, <2>1, <2>2, <2>3, CountStep DEF Counters
<1>2. CASE Enter(q)
  <2>1. /\ phase[q] = "counted" /\ phase' = [phase EXCEPT ![q] = "authenticate"]
        /\ Count({"inflight"}) /\ UNCHANGED <<looked, event, confirmed>>
    BY <1>2 DEF Enter, GoTo
  <2>2. \A p \in Requests \ {q} : \A c \in Counters : Counts(p, c)' <=> Counts(p, c)
    BY <1>0, <2>1, OthersCountTheSame
  <2>3. /\ ~ Counts(q, "inflight") /\ Counts(q, "inflight")'
        /\ \A c \in Counters \ {"inflight"} : Counts(q, c)' <=> Counts(q, c)
    BY <1>0, <2>1 DEF Counts, Counters
  <2> QED BY <1>0, <2>1, <2>2, <2>3, CountStep DEF Counters
<1>3. CASE Authenticate(q) /\ UNCHANGED <<event, metrics>>
  <2>1. /\ phase[q] = "authenticate"
        /\ phase' = [phase EXCEPT ![q] = "parse"] \/ phase' = [phase EXCEPT ![q] = "audit"]
        /\ UNCHANGED <<looked, event, confirmed, metrics>>
    BY <1>3 DEF Authenticate, Audit, GoTo
  <2>2. \A p \in Requests \ {q} : \A c \in Counters : Counts(p, c)' <=> Counts(p, c)
    BY <1>0, <2>1, OthersCountTheSame
  <2>3. \A c \in Counters : Counts(q, c)' <=> Counts(q, c)
    BY <1>0, <2>1 DEF Counts, Counters
  <2> QED BY <1>0, <2>1, <2>2, <2>3, UncountedStep
<1>4. CASE Authenticate(q) /\ ~ UNCHANGED <<event, metrics>>
  <2>1. /\ phase[q] = "authenticate" /\ phase' = [phase EXCEPT ![q] = "audit"]
        /\ Count({"authFailures"}) /\ UNCHANGED <<looked, confirmed>>
        /\ event' = [event EXCEPT ![q] = Failure("unauthorized", 401, FALSE)]
    BY <1>4 DEF Authenticate, Audit, GoTo
  <2>2. \A p \in Requests \ {q} : \A c \in Counters : Counts(p, c)' <=> Counts(p, c)
    BY <1>0, <2>1, OthersCountTheSame
  <2>3. event[q].outcome = "none" /\ event'[q].outcome = "unauthorized"
    BY <1>0, <2>1 DEF EventIsMade, Unparsed, NoEvent, Event, Failure
  <2>5. /\ phase[q] = "authenticate" /\ phase'[q] = "audit"
        /\ looked'[q] = looked[q] /\ confirmed'[q] = confirmed[q]
    BY <1>0, <2>1
  <2>6. ~ Counts(q, "authFailures") /\ Counts(q, "authFailures")'
    BY <2>3 DEF Counts
  <2>7. \A c \in Counters \ {"authFailures"} : Counts(q, c)' <=> Counts(q, c)
    BY <2>3, <2>5 DEF Counts, Counters
  <2> QED BY <1>0, <2>1, <2>2, <2>6, <2>7, CountStep DEF Counters
<1>5. CASE Parse(q)
  <2>1. PICK t \in Targets(route[q]) :
          IF Permitted(t)
          THEN GoTo(q, "lookup") /\ UNCHANGED event
          ELSE Audit(q, Refusal(route[q], t))
    BY <1>5 DEF Parse
  <2>2. /\ phase[q] = "parse" /\ UNCHANGED <<looked, confirmed, metrics>>
        /\ route[q] \in Routes
    BY <1>0, <1>5 DEF Parse, RequestsOK
  <2>3. \/ phase' = [phase EXCEPT ![q] = "lookup"] /\ event' = event
        \/ /\ phase' = [phase EXCEPT ![q] = "audit"] /\ ~ Permitted(t)
           /\ event' = [event EXCEPT ![q] = Refusal(route[q], t)]
    BY <2>1 DEF GoTo, Audit
  <2>4. event[q].outcome = "none"
    BY <1>0, <2>2 DEF EventIsMade, Unparsed, NoEvent, Event
  <2>5. event'[q].outcome \notin {"unauthorized", "lookup_error"}
    <3>1. CASE event' = event
      BY <2>4, <3>1
    <3>2. CASE ~ Permitted(t) /\ event' = [event EXCEPT ![q] = Refusal(route[q], t)]
      <4>1. t \in {"missing", "oversized", "garbled", "private"}
        BY <2>2, <3>2 DEF Targets, Permitted, Routes
      <4>2. Refusal(route[q], t).outcome \notin {"unauthorized", "lookup_error"}
        BY <4>1 DEF Refusal, Failure, Event
      <4> QED BY <1>0, <3>2, <4>2
    <3> QED BY <2>3, <3>1, <3>2
  <2>6. phase[q] = "parse" /\ phase'[q] \in {"lookup", "audit"}
        /\ \A p \in Requests \ {q} : phase'[p] = phase[p] /\ event'[p] = event[p]
    BY <1>0, <2>2, <2>3
  <2>7. \A p \in Requests \ {q} : \A c \in Counters : Counts(p, c)' <=> Counts(p, c)
    BY <2>2, <2>6, OthersCountTheSame
  <2>8. \A c \in Counters : Counts(q, c)' <=> Counts(q, c)
    BY <2>2, <2>4, <2>5, <2>6 DEF Counts, Counters
  <2> QED BY <1>0, <2>2, <2>7, <2>8, UncountedStep
<1>6. CASE LookupFails(q)
  <2>1. /\ phase[q] = "lookup" /\ phase' = [phase EXCEPT ![q] = "audit"]
        /\ looked' = [looked EXCEPT ![q] = generation]
        /\ Count({"lookups", "lookupFailures"}) /\ UNCHANGED confirmed
        /\ event' = [event EXCEPT ![q] = Event("lookup_error", 500, TRUE, TRUE, 0)]
    BY <1>6 DEF LookupFails, Audit, GoTo
  <2>2. \A p \in Requests \ {q} : \A c \in Counters : Counts(p, c)' <=> Counts(p, c)
    BY <1>0, <2>1, OthersCountTheSame
  <2>3. event[q].outcome = "none" /\ event'[q].outcome = "lookup_error"
    BY <1>0, <2>1 DEF EventIsMade, NoEvent, Event, Unparsed
  <2>4. looked[q] = 0 /\ looked'[q] # 0
    BY <1>0, <2>1 DEF Known
  <2>5. phase[q] = "lookup" /\ phase'[q] = "audit" /\ confirmed'[q] = confirmed[q]
    BY <1>0, <2>1
  <2>6. \A c \in {"lookups", "lookupFailures"} : ~ Counts(q, c) /\ Counts(q, c)'
    BY <2>3, <2>4 DEF Counts
  <2>7. \A c \in Counters \ {"lookups", "lookupFailures"} : Counts(q, c)' <=> Counts(q, c)
    BY <2>3, <2>5 DEF Counts, Counters
  <2> QED BY <1>0, <2>1, <2>2, <2>6, <2>7, CountStep DEF Counters
<1>7. CASE LookupReturns(q)
  <2>1. PICK found \in {"nothing", "no country", "all"} : Audit(q, LookupEvent(q, found))
    BY <1>7 DEF LookupReturns
  <2>2. /\ phase[q] = "lookup" /\ phase' = [phase EXCEPT ![q] = "audit"]
        /\ looked' = [looked EXCEPT ![q] = generation]
        /\ Count({"lookups"}) /\ UNCHANGED confirmed
        /\ event' = [event EXCEPT ![q] = LookupEvent(q, found)]
    BY <1>7, <2>1 DEF LookupReturns, Audit, GoTo
  <2>3. \A p \in Requests \ {q} : \A c \in Counters : Counts(p, c)' <=> Counts(p, c)
    BY <1>0, <2>2, OthersCountTheSame
  <2>4. LookupEvent(q, found).outcome \in {"not_found", "ok"}
    BY DEF LookupEvent, Event
  <2>5. event[q].outcome = "none"
    <3>1. event[q] = NoEvent
      BY <1>0, <2>2 DEF EventIsMade
    <3>2. NoEvent.outcome = "none"
      BY DEF NoEvent, Event
    <3> QED BY <3>1, <3>2
  <2>6. event'[q].outcome \in {"not_found", "ok"}
    <3>1. event'[q] = LookupEvent(q, found)
      BY <1>0, <2>2
    <3> QED BY <2>4, <3>1
  <2>7. looked[q] = 0 /\ looked'[q] # 0
    BY <1>0, <2>2 DEF Known
  <2>8. phase[q] = "lookup" /\ phase'[q] = "audit" /\ confirmed'[q] = confirmed[q]
    BY <1>0, <2>2
  <2>9. \A c \in {"lookups"} : ~ Counts(q, c) /\ Counts(q, c)'
    BY <2>7 DEF Counts
  <2>10. \A c \in Counters \ {"lookups"} : Counts(q, c)' <=> Counts(q, c)
    BY <2>5, <2>6, <2>8 DEF Counts, Counters
  <2> QED BY <1>0, <2>2, <2>3, <2>9, <2>10, CountStep DEF Counters
<1>8. CASE PublishAudit(q)
  <2>1. PICK acked \in BOOLEAN :
          /\ event' = [event EXCEPT ![q] =
                         [event[q] EXCEPT !.version = AuditVersion(event[q])]]
          /\ confirmed' = [confirmed EXCEPT ![q] = acked]
          /\ Count({"audits"} \cup IF acked THEN {} ELSE {"auditFailures"})
    BY <1>8 DEF PublishAudit
  <2> DEFINE cs == {"audits"} \cup IF acked THEN {} ELSE {"auditFailures"}
  <2>2. /\ phase[q] = "audit" /\ phase' = [phase EXCEPT ![q] = "answer"]
        /\ UNCHANGED looked
    BY <1>8 DEF PublishAudit, GoTo
  <2>3. event'[q].outcome = event[q].outcome
    BY <1>0, <2>1 DEF Events
  <2>4. \A p \in Requests \ {q} : \A c \in Counters : Counts(p, c)' <=> Counts(p, c)
    BY <1>0, <2>1, <2>2, OthersCountTheSame
  <2>5. /\ \A c \in cs : ~ Counts(q, c) /\ Counts(q, c)'
        /\ \A c \in Counters \ cs : Counts(q, c)' <=> Counts(q, c)
    BY <1>0, <2>1, <2>2, <2>3 DEF Counts, Counters
  <2>6. cs \in SUBSET Counters
    BY DEF Counters
  <2>7. Count(cs)
    BY <2>1
  <2> HIDE DEF cs
  <2> QED BY <1>0, <2>4, <2>5, <2>6, <2>7, CountStep
<1>9. CASE Respond(q)
  <2>1. /\ phase[q] = "answer" /\ phase' = [phase EXCEPT ![q] = "written"]
        /\ UNCHANGED <<looked, event, confirmed, metrics>>
    BY <1>9 DEF Respond, GoTo
  <2>2. \A p \in Requests \ {q} : \A c \in Counters : Counts(p, c)' <=> Counts(p, c)
    BY <1>0, <2>1, OthersCountTheSame
  <2>3. \A c \in Counters : Counts(q, c)' <=> Counts(q, c)
    BY <1>0, <2>1 DEF Counts, Counters
  <2> QED BY <1>0, <2>1, <2>2, <2>3, UncountedStep
<1>10. CASE Leave(q)
  BY <1>0, <1>10, LeaveStep
<1>11. CASE ObserveRequest(q)
  <2>1. /\ phase[q] = "left" /\ phase' = [phase EXCEPT ![q] = "done"]
        /\ Count({"observed"}) /\ UNCHANGED <<looked, event, confirmed>>
    BY <1>11 DEF ObserveRequest, GoTo
  <2>2. \A p \in Requests \ {q} : \A c \in Counters : Counts(p, c)' <=> Counts(p, c)
    BY <1>0, <2>1, OthersCountTheSame
  <2>3. /\ ~ Counts(q, "observed") /\ Counts(q, "observed")'
        /\ \A c \in Counters \ {"observed"} : Counts(q, c)' <=> Counts(q, c)
    BY <1>0, <2>1 DEF Counts, Counters
  <2> QED BY <1>0, <2>1, <2>2, <2>3, CountStep DEF Counters
<1> QED
  BY <1>1, <1>2, <1>3, <1>4, <1>5, <1>6, <1>7, <1>8, <1>9, <1>10, <1>11 DEF Handle

(* Only the steps to the audit and after it change an event. *)
LEMMA EventsAreMade ==
  ASSUME MetricsInv, [Next]_vars, NEW p \in Requests
  PROVE  EventIsMade(p)'
<1>0. /\ EventIsMade(p) /\ event \in [Requests -> Events]
      /\ phase \in [Requests -> {"new", "counted", "authenticate", "parse", "lookup",
                                 "audit", "answer", "written", "left", "done"}]
  BY RequestFacts
<1> DEFINE Later == {"audit", "answer", "written", "left", "done"}
<1>1. ASSUME NEW q \in Requests, Arrive(q) \/ Handle(q)
      PROVE  \/ phase'[p] \in Later
             \/ /\ event'[p] = event[p]
                /\ phase[p] \in Unparsed \cup {"lookup"} \/ phase'[p] = phase[p]
  <2>1. CASE q # p
    <3>1. phase'[p] = phase[p] /\ event'[p] = event[p]
      BY <1>0, <1>1, <2>1
         DEF Arrive, Handle, Enter, Authenticate, Parse, LookupFails, LookupReturns,
             PublishAudit, Respond, Leave, ObserveRequest, Audit, GoTo
    <3> QED BY <3>1
  <2>2. CASE q = p
    <3>1. CASE Arrive(q) \/ Enter(q)
      BY <1>0, <2>2, <3>1 DEF Arrive, Enter, GoTo, Unparsed
    <3>2. CASE Authenticate(q)
      BY <1>0, <2>2, <3>2 DEF Authenticate, Audit, GoTo, Unparsed
    <3>3. CASE Parse(q)
      <4>1. \/ phase' = [phase EXCEPT ![q] = "lookup"] /\ UNCHANGED event
            \/ phase' = [phase EXCEPT ![q] = "audit"]
        BY <3>3 DEF Parse, Audit, GoTo
      <4>2. phase[q] = "parse"
        BY <3>3 DEF Parse
      <4> QED BY <1>0, <2>2, <4>1, <4>2 DEF Unparsed
    <3>4. CASE LookupFails(q) \/ LookupReturns(q)
      <4>1. phase' = [phase EXCEPT ![q] = "audit"]
        BY <3>4 DEF LookupFails, LookupReturns, Audit, GoTo
      <4> QED BY <1>0, <2>2, <4>1
    <3>5. CASE PublishAudit(q) \/ Respond(q) \/ Leave(q) \/ ObserveRequest(q)
      <4>1. PICK place \in Later : phase' = [phase EXCEPT ![q] = place]
        BY <3>5 DEF PublishAudit, Respond, Leave, ObserveRequest, GoTo
      <4> QED BY <1>0, <2>2, <4>1
    <3> QED BY <1>1, <3>1, <3>2, <3>3, <3>4, <3>5 DEF Handle
  <2> QED BY <2>1, <2>2
<1>2. ASSUME Reload \/ UNCHANGED vars
      PROVE  phase'[p] = phase[p] /\ event'[p] = event[p]
  BY <1>2 DEF Reload, vars
<1> QED
  BY <1>0, <1>1, <1>2 DEF Next, EventIsMade, Unparsed, NoEvent, Event

LEMMA NextKeepsMetrics == MetricsInv /\ [Next]_vars => MetricsInv'
<1> SUFFICES ASSUME MetricsInv, [Next]_vars PROVE MetricsInv'
  OBVIOUS
<1>1. LookupInv'
  BY NextKeepsInv DEF MetricsInv
<1>2. \A q \in Requests : EventIsMade(q)'
  BY EventsAreMade
<1>3. metrics' = [c \in Counters |-> Cardinality(Counted(c)')]
  <2>1. CASE \E q \in Requests : Arrive(q) \/ Handle(q)
    BY <2>1, HandlersKeepMetrics
  <2>2. CASE Reload \/ UNCHANGED vars
    <3>1. UNCHANGED <<phase, looked, event, confirmed, metrics>>
      BY <2>2 DEF Reload, vars
    <3>2. \A p \in Requests : \A c \in Counters : Counts(p, c)' <=> Counts(p, c)
      BY <3>1, OthersCountTheSame
    <3> QED BY <3>1, <3>2, UncountedStep DEF MetricsInv
  <2> QED BY <2>1, <2>2 DEF Next
<1> QED BY <1>1, <1>2, <1>3 DEF MetricsInv

LEMMA InitEstablishesMetrics == Init => MetricsInv
<1> SUFFICES ASSUME Init PROVE MetricsInv
  OBVIOUS
<1>1. LookupInv
  BY InitEstablishesInv
<1>2. \A q \in Requests : EventIsMade(q)
  BY DEF Init, EventIsMade
<1>3. \A c \in Counters : Cardinality(Counted(c)) = 0
  <2>1. \A q \in Requests : NoEvent.outcome = "none" /\ event[q] = NoEvent
                            /\ phase[q] = "new" /\ looked[q] = 0
    BY DEF Init, NoEvent, Event
  <2>2. \A q \in Requests : \A c \in Counters : ~ Counts(q, c)
    BY <2>1 DEF Counts, Counters
  <2>3. \A c \in Counters : Counted(c) = {}
    BY <2>2 DEF Counted
  <2> QED BY <2>3, FS_EmptySet
<1>4. metrics = [c \in Counters |-> 0]
  BY DEF Init
<1> QED BY <1>1, <1>2, <1>3, <1>4 DEF MetricsInv

-----------------------------------------------------------------------------
(* MetricsInv implies what a scrape promises. *)

LEMMA TypedByInv == MetricsInv => TypeOK
<1> SUFFICES ASSUME MetricsInv PROVE TypeOK
  OBVIOUS
<1>1. \A c \in Counters : Cardinality(Counted(c)) \in 0 .. Cardinality(Requests)
  BY CountedType, RequestSets
<1> QED BY <1>1 DEF MetricsInv, LookupInv, TypeOK

LEMMA DisjointRequests ==
  ASSUME NEW S \in SUBSET Requests, NEW T \in SUBSET Requests, S \cap T = {}
  PROVE  Cardinality(S \cup T) = Cardinality(S) + Cardinality(T)
<1>1. IsFiniteSet(S) /\ IsFiniteSet(T) /\ Cardinality(S) \in Nat /\ Cardinality(T) \in Nat
  BY RequestSets
<1>2. Cardinality(S \cup T) = Cardinality(S) + Cardinality(T) - Cardinality(S \cap T)
  BY <1>1, FS_Union
<1>3. Cardinality(S \cap T) = 0
  BY FS_EmptySet
<1> QED BY <1>1, <1>2, <1>3

LEMMA FewerRequests ==
  ASSUME NEW S \in SUBSET Requests, NEW T \in SUBSET Requests, S \subseteq T
  PROVE  Cardinality(S) <= Cardinality(T)
<1>1. IsFiniteSet(T)
  BY RequestSets
<1> QED BY <1>1, FS_Subset

LEMMA AgreedByInv == MetricsInv => MetricsAgree
<1> SUFFICES ASSUME MetricsInv PROVE MetricsAgree
  OBVIOUS
<1>1. /\ \A c \in Counters : metrics[c] = Cardinality(Counted(c))
      /\ \A c \in Counters : Counted(c) \in SUBSET Requests /\ metrics[c] \in Nat
  BY CountedType DEF MetricsInv
<1>2. \A q \in Requests : Known(q) /\ EventIsMade(q) /\ event[q] \in Events
                          /\ confirmed[q] \in BOOLEAN
  BY RequestFacts
<1>3. \A q \in Requests :
        phase[q] \in {"new", "counted", "authenticate", "parse", "lookup",
                      "audit", "answer", "written", "left", "done"}
  BY RequestFacts
<1>4. metrics["inflight"] =
        Are({"authenticate", "parse", "lookup", "audit", "answer", "written"})
  BY <1>1 DEF Counted, Counts, Are, Counters
<1>5. metrics["audits"] = Are({"answer", "written", "left", "done"})
  BY <1>1 DEF Counted, Counts, Are, Counters
<1>6. metrics["requests"] =
        metrics["inflight"] + metrics["observed"] + Are({"counted", "left"})
  <2> DEFINE Between == {q \in Requests : phase[q] \in {"counted", "left"}}
             Ended   == Counted("inflight") \cup Counted("observed")
  <2>1. /\ Counted("inflight") \cap Counted("observed") = {}
        /\ Ended \cap Between = {} /\ Counted("requests") = Ended \cup Between
    BY <1>3 DEF Counted, Counts
  <2>2. /\ Counted("inflight") \in SUBSET Requests /\ Counted("observed") \in SUBSET Requests
        /\ Ended \in SUBSET Requests /\ Between \in SUBSET Requests
    BY <1>1 DEF Counters
  <2>3. Cardinality(Ended) = metrics["inflight"] + metrics["observed"]
    <3>1. Cardinality(Ended)
            = Cardinality(Counted("inflight")) + Cardinality(Counted("observed"))
      BY <2>1, <2>2, DisjointRequests
    <3>2. "inflight" \in Counters /\ "observed" \in Counters
      BY DEF Counters
    <3> QED BY <1>1, <3>1, <3>2
  <2>4. Cardinality(Ended \cup Between) = Cardinality(Ended) + Cardinality(Between)
    BY <2>1, <2>2, DisjointRequests
  <2>5. Are({"counted", "left"}) = Cardinality(Between)
    BY DEF Are
  <2>6. metrics["requests"] = Cardinality(Ended \cup Between)
    BY <1>1, <2>1 DEF Counters
  <2> QED BY <2>3, <2>4, <2>5, <2>6
<1>7. metrics["lookups"] + metrics["authFailures"] <= metrics["requests"]
  <2>1. ASSUME NEW q \in Counted("lookups") PROVE phase[q] # "new"
    BY <1>2, <2>1 DEF Counted, Counts, Known, Unparsed
  <2>2. ASSUME NEW q \in Counted("authFailures")
        PROVE  phase[q] # "new" /\ looked[q] = 0
    <3>1. q \in Requests /\ event[q].outcome = "unauthorized"
      BY <2>2 DEF Counted, Counts
    <3>2. phase[q] \notin Unparsed \cup {"lookup"}
      BY <1>2, <3>1 DEF EventIsMade, NoEvent, Event
    <3>3. Truthful(event[q], target[q], looked[q])
      BY <1>2, <3>1, <3>2 DEF Known
    <3>4. target[q] = "unread" /\ ~ Permitted(target[q])
      BY <3>1, <3>3 DEF Truthful, Permitted
    <3> QED BY <3>2, <3>3, <3>4 DEF Truthful, Unparsed
  <2>3. Counted("lookups") \cap Counted("authFailures") = {}
    BY <2>2 DEF Counted, Counts
  <2>4. Counted("lookups") \cup Counted("authFailures") \subseteq Counted("requests")
    BY <2>1, <2>2 DEF Counted, Counts
  <2>5. /\ Counted("lookups") \in SUBSET Requests
        /\ Counted("authFailures") \in SUBSET Requests
        /\ Counted("requests") \in SUBSET Requests
    BY <1>1 DEF Counters
  <2>6. Cardinality(Counted("lookups") \cup Counted("authFailures"))
          = Cardinality(Counted("lookups")) + Cardinality(Counted("authFailures"))
    BY <2>3, <2>5, DisjointRequests
  <2>7. Cardinality(Counted("lookups") \cup Counted("authFailures"))
          <= Cardinality(Counted("requests"))
    BY <2>4, <2>5, FewerRequests
  <2> QED BY <1>1, <2>6, <2>7 DEF Counters
<1>8. metrics["auditFailures"] >= Cardinality({q \in Requests : answer[q] = 503})
  <2> DEFINE Refused == {q \in Requests : answer[q] = 503}
  <2>1. ASSUME NEW q \in Refused PROVE Counts(q, "auditFailures")
    <3>1. phase[q] \in Answered /\ Status(q) = 503
      BY <1>2, <2>1 DEF Known
    <3>2. Truthful(event[q], target[q], looked[q])
      BY <1>2, <2>1, <3>1 DEF Known, Answered, Unparsed
    <3>3. ~ confirmed[q]
      BY <1>2, <2>1, <3>1, <3>2 DEF Status, Truthful, Events
    <3> QED BY <3>1, <3>3 DEF Counts, Answered
  <2>2. Refused \subseteq Counted("auditFailures") /\ Refused \in SUBSET Requests
    BY <2>1 DEF Counted
  <2>3. Cardinality(Refused) <= Cardinality(Counted("auditFailures"))
    BY <1>1, <2>2, FewerRequests DEF Counters
  <2>4. Cardinality(Refused) \in Nat
    BY <2>2, RequestSets
  <2> QED BY <1>1, <2>3, <2>4 DEF Counters
<1> QED BY <1>4, <1>5, <1>6, <1>7, <1>8 DEF MetricsAgree

-----------------------------------------------------------------------------
(* Every counter is the number of requests that have reached the place of  *)
(* its add, whatever the interleaving.                                     *)
THEOREM MetricsInvHolds == Spec => []MetricsInv
<1> QED BY InitEstablishesMetrics, NextKeepsMetrics, PTL DEF Spec

(* Handlers keep their types, and no counter of metrics counts a request   *)
(* twice or falls below zero.                                              *)
THEOREM TypeCorrect == Spec => []TypeOK
<1> QED BY MetricsInvHolds, TypedByInv, PTL

(* Whenever the metrics of httpapi are read, the gauge and the counters add *)
(* up, but for the requests between two of the adds.                        *)
THEOREM MetricsFitTogether == Spec => []MetricsAgree
<1> QED BY MetricsInvHolds, AgreedByInv, PTL
=============================================================================

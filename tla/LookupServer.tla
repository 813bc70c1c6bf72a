---------------------------- MODULE LookupServer ----------------------------
(***************************************************************************)
(* internal/httpapi of one API pod: the handlers of POST /v1/country, POST *)
(* and GET /v1/lookup and GET /v1/me run concurrently.  Each authenticates *)
(* the caller, finds the target address, looks it up, publishes one audit  *)
(* event and answers, while the databases are reloaded (MmdbReload).       *)
(*                                                                         *)
(* Of a request the model keeps the route and what is wrong with its       *)
(* target; of an answer, the status; of the metrics, the counters.         *)
(***************************************************************************)
EXTENDS Integers, FiniteSets, Sequences

CONSTANTS
  Requests,
  AllowPrivateIPs,
  MaxGeneration     \* bound: database generations that are ever served

ASSUME LookupServerAssumption ==
  /\ IsFiniteSet(Requests)
  /\ AllowPrivateIPs \in BOOLEAN
  /\ MaxGeneration \in Nat \ {0}

VARIABLES
  phase,       \* where the handler of each request is
  route,       \* "none" until the request arrives
  target,      \* "unread" until the handler parses it
  generation,  \* the database generation in service now
  looked,      \* the generation that the lookup of a request used, or 0
  event,       \* the audit event a handler is about to publish
  confirmed,   \* did Publish return without an error?
  journal,     \* the events of each request that the stream accepted
  answer,      \* the status written, or 0
  metrics

vars == <<phase, route, target, generation, looked, event, confirmed,
          journal, answer, metrics>>

Routes == {"country", "post", "get", "me"}

(* What a route can meet: no address, a body over the limit, something     *)
(* that is no address, an address that is not public, a public one.        *)
Targets(r) ==
  CASE r = "me"  -> {"missing", "private", "public"}
    [] r = "get" -> {"missing", "garbled", "private", "public"}
    [] OTHER     -> {"missing", "oversized", "garbled", "private", "public"}

(* ip says whether the event carries the target, required whether the      *)
(* request is refused when the event cannot be published, version which    *)
(* generation the result came from (0: no result).                         *)
Event(outcome, status, ip, required, version) ==
  [outcome |-> outcome, status |-> status, ip |-> ip,
   required |-> required, version |-> version]
NoEvent == Event("none", 0, FALSE, FALSE, 0)

Outcomes == {"none", "unauthorized", "invalid_request", "request_too_large", "invalid_ip",
             "client_ip_unavailable", "disallowed_ip", "lookup_error", "not_found", "ok"}
Statuses == {0, 200, 400, 401, 404, 413, 422, 500, 503}
Generations == 0 .. MaxGeneration
Events == [outcome : Outcomes, status : Statuses, ip : BOOLEAN,
           required : BOOLEAN, version : Generations]
Counters == {"requests", "inflight", "observed", "lookups", "audits",
             "authFailures", "lookupFailures", "auditFailures"}

RequestsOK ==
  /\ phase \in [Requests -> {"new", "counted", "authenticate", "parse", "lookup",
                             "audit", "answer", "written", "left", "done"}]
  /\ route \in [Requests -> Routes \cup {"none"}]
  /\ \A q \in Requests : phase[q] # "new" => route[q] \in Routes
  /\ target \in [Requests -> {"unread", "missing", "oversized", "garbled",
                              "private", "public"}]
  /\ generation \in Generations \ {0}
  /\ looked \in [Requests -> Generations]
  /\ event \in [Requests -> Events]
  /\ confirmed \in [Requests -> BOOLEAN]
  /\ journal \in [Requests -> Seq(Events)]
  /\ answer \in [Requests -> Statuses]

TypeOK == RequestsOK /\ metrics \in [Counters -> 0 .. Cardinality(Requests)]

Init ==
  /\ phase = [q \in Requests |-> "new"]
  /\ route = [q \in Requests |-> "none"]
  /\ target = [q \in Requests |-> "unread"]
  /\ generation = 1
  /\ looked = [q \in Requests |-> 0]
  /\ event = [q \in Requests |-> NoEvent]
  /\ confirmed = [q \in Requests |-> FALSE]
  /\ journal = [q \in Requests |-> <<>>]
  /\ answer = [q \in Requests |-> 0]
  /\ metrics = [c \in Counters |-> 0]

Count(cs) == metrics' = [c \in Counters |-> metrics[c] + IF c \in cs THEN 1 ELSE 0]
GoTo(q, place) == phase' = [phase EXCEPT ![q] = place]
Audit(q, e) == event' = [event EXCEPT ![q] = e] /\ GoTo(q, "audit")

(* publishFailureAudit: no result, and the outcome of Publish is ignored. *)
Failure(outcome, status, ip) == Event(outcome, status, ip, FALSE, 0)

-----------------------------------------------------------------------------
(* requestMiddleware, before the handler: two atomic adds. *)
Arrive(q) ==
  /\ phase[q] = "new"
  /\ GoTo(q, "counted")
  /\ \E r \in Routes : route' = [route EXCEPT ![q] = r]
  /\ Count({"requests"})
  /\ UNCHANGED <<target, generation, looked, event, confirmed,
                 journal, answer>>

Enter_NotCounted(q) ==
  /\ phase[q] = "counted"
  /\ GoTo(q, "authenticate")
  /\ UNCHANGED <<route, target, generation, looked, event, confirmed,
                 journal, answer, metrics>>

Enter(q) ==
  /\ phase[q] = "counted"
  /\ GoTo(q, "authenticate")
  /\ Count({"inflight"})
  /\ UNCHANGED <<route, target, generation, looked, event, confirmed,
                 journal, answer>>

(* The verifier of the moment accepts the caller or not (VerifierSync). *)
Authenticate(q) ==
  /\ phase[q] = "authenticate"
  /\ \/ /\ GoTo(q, "parse")
        /\ UNCHANGED <<event, metrics>>
     \/ /\ Audit(q, Failure("unauthorized", 401, FALSE))
        /\ Count({"authFailures"})
  /\ UNCHANGED <<route, target, generation, looked, confirmed, journal,
                 answer>>

(* ipFromJSON, lookupGET, parseIP, me: why a target is refused. *)
Permitted_Private(t) == t \in {"private", "public"}
Permitted(t) == t = "public" \/ (t = "private" /\ AllowPrivateIPs)

Refusal(r, t) ==
  CASE t = "missing" /\ r = "me" -> Failure("client_ip_unavailable", 400, FALSE)
    [] t = "missing" /\ r # "me" -> Failure("invalid_request", 400, FALSE)
    [] t = "oversized"           -> Failure("request_too_large", 413, FALSE)
    [] t = "garbled"             -> Failure("invalid_ip", 422, FALSE)
    [] t = "private"             -> Failure("disallowed_ip", 422, TRUE)

Parse(q) ==
  /\ phase[q] = "parse"
  /\ \E t \in Targets(route[q]) :
       /\ target' = [target EXCEPT ![q] = t]
       /\ IF Permitted(t)
          THEN GoTo(q, "lookup") /\ UNCHANGED event
          ELSE Audit(q, Refusal(route[q], t))
  /\ UNCHANGED <<route, generation, looked, confirmed, journal,
                 answer, metrics>>

(* performLookup up to its publishAudit.  A record can lack the country;   *)
(* only the country route minds.                                           *)
LookupFails(q) ==
  /\ phase[q] = "lookup"
  /\ Audit(q, Event("lookup_error", 500, TRUE, TRUE, 0))
  /\ looked' = [looked EXCEPT ![q] = generation]
  /\ Count({"lookups", "lookupFailures"})
  /\ UNCHANGED <<route, target, generation, confirmed, journal, answer>>

LookupEvent(q, found) ==
  IF found = "nothing" \/ (found = "no country" /\ route[q] = "country")
  THEN Event("not_found", 404, TRUE, TRUE, generation)
  ELSE Event("ok", 200, TRUE, TRUE, generation)

LookupReturns(q) ==
  /\ phase[q] = "lookup"
  /\ \E found \in {"nothing", "no country", "all"} : Audit(q, LookupEvent(q, found))
  /\ looked' = [looked EXCEPT ![q] = generation]
  /\ Count({"lookups"})
  /\ UNCHANGED <<route, target, generation, confirmed, journal, answer>>

(* auditMMDBVersion: that of the result, or else the one in service.       *)
AuditVersion_InService(e) == generation
AuditVersion(e) == IF e.version # 0 THEN e.version ELSE generation

(* publishAudit: the stream takes the event or not, and the confirmation   *)
(* of one it took may come too late or not at all (AuditPipeline).         *)
PublishAudit(q) ==
  /\ phase[q] = "audit"
  /\ \E stored, acked \in BOOLEAN :
       /\ acked => stored
       /\ LET e == [event[q] EXCEPT !.version = AuditVersion(event[q])] IN
          /\ event' = [event EXCEPT ![q] = e]
          /\ journal' = IF stored THEN [journal EXCEPT ![q] = Append(@, e)] ELSE journal
       /\ confirmed' = [confirmed EXCEPT ![q] = acked]
       /\ Count({"audits"} \cup IF acked THEN {} ELSE {"auditFailures"})
  /\ GoTo(q, "answer")
  /\ UNCHANGED <<route, target, generation, looked, answer>>

Status_Unaudited(q) == event[q].status
Status(q) == IF event[q].required /\ ~ confirmed[q] THEN 503 ELSE event[q].status

Respond(q) ==
  /\ phase[q] = "answer"
  /\ answer' = [answer EXCEPT ![q] = Status(q)]
  /\ GoTo(q, "written")
  /\ UNCHANGED <<route, target, generation, looked, event, confirmed,
                 journal, metrics>>

(* requestMiddleware, deferred: it runs whatever became of the request. *)
Finished_WhenConfirmed(q) == IF confirmed[q] THEN 1 ELSE 0
Finished(q) == 1

Leave(q) ==
  /\ phase[q] = "written"
  /\ metrics' = [metrics EXCEPT !["inflight"] = @ - Finished(q)]
  /\ GoTo(q, "left")
  /\ UNCHANGED <<route, target, generation, looked, event, confirmed,
                 journal, answer>>

ObserveRequest(q) ==
  /\ phase[q] = "left"
  /\ Count({"observed"})
  /\ GoTo(q, "done")
  /\ UNCHANGED <<route, target, generation, looked, event, confirmed,
                 journal, answer>>

-----------------------------------------------------------------------------
(* The Watch goroutine of the databases puts a new generation into service. *)

Reload ==
  /\ generation < MaxGeneration
  /\ generation' = generation + 1
  /\ UNCHANGED <<phase, route, target, looked, event, confirmed,
                 journal, answer, metrics>>

Handle(q) ==
  \/ Enter(q) \/ Authenticate(q) \/ Parse(q) \/ LookupFails(q) \/ LookupReturns(q)
  \/ PublishAudit(q) \/ Respond(q) \/ Leave(q) \/ ObserveRequest(q)

Next ==
  \/ \E q \in Requests : Arrive(q) \/ Handle(q)
  \/ Reload

Spec == Init /\ [][Next]_vars

-----------------------------------------------------------------------------
(* Fail closed, and no more than that: an answer that tells anything about *)
(* the databases has its event in the stream, with that very status; no    *)
(* request has two events; and a refusal is never turned into another one  *)
(* because the stream is down.                                             *)
AnswersAreAudited ==
  \A q \in Requests : answer[q] # 0 =>
    /\ Len(journal[q]) <= 1
    /\ answer[q] \in {200, 404, 500} =>
         \E i \in DOMAIN journal[q] : journal[q][i].status = answer[q]
    /\ answer[q] = 503 <=> (looked[q] # 0 /\ ~ confirmed[q])

(* The event of a result names the generation that the result came from,   *)
(* also when a reload came between the lookup and the event.               *)
EventNamesGenerationUsed ==
  \A q \in Requests : \A i \in DOMAIN journal[q] :
    journal[q][i].outcome \in {"ok", "not_found"} => journal[q][i].version = looked[q]

(* Data minimisation: the target of a caller without a valid token is not  *)
(* even read, its event carries no address, and an address that is not     *)
(* permitted is never looked up.                                           *)
NothingAboutRefusedTargets ==
  \A q \in Requests :
    /\ looked[q] # 0 => target[q] = "public" \/ AllowPrivateIPs
    /\ \A i \in DOMAIN journal[q] :
         /\ journal[q][i].ip => target[q] \in {"private", "public"}
         /\ journal[q][i].outcome = "unauthorized" => target[q] = "unread"

(* A scrape at any moment finds a gauge and counters that fit together, up *)
(* to the requests between two of the adds: no path counts a request twice *)
(* or forgets it, and every refusal for want of an audit event is counted. *)
Are(places) == Cardinality({q \in Requests : phase[q] \in places})
MetricsAgree ==
  /\ metrics["inflight"] =
       Are({"authenticate", "parse", "lookup", "audit", "answer", "written"})
  /\ metrics["requests"] =
       metrics["inflight"] + metrics["observed"] + Are({"counted", "left"})
  /\ metrics["audits"] = Are({"answer", "written", "left", "done"})
  /\ metrics["lookups"] + metrics["authFailures"] <= metrics["requests"]
  /\ metrics["auditFailures"] >= Cardinality({q \in Requests : answer[q] = 503})
=============================================================================

---------------------------- MODULE AuditDelivery ---------------------------
(***************************************************************************)
(* What the audit path promises: a lookup is answered only when its audit  *)
(* event is in the journal, and what is in the journal stays there until   *)
(* it is a row of the database, for good.  AuditPipeline implements it.    *)
(***************************************************************************)
CONSTANT Events

VARIABLES answered,  \* the events whose request was answered with a result
          journal,   \* the events the audit path is responsible for
          persisted  \* the events with at least one row in ClickHouse

vars == <<answered, journal, persisted>>

Init == answered = {} /\ journal = {} /\ persisted = {}

Record(e) ==
  /\ journal' = journal \cup {e}
  /\ UNCHANGED <<answered, persisted>>

Answer(e) ==
  /\ e \in journal
  /\ answered' = answered \cup {e}
  /\ UNCHANGED <<journal, persisted>>

Persist(E) ==
  /\ persisted' = persisted \cup E
  /\ UNCHANGED <<answered, journal>>

Next ==
  \/ \E e \in Events : Record(e) \/ Answer(e)
  \/ \E E \in SUBSET journal : Persist(E)

Spec == Init /\ [][Next]_vars
=============================================================================

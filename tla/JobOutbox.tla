----------------------------- MODULE JobOutbox ------------------------------
(***************************************************************************)
(* The transactional outbox, application/services/job_outbox_dispatcher.py: *)
(* rows of job_outbox and the dispatchers that publish them.  attempt_count *)
(* is never reset, so the number of the attempt serves as the claim token.  *)
(* As in JobQueue, lease_expires_at > now is lease > 0 and available_at <=  *)
(* now is due.                                                             *)
(***************************************************************************)
EXTENDS Naturals

CONSTANTS Events,            \* rows of job_outbox, one per deduplication key
          Dispatchers,       \* worker processes running the outbox loop
          NoEvent,           \* a dispatcher that holds no claim
          MaxPublishTries,   \* max_attempts
          OutboxLease        \* lease_seconds, in ticks

ASSUME OutboxAssumption == /\ NoEvent \notin Events
                           /\ MaxPublishTries \in Nat \ {0}
                           /\ OutboxLease \in Nat \ {0}

VARIABLES event,       \* event[e]: the row
          dispatcher,  \* dispatcher[p]: the OutboxClaim p holds and what it does
          sent         \* the events the publisher took at least once

outboxVars == <<event, dispatcher, sent>>

EventRow == [state : {"none", "pending", "publishing", "published", "failed"},
             token : 0..MaxPublishTries, lease : 0..OutboxLease, due : BOOLEAN,
             attempts : 0..MaxPublishTries]
OutboxClaim == [pc : {"idle", "claiming", "publish", "complete", "fail"},
                event : Events \cup {NoEvent}, token : 0..MaxPublishTries]

OutboxTypeOK == /\ event \in [Events -> EventRow]
                /\ dispatcher \in [Dispatchers -> OutboxClaim]
                /\ sent \subseteq Events

NoEventRow == [state |-> "none", token |-> 0, lease |-> 0, due |-> TRUE, attempts |-> 0]
IdleDispatcher == [pc |-> "idle", event |-> NoEvent, token |-> 0]

OutboxInit == /\ event = [e \in Events |-> NoEventRow]
              /\ dispatcher = [p \in Dispatchers |-> IdleDispatcher]
              /\ sent = {}

\* A transaction of the gateway or of a worker records an event.
RecordEvent(e) ==
  /\ event[e].state = "none"
  /\ event' = [event EXCEPT ![e].state = "pending"]
  /\ UNCHANGED <<dispatcher, sent>>

-----------------------------------------------------------------------------
(* claim_next *)

Open(r) == \/ r.state = "pending" /\ r.due
           \/ r.state = "publishing" /\ r.lease = 0

Unclaim(r, s) == [r EXCEPT !.state = s, !.token = 0, !.lease = 0]

\* Seeded fault: an exhausted event is neither claimed nor failed.
ExhaustEvent_Never(r) == r

\* First statement: events that used up their attempts fail.
ExhaustEvent(r) ==
  IF Open(r) /\ r.attempts >= MaxPublishTries THEN Unclaim(r, "failed") ELSE r

SweepEvents(p) ==
  /\ dispatcher[p].pc = "idle"
  /\ event' = [e \in Events |-> ExhaustEvent(event[e])]
  /\ dispatcher' = [dispatcher EXCEPT ![p].pc = "claiming"]
  /\ UNCHANGED sent

\* Seeded fault: attempts are not compared with max_attempts.
ClaimableEvent_Unbounded(r) == Open(r)

\* Second statement: one open event is claimed under a fresh token.
ClaimableEvent(r) == Open(r) /\ r.attempts < MaxPublishTries

ClaimEvent(p, e) ==
  LET n == event[e].attempts + 1 IN
  /\ dispatcher[p].pc = "claiming"
  /\ ClaimableEvent(event[e])
  /\ event' = [event EXCEPT ![e] = [@ EXCEPT !.state = "publishing", !.token = n,
                                             !.lease = OutboxLease, !.attempts = n]]
  /\ dispatcher' = [dispatcher EXCEPT ![p] = [pc |-> "publish", event |-> e, token |-> n]]
  /\ UNCHANGED sent

ClaimNoEvent(p) ==
  /\ dispatcher[p].pc = "claiming"
  /\ \A e \in Events : ~ClaimableEvent(event[e])
  /\ dispatcher' = [dispatcher EXCEPT ![p] = IdleDispatcher]
  /\ UNCHANGED <<event, sent>>

-----------------------------------------------------------------------------
(* dispatch_once *)

\* The publisher returns; the event went out.
Publish(p) ==
  /\ dispatcher[p].pc = "publish"
  /\ sent' = sent \cup {dispatcher[p].event}
  /\ dispatcher' = [dispatcher EXCEPT ![p].pc = "complete"]
  /\ UNCHANGED event

\* The publisher raises, before or after the event went out.
PublishRaises(p) ==
  /\ dispatcher[p].pc = "publish"
  /\ \/ sent' = sent
     \/ sent' = sent \cup {dispatcher[p].event}
  /\ dispatcher' = [dispatcher EXCEPT ![p].pc = "fail"]
  /\ UNCHANGED event

\* Seeded fault: complete and fail match the row by its id alone.
HoldsEvent_NoFence(p) == event[dispatcher[p].event].state = "publishing"

\* The WHERE clause of complete and fail.
HoldsEvent(p) == LET r == event[dispatcher[p].event] IN
                 r.state = "publishing" /\ r.token = dispatcher[p].token /\ r.lease > 0

\* Seeded fault: the row is completed before the publisher is called.
CompleteEvent_Early(p) ==
  /\ dispatcher[p].pc \in {"publish", "complete"}
  /\ HoldsEvent(p)
  /\ event' = [event EXCEPT ![dispatcher[p].event] = Unclaim(@, "published")]
  /\ dispatcher' = [dispatcher EXCEPT ![p] = IdleDispatcher]
  /\ UNCHANGED sent

CompleteEvent(p) ==
  /\ dispatcher[p].pc = "complete"
  /\ HoldsEvent(p)
  /\ event' = [event EXCEPT ![dispatcher[p].event] = Unclaim(@, "published")]
  /\ dispatcher' = [dispatcher EXCEPT ![p] = IdleDispatcher]
  /\ UNCHANGED sent

FailedEvent(r) == IF r.attempts >= MaxPublishTries THEN Unclaim(r, "failed")
                  ELSE [Unclaim(r, "pending") EXCEPT !.due = FALSE]

FailEvent(p) ==
  /\ dispatcher[p].pc = "fail"
  /\ HoldsEvent(p)
  /\ event' = [event EXCEPT ![dispatcher[p].event] = FailedEvent(@)]
  /\ dispatcher' = [dispatcher EXCEPT ![p] = IdleDispatcher]
  /\ UNCHANGED sent

\* complete or fail matched no row: JobLeaseLostException, logged by the loop.
LoseEvent(p) ==
  /\ dispatcher[p].pc \in {"complete", "fail"}
  /\ ~HoldsEvent(p)
  /\ dispatcher' = [dispatcher EXCEPT ![p] = IdleDispatcher]
  /\ UNCHANGED <<event, sent>>

CrashDispatcher(p) ==
  /\ dispatcher[p].pc # "idle"
  /\ dispatcher' = [dispatcher EXCEPT ![p] = IdleDispatcher]
  /\ UNCHANGED <<event, sent>>

-----------------------------------------------------------------------------
EventLeaseTick(e) ==
  /\ event[e].lease > 0
  /\ event' = [event EXCEPT ![e].lease = @ - 1]
  /\ UNCHANGED <<dispatcher, sent>>

EventFallsDue(e) ==
  /\ ~event[e].due
  /\ event' = [event EXCEPT ![e].due = TRUE]
  /\ UNCHANGED <<dispatcher, sent>>

Dispatch(p) == Publish(p) \/ PublishRaises(p) \/ CompleteEvent(p) \/ FailEvent(p) \/ LoseEvent(p)

OutboxNext == \/ \E p \in Dispatchers : \/ SweepEvents(p) \/ ClaimNoEvent(p)
                                        \/ \E e \in Events : ClaimEvent(p, e)
                                        \/ Dispatch(p) \/ CrashDispatcher(p)
              \/ \E e \in Events : RecordEvent(e) \/ EventLeaseTick(e) \/ EventFallsDue(e)

OutboxSpec == OutboxInit /\ [][OutboxNext]_outboxVars

-----------------------------------------------------------------------------
(* Properties. *)

\* An event is marked published only after the publisher took it, even when a
\* dispatcher dies or loses its lease between the two.
PublishedWasSent == \A e \in Events : event[e].state = "published" => e \in sent

\* Every recorded event ends published or failed, through crashes and lost leases.
EveryEventSettles ==
  \A e \in Events : event[e].state \in {"pending", "publishing"}
                      ~> event[e].state \in {"published", "failed"}

\* The outbox is a leased work queue like ingestion_jobs: a dispatcher whose
\* claim was superseded cannot settle the event.
OutboxWork == INSTANCE LeasedWork WITH
  Tasks <- Events, Actors <- Dispatchers, NoTask <- NoEvent,
  status <- [e \in Events |-> CASE event[e].state = "none" -> "none"
                                [] event[e].state = "published" -> "done"
                                [] event[e].state = "failed" -> "dead"
                                [] OTHER -> "open"],
  holder <- [e \in Events |-> event[e].token],
  last <- [e \in Events |-> event[e].attempts],
  grant <- [p \in Dispatchers |-> [task |-> dispatcher[p].event, token |-> dispatcher[p].token]]

OutboxImplementsLeasedWork == OutboxWork!Spec
=============================================================================

--------------------------- MODULE OutboundProofs ---------------------------
(***************************************************************************)
(* Theorems about what leaves the gateway, for any number of events,       *)
(* dispatchers, deliveries, couriers, models and calls.                    *)
(***************************************************************************)
EXTENDS MCOutbound, FiniteSetTheorems, TLAPS

-----------------------------------------------------------------------------
(* The outbox.                                                              *)

\* A row has a token exactly while it is being published, and it is the number
\* of its newest attempt.
EventColumns(r) == /\ r.token # 0 <=> r.state = "publishing"
                   /\ r.token # 0 => r.token = r.attempts

\* What a dispatcher believes in was granted; what it is about to record as
\* published went out.
OutboxFenced ==
  /\ \A e \in Events : EventColumns(event[e])
  /\ \A p \in Dispatchers :
       LET c == dispatcher[p] IN
       /\ c.pc \in {"idle", "claiming"} => c.event = NoEvent /\ c.token = 0
       /\ c.pc \notin {"idle", "claiming"} => c.event \in Events /\ c.token # 0
       /\ c.pc = "complete" => c.event \in sent

OutboxInvariant == OutboxTypeOK /\ OutboxFenced /\ PublishedWasSent

LEMMA OutboxBounds == /\ 0 \in 0 .. OutboxLease /\ OutboxLease \in 0 .. OutboxLease
                      /\ 0 \in 0 .. MaxPublishTries
                      /\ \A n \in 0 .. OutboxLease : n > 0 => n - 1 \in 0 .. OutboxLease
                      /\ \A n \in 0 .. MaxPublishTries :
                           n < MaxPublishTries => n + 1 \in 0 .. MaxPublishTries /\ n + 1 # 0
  BY OutboxAssumption

\* Unclaim gives the claim up and keeps the attempts.
LEMMA UnclaimRow ==
  ASSUME NEW r \in EventRow, NEW s \in {"pending", "published", "failed"}
  PROVE  /\ Unclaim(r, s) \in EventRow /\ EventColumns(Unclaim(r, s))
         /\ Unclaim(r, s).state = s /\ Unclaim(r, s).token = 0
         /\ Unclaim(r, s).attempts = r.attempts
<1>1. Unclaim(r, s) \in EventRow
  BY OutboxBounds DEF EventRow, Unclaim
<1>2. /\ Unclaim(r, s).state = s /\ Unclaim(r, s).token = 0
      /\ Unclaim(r, s).attempts = r.attempts
  BY DEF EventRow, Unclaim
<1> QED BY <1>1, <1>2 DEF EventColumns

LEMMA FailedEventRow ==
  ASSUME NEW r \in EventRow
  PROVE  /\ FailedEvent(r) \in EventRow /\ EventColumns(FailedEvent(r))
         /\ FailedEvent(r).state \in {"pending", "failed"} /\ FailedEvent(r).token = 0
         /\ FailedEvent(r).attempts = r.attempts
<1> DEFINE q == Unclaim(r, "pending")
<1>1. CASE r.attempts >= MaxPublishTries
  BY <1>1, UnclaimRow DEF FailedEvent
<1>2. CASE ~(r.attempts >= MaxPublishTries)
  <2>1. FailedEvent(r) = [q EXCEPT !.due = FALSE]
    BY <1>2 DEF FailedEvent
  <2>2. q \in EventRow /\ q.state = "pending" /\ q.token = 0 /\ q.attempts = r.attempts
    BY UnclaimRow
  <2> HIDE DEF q
  <2> QED BY <2>1, <2>2 DEF EventRow, EventColumns
<1> QED BY <1>1, <1>2

\* A dispatcher that holds its event.
LEMMA HolderOfEvent ==
  ASSUME OutboxInvariant, NEW p \in Dispatchers, HoldsEvent(p),
         dispatcher[p].pc \in {"complete", "fail"}
  PROVE  /\ dispatcher[p].event \in Events /\ event[dispatcher[p].event] \in EventRow
         /\ event[dispatcher[p].event].state = "publishing"
         /\ event[dispatcher[p].event].token = dispatcher[p].token
         /\ dispatcher[p].token # 0
  BY DEF OutboxInvariant, OutboxTypeOK, OutboxFenced, HoldsEvent

\* A dispatcher's step that writes at most its own row, and no row as published
\* that was not sent.
LEMMA OutboxKept ==
  ASSUME OutboxInvariant, OutboxTypeOK', sent \subseteq sent',
         \A e \in Events : /\ EventColumns(event[e])'
                           /\ event'[e].state = "published" => e \in sent \/ event[e].state = "published",
         NEW p \in Dispatchers,
         \A q \in Dispatchers \ {p} : dispatcher'[q] = dispatcher[q],
         \/ dispatcher'[p] = dispatcher[p]
         \/ dispatcher'[p] = IdleDispatcher
         \/ /\ dispatcher'[p].event = dispatcher[p].event /\ dispatcher'[p].token = dispatcher[p].token
            /\ dispatcher[p].pc \in {"idle", "claiming"} <=> dispatcher'[p].pc \in {"idle", "claiming"}
            /\ dispatcher'[p].pc = "complete" => dispatcher'[p].event \in sent'
  PROVE  OutboxInvariant'
<1>1. PublishedWasSent'
  BY DEF OutboxInvariant, PublishedWasSent
<1>2. OutboxFenced'
  BY DEF OutboxInvariant, OutboxFenced, IdleDispatcher
<1> QED BY <1>1, <1>2 DEF OutboxInvariant

LEMMA OutboxStep == OutboxInvariant /\ [OutboxNext]_outboxVars => OutboxInvariant'
<1> SUFFICES ASSUME OutboxInvariant, [OutboxNext]_outboxVars PROVE OutboxInvariant'
  OBVIOUS
<1>1. OutboxTypeOK /\ OutboxFenced /\ PublishedWasSent
  BY DEF OutboxInvariant
<1>2. \A e \in Events : event[e] \in EventRow /\ EventColumns(event[e])
  BY <1>1 DEF OutboxTypeOK, OutboxFenced
<1>3. ASSUME NEW p \in Dispatchers, SweepEvents(p)
      PROVE  OutboxInvariant'
  <2>1. ASSUME NEW e \in Events
        PROVE  /\ ExhaustEvent(event[e]) \in EventRow /\ EventColumns(ExhaustEvent(event[e]))
               /\ ExhaustEvent(event[e]).state = "published" => event[e].state = "published"
    BY <1>2, UnclaimRow DEF ExhaustEvent
  <2>2. /\ event' = [e \in Events |-> ExhaustEvent(event[e])]
        /\ dispatcher[p].pc = "idle" /\ dispatcher' = [dispatcher EXCEPT ![p].pc = "claiming"]
        /\ UNCHANGED sent
    BY <1>3 DEF SweepEvents
  <2>3. OutboxTypeOK'
    BY <1>1, <2>1, <2>2 DEF OutboxTypeOK, OutboxClaim
  <2>4. \A e \in Events : event'[e] = ExhaustEvent(event[e])
    BY <2>2
  <2>5. /\ dispatcher'[p].event = dispatcher[p].event /\ dispatcher'[p].token = dispatcher[p].token
        /\ dispatcher'[p].pc = "claiming"
        /\ \A q \in Dispatchers \ {p} : dispatcher'[q] = dispatcher[q]
    BY <1>1, <2>2 DEF OutboxTypeOK, OutboxClaim
  <2> QED BY <1>1, <2>1, <2>2, <2>3, <2>4, <2>5, OutboxKept
<1>4. ASSUME NEW p \in Dispatchers, NEW e \in Events, ClaimEvent(p, e)
      PROVE  OutboxInvariant'
  <2> DEFINE n == event[e].attempts + 1
             r == [event[e] EXCEPT !.state = "publishing", !.token = n,
                                   !.lease = OutboxLease, !.attempts = n]
  <2>1. n \in 0 .. MaxPublishTries /\ n # 0
    BY <1>2, <1>4, OutboxBounds DEF ClaimEvent, ClaimableEvent, EventRow
  <2>2. /\ event' = [event EXCEPT ![e] = r] /\ UNCHANGED sent
        /\ dispatcher' = [dispatcher EXCEPT ![p] = [pc |-> "publish", event |-> e, token |-> n]]
    BY <1>4 DEF ClaimEvent
  <2> HIDE DEF n
  <2>3. r \in EventRow /\ r.state = "publishing" /\ r.token = n /\ r.attempts = n
    BY <1>2, <2>1, OutboxBounds DEF EventRow
  <2> HIDE DEF r
  <2>4. OutboxTypeOK'
    BY <1>1, <2>1, <2>2, <2>3 DEF OutboxTypeOK, OutboxClaim
  <2>5. OutboxFenced'
    BY <1>1, <2>1, <2>2, <2>3 DEF OutboxTypeOK, OutboxFenced, EventColumns
  <2>6. PublishedWasSent'
    BY <1>1, <2>2, <2>3 DEF OutboxTypeOK, PublishedWasSent
  <2> QED BY <2>4, <2>5, <2>6 DEF OutboxInvariant
<1>5. ASSUME NEW p \in Dispatchers, ClaimNoEvent(p) \/ LoseEvent(p) \/ CrashDispatcher(p)
      PROVE  OutboxInvariant'
  <2>1. dispatcher' = [dispatcher EXCEPT ![p] = IdleDispatcher] /\ UNCHANGED <<event, sent>>
    BY <1>5 DEF ClaimNoEvent, LoseEvent, CrashDispatcher
  <2>2. OutboxTypeOK'
    BY <1>1, <2>1, OutboxBounds DEF OutboxTypeOK, OutboxClaim, IdleDispatcher
  <2> QED BY <1>1, <1>2, <2>1, <2>2, OutboxKept DEF OutboxTypeOK
<1>6. ASSUME NEW p \in Dispatchers, Publish(p) \/ PublishRaises(p)
      PROVE  OutboxInvariant'
  <2>1. PICK pc \in {"complete", "fail"} :
          /\ dispatcher[p].pc = "publish" /\ UNCHANGED event
          /\ dispatcher' = [dispatcher EXCEPT ![p].pc = pc]
          /\ sent' = sent \/ sent' = sent \cup {dispatcher[p].event}
          /\ pc = "complete" => sent' = sent \cup {dispatcher[p].event}
    BY <1>6 DEF Publish, PublishRaises
  <2>2. dispatcher[p].event \in Events
    BY <1>1, <2>1 DEF OutboxFenced
  <2>3. OutboxTypeOK'
    BY <1>1, <2>1, <2>2 DEF OutboxTypeOK, OutboxClaim
  <2>4. /\ dispatcher'[p].event = dispatcher[p].event /\ dispatcher'[p].token = dispatcher[p].token
        /\ dispatcher'[p].pc = pc /\ \A q \in Dispatchers \ {p} : dispatcher'[q] = dispatcher[q]
    BY <1>1, <2>1 DEF OutboxTypeOK, OutboxClaim
  <2> QED BY <1>2, <2>1, <2>3, <2>4, OutboxKept
<1>7. ASSUME NEW p \in Dispatchers, CompleteEvent(p)
      PROVE  OutboxInvariant'
  <2> DEFINE e == dispatcher[p].event
             r == Unclaim(event[e], "published")
  <2>1. e \in Events /\ e \in sent
    BY <1>1, <1>7 DEF CompleteEvent, OutboxFenced
  <2>2. event' = [event EXCEPT ![e] = r] /\ dispatcher' = [dispatcher EXCEPT ![p] = IdleDispatcher]
        /\ UNCHANGED sent
    BY <1>7 DEF CompleteEvent
  <2>3. r \in EventRow /\ EventColumns(r)
    BY <1>2, <2>1, UnclaimRow
  <2> HIDE DEF r, e
  <2>4. OutboxTypeOK'
    BY <1>1, <2>1, <2>2, <2>3, OutboxBounds DEF OutboxTypeOK, OutboxClaim, IdleDispatcher
  <2> QED BY <1>1, <1>2, <2>1, <2>2, <2>3, <2>4, OutboxKept DEF OutboxTypeOK
<1>8. ASSUME NEW p \in Dispatchers, FailEvent(p)
      PROVE  OutboxInvariant'
  <2> DEFINE e == dispatcher[p].event
             r == FailedEvent(event[e])
  <2>1. e \in Events
    BY <1>1, <1>8 DEF FailEvent, OutboxFenced
  <2>2. event' = [event EXCEPT ![e] = r] /\ dispatcher' = [dispatcher EXCEPT ![p] = IdleDispatcher]
        /\ UNCHANGED sent
    BY <1>8 DEF FailEvent
  <2>3. r \in EventRow /\ EventColumns(r) /\ r.state # "published"
    BY <1>2, <2>1, FailedEventRow
  <2> HIDE DEF r, e
  <2>4. OutboxTypeOK'
    BY <1>1, <2>1, <2>2, <2>3, OutboxBounds DEF OutboxTypeOK, OutboxClaim, IdleDispatcher
  <2> QED BY <1>1, <1>2, <2>1, <2>2, <2>3, <2>4, OutboxKept DEF OutboxTypeOK
<1>9. ASSUME NEW e \in Events, RecordEvent(e) \/ EventLeaseTick(e) \/ EventFallsDue(e)
      PROVE  OutboxInvariant'
  <2>1. PICK r \in EventRow :
          /\ event' = [event EXCEPT ![e] = r] /\ UNCHANGED <<dispatcher, sent>>
          /\ r.token = event[e].token /\ r.attempts = event[e].attempts
          /\ r.state = event[e].state \/ (event[e].state = "none" /\ r.state = "pending")
    <3>1. CASE RecordEvent(e)
      <4> DEFINE r == [event[e] EXCEPT !.state = "pending"]
      <4>1. /\ r \in EventRow /\ r.token = event[e].token /\ r.attempts = event[e].attempts
            /\ event[e].state = "none" /\ r.state = "pending"
        BY <1>2, <3>1 DEF RecordEvent, EventRow
      <4>2. event' = [event EXCEPT ![e] = r] /\ UNCHANGED <<dispatcher, sent>>
        BY <3>1 DEF RecordEvent
      <4> HIDE DEF r
      <4> QED BY <4>1, <4>2
    <3>2. CASE EventLeaseTick(e)
      <4> DEFINE r == [event[e] EXCEPT !.lease = event[e].lease - 1]
      <4>1. /\ r \in EventRow /\ r.token = event[e].token /\ r.attempts = event[e].attempts
            /\ r.state = event[e].state
        BY <1>2, <3>2, OutboxBounds DEF EventLeaseTick, EventRow
      <4>2. event' = [event EXCEPT ![e] = r] /\ UNCHANGED <<dispatcher, sent>>
        BY <3>2 DEF EventLeaseTick
      <4> HIDE DEF r
      <4> QED BY <4>1, <4>2
    <3>3. CASE EventFallsDue(e)
      <4> DEFINE r == [event[e] EXCEPT !.due = TRUE]
      <4>1. /\ r \in EventRow /\ r.token = event[e].token /\ r.attempts = event[e].attempts
            /\ r.state = event[e].state
        BY <1>2, <3>3 DEF EventFallsDue, EventRow
      <4>2. event' = [event EXCEPT ![e] = r] /\ UNCHANGED <<dispatcher, sent>>
        BY <3>3 DEF EventFallsDue
      <4> HIDE DEF r
      <4> QED BY <4>1, <4>2
    <3> QED BY <1>9, <3>1, <3>2, <3>3
  <2>2. OutboxTypeOK'
    BY <1>1, <2>1 DEF OutboxTypeOK
  <2>3. OutboxFenced'
    BY <1>1, <2>1 DEF OutboxTypeOK, OutboxFenced, EventColumns
  <2>4. PublishedWasSent'
    BY <1>1, <2>1 DEF OutboxTypeOK, PublishedWasSent
  <2> QED BY <2>2, <2>3, <2>4 DEF OutboxInvariant
<1>10. CASE UNCHANGED outboxVars
  BY <1>1, <1>10 DEF outboxVars, OutboxInvariant, OutboxTypeOK, OutboxFenced, PublishedWasSent, EventColumns
<1> QED BY <1>3, <1>4, <1>5, <1>6, <1>7, <1>8, <1>9, <1>10 DEF OutboxNext, Dispatch

LEMMA OutboxStart == OutboxInit => OutboxInvariant
<1> SUFFICES ASSUME OutboxInit PROVE OutboxInvariant
  OBVIOUS
<1>1. OutboxTypeOK
  BY OutboxBounds DEF OutboxInit, OutboxTypeOK, EventRow, OutboxClaim, NoEventRow, IdleDispatcher
<1> QED BY <1>1 DEF OutboxInit, OutboxInvariant, OutboxFenced, PublishedWasSent, EventColumns,
                    NoEventRow, IdleDispatcher

-----------------------------------------------------------------------------
(* The outbox is a leased work queue.                                       *)

EventStatus(s) == CASE s = "none" -> "none" [] s = "published" -> "done"
                    [] s = "failed" -> "dead" [] OTHER -> "open"

LEMMA EventStatusValue ==
  /\ EventStatus("none") = "none" /\ EventStatus("published") = "done"
  /\ EventStatus("failed") = "dead"
  /\ EventStatus("pending") = "open" /\ EventStatus("publishing") = "open"
  BY DEF EventStatus

\* The refinement mapping, by name.
Status == [e \in Events |-> EventStatus(event[e].state)]
Holder == [e \in Events |-> event[e].token]
Granted == [e \in Events |-> event[e].attempts]
Grants == [p \in Dispatchers |-> [task |-> dispatcher[p].event, token |-> dispatcher[p].token]]

LEMMA Mapping ==
  /\ OutboxWork!Init <=> /\ Status = [e \in Events |-> "none"]
                         /\ Holder = [e \in Events |-> 0]
                         /\ Granted = [e \in Events |-> 0]
                         /\ Grants = [p \in Dispatchers |-> [task |-> NoEvent, token |-> 0]]
  /\ UNCHANGED OutboxWork!vars <=> UNCHANGED <<Status, Holder, Granted, Grants>>
  BY DEF OutboxWork!Init, OutboxWork!NoGrant, OutboxWork!vars, Status, Holder, Granted, Grants,
         EventStatus

\* A dispatcher that holds its event and ends its claim yields or finishes it.
LEMMA HolderStep ==
  ASSUME OutboxInvariant, NEW p \in Dispatchers, HoldsEvent(p),
         dispatcher[p].pc \in {"complete", "fail"},
         dispatcher' = [dispatcher EXCEPT ![p] = IdleDispatcher],
         NEW r, event' = [event EXCEPT ![dispatcher[p].event] = r],
         r.token = 0, r.attempts = event[dispatcher[p].event].attempts,
         r.state \in {"published", "pending", "failed"}
  PROVE  OutboxWork!Next
<1>0. PICK e \in Events : e = dispatcher[p].event
  BY HolderOfEvent
<1>1. /\ event[e].token # 0 /\ event[e].token = dispatcher[p].token /\ event[e].state = "publishing"
      /\ event \in [Events -> EventRow] /\ dispatcher \in [Dispatchers -> OutboxClaim]
  BY <1>0, HolderOfEvent DEF OutboxInvariant, OutboxTypeOK
<1>2. Status[e] = "open" /\ OutboxWork!Holds(p, e)
  BY <1>0, <1>1, EventStatusValue DEF Status, OutboxWork!Holds
<1>3. /\ Holder' = [Holder EXCEPT ![e] = 0] /\ Granted' = Granted
      /\ Status' = [Status EXCEPT ![e] = EventStatus(r.state)]
  BY <1>0, <1>1 DEF Holder, Granted, Status
<1>4. Grants' = [Grants EXCEPT ![p] = OutboxWork!NoGrant]
  BY <1>1 DEF Grants, IdleDispatcher, OutboxWork!NoGrant
<1>5. EventStatus(r.state) \in {"done", "open", "dead"}
  BY EventStatusValue
<1>6. CASE EventStatus(r.state) = "done"
  <2>1. OutboxWork!Finish(p, e)
    BY <1>2, <1>3, <1>4, <1>6 DEF OutboxWork!Finish, Status, Holder, Granted, Grants, EventStatus
  <2> QED BY <2>1 DEF OutboxWork!Next
<1>7. CASE EventStatus(r.state) \in {"open", "dead"}
  <2>1. OutboxWork!Yield(p, e)
    BY <1>2, <1>3, <1>4, <1>7 DEF OutboxWork!Yield, Status, Holder, Granted, Grants, EventStatus
  <2> QED BY <2>1 DEF OutboxWork!Next
<1> QED BY <1>5, <1>6, <1>7

LEMMA OutboxStepRefines ==
  ASSUME OutboxInvariant, [OutboxNext]_outboxVars
  PROVE  [OutboxWork!Next]_(OutboxWork!vars)
<1>1. /\ OutboxTypeOK /\ OutboxFenced
      /\ \A e \in Events : event[e] \in EventRow /\ EventColumns(event[e])
  BY DEF OutboxInvariant, OutboxTypeOK, OutboxFenced
<1>2. CASE UNCHANGED outboxVars
  BY <1>2, Mapping DEF outboxVars, Status, Holder, Granted, Grants
<1>3. ASSUME NEW p \in Dispatchers, SweepEvents(p)
      PROVE  OutboxWork!Next
  <2>1. \A e \in Events : event'[e] = ExhaustEvent(event[e])
    BY <1>3 DEF SweepEvents
  <2>2. ASSUME NEW e \in Events
        PROVE  /\ Status'[e] \in {"none", "open", "done", "dead"}
               /\ Status[e] = "done" <=> Status'[e] = "done"
               /\ Status[e] = "none" <=> Status'[e] = "none"
               /\ Holder'[e] \in {Holder[e], 0} /\ Holder'[e] \in Nat
               /\ Status'[e] = "dead" => Holder'[e] = 0
               /\ Granted'[e] = Granted[e]
    <3>1. CASE event'[e] = event[e]
      BY <1>1, <3>1, EventStatusValue DEF Status, Holder, Granted, EventColumns, EventRow
    <3>2. CASE event'[e] # event[e]
      <4>1. event'[e] = Unclaim(event[e], "failed") /\ Open(event[e])
        BY <2>1, <3>2 DEF ExhaustEvent
      <4>2. event'[e].state = "failed" /\ event'[e].token = 0 /\ event'[e].attempts = event[e].attempts
        BY <1>1, <4>1, UnclaimRow
      <4>3. event[e].state \in {"pending", "publishing"}
        BY <4>1 DEF Open
      <4> QED BY <4>2, <4>3, EventStatusValue DEF Status, Holder, Granted
    <3> QED BY <3>1, <3>2
  <2>3. Granted' = Granted
    BY <2>2 DEF Granted
  <2>4. Grants' = Grants
    BY <1>1, <1>3 DEF SweepEvents, Grants, OutboxTypeOK, OutboxClaim
  <2>5. Status' \in [Events -> {"none", "open", "done", "dead"}] /\ Holder' \in [Events -> Nat]
    BY <2>2 DEF Status, Holder
  <2>6. OutboxWork!Administer
    BY <2>2, <2>3, <2>4, <2>5 DEF OutboxWork!Administer, Status, Holder, Granted, Grants, EventStatus
  <2> QED BY <2>6 DEF OutboxWork!Next
<1>4. ASSUME NEW p \in Dispatchers, NEW e \in Events, ClaimEvent(p, e)
      PROVE  OutboxWork!Next
  <2> DEFINE n == event[e].attempts + 1
             r == [event[e] EXCEPT !.state = "publishing", !.token = n,
                                   !.lease = OutboxLease, !.attempts = n]
  <2>1. /\ event' = [event EXCEPT ![e] = r]
        /\ dispatcher' = [dispatcher EXCEPT ![p] = [pc |-> "publish", event |-> e, token |-> n]]
        /\ event[e].state \in {"pending", "publishing"} /\ dispatcher[p].pc = "claiming"
    BY <1>4 DEF ClaimEvent, ClaimableEvent, Open
  <2>2. r.state = "publishing" /\ r.token = n /\ r.attempts = n
    BY <1>1 DEF EventRow
  <2> HIDE DEF r
  <2>3. /\ Status' = Status /\ Status[e] = "open"
        /\ Holder' = [Holder EXCEPT ![e] = Granted[e] + 1]
        /\ Granted' = [Granted EXCEPT ![e] = Granted[e] + 1]
    BY <1>1, <2>1, <2>2, EventStatusValue DEF Status, Holder, Granted, OutboxTypeOK
  <2>4. /\ Grants' = [Grants EXCEPT ![p] = [task |-> e, token |-> Granted[e] + 1]]
        /\ Grants[p] = OutboxWork!NoGrant
    BY <1>1, <2>1 DEF Grants, Granted, OutboxWork!NoGrant, OutboxTypeOK, OutboxFenced
  <2>5. OutboxWork!Grant(p, e)
    BY <2>3, <2>4 DEF OutboxWork!Grant, Status, Holder, Granted, Grants, EventStatus
  <2> QED BY <2>5 DEF OutboxWork!Next
<1>5. ASSUME NEW p \in Dispatchers, ClaimNoEvent(p) \/ LoseEvent(p) \/ CrashDispatcher(p)
      PROVE  OutboxWork!Next
  <2>1. dispatcher' = [dispatcher EXCEPT ![p] = IdleDispatcher] /\ UNCHANGED event
    BY <1>5 DEF ClaimNoEvent, LoseEvent, CrashDispatcher
  <2>2. Grants' = [Grants EXCEPT ![p] = OutboxWork!NoGrant]
    BY <1>1, <2>1 DEF Grants, IdleDispatcher, OutboxWork!NoGrant, OutboxTypeOK
  <2>3. OutboxWork!Drop(p)
    BY <2>1, <2>2 DEF OutboxWork!Drop, Grants
  <2> QED BY <2>3 DEF OutboxWork!Next
<1>6. ASSUME NEW p \in Dispatchers, Publish(p) \/ PublishRaises(p)
      PROVE  UNCHANGED OutboxWork!vars
  <2>1. UNCHANGED event /\ Grants' = Grants
    BY <1>1, <1>6 DEF Publish, PublishRaises, Grants, OutboxTypeOK, OutboxClaim
  <2> QED BY <2>1, Mapping DEF Status, Holder, Granted
<1>7. ASSUME NEW p \in Dispatchers, CompleteEvent(p) \/ FailEvent(p)
      PROVE  OutboxWork!Next
  <2> DEFINE e == dispatcher[p].event
  <2>1. HoldsEvent(p) /\ dispatcher[p].pc \in {"complete", "fail"}
    BY <1>7 DEF CompleteEvent, FailEvent
  <2>2. event[e] \in EventRow
    BY <2>1, HolderOfEvent
  <2>3. dispatcher' = [dispatcher EXCEPT ![p] = IdleDispatcher]
    BY <1>7 DEF CompleteEvent, FailEvent
  <2>4. CASE CompleteEvent(p)
    <3> DEFINE r == Unclaim(event[e], "published")
    <3>1. r.token = 0 /\ r.attempts = event[e].attempts /\ r.state = "published"
      BY <2>2, UnclaimRow
    <3>2. event' = [event EXCEPT ![e] = r]
      BY <2>4 DEF CompleteEvent
    <3> HIDE DEF r
    <3> QED BY <2>1, <2>3, <3>1, <3>2, HolderStep
  <2>5. CASE FailEvent(p)
    <3> DEFINE r == FailedEvent(event[e])
    <3>1. r.token = 0 /\ r.attempts = event[e].attempts /\ r.state \in {"pending", "failed"}
      BY <2>2, FailedEventRow
    <3>2. event' = [event EXCEPT ![e] = r]
      BY <2>5 DEF FailEvent
    <3> HIDE DEF r
    <3> QED BY <2>1, <2>3, <3>1, <3>2, HolderStep
  <2> QED BY <1>7, <2>4, <2>5
<1>8. ASSUME NEW e \in Events, RecordEvent(e)
      PROVE  OutboxWork!Next
  <2> DEFINE r == [event[e] EXCEPT !.state = "pending"]
  <2>1. /\ event' = [event EXCEPT ![e] = r] /\ UNCHANGED dispatcher /\ event[e].state = "none"
        /\ r.state = "pending" /\ r.token = event[e].token /\ r.attempts = event[e].attempts
    BY <1>1, <1>8 DEF RecordEvent, EventRow
  <2> HIDE DEF r
  <2>2. /\ Status' = [Status EXCEPT ![e] = "open"] /\ Status[e] = "none"
        /\ Holder' = Holder /\ Granted' = Granted /\ Grants' = Grants
    BY <1>1, <2>1, EventStatusValue DEF Status, Holder, Granted, Grants, OutboxTypeOK
  <2>3. OutboxWork!Submit(e)
    BY <2>2 DEF OutboxWork!Submit, Status, Holder, Granted, Grants, EventStatus
  <2> QED BY <2>3 DEF OutboxWork!Next
<1>9. ASSUME NEW e \in Events, EventLeaseTick(e) \/ EventFallsDue(e)
      PROVE  UNCHANGED OutboxWork!vars
  <2>1. \A i \in Events : /\ event'[i].state = event[i].state /\ event'[i].token = event[i].token
                          /\ event'[i].attempts = event[i].attempts
    <3>1. CASE EventLeaseTick(e)
      BY <1>1, <3>1 DEF EventLeaseTick, EventRow, OutboxTypeOK
    <3>2. CASE EventFallsDue(e)
      BY <1>1, <3>2 DEF EventFallsDue, EventRow, OutboxTypeOK
    <3> QED BY <1>9, <3>1, <3>2
  <2>2. UNCHANGED dispatcher
    BY <1>9 DEF EventLeaseTick, EventFallsDue
  <2> QED BY <2>1, <2>2, Mapping DEF Status, Holder, Granted, Grants
<1> QED BY <1>2, <1>3, <1>4, <1>5, <1>6, <1>7, <1>8, <1>9 DEF OutboxNext, Dispatch

\* Through crashes, lost leases and late dispatchers the outbox grants an event
\* to one dispatcher at a time, and only the newest grant settles it.
THEOREM OutboxIsLeasedWork == OutboxSpec => OutboxImplementsLeasedWork
<1>1. OutboxInit => OutboxWork!Init
  BY Mapping, EventStatusValue
     DEF OutboxInit, NoEventRow, IdleDispatcher, Status, Holder, Granted, Grants
<1> QED BY <1>1, OutboxStart, OutboxStep, OutboxStepRefines, PTL
        DEF OutboxSpec, OutboxImplementsLeasedWork, OutboxWork!Spec

-----------------------------------------------------------------------------
(* Webhook deliveries.                                                      *)

Active(c) == courier[c].pc \in {"claimed", "posting"}

\* A row has a token exactly while it is delivering; it is then due, so that the
\* sweep, which looks only at rows that are due, sees it when attempts run out.
DeliveryColumns(r) == /\ r.token # 0 <=> r.state = "delivering"
                      /\ r.token # 0 => r.token = r.attempts /\ r.due

\* Claims were granted one by one, and each is good for one post: whoever has
\* the newest claim and has not posted leaves room for his.
ClaimsCounted ==
  /\ \A d \in Deliveries : DeliveryColumns(delivery[d]) /\ posts[d] <= delivery[d].attempts
  /\ \A c \in Couriers : Active(c) => /\ courier[c].delivery \in Deliveries
                                      /\ courier[c].token \in 1 .. delivery[courier[c].delivery].attempts
  /\ \A b, c \in Couriers :
       Active(b) /\ Active(c) /\ courier[b].delivery = courier[c].delivery
         /\ courier[b].token = courier[c].token => b = c
  /\ \A c \in Couriers, d \in Deliveries :
       courier[c].pc = "claimed" /\ courier[c].delivery = d /\ courier[c].token = delivery[d].attempts
         => posts[d] < delivery[d].attempts

WebhookInvariant == WebhookTypeOK /\ ClaimsCounted /\ DeliveredWasAccepted

LEMMA CourierBounds == /\ 0 \in 0 .. CourierLease /\ CourierLease \in 0 .. CourierLease
                       /\ 0 \in 0 .. MaxPosts
                       /\ \A n \in 0 .. CourierLease : n > 0 => n - 1 \in 0 .. CourierLease
                       /\ \A n \in 0 .. MaxPosts : ~(n >= MaxPosts) => n + 1 \in 1 .. MaxPosts
  BY WebhookAssumption

LEMMA SettledRow ==
  ASSUME NEW r \in DeliveryRow, NEW s \in {"pending", "delivered", "failed"}
  PROVE  /\ Settle(r, s) \in DeliveryRow /\ DeliveryColumns(Settle(r, s))
         /\ Settle(r, s).state = s /\ Settle(r, s).token = 0
         /\ Settle(r, s).attempts = r.attempts
<1>1. Settle(r, s) \in DeliveryRow
  BY CourierBounds DEF DeliveryRow, Settle
<1>2. /\ Settle(r, s).state = s /\ Settle(r, s).token = 0
      /\ Settle(r, s).attempts = r.attempts
  BY DEF DeliveryRow, Settle
<1> QED BY <1>1, <1>2 DEF DeliveryColumns

\* No sweep and no answer changes the count of attempts, and only an acceptance
\* makes a row delivered.
LEMMA SweptDelivery ==
  ASSUME NEW r \in DeliveryRow, DeliveryColumns(r)
  PROVE  /\ ExhaustDelivery(r) \in DeliveryRow /\ DeliveryColumns(ExhaustDelivery(r))
         /\ ExhaustDelivery(r).attempts = r.attempts
         /\ ExhaustDelivery(r).state = "delivered" => r.state = "delivered"
         /\ Candidate(ExhaustDelivery(r)) => r.attempts + 1 \in 1 .. MaxPosts /\ ExhaustDelivery(r).due
<1>1. CASE r.state \in {"pending", "delivering"} /\ r.due /\ r.attempts >= MaxPosts
  BY <1>1, SettledRow DEF ExhaustDelivery, Candidate
<1>2. CASE ~(r.state \in {"pending", "delivering"} /\ r.due /\ r.attempts >= MaxPosts)
  <2>1. ExhaustDelivery(r) = r
    BY <1>2 DEF ExhaustDelivery
  <2>2. Candidate(r) => r.due /\ ~(r.attempts >= MaxPosts)
    BY <1>2 DEF Candidate, DeliveryColumns
  <2> QED BY <2>1, <2>2, CourierBounds DEF DeliveryRow
<1> QED BY <1>1, <1>2

LEMMA AnsweredDelivery ==
  ASSUME NEW r \in DeliveryRow, NEW answer \in {"2xx", "4xx", "other"}, NEW n \in Nat
  PROVE  LET q == AnsweredRow(r, answer, n) IN
         /\ q \in DeliveryRow /\ DeliveryColumns(q) /\ q.attempts = r.attempts
         /\ q.state = "delivered" => answer = "2xx"
<1> DEFINE w == Settle(r, "pending")
<1>1. /\ w \in DeliveryRow /\ w.state = "pending" /\ w.token = 0 /\ w.attempts = r.attempts
  BY SettledRow
<1>2. CASE answer = "2xx"
  BY <1>2, SettledRow DEF AnsweredRow
<1>3. CASE answer = "4xx"
  BY <1>3, SettledRow DEF AnsweredRow
<1>4. CASE answer = "other" /\ n >= MaxPosts
  BY <1>4, SettledRow DEF AnsweredRow
<1>5. CASE answer = "other" /\ ~(n >= MaxPosts)
  <2>1. AnsweredRow(r, answer, n) = [w EXCEPT !.due = FALSE]
    BY <1>5 DEF AnsweredRow
  <2> HIDE DEF w
  <2> QED BY <1>1, <1>5, <2>1 DEF DeliveryRow, DeliveryColumns
<1> QED BY <1>2, <1>3, <1>4, <1>5

\* A step after which rows count the same attempts, and a courier at most
\* returns its claim.
LEMMA WebhookKept ==
  ASSUME WebhookInvariant, WebhookTypeOK', accepted \subseteq accepted', UNCHANGED posts,
         \A d \in Deliveries :
           /\ DeliveryColumns(delivery[d])' /\ delivery'[d].attempts = delivery[d].attempts
           /\ delivery'[d].state = "delivered" => delivery[d].state = "delivered" \/ d \in accepted',
         \A c \in Couriers : courier'[c] = courier[c] \/ courier'[c] = IdleCourier
  PROVE  WebhookInvariant'
<1>1. DeliveredWasAccepted'
  BY DEF WebhookInvariant, DeliveredWasAccepted
<1>2. ClaimsCounted'
  BY DEF WebhookInvariant, ClaimsCounted, IdleCourier, Active
<1> QED BY <1>1, <1>2 DEF WebhookInvariant

LEMMA WebhookStep == WebhookInvariant /\ [WebhookNext]_webhookVars => WebhookInvariant'
<1> SUFFICES ASSUME WebhookInvariant, [WebhookNext]_webhookVars PROVE WebhookInvariant'
  OBVIOUS
<1>1. WebhookTypeOK /\ ClaimsCounted /\ DeliveredWasAccepted
  BY DEF WebhookInvariant
<1>2. \A d \in Deliveries : delivery[d] \in DeliveryRow /\ DeliveryColumns(delivery[d])
  BY <1>1 DEF WebhookTypeOK, ClaimsCounted
<1>3. IdleCourier \in DeliveryClaim
  BY CourierBounds DEF IdleCourier, DeliveryClaim
<1>4. ASSUME NEW c \in Couriers, ClaimNoDelivery(c)
      PROVE  WebhookInvariant'
  <2>1. /\ delivery' = [d \in Deliveries |-> ExhaustDelivery(delivery[d])]
        /\ UNCHANGED <<courier, subscribed, posts, accepted>>
    BY <1>4 DEF ClaimNoDelivery
  <2>2. WebhookTypeOK'
    BY <1>1, <1>2, <2>1, SweptDelivery DEF WebhookTypeOK
  <2>3. \A d \in Deliveries : delivery'[d] = ExhaustDelivery(delivery[d])
    BY <2>1
  <2> QED BY <1>2, <2>1, <2>2, <2>3, SweptDelivery, WebhookKept
<1>5. ASSUME NEW c \in Couriers, NEW d \in Deliveries, ClaimDelivery(c, d)
      PROVE  WebhookInvariant'
  <2> DEFINE swept == [i \in Deliveries |-> ExhaustDelivery(delivery[i])]
             n == delivery[d].attempts + 1
             r == [swept[d] EXCEPT !.state = "delivering", !.token = n,
                                   !.lease = CourierLease, !.attempts = n]
             k == [pc |-> "claimed", delivery |-> d, token |-> n]
  <2>1. /\ Candidate(swept[d]) /\ delivery' = [swept EXCEPT ![d] = r]
        /\ courier' = [courier EXCEPT ![c] = k] /\ UNCHANGED <<subscribed, posts, accepted>>
    BY <1>5 DEF ClaimDelivery
  <2>2. /\ n \in 1 .. MaxPosts /\ swept[d].due /\ swept[d] \in DeliveryRow
        /\ n = delivery[d].attempts + 1
    BY <1>2, <2>1, SweptDelivery
  <2>3. /\ swept \in [Deliveries -> DeliveryRow]
        /\ \A i \in Deliveries : /\ DeliveryColumns(swept[i]) /\ swept[i].attempts = delivery[i].attempts
                                 /\ swept[i].state = "delivered" => delivery[i].state = "delivered"
    BY <1>2, SweptDelivery
  <2> HIDE DEF n, swept
  <2>4. /\ r \in DeliveryRow /\ r.state = "delivering" /\ r.token = n /\ r.attempts = n
        /\ k \in DeliveryClaim /\ k.pc = "claimed" /\ k.delivery = d /\ k.token = n
    <3>1. n \in 0 .. MaxPosts /\ swept[d] \in DeliveryRow
      BY <2>2, WebhookAssumption
    <3>2. r \in DeliveryRow /\ r.state = "delivering" /\ r.token = n /\ r.attempts = n
      BY <3>1, CourierBounds DEF DeliveryRow
    <3>3. k \in DeliveryClaim
      BY <3>1 DEF DeliveryClaim
    <3> HIDE DEF r
    <3> QED BY <3>2, <3>3
  <2>5. r.due
    BY <2>2 DEF DeliveryRow
  <2> HIDE DEF r, k
  <2>6. WebhookTypeOK'
    BY <1>1, <2>1, <2>3, <2>4 DEF WebhookTypeOK
  <2>7. /\ \A i \in Deliveries \ {d} : delivery'[i] = swept[i]
        /\ \A b \in Couriers \ {c} : courier'[b] = courier[b]
        /\ delivery'[d] = r /\ courier'[c] = k /\ r.token # 0
    BY <1>1, <2>1, <2>2, <2>3, <2>4 DEF WebhookTypeOK
  <2>8. \A i \in Deliveries : DeliveryColumns(delivery[i])' /\ posts'[i] <= delivery'[i].attempts
    <3>1. DeliveryColumns(r)
      BY <2>4, <2>5, <2>7 DEF DeliveryColumns
    <3>2. posts[d] <= r.attempts /\ \A i \in Deliveries : posts[i] <= delivery[i].attempts
      BY <1>1, <2>2, <2>4 DEF ClaimsCounted, WebhookTypeOK, DeliveryRow
    <3>3. \A i \in Deliveries : DeliveryColumns(delivery'[i])
      BY <2>3, <2>7, <3>1
    <3> QED BY <2>1, <2>3, <2>7, <3>2, <3>3 DEF DeliveryColumns
  <2>9. ClaimsCounted'
    <3>1. ASSUME NEW b \in Couriers \ {c}, Active(b)
          PROVE  /\ courier[b].delivery \in Deliveries
                 /\ courier[b].token \in 1 .. delivery[courier[b].delivery].attempts
                 /\ delivery[courier[b].delivery].attempts \in Nat
                 /\ courier[b].delivery = d => courier[b].token \in 1 .. n - 1
      BY <1>1, <1>2, <2>2, <3>1 DEF ClaimsCounted, DeliveryRow
    <3>2. \A b \in Couriers \ {c} : Active(b)' <=> Active(b)
      BY <2>7 DEF Active
    <3>3. Active(c)' /\ n \in Nat /\ n # 0
      BY <2>2, <2>4, <2>7 DEF Active
    <3>4. \A b \in Couriers : Active(b)' => /\ courier'[b].delivery \in Deliveries
                                            /\ courier'[b].token \in 1 .. delivery'[courier'[b].delivery].attempts
      BY <2>3, <2>4, <2>7, <3>1, <3>2, <3>3
    <3>5. \A a, b \in Couriers :
            Active(a)' /\ Active(b)' /\ courier'[a].delivery = courier'[b].delivery
              /\ courier'[a].token = courier'[b].token => a = b
      BY <1>1, <2>4, <2>7, <3>1, <3>2, <3>3 DEF ClaimsCounted
    <3>6. \A b \in Couriers, i \in Deliveries :
            courier'[b].pc = "claimed" /\ courier'[b].delivery = i /\ courier'[b].token = delivery'[i].attempts
              => posts'[i] < delivery'[i].attempts
      <4>1. posts[d] < n
        BY <1>1, <2>2 DEF ClaimsCounted, WebhookTypeOK, DeliveryRow
      <4> QED BY <1>1, <2>1, <2>3, <2>4, <2>7, <3>1, <3>3, <4>1 DEF ClaimsCounted, Active
    <3> QED BY <2>8, <3>4, <3>5, <3>6 DEF ClaimsCounted
  <2>10. DeliveredWasAccepted'
    BY <1>1, <2>1, <2>3, <2>4, <2>7 DEF DeliveredWasAccepted
  <2> QED BY <2>6, <2>9, <2>10 DEF WebhookInvariant
<1>6. ASSUME NEW c \in Couriers, LoseDelivery(c) \/ CrashCourier(c)
      PROVE  WebhookInvariant'
  <2>1. /\ courier' = [courier EXCEPT ![c] = IdleCourier] /\ UNCHANGED <<delivery, subscribed, posts>>
        /\ accepted' = accepted \/ (Active(c) /\ accepted' = accepted \cup {courier[c].delivery})
    BY <1>6 DEF LoseDelivery, CrashCourier, ReturnClaim, Active
  <2>2. WebhookTypeOK'
    BY <1>1, <1>3, <2>1 DEF WebhookTypeOK, ClaimsCounted
  <2> QED BY <1>1, <1>2, <2>1, <2>2, WebhookKept DEF WebhookTypeOK
<1>7. ASSUME NEW c \in Couriers, RefuseDelivery(c)
      PROVE  WebhookInvariant'
  <2> DEFINE d == courier[c].delivery
             r == Settle(delivery[d], "failed")
  <2>1. /\ delivery' = [delivery EXCEPT ![d] = r] /\ courier' = [courier EXCEPT ![c] = IdleCourier]
        /\ UNCHANGED <<subscribed, posts, accepted>>
    BY <1>7 DEF RefuseDelivery, ReturnClaim
  <2>2. d \in Deliveries
    BY <1>1, <1>7 DEF RefuseDelivery, ClaimsCounted, Active
  <2>3. /\ r \in DeliveryRow /\ DeliveryColumns(r) /\ r.attempts = delivery[d].attempts
        /\ r.state = "failed"
    BY <1>2, <2>2, SettledRow
  <2> HIDE DEF r, d
  <2>4. WebhookTypeOK'
    BY <1>1, <1>3, <2>1, <2>2, <2>3 DEF WebhookTypeOK
  <2> QED BY <1>1, <1>2, <2>1, <2>2, <2>3, <2>4, WebhookKept DEF WebhookTypeOK
<1>8. ASSUME NEW c \in Couriers, NEW answer \in {"2xx", "4xx", "other"}, Answer(c, answer)
      PROVE  WebhookInvariant'
  <2> DEFINE d == courier[c].delivery
             r == AnsweredRow(delivery[d], answer, courier[c].token)
  <2>1. /\ delivery' = [delivery EXCEPT ![d] = r] /\ courier' = [courier EXCEPT ![c] = IdleCourier]
        /\ accepted' = IF answer = "2xx" THEN accepted \cup {d} ELSE accepted
        /\ UNCHANGED <<subscribed, posts>>
    BY <1>8 DEF Answer, ReturnClaim
  <2>2. d \in Deliveries /\ courier[c].token \in Nat
    BY <1>1, <1>8 DEF Answer, ClaimsCounted, Active, WebhookTypeOK, DeliveryClaim
  <2>3. /\ r \in DeliveryRow /\ DeliveryColumns(r) /\ r.attempts = delivery[d].attempts
        /\ r.state = "delivered" => answer = "2xx"
    BY <1>2, <2>2, AnsweredDelivery
  <2> HIDE DEF r, d
  <2>4. WebhookTypeOK'
    BY <1>1, <1>3, <2>1, <2>2, <2>3 DEF WebhookTypeOK
  <2> QED BY <1>1, <1>2, <2>1, <2>2, <2>3, <2>4, WebhookKept DEF WebhookTypeOK
<1>9. ASSUME NEW c \in Couriers, Post(c)
      PROVE  WebhookInvariant'
  <2> DEFINE d == courier[c].delivery
  <2>1. /\ posts' = [posts EXCEPT ![d] = posts[d] + 1]
        /\ courier' = [courier EXCEPT ![c].pc = "posting"]
        /\ UNCHANGED <<delivery, subscribed, accepted>>
        /\ courier[c].pc = "claimed" /\ delivery[d].state = "delivering" /\ delivery[d].token = courier[c].token
    BY <1>9 DEF Post, HoldsDelivery
  <2>2. d \in Deliveries /\ Active(c)
    BY <1>1, <2>1 DEF ClaimsCounted, Active
  <2>3. courier[c].token = delivery[d].attempts
    BY <1>2, <2>1, <2>2 DEF DeliveryColumns
  <2>4. posts[d] < delivery[d].attempts /\ posts[d] \in Nat /\ delivery[d].attempts \in Nat
    BY <1>1, <1>2, <2>1, <2>2, <2>3 DEF ClaimsCounted, WebhookTypeOK, DeliveryRow
  <2>5. /\ \A b \in Couriers \ {c} : courier'[b] = courier[b]
        /\ courier'[c].pc = "posting" /\ courier'[c].delivery = d /\ courier'[c].token = courier[c].token
    BY <1>1, <2>1 DEF WebhookTypeOK, DeliveryClaim
  <2> HIDE DEF d
  <2>6. WebhookTypeOK'
    BY <1>1, <2>1, <2>2, <2>4 DEF WebhookTypeOK, DeliveryClaim
  <2>7. /\ posts'[d] = posts[d] + 1 /\ \A i \in Deliveries \ {d} : posts'[i] = posts[i]
        /\ \A b \in Couriers : Active(b)' <=> Active(b)
        /\ \A b \in Couriers : courier'[b].delivery = courier[b].delivery /\ courier'[b].token = courier[b].token
    BY <1>1, <2>1, <2>2, <2>5 DEF WebhookTypeOK, Active, d
  <2>8. \A i \in Deliveries : DeliveryColumns(delivery[i])' /\ posts'[i] <= delivery'[i].attempts
    BY <1>1, <1>2, <2>1, <2>4, <2>7 DEF ClaimsCounted, DeliveryColumns
  <2>9. \A b \in Couriers, i \in Deliveries :
          courier'[b].pc = "claimed" /\ courier'[b].delivery = i /\ courier'[b].token = delivery'[i].attempts
            => posts'[i] < delivery'[i].attempts
    BY <1>1, <2>1, <2>2, <2>3, <2>5, <2>7 DEF ClaimsCounted, Active, d
  <2>10. ClaimsCounted'
    BY <1>1, <2>1, <2>7, <2>8, <2>9 DEF ClaimsCounted
  <2>11. DeliveredWasAccepted'
    BY <1>1, <2>1 DEF DeliveredWasAccepted
  <2> QED BY <2>6, <2>10, <2>11 DEF WebhookInvariant
<1>10. ASSUME NEW wanted \in SUBSET Deliveries, EnqueueSubscriptionEvent(wanted)
       PROVE  WebhookInvariant'
  <2> DEFINE row(d) == IF d \in wanted /\ subscribed[d] THEN Enqueued(delivery[d]) ELSE delivery[d]
  <2>1. delivery' = [d \in Deliveries |-> row(d)] /\ UNCHANGED <<courier, subscribed, posts, accepted>>
    BY <1>10 DEF EnqueueSubscriptionEvent
  <2>2. ASSUME NEW r \in DeliveryRow, DeliveryColumns(r)
        PROVE  /\ Enqueued(r) \in DeliveryRow /\ DeliveryColumns(Enqueued(r))
               /\ Enqueued(r).attempts = r.attempts
               /\ Enqueued(r).state = "delivered" => r.state = "delivered"
    BY <2>2 DEF Enqueued, DeliveryRow, DeliveryColumns
  <2>3. ASSUME NEW d \in Deliveries
        PROVE  /\ row(d) \in DeliveryRow /\ DeliveryColumns(row(d))
               /\ row(d).attempts = delivery[d].attempts
               /\ row(d).state = "delivered" => delivery[d].state = "delivered"
    BY <1>2, <2>2
  <2> HIDE DEF row
  <2>4. WebhookTypeOK'
    BY <1>1, <2>1, <2>3 DEF WebhookTypeOK
  <2>5. \A d \in Deliveries : delivery'[d] = row(d)
    BY <2>1
  <2> QED BY <2>1, <2>3, <2>4, <2>5, WebhookKept
<1>11. ASSUME NEW d \in Deliveries, Revoke(d) \/ DeliveryLeaseTick(d) \/ DeliveryFallsDue(d)
       PROVE  WebhookInvariant'
  <2>1. UNCHANGED <<courier, posts, accepted>>
    BY <1>11 DEF Revoke, DeliveryLeaseTick, DeliveryFallsDue
  <2>2. /\ WebhookTypeOK'
        /\ \A i \in Deliveries : /\ DeliveryColumns(delivery[i])' /\ delivery'[i].attempts = delivery[i].attempts
                                 /\ delivery'[i].state = delivery[i].state
    <3>1. CASE Revoke(d)
      BY <1>1, <1>2, <3>1 DEF Revoke, WebhookTypeOK, DeliveryColumns
    <3>2. CASE DeliveryLeaseTick(d)
      <4> DEFINE r == [delivery[d] EXCEPT !.lease = delivery[d].lease - 1]
      <4>1. /\ r \in DeliveryRow /\ r.attempts = delivery[d].attempts /\ r.state = delivery[d].state
            /\ r.token = delivery[d].token
        BY <1>2, <3>2, CourierBounds DEF DeliveryLeaseTick, DeliveryRow
      <4>2. r.due = delivery[d].due
        BY <1>2 DEF DeliveryRow
      <4>3. delivery' = [delivery EXCEPT ![d] = r] /\ UNCHANGED <<courier, subscribed, posts, accepted>>
        BY <3>2 DEF DeliveryLeaseTick
      <4> HIDE DEF r
      <4>4. WebhookTypeOK'
        BY <1>1, <4>1, <4>3 DEF WebhookTypeOK
      <4>5. DeliveryColumns(r)
        BY <1>2, <4>1, <4>2 DEF DeliveryColumns
      <4>6. delivery'[d] = r /\ \A i \in Deliveries \ {d} : delivery'[i] = delivery[i]
        BY <1>1, <4>3 DEF WebhookTypeOK
      <4> QED BY <1>2, <4>1, <4>4, <4>5, <4>6 DEF DeliveryColumns
    <3>3. CASE DeliveryFallsDue(d)
      <4> DEFINE r == [delivery[d] EXCEPT !.due = TRUE]
      <4>1. /\ r \in DeliveryRow /\ r.attempts = delivery[d].attempts /\ r.state = delivery[d].state
            /\ r.token = delivery[d].token /\ r.due
        BY <1>2 DEF DeliveryRow
      <4>2. delivery' = [delivery EXCEPT ![d] = r] /\ UNCHANGED <<courier, subscribed, posts, accepted>>
        BY <3>3 DEF DeliveryFallsDue
      <4> HIDE DEF r
      <4>3. WebhookTypeOK'
        BY <1>1, <4>1, <4>2 DEF WebhookTypeOK
      <4>4. DeliveryColumns(r)
        BY <1>2, <4>1 DEF DeliveryColumns
      <4>5. delivery'[d] = r /\ \A i \in Deliveries \ {d} : delivery'[i] = delivery[i]
        BY <1>1, <4>2 DEF WebhookTypeOK
      <4> QED BY <1>2, <4>1, <4>3, <4>4, <4>5 DEF DeliveryColumns
    <3> QED BY <1>11, <3>1, <3>2, <3>3
  <2> QED BY <2>1, <2>2, WebhookKept
<1>12. CASE UNCHANGED webhookVars
  BY <1>1, <1>12 DEF webhookVars, WebhookInvariant, WebhookTypeOK, ClaimsCounted, DeliveredWasAccepted,
                     DeliveryColumns, Active
<1> QED BY <1>4, <1>5, <1>6, <1>7, <1>8, <1>9, <1>10, <1>11, <1>12 DEF WebhookNext, Deliver

LEMMA WebhookStart == WebhookInit => WebhookInvariant
<1> SUFFICES ASSUME WebhookInit PROVE WebhookInvariant
  OBVIOUS
<1>1. WebhookTypeOK
  BY CourierBounds DEF WebhookInit, WebhookTypeOK, DeliveryRow, DeliveryClaim, NoDeliveryRow, IdleCourier
<1> QED BY <1>1 DEF WebhookInit, WebhookInvariant, ClaimsCounted, DeliveredWasAccepted, DeliveryColumns,
                    Active, NoDeliveryRow, IdleCourier

\* A subscriber gets no more than max_attempts requests for one delivery.
LEMMA PostsFollowClaims == WebhookInvariant => PostsBounded
<1> SUFFICES ASSUME WebhookInvariant, NEW d \in Deliveries
             PROVE  posts[d] <= delivery[d].attempts /\ posts[d] <= MaxPosts
  BY DEF PostsBounded
<1>1. posts[d] \in Nat /\ delivery[d].attempts \in 0 .. MaxPosts /\ posts[d] <= delivery[d].attempts
  BY DEF WebhookInvariant, WebhookTypeOK, ClaimsCounted, DeliveryRow
<1> QED BY <1>1, WebhookAssumption

\* The delivery loops of any number of worker processes: whatever dies, is late
\* or loses its lease, what is recorded as published or delivered was handed over
\* and accepted, and no subscriber is asked too often.
THEOREM OutboundSentAsReported == OutboundSpec => []SentAsReported
<1> DEFINE I == OutboxInvariant /\ WebhookInvariant
<1>1. Init => I
  BY OutboxStart, WebhookStart DEF Init
<1>2. I /\ [Next]_outboundVars => I'
  <2> SUFFICES ASSUME I, [Next]_outboundVars PROVE I'
    OBVIOUS
  <2>1. [OutboxNext]_outboxVars
    BY DEF Next, Dispatching, Answers, outboundVars, outboxVars
  <2>2. [WebhookNext]_webhookVars
    BY DEF Next, Dispatching, Answers, outboundVars, webhookVars
  <2> QED BY <2>1, <2>2, OutboxStep, WebhookStep
<1>3. I => SentAsReported
  BY PostsFollowClaims DEF OutboxInvariant, WebhookInvariant, SentAsReported
<1> HIDE DEF I
<1> QED BY <1>1, <1>2, <1>3, PTL DEF OutboundSpec

-----------------------------------------------------------------------------
(* What a client is shown of a chat request.                                *)

ChatFields == {"pc", "streaming", "iteration", "turn", "done", "calls", "counts", "overdue"}

\* Turns end in "yield" or "answered" only when nothing in them is for the
\* gateway; before that, nothing was shown.
ShownSoFar ==
  /\ DOMAIN chat = ChatFields /\ chat = [f \in ChatFields |-> chat[f]]
  /\ chat.pc \notin {"yield", "answered"} => shown = {}
  /\ chat.pc = "yield" => ~HasInternal /\ shown \in {{}, {<<asked, 1>>}}
  /\ chat.pc = "answered" => ~HasInternal /\ shown = {<<asked, 1>>, <<asked, 2>>}

LEMMA GoesTo ==
  ASSUME ShownSoFar, NEW p, Go(p)
  PROVE  /\ DOMAIN chat' = ChatFields /\ chat' = [f \in ChatFields |-> chat'[f]]
         /\ chat'.pc = p /\ chat'.turn = chat.turn /\ (HasInternal' <=> HasInternal)
<1>1. chat' = [chat EXCEPT !.pc = p] /\ DOMAIN chat = ChatFields
  BY DEF Go, ShownSoFar
<1>2. /\ DOMAIN chat' = ChatFields /\ chat' = [f \in ChatFields |-> chat'[f]]
      /\ chat'.pc = p /\ chat'.turn = chat.turn
  BY <1>1 DEF ChatFields, ShownSoFar
<1>3. HasInternal' <=> HasInternal
  BY <1>2 DEF HasInternal, Occurs
<1> QED BY <1>2, <1>3

LEMMA ChatStep == ShownSoFar /\ [ChatNext]_chatVars => ShownSoFar'
<1> SUFFICES ASSUME ShownSoFar, [ChatNext]_chatVars PROVE ShownSoFar'
  OBVIOUS
<1>1. DOMAIN chat = ChatFields /\ chat = [f \in ChatFields |-> chat[f]]
  BY DEF ShownSoFar
<1>2. CASE Ask
  <2>1. CASE Go("error")
    BY <1>2, <2>1, GoesTo DEF Ask, ShownSoFar
  <2>2. CASE chat' = [chat EXCEPT !.pc = "model", !.iteration = @ + 1, !.turn = <<>>, !.done = 0]
    BY <1>1, <1>2, <2>2 DEF Ask, ShownSoFar, ChatFields
  <2> QED BY <1>2, <2>1, <2>2 DEF Ask
<1>3. ASSUME NEW turn \in Turns, ModelAnswers(turn) PROVE ShownSoFar'
  BY <1>1, <1>3 DEF ModelAnswers, ShownSoFar, ChatFields
<1>4. CASE StreamBegins \/ ModelFails \/ ToolTimesOut
  <2>1. PICK p \in {"buffer", "error"} : Go(p) /\ UNCHANGED <<asked, shown>> /\ chat.pc \notin {"yield", "answered"}
    BY <1>4 DEF StreamBegins, ModelFails, ToolTimesOut
  <2> QED BY <2>1, GoesTo DEF ShownSoFar
<1>5. CASE Decide
  <2>1. CASE Refused
    BY <1>5, <2>1, GoesTo DEF Decide, ShownSoFar
  <2>2. CASE ~Refused /\ Final
    <3>1. ~HasInternal
      BY <2>2 DEF Final
    <3>2. CASE chat.streaming
      BY <1>5, <2>2, <3>1, <3>2, GoesTo DEF Decide, ShownSoFar
    <3>3. CASE ~chat.streaming
      BY <1>5, <2>2, <3>1, <3>3, GoesTo DEF Decide, ShownSoFar
    <3> QED BY <3>2, <3>3
  <2>3. CASE ~Refused /\ ~Final
    <3> DEFINE calls == chat.calls + Len(chat.turn)
               counts == [s \in Internal |-> chat.counts[s] + Occurs(s)]
    <3>1. shown' = shown /\ chat.pc = "turn"
      BY <1>5, <2>3 DEF Decide
    <3>2. CASE Go("error")
      BY <3>1, <3>2, GoesTo DEF ShownSoFar
    <3>3. CASE chat' = [chat EXCEPT !.pc = "tool", !.calls = calls, !.counts = counts]
      <4> HIDE DEF calls, counts
      <4> QED BY <1>1, <3>1, <3>3 DEF ShownSoFar, ChatFields
    <3> QED BY <1>5, <2>3, <3>2, <3>3 DEF Decide
  <2> QED BY <2>1, <2>2, <2>3
<1>6. CASE StartTool
  BY <1>6, GoesTo DEF StartTool, ShownSoFar
<1>7. CASE ToolReturns
  BY <1>1, <1>7 DEF ToolReturns, ShownSoFar, ChatFields
<1>8. CASE Yield
  <2>1. chat.pc = "yield" /\ ~HasInternal /\ shown \in {{}, {<<asked, 1>>}} /\ asked' = asked
    BY <1>8 DEF Yield, ShownSoFar
  <2>2. CASE shown = {}
    BY <1>8, <2>1, <2>2, GoesTo DEF Yield, ShownSoFar
  <2>3. CASE shown = {<<asked, 1>>}
    <3>1. Go("answered") /\ shown' = {<<asked, 1>>, <<asked, 2>>}
      BY <1>8, <2>3 DEF Yield
    <3> QED BY <2>1, <3>1, GoesTo DEF ShownSoFar
  <2> QED BY <2>1, <2>2, <2>3
<1>9. CASE ClockRunsOut
  <2>1. /\ DOMAIN chat' = ChatFields /\ chat' = [f \in ChatFields |-> chat'[f]]
        /\ chat'.pc = chat.pc /\ chat'.turn = chat.turn /\ UNCHANGED <<asked, shown>>
        /\ chat.pc # "answered"
    BY <1>1, <1>9 DEF ClockRunsOut, ChatFields
  <2>2. HasInternal' <=> HasInternal
    BY <2>1 DEF HasInternal, Occurs
  <2> QED BY <2>1, <2>2 DEF ShownSoFar
<1>10. CASE UNCHANGED chatVars
  BY <1>10 DEF chatVars, ShownSoFar, HasInternal, Occurs
<1> QED BY <1>2, <1>3, <1>4, <1>5, <1>6, <1>7, <1>8, <1>9, <1>10 DEF ChatNext

\* Of a chat request, streamed or not, with any number of turns and tools, the
\* client is shown the last turn, whole, or an error.
THEOREM OutboundFinalTurnShown == OutboundSpec => []OnlyFinalTurnShown
<1>1. Init => ShownSoFar
  <2> SUFFICES ASSUME ChatInit PROVE ShownSoFar
    BY DEF Init
  <2>1. chat.pc = "loop" /\ shown = {}
    BY DEF ChatInit
  <2>2. DOMAIN chat = ChatFields /\ chat = [f \in ChatFields |-> chat[f]]
    BY DEF ChatInit, ChatFields
  <2> QED BY <2>1, <2>2 DEF ShownSoFar
<1>2. ShownSoFar /\ [Next]_outboundVars => ShownSoFar'
  <2> SUFFICES ASSUME ShownSoFar, [Next]_outboundVars PROVE ShownSoFar'
    OBVIOUS
  <2>1. [ChatNext]_chatVars
    BY DEF Next, Answers, ChatEnded, outboundVars, chatVars
  <2> QED BY <2>1, ChatStep
<1>3. ShownSoFar => OnlyFinalTurnShown
  BY DEF ShownSoFar, OnlyFinalTurnShown
<1> QED BY <1>1, <1>2, <1>3, PTL DEF OutboundSpec
=============================================================================

----------------------------- MODULE MCOutbound -----------------------------
(* What leaves the gateway: the two delivery loops of a worker process, the *)
(* calls to the language model, the loop of a chat request, and the events  *)
(* of its stream.  They share nothing, so a behaviour is one of a part.     *)
EXTENDS JobOutbox, WebhookDelivery, UpstreamResilience, ChatOrchestrator, ProtocolStreams

VARIABLE part    \* the part that moves

outboundVars == <<outboxVars, webhookVars, upstreamVars, chatVars, streamVars, part>>

Init == /\ part \in {"outbox", "webhooks", "upstream", "chat", "stream"}
        /\ OutboxInit /\ WebhookInit /\ UpstreamInit /\ StreamsInit
        /\ ChatInit /\ (chat.streaming => part = "chat")

\* A chat request that came to an end stays as it is; so does its stream.
ChatEnded == chat.pc \in {"answered", "error"} /\ UNCHANGED chatVars
StreamEnded == stream.pc \in {"closed", "uncharged", "failed", "gone"} /\ UNCHANGED streamVars

\* Tool calls with an index and arguments, with an index only, and without index.
ToolDeltaKinds == {[index |-> 0, arguments |-> TRUE], [index |-> 1, arguments |-> FALSE],
                   [index |-> NoIndex, arguments |-> TRUE]}

Dispatching ==
  \/ part = "outbox" /\ OutboxNext /\ UNCHANGED webhookVars
  \/ part = "webhooks" /\ WebhookNext /\ UNCHANGED outboxVars

Answers ==
  \/ part = "upstream" /\ UpstreamNext /\ UNCHANGED <<chatVars, streamVars>>
  \/ part = "chat" /\ (ChatNext \/ ChatEnded) /\ UNCHANGED <<upstreamVars, streamVars>>
  \/ part = "stream" /\ (StreamsNext \/ StreamEnded) /\ UNCHANGED <<upstreamVars, chatVars>>

Next ==
  /\ UNCHANGED part
  /\ \/ Dispatching /\ UNCHANGED <<upstreamVars, chatVars, streamVars>>
     \/ Answers /\ UNCHANGED <<outboxVars, webhookVars>>

\* The dispatchers poll for ever, an attempt ends, time passes; claims go by
\* available_at, so an event that is open again and again is claimed.
OutboxFairness ==
  /\ \A p \in Dispatchers : /\ WF_outboxVars(part = "outbox" /\ SweepEvents(p))
                            /\ WF_outboxVars(part = "outbox" /\ ClaimNoEvent(p))
                            /\ WF_outboxVars(part = "outbox" /\ Dispatch(p))
  /\ \A e \in Events : /\ SF_outboxVars(part = "outbox" /\ \E p \in Dispatchers : ClaimEvent(p, e))
                       /\ WF_outboxVars(part = "outbox" /\ EventLeaseTick(e))
                       /\ WF_outboxVars(part = "outbox" /\ EventFallsDue(e))

\* Likewise for the couriers, whose posts end by a timeout of 15 s.
WebhookFairness ==
  /\ \A c \in Couriers : /\ WF_webhookVars(part = "webhooks" /\ ClaimNoDelivery(c))
                         /\ WF_webhookVars(part = "webhooks" /\ Deliver(c))
  /\ \A d \in Deliveries :
       /\ SF_webhookVars(part = "webhooks" /\ \E c \in Couriers : ClaimDelivery(c, d))
       /\ WF_webhookVars(part = "webhooks" /\ DeliveryLeaseTick(d))
       /\ WF_webhookVars(part = "webhooks" /\ DeliveryFallsDue(d))

\* Coroutines run; every attempt and every stream is under a deadline; time passes.
UpstreamFairness ==
  /\ \A l \in Calls : /\ WF_upstreamVars(part = "upstream" /\ Waiting(l))
                      /\ WF_upstreamVars(part = "upstream" /\ Deadline(l))
  /\ \A m \in 1..Models : WF_upstreamVars(part = "upstream" /\ Elapse(m))

OutboundSpec == Init /\ [][Next]_outboundVars /\ OutboxFairness /\ WebhookFairness /\ UpstreamFairness

\* What is recorded as published or delivered was really handed over and
\* accepted, and a subscriber gets at most max_attempts requests, although
\* dispatchers and couriers die, lose their leases and write late.
SentAsReported == /\ OutboxTypeOK /\ PublishedWasSent
                  /\ WebhookTypeOK /\ DeliveredWasAccepted /\ PostsBounded

\* Every event and every delivery ends, through crashes, lost leases and
\* overwrites by a late courier, while its subscription stays active.
EverySendSettles == EveryEventSettles /\ EveryDeliverySettles
=============================================================================

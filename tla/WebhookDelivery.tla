-------------------------- MODULE WebhookDelivery ---------------------------
(***************************************************************************)
(* Webhook deliveries, application/services/webhook_delivery_service.py:   *)
(* rows of webhook_deliveries and the couriers that post them.  Unlike the *)
(* other two queues the courier reads the row without a lock, posts, and   *)
(* then writes the row by its primary key, whatever happened to it in the  *)
(* meantime; and the exhaustion sweep does not look at the lease.          *)
(* attempt_count is never reset, so its value serves as the claim token.   *)
(***************************************************************************)
EXTENDS Naturals

CONSTANTS Deliveries,     \* rows of webhook_deliveries
          Couriers,       \* worker processes running the delivery loop
          NoDelivery,     \* a courier that holds no claim
          MaxPosts,       \* max_attempts
          CourierLease    \* DELIVERY_LEASE_SECONDS, in ticks

ASSUME WebhookAssumption == /\ NoDelivery \notin Deliveries
                            /\ MaxPosts \in Nat \ {0}
                            /\ CourierLease \in Nat \ {0}

VARIABLES delivery,   \* delivery[d]: the row
          courier,    \* courier[c]: the DeliveryClaim c holds and what it does
          subscribed, \* subscribed[d]: the subscription of d is active
          posts,      \* posts[d]: requests sent to the subscriber for d
          accepted    \* deliveries the subscriber answered with 2xx

webhookVars == <<delivery, courier, subscribed, posts, accepted>>

DeliveryRow == [state : {"none", "pending", "delivering", "delivered", "failed"},
                token : 0..MaxPosts, lease : 0..CourierLease, due : BOOLEAN,
                attempts : 0..MaxPosts]
DeliveryClaim == [pc : {"idle", "claiming", "claimed", "posting"},
                  delivery : Deliveries \cup {NoDelivery}, token : 0..MaxPosts]

WebhookTypeOK == /\ delivery \in [Deliveries -> DeliveryRow]
                 /\ courier \in [Couriers -> DeliveryClaim]
                 /\ subscribed \in [Deliveries -> BOOLEAN]
                 /\ posts \in [Deliveries -> Nat]
                 /\ accepted \subseteq Deliveries

NoDeliveryRow == [state |-> "none", token |-> 0, lease |-> 0, due |-> TRUE, attempts |-> 0]
IdleCourier == [pc |-> "idle", delivery |-> NoDelivery, token |-> 0]

WebhookInit == /\ delivery = [d \in Deliveries |-> NoDeliveryRow]
               /\ courier = [c \in Couriers |-> IdleCourier]
               /\ subscribed = [d \in Deliveries |-> TRUE]
               /\ posts = [d \in Deliveries |-> 0]
               /\ accepted = {}

-----------------------------------------------------------------------------
\* enqueue: one row per subscription and deduplication key.
Enqueued(r) == IF r.state = "none" THEN [r EXCEPT !.state = "pending"] ELSE r

\* enqueue_subscription_event, in the transaction of the change it is about:
\* wanted has the deliveries to the subscriptions whose filter admits the event.
EnqueueSubscriptionEvent(wanted) ==
  /\ \E d \in wanted : delivery[d].state = "none" /\ subscribed[d]
  /\ delivery' = [d \in Deliveries |-> IF d \in wanted /\ subscribed[d]
                                        THEN Enqueued(delivery[d]) ELSE delivery[d]]
  /\ UNCHANGED <<courier, subscribed, posts, accepted>>

\* revoke
Revoke(d) ==
  /\ subscribed[d]
  /\ subscribed' = [subscribed EXCEPT ![d] = FALSE]
  /\ UNCHANGED <<delivery, courier, posts, accepted>>

-----------------------------------------------------------------------------
(* claim_next: the sweep and the claim compare with the same now, and no    *)
(* row another transaction changes between them becomes a candidate.        *)

Settle(r, s) == [r EXCEPT !.state = s, !.token = 0, !.lease = 0]

\* Seeded fault: no sweep, so nothing bounds the attempts.
ExhaustDelivery_Never(r) == r

\* The lease is not looked at: a last attempt that is under way fails too.
ExhaustDelivery(r) ==
  IF r.state \in {"pending", "delivering"} /\ r.due /\ r.attempts >= MaxPosts
  THEN Settle(r, "failed") ELSE r

\* Seeded fault: a row whose courier died is not picked up again.
Candidate_PendingOnly(r) == r.state = "pending" /\ r.due

\* attempts are not compared with max_attempts here: the sweep took care of it.
Candidate(r) == \/ r.state = "pending" /\ r.due
                \/ r.state = "delivering" /\ r.lease = 0

ClaimDelivery(c, d) ==
  LET swept == [i \in Deliveries |-> ExhaustDelivery(delivery[i])]
      n == delivery[d].attempts + 1
  IN
  /\ courier[c].pc = "idle"
  /\ Candidate(swept[d]) /\ subscribed[d]
  /\ delivery' = [swept EXCEPT ![d] = [@ EXCEPT !.state = "delivering", !.token = n,
                                                !.lease = CourierLease, !.attempts = n]]
  /\ courier' = [courier EXCEPT ![c] = [pc |-> "claimed", delivery |-> d, token |-> n]]
  /\ UNCHANGED <<subscribed, posts, accepted>>

ClaimNoDelivery(c) ==
  LET swept == [i \in Deliveries |-> ExhaustDelivery(delivery[i])] IN
  /\ courier[c].pc = "idle"
  /\ \A d \in Deliveries : ~(Candidate(swept[d]) /\ subscribed[d])
  /\ delivery' = swept
  /\ UNCHANGED <<courier, subscribed, posts, accepted>>

-----------------------------------------------------------------------------
(* deliver *)

ReturnClaim(c) == courier' = [courier EXCEPT ![c] = IdleCourier]

\* The SELECT at the start of deliver.
HoldsDelivery(c) == LET r == delivery[courier[c].delivery] IN
                    r.state = "delivering" /\ r.token = courier[c].token /\ r.lease > 0

LoseDelivery(c) ==
  /\ courier[c].pc = "claimed"
  /\ ~HoldsDelivery(c)
  /\ ReturnClaim(c)
  /\ UNCHANGED <<delivery, subscribed, posts, accepted>>

\* The subscription was revoked, its host resolves to an internal address, or
\* its secret cannot be read: failed for good, nothing is posted.
RefuseDelivery(c) ==
  /\ courier[c].pc = "claimed"
  /\ HoldsDelivery(c)
  /\ delivery' = [delivery EXCEPT ![courier[c].delivery] = Settle(@, "failed")]
  /\ ReturnClaim(c)
  /\ UNCHANGED <<subscribed, posts, accepted>>

Post(c) ==
  /\ courier[c].pc = "claimed"
  /\ HoldsDelivery(c) /\ subscribed[courier[c].delivery]
  /\ posts' = [posts EXCEPT ![courier[c].delivery] = @ + 1]
  /\ courier' = [courier EXCEPT ![c].pc = "posting"]
  /\ UNCHANGED <<delivery, subscribed, accepted>>

\* The row the answer leaves; the attempt count is the one deliver had read.
AnsweredRow(r, answer, attempt) ==
  CASE answer = "2xx" -> Settle(r, "delivered")
    [] answer = "4xx" -> Settle(r, "failed")
    [] OTHER -> IF attempt >= MaxPosts THEN Settle(r, "failed")
                ELSE [Settle(r, "pending") EXCEPT !.due = FALSE]

\* Seeded fault: any answer of the subscriber counts as success.
Answer_AnyStatus(c, answer) ==
  LET d == courier[c].delivery IN
  /\ courier[c].pc = "posting"
  /\ accepted' = IF answer = "2xx" THEN accepted \cup {d} ELSE accepted
  /\ delivery' = [delivery EXCEPT ![d] =
                    AnsweredRow(@, IF answer = "4xx" THEN "2xx" ELSE answer, courier[c].token)]
  /\ ReturnClaim(c)
  /\ UNCHANGED <<subscribed, posts>>

\* The answer is written by primary key, whoever holds the row by now.
Answer(c, answer) ==
  LET d == courier[c].delivery IN
  /\ courier[c].pc = "posting"
  /\ accepted' = IF answer = "2xx" THEN accepted \cup {d} ELSE accepted
  /\ delivery' = [delivery EXCEPT ![d] = AnsweredRow(@, answer, courier[c].token)]
  /\ ReturnClaim(c)
  /\ UNCHANGED <<subscribed, posts>>

\* The process stops, perhaps after the subscriber accepted.
CrashCourier(c) ==
  /\ courier[c].pc # "idle"
  /\ \/ accepted' = accepted
     \/ courier[c].pc = "posting" /\ accepted' = accepted \cup {courier[c].delivery}
  /\ ReturnClaim(c)
  /\ UNCHANGED <<delivery, subscribed, posts>>

-----------------------------------------------------------------------------
DeliveryLeaseTick(d) ==
  /\ delivery[d].lease > 0
  /\ delivery' = [delivery EXCEPT ![d].lease = @ - 1]
  /\ UNCHANGED <<courier, subscribed, posts, accepted>>

DeliveryFallsDue(d) ==
  /\ ~delivery[d].due
  /\ delivery' = [delivery EXCEPT ![d].due = TRUE]
  /\ UNCHANGED <<courier, subscribed, posts, accepted>>

Deliver(c) == \/ LoseDelivery(c) \/ RefuseDelivery(c) \/ Post(c)
              \/ \E answer \in {"2xx", "4xx", "other"} : Answer(c, answer)

WebhookNext == \/ \E c \in Couriers : \/ ClaimNoDelivery(c)
                                      \/ \E d \in Deliveries : ClaimDelivery(c, d)
                                      \/ Deliver(c) \/ CrashCourier(c)
               \/ \E wanted \in SUBSET Deliveries : EnqueueSubscriptionEvent(wanted)
               \/ \E d \in Deliveries : Revoke(d) \/ DeliveryLeaseTick(d) \/ DeliveryFallsDue(d)

WebhookSpec == WebhookInit /\ [][WebhookNext]_webhookVars

-----------------------------------------------------------------------------
(* Properties. *)

\* The subscriber gets at most max_attempts requests for one delivery, although
\* the claim does not compare the count and a courier that lost its lease can
\* put a settled delivery back to pending.
PostsBounded == \A d \in Deliveries : posts[d] <= delivery[d].attempts /\ posts[d] <= MaxPosts

\* A delivery is recorded as delivered only if the subscriber accepted it, even
\* when the recording courier had lost the row to another one.
DeliveredWasAccepted == \A d \in Deliveries : delivery[d].state = "delivered" => d \in accepted

\* Every delivery settles while its subscription stays active: overwrites by a
\* late courier cannot keep it going round for ever.
EveryDeliverySettles ==
  \A d \in Deliveries : delivery[d].state \in {"pending", "delivering"}
                          ~> (delivery[d].state \in {"delivered", "failed"} \/ ~subscribed[d])
=============================================================================

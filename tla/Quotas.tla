------------------------------- MODULE Quotas -------------------------------
(***************************************************************************)
(* application/services/quota_service.py, the middleware in                 *)
(* presentation/quotas.py and the recording in presentation/quota_usage.py, *)
(* for one API key and one space.  The bucket and the slots live in the     *)
(* process, the budget of the minute in a row that requests read and write  *)
(* without a lock.  Tokens and bytes are counted like requests; time refills*)
(* the bucket by whole requests.                                            *)
(***************************************************************************)
EXTENDS Naturals, FiniteSets

CONSTANTS Serving,         \* requests under way at once
          Capacity,        \* requests_per_minute + burst_requests
          Concurrent,      \* concurrent_requests
          Budget           \* requests_per_minute of the policy

ASSUME QuotaAssumption == /\ IsFiniteSet(Serving)
                          /\ {Capacity, Concurrent, Budget} \subseteq Nat

VARIABLES credits,     \* the bucket: requests it would let in now
          inFlight,    \* slots taken
          override,    \* override[x]: requests_per_minute set for x, 0 for none
          usage,       \* the row of the minute: requests recorded, or NoRow
          visit        \* visit[r]: where a request is, and what it has read

quotaVars == <<credits, inFlight, override, usage, visit>>

NoUsage == Budget + Cardinality(Serving) + 1    \* no row for this minute yet
Away == [pc |-> "away", seen |-> NoUsage]

QuotaInit == /\ credits = Capacity /\ inFlight = 0
             /\ override = [x \in {"space", "all"} |-> 0]
             /\ usage = NoUsage
             /\ visit = [r \in Serving |-> Away]

\* effective_policy: the override for the space, else the one for all spaces.
EffectiveBudget == IF override["space"] # 0 THEN override["space"]
                   ELSE IF override["all"] # 0 THEN override["all"] ELSE Budget

Go(r, pc) == visit' = [visit EXCEPT ![r].pc = pc]

\* acquire: a request without credit or without a slot is refused and changes
\* nothing.
Acquire(r) == /\ visit[r].pc = "away"
              /\ credits > 0 /\ inFlight < Concurrent
              /\ credits' = credits - 1 /\ inFlight' = inFlight + 1
              /\ Go(r, "checking") /\ UNCHANGED <<override, usage>>

\* release, which never counts below zero.
Release == inFlight' = IF inFlight > 0 THEN inFlight - 1 ELSE 0

\* The budget of the minute is used up: the slot goes back and the request is
\* refused.
OverBudget == usage # NoUsage /\ usage >= EffectiveBudget

\* ... once more by a finally around the whole request.
Refuse_ReleasesTwice(r) ==
  /\ visit[r].pc = "checking" /\ OverBudget
  /\ inFlight' = IF inFlight > 1 THEN inFlight - 2 ELSE 0
  /\ visit' = [visit EXCEPT ![r] = Away]
  /\ UNCHANGED <<credits, override, usage>>

Refuse(r) == /\ visit[r].pc = "checking" /\ OverBudget
             /\ Release /\ visit' = [visit EXCEPT ![r] = Away]
             /\ UNCHANGED <<credits, override, usage>>

\* There is budget left, or the row cannot be read: the burst guard is enough.
Pass(r) == /\ visit[r].pc = "checking"
           /\ Go(r, "serving")
           /\ UNCHANGED <<credits, inFlight, override, usage>>

\* record_usage in a transaction of its own: read the row, then write it.
ReadUsage(r) == /\ visit[r].pc = "serving"
                /\ visit' = [visit EXCEPT ![r] = [pc |-> "recording", seen |-> usage]]
                /\ UNCHANGED <<credits, inFlight, override, usage>>

\* A second insert of the row fails, and the failure is ignored.
WriteUsage(r) ==
  /\ visit[r].pc = "recording"
  /\ usage' = IF visit[r].seen # NoUsage THEN visit[r].seen + 1
              ELSE IF usage = NoUsage THEN 1 ELSE usage
  /\ Go(r, "served") /\ UNCHANGED <<credits, inFlight, override>>

\* The application returns or raises, with or without having recorded.
Leave(r) == /\ visit[r].pc \in {"serving", "served"}
            /\ Release /\ visit' = [visit EXCEPT ![r] = Away]
            /\ UNCHANGED <<credits, override, usage>>

Refill == /\ credits < Capacity /\ credits' = credits + 1
          /\ UNCHANGED <<inFlight, override, usage, visit>>

\* A minute begins: its row does not exist yet, and what is written to the row
\* of the minute before counts no more.
Minute == /\ usage' = NoUsage
          /\ visit' = [r \in Serving |-> IF visit[r].pc = "recording"
                                         THEN [visit[r] EXCEPT !.pc = "served"] ELSE visit[r]]
          /\ UNCHANGED <<credits, inFlight, override>>

\* set_policy_override and clear_policy_override; nothing above the policy.
SetOverride(x, n) == /\ override' = [override EXCEPT ![x] = n]
                     /\ UNCHANGED <<credits, inFlight, usage, visit>>

\* The routes; a policy that is not there cannot be cleared.
set_key_quota_policy(x, n) == n \in 1 .. Budget /\ SetOverride(x, n)
clear_key_quota_policy(x) == override[x] # 0 /\ SetOverride(x, 0)

QuotaNext ==
  \/ \E r \in Serving : \/ Acquire(r) \/ Refuse(r) \/ Pass(r)
                        \/ ReadUsage(r) \/ WriteUsage(r) \/ Leave(r)
  \/ Refill \/ Minute
  \/ \E x \in {"space", "all"} : \/ \E n \in 1 .. Budget : set_key_quota_policy(x, n)
                                 \/ clear_key_quota_policy(x)

QuotaSpec == QuotaInit /\ [][QuotaNext]_quotaVars

-----------------------------------------------------------------------------
\* The slots taken are those of the requests under way, however each of them
\* ends: refused by the budget after it had its slot, failed, or answered.  So
\* the limit on concurrent requests is neither passed nor used up for good.
SlotsAreRequests ==
  /\ inFlight = Cardinality({r \in Serving : visit[r].pc # "away"})
  /\ inFlight <= Concurrent
=============================================================================

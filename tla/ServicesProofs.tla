--------------------------- MODULE ServicesProofs ---------------------------
(***************************************************************************)
(* Theorems about the services behind the management API: quotas,          *)
(* idempotent commands, the actions an assistant proposes, the runtime     *)
(* settings, spaces with the keys that act for their members, search with  *)
(* the hits and the package it answers, and the git connector, each for    *)
(* any number of requests, revisions, slots, users, keys, units, commits   *)
(* and files.                                                              *)
(***************************************************************************)
EXTENDS Retrieval, Quotas, IdempotentCommands, AIActions, RuntimeSettings,
        GitConnector, FiniteSetTheorems, SequenceTheorems, WellFoundedInduction, TLAPS

-----------------------------------------------------------------------------
(* Quotas.                                                                  *)

Visit == [pc : {"away", "checking", "serving", "recording", "served"}, seen : Nat]

UnderWay == {r \in Serving : visit[r].pc # "away"}

\* The inductive invariant: types, and the slots.
QuotaTypeOK == /\ credits \in Nat /\ inFlight \in Nat /\ usage \in Nat
               /\ visit \in [Serving -> Visit]

QuotaInvariant == QuotaTypeOK /\ SlotsAreRequests

LEMMA NoUsageIsNatural == NoUsage \in Nat
  BY QuotaAssumption, FS_CardinalityType DEF NoUsage

\* The requests under way can be counted.
LEMMA UnderWayFinite == IsFiniteSet(UnderWay) /\ Cardinality(UnderWay) \in Nat
<1>1. UnderWay \in SUBSET Serving
  BY DEF UnderWay
<1>2. IsFiniteSet(UnderWay)
  BY <1>1, FS_Subset, QuotaAssumption
<1> QED BY <1>2, FS_CardinalityType

\* A request enters or leaves with one slot; on its way it keeps it.
LEMMA SlotsFollow ==
  ASSUME QuotaInvariant, QuotaTypeOK', NEW r \in Serving,
         \A x \in Serving \ {r} : visit'[x].pc = visit[x].pc,
         \/ /\ visit[r].pc = "away" /\ visit'[r].pc # "away"
            /\ inFlight < Concurrent /\ inFlight' = inFlight + 1
         \/ visit[r].pc # "away" /\ visit'[r].pc = "away" /\ Release
         \/ visit[r].pc # "away" /\ visit'[r].pc # "away" /\ inFlight' = inFlight
  PROVE  SlotsAreRequests'
<1>1. inFlight = Cardinality(UnderWay) /\ inFlight <= Concurrent
  BY DEF QuotaInvariant, SlotsAreRequests, UnderWay
<1>2. SUFFICES inFlight' = Cardinality(UnderWay') /\ inFlight' <= Concurrent
  BY DEF SlotsAreRequests, UnderWay
<1>3. inFlight \in Nat /\ Concurrent \in Nat
  BY QuotaAssumption DEF QuotaInvariant, QuotaTypeOK
<1>4. CASE /\ visit[r].pc = "away" /\ visit'[r].pc # "away"
           /\ inFlight < Concurrent /\ inFlight' = inFlight + 1
  <2>1. UnderWay' = UnderWay \cup {r} /\ r \notin UnderWay
    BY <1>4 DEF UnderWay
  <2>2. Cardinality(UnderWay \cup {r}) = Cardinality(UnderWay) + 1
    BY <2>1, UnderWayFinite, FS_AddElement
  <2> QED BY <1>1, <1>3, <1>4, <2>1, <2>2
<1>5. CASE visit[r].pc # "away" /\ visit'[r].pc = "away" /\ Release
  <2>1. UnderWay' = UnderWay \ {r} /\ r \in UnderWay
    BY <1>5 DEF UnderWay
  <2>2. Cardinality(UnderWay \ {r}) = Cardinality(UnderWay) - 1
    BY <2>1, UnderWayFinite, FS_RemoveElement
  <2>3. Cardinality(UnderWay) # 0
    BY <2>1, UnderWayFinite, FS_EmptySet
  <2>4. inFlight' = inFlight - 1
    BY <1>1, <1>3, <1>5, <2>3 DEF Release
  <2> QED BY <1>1, <1>3, <2>1, <2>2, <2>4
<1>6. CASE visit[r].pc # "away" /\ visit'[r].pc # "away" /\ inFlight' = inFlight
  <2>1. UnderWay' = UnderWay
    BY <1>6 DEF UnderWay
  <2> QED BY <1>1, <1>6, <2>1
<1> QED BY <1>4, <1>5, <1>6

LEMMA QuotaStep == QuotaInvariant /\ [QuotaNext]_quotaVars => QuotaInvariant'
<1> SUFFICES ASSUME QuotaInvariant, [QuotaNext]_quotaVars PROVE QuotaInvariant'
  OBVIOUS
<1>1. QuotaTypeOK /\ Concurrent \in Nat /\ NoUsage \in Nat
  BY NoUsageIsNatural, QuotaAssumption DEF QuotaInvariant
<1>2. ASSUME NEW r \in Serving,
             Acquire(r) \/ Refuse(r) \/ Pass(r) \/ ReadUsage(r) \/ WriteUsage(r) \/ Leave(r)
      PROVE  QuotaInvariant'
  <2> USE DEF QuotaTypeOK, Visit
  <2>1. CASE Acquire(r)
    <3>1. QuotaTypeOK'
      BY <1>1, <2>1 DEF Acquire, Go
    <3> QED BY <1>1, <2>1, <3>1, SlotsFollow DEF Acquire, Go, QuotaInvariant
  <2>2. CASE Refuse(r)
    <3>1. QuotaTypeOK'
      BY <1>1, <2>2 DEF Refuse, Release, Away
    <3> QED BY <1>1, <2>2, <3>1, SlotsFollow DEF Refuse, Away, QuotaInvariant
  <2>3. CASE Pass(r)
    <3>1. QuotaTypeOK'
      BY <1>1, <2>3 DEF Pass, Go
    <3> QED BY <1>1, <2>3, <3>1, SlotsFollow DEF Pass, Go, QuotaInvariant
  <2>4. CASE ReadUsage(r)
    <3>1. QuotaTypeOK'
      BY <1>1, <2>4 DEF ReadUsage
    <3> QED BY <1>1, <2>4, <3>1, SlotsFollow DEF ReadUsage, QuotaInvariant
  <2>5. CASE WriteUsage(r)
    <3>1. QuotaTypeOK'
      BY <1>1, <2>5 DEF WriteUsage, Go
    <3> QED BY <1>1, <2>5, <3>1, SlotsFollow DEF WriteUsage, Go, QuotaInvariant
  <2>6. CASE Leave(r)
    <3>1. QuotaTypeOK'
      BY <1>1, <2>6 DEF Leave, Release, Away
    <3> QED BY <1>1, <2>6, <3>1, SlotsFollow DEF Leave, Away, QuotaInvariant
  <2> QED BY <1>2, <2>1, <2>2, <2>3, <2>4, <2>5, <2>6
<1>3. CASE Refill
  BY <1>1, <1>3 DEF Refill, QuotaInvariant, QuotaTypeOK, SlotsAreRequests
<1>4. CASE Minute
  <2>1. QuotaTypeOK'
    BY <1>1, <1>4 DEF Minute, QuotaTypeOK, Visit
  <2>2. UnderWay' = UnderWay
    BY <1>1, <1>4 DEF Minute, UnderWay, QuotaTypeOK, Visit
  <2> QED BY <1>4, <2>1, <2>2 DEF Minute, QuotaInvariant, SlotsAreRequests, UnderWay
<1>5. ASSUME NEW x \in {"space", "all"},
             \/ \E n \in 1 .. Budget : set_key_quota_policy(x, n)
             \/ clear_key_quota_policy(x)
      PROVE  QuotaInvariant'
  BY <1>5 DEF set_key_quota_policy, clear_key_quota_policy, SetOverride,
              QuotaInvariant, QuotaTypeOK, SlotsAreRequests
<1>6. CASE UNCHANGED quotaVars
  BY <1>6 DEF quotaVars, QuotaInvariant, QuotaTypeOK, SlotsAreRequests
<1> QED BY <1>2, <1>3, <1>4, <1>5, <1>6 DEF QuotaNext

\* However requests end, overlap and record, and however the overrides change,
\* the slots taken are those of the requests under way and never exceed
\* concurrent_requests.
THEOREM QuotaSlots == QuotaSpec => []SlotsAreRequests
<1>1. QuotaInit => QuotaInvariant
  <2> SUFFICES ASSUME QuotaInit PROVE QuotaInvariant
    OBVIOUS
  <2>1. UnderWay = {}
    BY DEF QuotaInit, UnderWay, Away
  <2>2. QuotaTypeOK
    BY NoUsageIsNatural, QuotaAssumption DEF QuotaInit, QuotaTypeOK, Visit, Away
  <2> QED BY <2>1, <2>2, FS_EmptySet, QuotaAssumption
          DEF QuotaInit, QuotaInvariant, SlotsAreRequests, UnderWay
<1>2. QuotaInvariant => SlotsAreRequests
  BY DEF QuotaInvariant
<1> QED BY <1>1, <1>2, QuotaStep, PTL DEF QuotaSpec

-----------------------------------------------------------------------------
(* Idempotent commands.                                                     *)

Submission == [pc : {"idle", "sent", "reserved", "applied", "done", "refused"},
               payload : Payloads \cup {NoPayload}]

CommandTypeOK ==
  /\ record \in [status : {"absent", "completed"}, hash : Payloads \cup {NoPayload}, expired : BOOLEAN]
  /\ applied \in Seq(Payloads)
  /\ pending \subseteq Submissions
  /\ submit \in [Submissions -> Submission]
  /\ outside \in BOOLEAN
  /\ \A r \in Submissions : submit[r].pc # "idle" => submit[r].payload \in Payloads

IsApplied(p) == \E i \in 1 .. Len(applied) : applied[i] = p

\* One request at a time holds the row, and only a row that is free for reuse;
\* who is told "done" is told so while the record stands.
RowHeldFresh ==
  \A r \in Submissions :
    /\ submit[r].pc \in {"reserved", "applied"} <=> r \in pending
    /\ r \in pending => Fresh /\ pending = {r}
    /\ submit[r].pc = "done" => ~Fresh

\* What is recorded or reported was applied; a command of the request's session
\* is applied by its commit, and not before the row is there.
ReportedIsApplied ==
  /\ ~Fresh => IsApplied(record.hash)
  /\ \A r \in Submissions : submit[r].pc \in {"applied", "done"} => IsApplied(submit[r].payload)
  /\ ~outside => /\ Len(applied) <= 1
                 /\ record.status = "absent" => applied = <<>>
                 /\ \A r \in Submissions : submit[r].pc # "applied"

CommandInvariant == CommandTypeOK /\ RowHeldFresh /\ ReportedIsApplied

\* One payload more, behind those that still count.
LEMMA AppliedAppends ==
  ASSUME CommandTypeOK, NEW r \in Submissions, submit[r].payload \in Payloads
  PROVE  /\ Applied(r) \in Seq(Payloads)
         /\ Len(Applied(r)) = (IF record.expired THEN 0 ELSE Len(applied)) + 1
         /\ Len(Applied(r)) \in 1 .. Len(Applied(r))
         /\ Applied(r)[Len(Applied(r))] = submit[r].payload
         /\ ~record.expired => \A i \in 1 .. Len(applied) : Applied(r)[i] = applied[i]
<1>1. CASE record.expired
  BY <1>1 DEF Applied, CommandTypeOK
<1>2. CASE ~record.expired
  BY <1>2 DEF Applied, CommandTypeOK
<1> QED BY <1>1, <1>2

LEMMA CommandStep == CommandInvariant /\ [CommandNext]_commandVars => CommandInvariant'
<1> SUFFICES ASSUME CommandInvariant, [CommandNext]_commandVars PROVE CommandInvariant'
  OBVIOUS
<1>1. CommandTypeOK /\ RowHeldFresh /\ ReportedIsApplied
  BY DEF CommandInvariant
<1>2. ASSUME NEW r \in Submissions, NEW p \in Payloads, Submit(r, p)
      PROVE  CommandInvariant'
  <2>1. CommandTypeOK'
    BY <1>1, <1>2 DEF Submit, CommandTypeOK, Submission
  <2>2. RowHeldFresh'
    BY <1>1, <1>2 DEF Submit, CommandTypeOK, Submission, RowHeldFresh, Fresh
  <2>3. ReportedIsApplied'
    BY <1>1, <1>2 DEF Submit, CommandTypeOK, Submission, ReportedIsApplied, Fresh, IsApplied
  <2> QED BY <2>1, <2>2, <2>3 DEF CommandInvariant
<1>3. ASSUME NEW r \in Submissions, Reserve(r)
      PROVE  CommandInvariant'
  <2>1. CommandTypeOK'
    BY <1>1, <1>3 DEF Reserve, CommandTypeOK, Submission
  <2>2. RowHeldFresh'
    BY <1>1, <1>3 DEF Reserve, Reserves, CommandTypeOK, Submission, RowHeldFresh, Fresh
  <2>3. ReportedIsApplied'
    BY <1>1, <1>3 DEF Reserve, CommandTypeOK, Submission, ReportedIsApplied, Fresh, IsApplied
  <2> QED BY <2>1, <2>2, <2>3 DEF CommandInvariant
<1>4. ASSUME NEW r \in Submissions, Replay(r)
      PROVE  CommandInvariant'
  <2>1. CommandTypeOK'
    BY <1>1, <1>4 DEF Replay, CommandTypeOK, Submission
  <2>2. RowHeldFresh'
    BY <1>1, <1>4 DEF Replay, Reserves, CommandTypeOK, Submission, RowHeldFresh, Fresh
  <2>3. ReportedIsApplied'
    BY <1>1, <1>4 DEF Replay, Reserves, CommandTypeOK, Submission, ReportedIsApplied, Fresh, IsApplied
  <2> QED BY <2>1, <2>2, <2>3 DEF CommandInvariant
<1>5. ASSUME NEW r \in Submissions, Commit(r)
      PROVE  CommandInvariant'
  <2>1. r \in pending /\ Fresh /\ submit[r].payload \in Payloads
    BY <1>1, <1>5 DEF Commit, RowHeldFresh, CommandTypeOK
  <2>2. /\ record'.status = "completed" /\ record'.hash = submit[r].payload /\ ~record'.expired
        /\ ~Fresh'
    BY <1>5 DEF Commit, Fresh
  <2>3. CommandTypeOK'
    BY <1>1, <1>5, <2>1, AppliedAppends DEF Commit, CommandTypeOK, Submission
  <2>4. \A q \in Submissions : q # r => /\ submit'[q] = submit[q]
                                       /\ submit[q].pc \notin {"reserved", "applied", "done"}
    BY <1>1, <1>5, <2>1 DEF Commit, RowHeldFresh, CommandTypeOK
  <2>5. submit'[r].pc = "done" /\ submit'[r].payload = submit[r].payload
    BY <1>1, <1>5 DEF Commit, CommandTypeOK, Submission
  <2>6. RowHeldFresh'
    BY <1>5, <2>2, <2>4, <2>5 DEF Commit, RowHeldFresh
  <2>7. IsApplied(submit[r].payload)'
    <3>1. CASE outside
      BY <1>1, <1>5, <2>5, <3>1 DEF Commit, ReportedIsApplied, IsApplied
    <3>2. CASE ~outside
      <4>1. applied' = Applied(r) /\ Len(Applied(r)) \in 1 .. Len(Applied(r))
        BY <1>1, <1>5, <2>1, <3>2, AppliedAppends DEF Commit, CommandTypeOK
      <4> QED BY <1>1, <2>1, <2>5, <4>1, AppliedAppends DEF IsApplied
    <3> QED BY <3>1, <3>2
  <2>8. ~outside => Len(applied') <= 1
    <3> SUFFICES ASSUME ~outside PROVE Len(applied') <= 1
      OBVIOUS
    <3>1. record.status = "absent" => applied = <<>>
      BY <1>1 DEF ReportedIsApplied
    <3>2. applied' = Applied(r) /\ Len(Applied(r)) = (IF record.expired THEN 0 ELSE Len(applied)) + 1
      BY <1>1, <1>5, <2>1, AppliedAppends DEF Commit
    <3> QED BY <2>1, <3>1, <3>2 DEF Fresh
  <2>9. ReportedIsApplied'
    BY <1>5, <2>2, <2>4, <2>5, <2>7, <2>8 DEF Commit, ReportedIsApplied
  <2> QED BY <2>3, <2>6, <2>9 DEF CommandInvariant
<1>6. ASSUME NEW r \in Submissions, CommitOutside(r)
      PROVE  CommandInvariant'
  <2>1. r \in pending /\ Fresh /\ submit[r].payload \in Payloads /\ outside
    BY <1>1, <1>6 DEF CommitOutside, RowHeldFresh, CommandTypeOK
  <2>2. CommandTypeOK'
    BY <1>1, <1>6, <2>1, AppliedAppends DEF CommitOutside, CommandTypeOK, Submission
  <2>3. \A q \in Submissions : q # r => /\ submit'[q] = submit[q]
                                       /\ submit[q].pc \notin {"reserved", "applied", "done"}
    BY <1>1, <1>6, <2>1 DEF CommitOutside, RowHeldFresh, CommandTypeOK
  <2>4. submit'[r].pc = "applied" /\ submit'[r].payload = submit[r].payload
    BY <1>1, <1>6 DEF CommitOutside, CommandTypeOK, Submission
  <2>5. RowHeldFresh'
    BY <1>1, <1>6, <2>1, <2>3, <2>4 DEF CommitOutside, RowHeldFresh, Fresh
  <2>6. applied' = Applied(r) /\ Len(Applied(r)) \in 1 .. Len(Applied(r))
    BY <1>1, <1>6, <2>1, AppliedAppends DEF CommitOutside, CommandTypeOK
  <2>7. IsApplied(submit[r].payload)'
    BY <1>1, <2>1, <2>4, <2>6, AppliedAppends DEF IsApplied
  <2>8. Fresh' /\ outside'
    BY <1>6, <2>1 DEF CommitOutside, Fresh
  <2>9. ReportedIsApplied'
    BY <2>3, <2>4, <2>7, <2>8 DEF ReportedIsApplied
  <2> QED BY <2>2, <2>5, <2>9 DEF CommandInvariant
<1>7. ASSUME NEW r \in Submissions, RollBack(r)
      PROVE  CommandInvariant'
  <2>1. CommandTypeOK'
    BY <1>1, <1>7 DEF RollBack, CommandTypeOK, Submission
  <2>2. RowHeldFresh'
    BY <1>1, <1>7 DEF RollBack, CommandTypeOK, Submission, RowHeldFresh, Fresh
  <2>3. ReportedIsApplied'
    BY <1>1, <1>7 DEF RollBack, CommandTypeOK, Submission, ReportedIsApplied, Fresh, IsApplied
  <2> QED BY <2>1, <2>2, <2>3 DEF CommandInvariant
<1>8. CASE RecordExpires
  <2>1. CommandTypeOK'
    BY <1>1, <1>8 DEF RecordExpires, CommandTypeOK, Submission, NotSent
  <2>2. RowHeldFresh'
    BY <1>1, <1>8 DEF RecordExpires, CommandTypeOK, Submission, RowHeldFresh, Fresh, NotSent
  <2>3. ReportedIsApplied'
    BY <1>1, <1>8 DEF RecordExpires, CommandTypeOK, Submission, ReportedIsApplied, RowHeldFresh, Fresh, IsApplied, NotSent
  <2> QED BY <2>1, <2>2, <2>3 DEF CommandInvariant
<1>9. CASE UNCHANGED commandVars
  BY <1>1, <1>9 DEF commandVars, CommandInvariant, CommandTypeOK, RowHeldFresh, ReportedIsApplied, Fresh, IsApplied
<1> QED BY <1>2, <1>3, <1>4, <1>5, <1>6, <1>7, <1>8, <1>9 DEF CommandNext

\* However often a request is sent, lost, refused and sent again, and with
\* whatever other bodies under the same key: who is told "done" had exactly this
\* body applied, and a command of the request's session is applied once.
THEOREM CommandsAppliedOnce == CommandSpec => []AppliedOnce
<1>1. CommandInit => CommandInvariant
  <2> SUFFICES ASSUME CommandInit PROVE CommandInvariant
    OBVIOUS
  <2>1. Fresh
    BY DEF CommandInit, NoRecord, Fresh
  <2>2. CommandTypeOK
    BY DEF CommandInit, NoRecord, NotSent, CommandTypeOK, Submission
  <2> QED BY <2>1, <2>2 DEF CommandInit, NotSent, CommandInvariant, RowHeldFresh, ReportedIsApplied
<1>2. CommandInvariant => AppliedOnce
  BY DEF CommandInvariant, ReportedIsApplied, AppliedOnce, IsApplied
<1> QED BY <1>1, <1>2, CommandStep, PTL DEF CommandSpec

-----------------------------------------------------------------------------
(* Actions of an assistant.                                                 *)

Proposal == [state : {"pending", "executed"}, by : Principals, target : Targets,
             expected : Nat, fresh : BOOLEAN, moved : BOOLEAN, ran : Nat]
Confirmation == [pc : {"asked"}, by : Principals, action : Proposals, enabled : BOOLEAN]

ActionsTypeOK == /\ revision \in [Targets -> Nat]
                 /\ policy \in [mutation : BOOLEAN, confirmation : BOOLEAN]
                 /\ action \in [Proposals -> Proposal \cup {Unproposed}]
                 /\ confirm \in [Confirmations -> Confirmation \cup {Waiting}]

\* Revisions only grow: an action is never ahead of its target, a review that
\* showed another revision showed a later one, and an action that ran left the
\* revision it was proposed for behind.
NotAhead(p) == /\ p.expected <= revision[p.target]
               /\ p.moved => p.expected < revision[p.target]
               /\ p.state = "executed" => /\ p.ran = p.expected /\ ~p.moved
                                          /\ p.ran < revision[p.target]

SameRun(p, q) == p.target = q.target /\ p.ran = q.ran

ActionsInvariant ==
  /\ ActionsTypeOK
  /\ \A a \in Proposals : action[a] # Unproposed => NotAhead(action[a])
  /\ \A a, b \in Executed : SameRun(action[a], action[b]) => a = b

LEMMA ProposalsAreDistinct == \A p \in Proposal : p # Unproposed /\ p.state # "none"
  BY DEF Proposal, Unproposed

\* A step that leaves revisions alone, or raises some, and changes one action at
\* most, without executing it, keeps the invariant.
LEMMA ActionsKept ==
  ASSUME ActionsInvariant, ActionsTypeOK',
         \A t \in Targets : revision[t] <= revision'[t],
         NEW c \in Proposals, \A a \in Proposals \ {c} : action'[a] = action[a],
         \/ action'[c] = action[c]
         \/ /\ action'[c] \in Proposal /\ action'[c].state = "pending"
            /\ NotAhead(action[c])'
  PROVE  ActionsInvariant'
<1>1. ASSUME NEW a \in Proposals, action'[a] # Unproposed
      PROVE  NotAhead(action[a])'
  <2>1. CASE action'[a] = action[a]
    <3>1. action[a] \in Proposal /\ NotAhead(action[a])
      BY <1>1, <2>1 DEF ActionsInvariant, ActionsTypeOK
    <3>2. revision[action[a].target] <= revision'[action[a].target]
      BY <3>1 DEF Proposal
    <3>3. /\ revision[action[a].target] \in Nat /\ revision'[action[a].target] \in Nat
          /\ action[a].expected \in Nat /\ action[a].ran \in Nat
      BY <3>1 DEF Proposal, ActionsInvariant, ActionsTypeOK
    <3> QED BY <2>1, <3>1, <3>2, <3>3 DEF NotAhead
  <2>2. CASE action'[a] # action[a]
    BY <2>2
  <2> QED BY <2>1, <2>2
<1>2. \A a \in Executed' : a \in Executed /\ action'[a] = action[a]
  BY DEF Executed
<1> QED BY <1>1, <1>2 DEF ActionsInvariant

\* An action that is executed for the revision its target has, which it raises,
\* ran for a revision that no other action ran for.
LEMMA ActionRuns ==
  ASSUME ActionsInvariant, ActionsTypeOK', NEW c \in Proposals,
         \A a \in Proposals \ {c} : action'[a] = action[a],
         action'[c] \in Proposal, action'[c].state = "executed", ~action'[c].moved,
         action'[c].expected = revision[action'[c].target],
         action'[c].ran = action'[c].expected,
         Changed(action'[c].target)
  PROVE  ActionsInvariant'
<1> DEFINE t == action'[c].target
<1>1. /\ t \in Targets /\ revision[t] \in Nat /\ revision'[t] = revision[t] + 1
      /\ \A u \in Targets : revision[u] <= revision'[u] /\ revision[u] \in Nat /\ revision'[u] \in Nat
  BY DEF Changed, ActionsInvariant, ActionsTypeOK, Proposal
<1>2. ASSUME NEW a \in Proposals, a # c, action'[a] # Unproposed
      PROVE  NotAhead(action[a])'
  <2>1. action'[a] = action[a] /\ action[a] \in Proposal /\ NotAhead(action[a])
    BY <1>2 DEF ActionsInvariant, ActionsTypeOK
  <2>2. /\ revision[action[a].target] <= revision'[action[a].target]
        /\ revision[action[a].target] \in Nat /\ revision'[action[a].target] \in Nat
        /\ action[a].expected \in Nat /\ action[a].ran \in Nat
    BY <1>1, <2>1 DEF Proposal
  <2> QED BY <2>1, <2>2 DEF NotAhead
<1>3. NotAhead(action[c])'
  BY <1>1 DEF NotAhead
<1>4. ASSUME NEW a \in Executed', a # c
      PROVE  a \in Executed /\ action'[a] = action[a] /\ ~SameRun(action'[a], action'[c])
  <2>1. a \in Executed /\ action'[a] = action[a]
    BY <1>4 DEF Executed
  <2>2. action[a] \in Proposal /\ action[a].ran < revision[action[a].target]
    BY <2>1 DEF Executed, ActionsInvariant, ActionsTypeOK, NotAhead, Unproposed
  <2> QED BY <1>1, <2>1, <2>2 DEF SameRun, Proposal
<1>5. \A a, b \in Executed' : SameRun(action'[a], action'[b]) => a = b
  BY <1>4 DEF ActionsInvariant, SameRun
<1> QED BY <1>2, <1>3, <1>5 DEF ActionsInvariant

LEMMA ActionsStep == ActionsInvariant /\ [ActionsNext]_actionVars => ActionsInvariant'
<1> SUFFICES ASSUME ActionsInvariant, [ActionsNext]_actionVars PROVE ActionsInvariant'
  OBVIOUS
<1>1. ActionsTypeOK
  BY DEF ActionsInvariant
<1>2. ASSUME UNCHANGED action, ActionsTypeOK', \A t \in Targets : revision[t] <= revision'[t]
      PROVE  ActionsInvariant'
  <2>1. CASE \E c \in Proposals : TRUE
    BY <1>2, <2>1, ActionsKept
  <2>2. CASE ~\E c \in Proposals : TRUE
    BY <1>2, <2>2 DEF ActionsInvariant, Executed
  <2> QED BY <2>1, <2>2
<1>3. \A t \in Targets : revision[t] \in Nat /\ revision[t] <= revision[t]
  BY <1>1 DEF ActionsTypeOK
<1>4. ASSUME NEW p \in Principals, NEW a \in Proposals, NEW t \in Targets,
             NEW x \in 1 .. MaxRevision, Propose(p, a, t, x)
      PROVE  ActionsInvariant'
  <2>1. /\ action'[a] = Proposed(p, t, x, "pending") /\ UNCHANGED <<revision, confirm>>
        /\ \A b \in Proposals \ {a} : action'[b] = action[b]
    BY <1>1, <1>4 DEF Propose, ActionsTypeOK
  <2>2. Proposed(p, t, x, "pending") \in Proposal
    BY ActionsAssumption DEF Proposed, Proposal
  <2>3. ActionsTypeOK'
    BY <1>1, <1>4, <2>2 DEF Propose, ActionsTypeOK
  <2>4. NotAhead(action[a])'
    BY <1>1, <1>3, <1>4, <2>1, <2>2 DEF Propose, Valid, Proposed, NotAhead
  <2>5. action'[a].state = "pending"
    BY <2>1 DEF Proposed
  <2> QED BY <1>3, <2>1, <2>2, <2>3, <2>4, <2>5, ActionsKept
<1>5. ASSUME NEW p \in Principals, NEW a \in Proposals, NEW t \in Targets,
             NEW x \in 1 .. MaxRevision, ExecuteDirectly(p, a, t, x)
      PROVE  ActionsInvariant'
  <2> DEFINE q == [Proposed(p, t, x, "executed") EXCEPT !.ran = revision[t]]
  <2>1. /\ action'[a] = q /\ UNCHANGED confirm /\ Changed(t)
        /\ x = revision[t]
        /\ \A b \in Proposals \ {a} : action'[b] = action[b]
    BY <1>1, <1>5 DEF ExecuteDirectly, ActionsTypeOK, Valid
  <2>2. /\ q \in Proposal /\ q.state = "executed" /\ ~q.moved
        /\ q.target = t /\ q.expected = x /\ q.ran = revision[t]
    <3> DEFINE d == Proposed(p, t, x, "executed")
    <3>1. /\ d \in Proposal /\ d.state = "executed" /\ d.target = t /\ d.expected = x
          /\ d.moved = FALSE
      BY ActionsAssumption DEF Proposed, Proposal
    <3> HIDE DEF d
    <3>2. q = [d EXCEPT !.ran = revision[t]] /\ revision[t] \in Nat
      BY <1>3 DEF d
    <3> HIDE DEF q
    <3>3. /\ q \in Proposal /\ q.state = d.state /\ q.target = d.target
          /\ q.expected = d.expected /\ q.ran = revision[t]
      BY <3>1, <3>2 DEF Proposal
    <3>4. q.moved = d.moved
      BY <3>1, <3>2 DEF Proposal
    <3> QED BY <3>1, <3>3, <3>4
  <2>3. UNCHANGED policy /\ action' = [action EXCEPT ![a] = q]
    BY <1>5 DEF ExecuteDirectly
  <2> HIDE DEF q
  <2>4. ActionsTypeOK'
    BY <1>1, <2>1, <2>2, <2>3 DEF Changed, ActionsTypeOK
  <2> QED BY <2>1, <2>2, <2>4, ActionRuns
<1>6. ASSUME NEW a \in Proposals, Lapse(a)
      PROVE  ActionsInvariant'
  <2>1. action[a] \in Proposal
    BY <1>1, <1>6 DEF Lapse, ActionsTypeOK, Unproposed
  <2>2. /\ action'[a] = [action[a] EXCEPT !.fresh = FALSE] /\ UNCHANGED <<revision, policy, confirm>>
        /\ \A b \in Proposals \ {a} : action'[b] = action[b]
    BY <1>1, <1>6 DEF Lapse, ActionsTypeOK
  <2>3. /\ action'[a] \in Proposal /\ action'[a].state = "pending"
        /\ action'[a].target = action[a].target /\ action'[a].expected = action[a].expected
        /\ action'[a].moved = action[a].moved
    <3> DEFINE q == [action[a] EXCEPT !.fresh = FALSE]
    <3>1. /\ q \in Proposal /\ q.state = action[a].state
          /\ q.target = action[a].target /\ q.expected = action[a].expected
      BY <2>1 DEF Proposal
    <3>2. q.moved = action[a].moved
      BY <2>1 DEF Proposal
    <3> HIDE DEF q
    <3>3. action'[a] = q /\ action[a].state = "pending"
      BY <1>6, <2>2 DEF Lapse, q
    <3> QED BY <3>1, <3>2, <3>3
  <2>4. ActionsTypeOK'
    BY <1>1, <1>6, <2>2, <2>3 DEF Lapse, ActionsTypeOK
  <2>5. NotAhead(action[a]) /\ NotAhead(action[a])'
    BY <2>1, <2>2, <2>3, ProposalsAreDistinct DEF ActionsInvariant, NotAhead
  <2> QED BY <1>3, <2>2, <2>3, <2>4, <2>5, ActionsKept
<1>7. ASSUME NEW a \in Proposals, NEW p \in Principals, Review(p, a)
      PROVE  ActionsInvariant'
  <2>1. action[a] \in Proposal
    BY <1>1, <1>7 DEF Review, ActionsTypeOK, Unproposed
  <2> DEFINE m == action[a].moved \/ revision[action[a].target] # action[a].expected
  <2>2. m \in BOOLEAN
    OBVIOUS
  <2>3. /\ action'[a] = [action[a] EXCEPT !.moved = m] /\ UNCHANGED <<revision, policy, confirm>>
        /\ action' = [action EXCEPT ![a] = action'[a]]
        /\ \A b \in Proposals \ {a} : action'[b] = action[b]
    BY <1>1, <1>7 DEF Review, ActionsTypeOK
  <2>4. NotAhead(action[a]) /\ action[a].state = "pending"
    BY <1>7, <2>1, ProposalsAreDistinct DEF ActionsInvariant, Review
  <2>5. m => action[a].expected < revision[action[a].target]
    <3>1. action[a].expected <= revision[action[a].target]
      BY <2>4 DEF NotAhead
    <3>2. action[a].expected \in Nat /\ revision[action[a].target] \in Nat
      BY <1>3, <2>1 DEF Proposal
    <3> QED BY <2>4, <3>1, <3>2 DEF NotAhead
  <2> HIDE DEF m
  <2>6. /\ action'[a] \in Proposal /\ action'[a].state = "pending"
        /\ action'[a].target = action[a].target /\ action'[a].expected = action[a].expected
        /\ action'[a].moved = m
    BY <2>1, <2>2, <2>3, <2>4 DEF Proposal
  <2>7. ActionsTypeOK'
    BY <1>1, <2>3, <2>6 DEF ActionsTypeOK
  <2>8. NotAhead(action[a])'
    BY <2>3, <2>4, <2>5, <2>6 DEF NotAhead
  <2> QED BY <1>3, <2>3, <2>6, <2>7, <2>8, ActionsKept
<1>8. ASSUME NEW c \in Confirmations, NEW p \in Principals, NEW a \in Proposals, AskToConfirm(c, p, a)
      PROVE  ActionsInvariant'
  <2>1. [pc |-> "asked", by |-> p, action |-> a, enabled |-> policy.mutation] \in Confirmation
    BY <1>1 DEF Confirmation, ActionsTypeOK
  <2>2. ActionsTypeOK'
    BY <1>1, <1>8, <2>1 DEF AskToConfirm, ActionsTypeOK
  <2> QED BY <1>2, <1>3, <1>8, <2>2 DEF AskToConfirm
<1>9. ASSUME NEW c \in Confirmations, ConfirmAndExecute(c)
      PROVE  ActionsInvariant'
  <2> DEFINE a == confirm[c].action
             v == revision[action[a].target]
             q == [action[a] EXCEPT !.state = "executed", !.ran = v]
  <2>1. confirm[c] \in Confirmation /\ a \in Proposals
    BY <1>1, <1>9 DEF ConfirmAndExecute, ActionsTypeOK, Confirmation, Waiting
  <2>2. action[a] \in Proposal /\ action[a].state = "pending" /\ action[a].expected = v
    BY <1>1, <1>9, <2>1 DEF ConfirmAndExecute, ActionsTypeOK, StillPending, Unmoved, Unproposed
  <2>3. v \in Nat
    BY <1>3, <2>2 DEF Proposal
  <2>4. ~action[a].moved
    BY <2>1, <2>2, <2>3, ProposalsAreDistinct DEF ActionsInvariant, NotAhead
  <2>5. /\ q \in Proposal /\ q.state = "executed" /\ ~q.moved /\ q.ran = v
        /\ q.target = action[a].target /\ q.expected = v
    BY <2>2, <2>3, <2>4 DEF Proposal
  <2>6. action' = [action EXCEPT ![a] = q]
    BY <1>1, <1>9, <2>1 DEF ConfirmAndExecute, ActionsTypeOK
  <2>7. Changed(q.target) /\ UNCHANGED policy /\ confirm' = [confirm EXCEPT ![c] = Waiting]
    BY <1>9, <2>5 DEF ConfirmAndExecute
  <2> HIDE DEF q, a
  <2>8. action'[a] = q /\ \A b \in Proposals \ {a} : action'[b] = action[b]
    BY <1>1, <2>1, <2>6 DEF ActionsTypeOK
  <2>9. ActionsTypeOK'
    BY <1>1, <2>1, <2>5, <2>6, <2>7 DEF Changed, ActionsTypeOK, Proposal
  <2> QED BY <2>1, <2>5, <2>7, <2>8, <2>9, ActionRuns
<1>10. ASSUME NEW c \in Confirmations, RefuseConfirmation(c)
       PROVE  ActionsInvariant'
  <2>1. ActionsTypeOK'
    BY <1>1, <1>10 DEF RefuseConfirmation, ActionsTypeOK
  <2> QED BY <1>2, <1>3, <1>10, <2>1 DEF RefuseConfirmation
<1>11. ASSUME NEW t \in Targets, ChangeElsewhere(t)
       PROVE  ActionsInvariant'
  <2>1. ActionsTypeOK' /\ UNCHANGED action
    BY <1>1, <1>11 DEF ChangeElsewhere, Changed, ActionsTypeOK
  <2>2. \A u \in Targets : revision[u] <= revision'[u]
    BY <1>1, <1>3, <1>11 DEF ChangeElsewhere, Changed, ActionsTypeOK
  <2> QED BY <1>2, <2>1, <2>2
<1>12. ASSUME NEW t \in Targets, NEW m \in Members, ChangeRole(m, t)
       PROVE  ActionsInvariant'
  <2>1. ActionsTypeOK' /\ UNCHANGED <<action, revision>>
    BY <1>1, <1>12 DEF ChangeRole, ActionsTypeOK
  <2> QED BY <1>2, <1>3, <2>1
<1>13. CASE EditPolicy
  <2>1. ActionsTypeOK' /\ UNCHANGED <<action, revision>>
    BY <1>1, <1>13 DEF EditPolicy, ActionsTypeOK
  <2> QED BY <1>2, <1>3, <2>1
<1>14. CASE UNCHANGED actionVars
  <2>1. ActionsTypeOK' /\ UNCHANGED <<action, revision>>
    BY <1>1, <1>14 DEF actionVars, ActionsTypeOK
  <2> QED BY <1>2, <1>3, <2>1
<1> QED BY <1>4, <1>5, <1>6, <1>7, <1>8, <1>9, <1>10, <1>11, <1>12, <1>13, <1>14 DEF ActionsNext

\* Whatever changes between proposal, review and confirmation, an action that
\* ran changed its target from the revision it was proposed for and every review
\* of it showed, and no two ran for one revision of one target.
THEOREM ActionsExecutedAsReviewed == ActionsSpec => []ExecutedAsReviewed
<1>1. ActionsInit => ActionsInvariant
  BY DEF ActionsInit, ActionsInvariant, ActionsTypeOK, Executed, Unproposed
<1>2. ActionsInvariant => ExecutedAsReviewed
  BY ProposalsAreDistinct DEF ActionsInvariant, ActionsTypeOK, NotAhead, Executed, SameRun, ExecutedAsReviewed, Unproposed
<1> QED BY <1>1, <1>2, ActionsStep, PTL DEF ActionsSpec

-----------------------------------------------------------------------------
(* Runtime settings.                                                        *)

SettingsRow == [state : {"unused", "draft", "active", "superseded"}, base : 0 .. MaxRevisions]
Edit == [pc : {"idle", "asked", "waiting", "read"}, op : {"none", "draft", "activate", "rollback"},
         expected : 0 .. MaxRevisions, target : 0 .. MaxRevisions, active : 0 .. MaxRevisions]

SettingsTypeOK ==
  /\ rows \in [Revisions -> SettingsRow]
  /\ edit \in [Editors -> Edit]
  /\ locked \in Editors \cup {NoEditor}
  /\ \A e \in Editors : edit[e].op \in {"activate", "rollback"} => edit[e].target \in Revisions

\* Revisions are numbered without gaps, and one of them at most is active.
Numbered == \E m \in 0 .. MaxRevisions : Used = 1 .. m
OneActive == \A m, n \in ActiveRows : m = n

\* Who has read an active revision holds its lock, and it is active still: the
\* one who read none has read nothing that would tell him that this lasts.
ReadersLock == \A e \in Editors : edit[e].pc = "read" /\ edit[e].active # 0 =>
                                    locked = e /\ edit[e].active \in ActiveRows
ReadSoFar == \A e \in Editors : /\ edit[e].pc = "asked" => edit[e].active = 0
                                /\ edit[e].pc = "waiting" => edit[e].active \in Revisions

SettingsInvariant == SettingsTypeOK /\ Numbered /\ OneActive /\ ReadersLock /\ ReadSoFar

\* With one active row at most, Active is that row, or 0.
LEMMA ActiveIsTheRow ==
  ASSUME OneActive
  PROVE  /\ ActiveRows = {} => Active = 0
         /\ \A n \in ActiveRows : Active = n /\ ActiveRows = {n}
         /\ Active # 0 => Active \in ActiveRows
<1>1. ASSUME NEW n \in ActiveRows
      PROVE  Active = n /\ ActiveRows = {n}
  BY <1>1 DEF OneActive, Active
<1>2. ActiveRows = {} => Active = 0
  BY DEF Active
<1> QED BY <1>1, <1>2

LEMMA MaximumIsLast ==
  ASSUME NEW m \in 0 .. MaxRevisions, Used = 1 .. m
  PROVE  Maximum = m
<1> USE SettingsAssumption
<1>1. CASE m = 0
  <2>1. Used = {}
    BY <1>1
  <2> QED BY <1>1, <2>1 DEF Maximum
<1>2. CASE m # 0
  <2>1. m \in Used /\ \A k \in Used : k <= m
    BY <1>2
  <2>2. \A n \in Used : (\A k \in Used : k <= n) => n = m
    BY <2>1
  <2> QED BY <2>1, <2>2 DEF Maximum
<1> QED BY <1>1, <1>2

\* The next number is free.
LEMMA NextNumber ==
  ASSUME SettingsInvariant, Maximum < MaxRevisions
  PROVE  /\ Maximum + 1 \in Revisions /\ Maximum + 1 \notin Used
         /\ Maximum \in 0 .. MaxRevisions /\ Used = 1 .. Maximum
<1>1. PICK m \in 0 .. MaxRevisions : Used = 1 .. m
  BY DEF SettingsInvariant, Numbered
<1>2. Maximum = m
  BY <1>1, MaximumIsLast
<1> QED BY <1>1, <1>2, SettingsAssumption DEF Revisions

\* Who writes against the revision he has read, while the index lets him, writes
\* against the active one; nobody else has read it under the lock.
LEMMA WritesAgainstActive ==
  ASSUME SettingsInvariant, NEW e \in Editors, edit[e].pc = "read", ~ActiveTaken(edit[e].active)
  PROVE  /\ Active = edit[e].active
         /\ ActiveRows = IF edit[e].active = 0 THEN {} ELSE {edit[e].active}
         /\ \A f \in Editors \ {e} : edit[f].pc = "read" => edit[f].active = 0
<1> USE DEF SettingsInvariant
<1>1. 0 \notin ActiveRows
  BY DEF ActiveRows, Revisions
<1>2. CASE edit[e].active = 0
  <2>1. Active = 0
    BY <1>2 DEF ActiveTaken
  <2>2. ActiveRows = {}
    BY <1>1, <2>1, ActiveIsTheRow
  <2> QED BY <1>2, <2>1, <2>2 DEF ReadersLock
<1>3. CASE edit[e].active # 0
  <2>1. locked = e /\ edit[e].active \in ActiveRows
    BY <1>3 DEF ReadersLock
  <2> QED BY <1>3, <2>1, ActiveIsTheRow DEF ReadersLock
<1> QED BY <1>2, <1>3

\* Steps that write no row.
LEMMA RowsKept ==
  ASSUME SettingsInvariant, UNCHANGED rows, SettingsTypeOK', ReadersLock', ReadSoFar'
  PROVE  SettingsInvariant' /\ Active' = Active
<1>1. Used' = Used /\ ActiveRows' = ActiveRows
  BY DEF Used, ActiveRows
<1> QED BY <1>1 DEF SettingsInvariant, Numbered, OneActive, Active

\* Finished leaves the others alone, and the lock to those who may have it.
LEMMA FinishedEffect ==
  ASSUME SettingsInvariant, NEW e \in Editors, Finished(e)
  PROVE  /\ edit' \in [Editors -> Edit] /\ locked' \in Editors \cup {NoEditor}
         /\ edit'[e] = Rest /\ \A f \in Editors \ {e} : edit'[f] = edit[f]
         /\ \A f \in Editors \ {e} : locked = f => locked' = f
         /\ \A f \in Editors : edit'[f].op \in {"activate", "rollback"} => edit'[f].target \in Revisions
<1>1. SettingsTypeOK
  BY DEF SettingsInvariant
<1>2. Rest \in Edit /\ Rest.op = "none"
  BY SettingsAssumption DEF Rest, Edit
<1> QED BY <1>1, <1>2 DEF Finished, SettingsTypeOK

\* Steps that make n the only active revision.
LEMMA RowActivated ==
  ASSUME SettingsInvariant, NEW e \in Editors, edit[e].pc = "read", ~ActiveTaken(edit[e].active),
         NEW n \in Revisions, n # edit[e].active, rows' \in [Revisions -> SettingsRow],
         rows'[n].state = "active", rows'[n].base = edit[e].active,
         \A k \in Revisions \ {n, edit[e].active} : rows'[k] = rows[k],
         edit[e].active # 0 => rows'[edit[e].active].state = "superseded",
         Used' = Used \cup {n}, Numbered', Finished(e)
  PROVE  SettingsInvariant' /\ rows'[Active'].base = Active
<1>1. /\ Active = edit[e].active
      /\ ActiveRows = IF edit[e].active = 0 THEN {} ELSE {edit[e].active}
      /\ \A f \in Editors \ {e} : edit[f].pc = "read" => edit[f].active = 0
  BY WritesAgainstActive
<1>2. ActiveRows' = {n}
  <2>1. \A k \in Revisions : k # edit[e].active => rows[k].state # "active"
    BY <1>1 DEF ActiveRows
  <2>2. \A k \in Revisions : k # n => rows'[k].state # "active"
    BY <2>1 DEF Revisions
  <2> QED BY <2>2 DEF ActiveRows
<1>3. OneActive'
  BY <1>2 DEF OneActive
<1>4. SettingsTypeOK'
  BY FinishedEffect DEF SettingsTypeOK
<1>5. ReadersLock'
  BY <1>1, FinishedEffect DEF ReadersLock, Rest
<1>6. ReadSoFar'
  BY FinishedEffect DEF ReadSoFar, SettingsInvariant, Rest
<1>7. Active' = n
  BY <1>2 DEF Active
<1> QED BY <1>1, <1>3, <1>4, <1>5, <1>6, <1>7 DEF SettingsInvariant

LEMMA SettingsStep ==
  SettingsInvariant /\ [SettingsNext]_settingsVars =>
    SettingsInvariant' /\ (Active' # Active => rows'[Active'].base = Active)
<1> SUFFICES ASSUME SettingsInvariant, [SettingsNext]_settingsVars
             PROVE  SettingsInvariant' /\ (Active' # Active => rows'[Active'].base = Active)
  OBVIOUS
<1> USE SettingsAssumption
<1>1. SettingsTypeOK /\ Numbered /\ OneActive /\ ReadersLock /\ ReadSoFar
  BY DEF SettingsInvariant
<1>2. ASSUME NEW e \in Editors, NEW op \in {"draft", "activate", "rollback"},
             NEW x \in 0 .. MaxRevisions, NEW n \in Revisions \cup {0}, Ask(e, op, x, n)
      PROVE  SettingsInvariant' /\ Active' = Active
  <2> DEFINE q == [pc |-> "asked", op |-> op, expected |-> x, target |-> n, active |-> 0]
  <2>1. /\ edit' = [edit EXCEPT ![e] = q] /\ UNCHANGED <<rows, locked>>
        /\ op # "draft" => n \in Used
    BY <1>2 DEF Ask
  <2>2. Used \subseteq Revisions
    BY DEF Used
  <2>3. q \in Edit /\ q.pc = "asked" /\ q.active = 0 /\ (q.op # "draft" => q.target \in Revisions)
    BY <2>1, <2>2 DEF Edit, Revisions
  <2> HIDE DEF q
  <2>4. SettingsTypeOK'
    BY <1>1, <2>1, <2>3 DEF SettingsTypeOK
  <2>5. ReadersLock' /\ ReadSoFar'
    BY <1>1, <2>1, <2>3 DEF SettingsTypeOK, ReadersLock, ReadSoFar, ActiveRows
  <2> QED BY <2>1, <2>4, <2>5, RowsKept
<1>3. ASSUME NEW e \in Editors, ReadActive(e)
      PROVE  SettingsInvariant' /\ Active' = Active
  <2>1. Active \in 0 .. MaxRevisions /\ (Active # 0 => Active \in ActiveRows /\ Active \in Revisions)
    BY <1>1, ActiveIsTheRow DEF ActiveRows, Revisions
  <2>2. SettingsTypeOK'
    BY <1>1, <1>3, <2>1 DEF ReadActive, SettingsTypeOK, Edit
  <2>3. ReadersLock' /\ ReadSoFar'
    <3>1. UNCHANGED ActiveRows
      BY <1>3 DEF ReadActive, ActiveRows
    <3>2. \A f \in Editors \ {e} : edit'[f] = edit[f] /\ (locked = f => locked' = f)
      BY <1>1, <1>3 DEF ReadActive, SettingsTypeOK
    <3>3. /\ edit'[e].pc # "asked" /\ edit'[e].active = Active
          /\ edit'[e].pc = "read" => Active = 0 \/ locked' = e
          /\ edit'[e].pc = "waiting" => Active # 0
      BY <1>1, <1>3 DEF ReadActive, SettingsTypeOK, Edit, ReadSoFar
    <3> QED BY <1>1, <2>1, <3>1, <3>2, <3>3 DEF ReadersLock, ReadSoFar
  <2> QED BY <1>3, <2>2, <2>3, RowsKept DEF ReadActive
<1>4. ASSUME NEW e \in Editors, Wake(e)
      PROVE  SettingsInvariant' /\ Active' = Active
  <2>1. edit[e].active \in Revisions /\ edit[e] \in Edit
    BY <1>1, <1>4 DEF Wake, ReadSoFar, SettingsTypeOK
  <2>2. SettingsTypeOK'
    BY <1>1, <1>4, <2>1 DEF Wake, SettingsTypeOK, Edit
  <2>3. ReadersLock' /\ ReadSoFar'
    <3>1. UNCHANGED ActiveRows
      BY <1>4 DEF Wake, ActiveRows
    <3>2. \A f \in Editors \ {e} : edit'[f] = edit[f] /\ (locked = f => locked' = f)
      BY <1>1, <1>4 DEF Wake, SettingsTypeOK
    <3>3. /\ edit'[e].pc = "read"
          /\ \/ edit'[e].active = 0
             \/ edit'[e].active = edit[e].active /\ edit[e].active \in ActiveRows /\ locked' = e
      BY <1>1, <1>4, <2>1 DEF Wake, SettingsTypeOK, Edit, ActiveRows
    <3> QED BY <1>1, <3>1, <3>2, <3>3 DEF ReadersLock, ReadSoFar
  <2> QED BY <1>4, <2>2, <2>3, RowsKept DEF Wake
<1>5. ASSUME NEW e \in Editors, Reject(e)
      PROVE  SettingsInvariant' /\ Active' = Active
  <2>1. Finished(e) /\ UNCHANGED rows /\ UNCHANGED ActiveRows
    BY <1>5 DEF Reject, ActiveRows
  <2>2. SettingsTypeOK'
    BY <1>1, <2>1, FinishedEffect DEF SettingsTypeOK
  <2>3. ReadersLock' /\ ReadSoFar'
    BY <1>1, <2>1, FinishedEffect DEF ReadersLock, ReadSoFar, Rest
  <2> QED BY <2>1, <2>2, <2>3, RowsKept
<1>6. ASSUME NEW e \in Editors, CreateDraft(e)
      PROVE  SettingsInvariant' /\ Active' = Active
  <2> DEFINE n == Maximum + 1
             q == [state |-> "draft", base |-> edit[e].expected]
  <2>1. /\ n \in Revisions /\ n \notin Used /\ Used = 1 .. Maximum
        /\ Maximum \in 0 .. MaxRevisions
    BY <1>6, NextNumber DEF CreateDraft
  <2>2. q \in SettingsRow /\ q.state = "draft"
    BY <1>1 DEF SettingsTypeOK, SettingsRow, Edit
  <2>3. rows' = [rows EXCEPT ![n] = q] /\ Finished(e)
    BY <1>6 DEF CreateDraft
  <2> HIDE DEF q
  <2>4. SettingsTypeOK'
    BY <1>1, <2>1, <2>2, <2>3, FinishedEffect DEF SettingsTypeOK
  <2>5. Used' = 1 .. n /\ n \in 0 .. MaxRevisions
    <3>1. Used' = Used \cup {n}
      BY <1>1, <2>1, <2>2, <2>3 DEF Used, SettingsTypeOK
    <3> QED BY <2>1, <3>1 DEF Revisions
  <2>6. ActiveRows' = ActiveRows
    <3>1. rows[n].state # "active"
      BY <2>1 DEF Used
    <3> QED BY <1>1, <2>1, <2>2, <2>3, <3>1 DEF ActiveRows, SettingsTypeOK
  <2>7. ReadersLock' /\ ReadSoFar'
    BY <1>1, <2>3, <2>6, FinishedEffect DEF ReadersLock, ReadSoFar, Rest
  <2> HIDE DEF n
  <2> QED BY <1>1, <2>4, <2>5, <2>6, <2>7 DEF SettingsInvariant, Numbered, OneActive, Active
<1>7. ASSUME NEW e \in Editors, Activate(e)
      PROVE  SettingsInvariant' /\ rows'[Active'].base = Active
  <2> DEFINE n == edit[e].target
             old == edit[e].active
  <2>1. n \in Revisions /\ old \in 0 .. MaxRevisions
    BY <1>1, <1>7 DEF Activate, SettingsTypeOK, Edit
  <2>2. /\ edit[e].pc = "read" /\ rows[n].state = "draft" /\ rows[n].base = old /\ ~ActiveTaken(old)
        /\ rows' = [Supersede(old) EXCEPT ![n].state = "active"] /\ Finished(e)
    BY <1>7 DEF Activate
  <2>3. old # 0 => old \in Revisions /\ rows[old].state = "active"
    BY <1>1, <2>2 DEF ReadersLock, ActiveRows
  <2> HIDE DEF n, old
  <2>4. /\ Supersede(old) \in [Revisions -> SettingsRow]
        /\ old # 0 => Supersede(old)[old].state = "superseded"
        /\ \A k \in Revisions \ {old} : Supersede(old)[k] = rows[k]
    BY <1>1, <2>3 DEF Supersede, SettingsTypeOK, SettingsRow
  <2>5. n # old
    BY <2>2, <2>3, <2>1 DEF Revisions
  <2>6. /\ rows' \in [Revisions -> SettingsRow]
        /\ rows'[n].state = "active" /\ rows'[n].base = old
        /\ \A k \in Revisions \ {n} : rows'[k] = Supersede(old)[k]
    BY <2>1, <2>2, <2>4, <2>5 DEF SettingsRow
  <2>7. Used' = Used \cup {n} /\ Used' = Used
    BY <2>1, <2>2, <2>3, <2>4, <2>6 DEF Used, Revisions
  <2>8. Numbered'
    BY <1>1, <2>7 DEF Numbered
  <2>9. old # 0 => rows'[old].state = "superseded"
    BY <2>3, <2>4, <2>5, <2>6
  <2>10. \A k \in Revisions \ {n, old} : rows'[k] = rows[k]
    BY <2>4, <2>6
  <2>11. old = edit[e].active
    BY DEF old
  <2>12. Used' = Used \cup {n} /\ Finished(e) /\ edit[e].pc = "read" /\ ~ActiveTaken(old)
    BY <2>2, <2>7
  <2> QED BY <2>1, <2>5, <2>6, <2>8, <2>9, <2>10, <2>11, <2>12, RowActivated
<1>8. ASSUME NEW e \in Editors, Rollback(e)
      PROVE  SettingsInvariant' /\ rows'[Active'].base = Active
  <2> DEFINE n == Maximum + 1
             old == edit[e].active
             q == [state |-> "active", base |-> old]
  <2>1. /\ n \in Revisions /\ n \notin Used /\ Used = 1 .. Maximum
        /\ Maximum \in 0 .. MaxRevisions
    BY <1>8, NextNumber DEF Rollback
  <2>2. /\ edit[e].pc = "read" /\ old # 0 /\ ~ActiveTaken(old)
        /\ rows' = [Supersede(old) EXCEPT ![n] = q] /\ Finished(e)
    BY <1>8 DEF Rollback
  <2>3. old \in Revisions /\ rows[old].state = "active"
    BY <1>1, <2>2 DEF ReadersLock, ActiveRows
  <2>4. q \in SettingsRow /\ q.state = "active" /\ q.base = old
    BY <2>3 DEF SettingsRow, Revisions
  <2> HIDE DEF old, q
  <2>5. /\ Supersede(old) \in [Revisions -> SettingsRow]
        /\ Supersede(old)[old].state = "superseded"
        /\ \A k \in Revisions \ {old} : Supersede(old)[k] = rows[k]
    BY <1>1, <2>2, <2>3 DEF Supersede, SettingsTypeOK, SettingsRow
  <2>6. n # old
    BY <2>1, <2>3 DEF Used
  <2>7. /\ rows' \in [Revisions -> SettingsRow] /\ rows'[n] = q
        /\ \A k \in Revisions \ {n} : rows'[k] = Supersede(old)[k]
    BY <2>1, <2>2, <2>4, <2>5
  <2>8. Used' = Used \cup {n}
    BY <2>1, <2>3, <2>4, <2>5, <2>6, <2>7 DEF Used
  <2>9. Numbered'
    <3>1. Used' = 1 .. n /\ n \in 0 .. MaxRevisions
      BY <2>1, <2>8 DEF Revisions
    <3> QED BY <3>1 DEF Numbered
  <2> HIDE DEF n
  <2> QED BY <2>1, <2>2, <2>4, <2>5, <2>6, <2>7, <2>8, <2>9, RowActivated DEF old
<1>9. CASE UNCHANGED settingsVars
  <2>1. ActiveRows' = ActiveRows /\ UNCHANGED rows /\ Active' = Active
    BY <1>9 DEF settingsVars, ActiveRows, Active
  <2>2. SettingsTypeOK' /\ ReadersLock' /\ ReadSoFar'
    BY <1>1, <1>9, <2>1 DEF settingsVars, SettingsTypeOK, ReadersLock, ReadSoFar
  <2> QED BY <2>1, <2>2, RowsKept
<1>10. ASSUME NEW e \in Editors, NEW x \in 0 .. MaxRevisions,
              \/ create_runtime_settings_draft(e, x)
              \/ \E n \in Revisions : \/ activate_runtime_settings_draft(e, x, n)
                                     \/ rollback_runtime_settings(e, x, n)
       PROVE  SettingsInvariant' /\ Active' = Active
  BY <1>2, <1>10 DEF create_runtime_settings_draft, activate_runtime_settings_draft,
                     rollback_runtime_settings
<1> QED BY <1>3, <1>4, <1>5, <1>6, <1>7, <1>8, <1>9, <1>10 DEF SettingsNext

\* Whatever administrators do at once, a revision that becomes active was
\* written against exactly the one it replaces.
THEOREM SettingsNoLostUpdate == SettingsSpec => NoLostUpdate
<1>1. SettingsInit => SettingsInvariant
  <2> SUFFICES ASSUME SettingsInit PROVE SettingsInvariant
    OBVIOUS
  <2>1. Used = 1 .. 0 /\ ActiveRows = {}
    BY DEF SettingsInit, Used, ActiveRows, Unused
  <2>2. SettingsTypeOK
    BY SettingsAssumption DEF SettingsInit, SettingsTypeOK, SettingsRow, Edit, Unused, Rest
  <2> QED BY <2>1, <2>2, SettingsAssumption
          DEF SettingsInit, Rest, SettingsInvariant, Numbered, OneActive, ReadersLock, ReadSoFar
<1>2. SettingsInvariant /\ [SettingsNext]_settingsVars =>
        SettingsInvariant' /\ [Active' # Active => rows'[Active'].base = Active]_settingsVars
  BY SettingsStep
<1> QED BY <1>1, <1>2, PTL DEF SettingsSpec, NoLostUpdate

-----------------------------------------------------------------------------
(* Spaces and keys.                                                         *)

AccessTypeOK == /\ role \in [Spaces -> [Users -> SpaceRoles \cup GroupRoles]]
                /\ key \in [Keys -> KeyRow]
                /\ call \in [Callers -> Principal \cup {Idle}]
                /\ \A k \in Keys : key[k].status # "absent" => key[k].user \in Users

\* What acts through a key has no more grants than the key.
Narrower(g, h) == h # Anywhere => g # Anywhere /\ g \subseteq h

\* A key outlives what was derived from it, its row stays, and what a request
\* was given when it was authenticated is within what its key was given.
Derived ==
  /\ \A k \in Keys : /\ key[k].parent # NoOne => key[key[k].parent].status # "absent"
                     /\ key[k].parent # NoOne => Narrower(key[k].grants, key[key[k].parent].grants)
  /\ \A q \in Callers : call[q] # Idle /\ call[q].via # NoOne =>
       key[call[q].via].status # "absent" /\ Narrower(call[q].grants, key[call[q].via].grants)

AccessInvariant == AccessTypeOK /\ Derived

LEMMA PrincipalIsNotIdle == \A p \in Principal : p # Idle
  BY AccessAssumption DEF Principal, Idle

LEMMA AccessTypes ==
  ASSUME AccessTypeOK
  PROVE  /\ \A k \in Keys : /\ key[k] \in KeyRow /\ key[k].parent \in Keys \cup {NoOne}
                            /\ key[k].grants \in Grants
         /\ \A q \in Callers : /\ call[q] # Idle => call[q] \in Principal
                               /\ call[q] # Idle => /\ call[q].user \in Users /\ call[q].grants \in Grants
                                                    /\ call[q].via \in Keys \cup {NoOne}
         /\ \A s \in Spaces, u \in Users : role[s][u] \in SpaceRoles \cup GroupRoles
  BY DEF AccessTypeOK, KeyRow, Principal

\* Keys keep what they were created with, requests end or go on as they began.
LEMMA AccessKept ==
  ASSUME AccessInvariant, AccessTypeOK',
         \A k \in Keys : /\ key'[k].grants = key[k].grants /\ key'[k].parent = key[k].parent
                         /\ key'[k].status = "absent" <=> key[k].status = "absent",
         \A q \in Callers : \/ call'[q] = Idle
                            \/ /\ call[q] # Idle /\ call'[q].via = call[q].via
                               /\ call'[q].grants = call[q].grants
  PROVE  AccessInvariant'
<1>1. AccessTypeOK /\ Derived
  BY DEF AccessInvariant
<1>2. ASSUME NEW k \in Keys, key'[k].parent # NoOne
      PROVE  key'[key'[k].parent].status # "absent" /\ Narrower(key'[k].grants, key'[key'[k].parent].grants)
  <2>1. key[k].parent \in Keys /\ key'[k].parent = key[k].parent
    BY <1>1, <1>2, AccessTypes
  <2>2. key[key[k].parent].status # "absent" /\ Narrower(key[k].grants, key[key[k].parent].grants)
    BY <1>1, <1>2, <2>1 DEF Derived
  <2> QED BY <2>1, <2>2
<1>3. ASSUME NEW q \in Callers, call'[q] # Idle, call'[q].via # NoOne
      PROVE  key'[call'[q].via].status # "absent" /\ Narrower(call'[q].grants, key'[call'[q].via].grants)
  <2>1. call[q] # Idle /\ call[q].via # NoOne /\ call'[q].via = call[q].via /\ call'[q].grants = call[q].grants
    BY <1>3
  <2>2. call[q].via \in Keys
    BY <1>1, <2>1, AccessTypes
  <2>3. key[call[q].via].status # "absent" /\ Narrower(call[q].grants, key[call[q].via].grants)
    BY <1>1, <2>1 DEF Derived
  <2> QED BY <2>1, <2>2, <2>3
<1>4. Derived'
  BY <1>2, <1>3 DEF Derived, Narrower
<1> QED BY <1>4 DEF AccessInvariant

\* A request that ends, of which nothing else stays.
LEMMA DoneCalls ==
  ASSUME AccessTypeOK, NEW q \in Callers, Done(q)
  PROVE  call' \in [Callers -> Principal \cup {Idle}] /\ \A c \in Callers : call'[c] = Idle \/ call'[c] = call[c]
  BY DEF AccessTypeOK, Done

LEMMA BumpCalls ==
  ASSUME AccessTypeOK, NEW q \in Callers, NEW s \in Spaces, Bump(q, s)
  PROVE  /\ call' \in [Callers -> Principal \cup {Idle}]
         /\ \A c \in Callers : \/ call'[c] = Idle
                               \/ /\ call[c] # Idle /\ call'[c].via = call[c].via
                                  /\ call'[c].grants = call[c].grants
<1>1. ASSUME NEW c \in Callers
      PROVE  /\ call'[c] \in Principal \cup {Idle}
             /\ \/ call'[c] = Idle
                \/ /\ call[c] # Idle /\ call'[c].via = call[c].via
                   /\ call'[c].grants = call[c].grants
  <2> DEFINE p == [call[c] EXCEPT !.fresh = @ \ {s}]
  <2>1. CASE call'[c] = Idle
    BY <2>1
  <2>2. CASE call'[c] # Idle
    <3>1. call[c] # Idle /\ call'[c] = p
      BY <2>2 DEF Bump
    <3>2. call[c] \in Principal
      BY <3>1, AccessTypes
    <3>3. p \in Principal /\ p.via = call[c].via /\ p.grants = call[c].grants
      BY <3>2 DEF Principal
    <3> HIDE DEF p
    <3> QED BY <3>1, <3>3
  <2> QED BY <2>1, <2>2
<1>2. call' = [c \in Callers |-> call'[c]]
  BY DEF Bump
<1> QED BY <1>1, <1>2

\* A step with spaces leaves the keys alone, and changes the requests by Done or Bump.
LEMMA SpaceStepParts ==
  ASSUME NEW q \in Callers, SpaceStep(q)
  PROVE  UNCHANGED key /\ (Done(q) \/ \E s \in Spaces : Bump(q, s))
<1>1. CASE Finish(q)
  BY <1>1 DEF Finish
<1>2. ASSUME NEW s \in Spaces, create_space(q, s) \/ archive_space(q, s) \/ update_space_chunk_policy(q, s)
      PROVE  UNCHANGED key /\ (Done(q) \/ Bump(q, s))
  BY <1>2 DEF create_space, CreateSpace, archive_space, ArchiveSpace, update_space_chunk_policy, UpdateChunkPolicy
<1>3. ASSUME NEW s \in Spaces, NEW u \in Users,
             \/ \E to \in SpaceRoles \ {"none", "owner"} : set_space_membership(q, s, u, to)
             \/ remove_space_membership(q, s, u)
      PROVE  UNCHANGED key /\ (Done(q) \/ Bump(q, s))
  BY <1>3 DEF set_space_membership, remove_space_membership, SetMembership
<1>4. ASSUME NEW s \in Spaces, NEW u \in Users,
             transfer_space_ownership(q, s, u) \/ emergency_transfer_space_ownership(q, s, u)
      PROVE  UNCHANGED key /\ (Done(q) \/ Bump(q, s))
  BY <1>4 DEF transfer_space_ownership, emergency_transfer_space_ownership, TransferOwnership
<1> QED BY <1>1, <1>2, <1>3, <1>4 DEF SpaceStep

LEMMA SpaceStepKeeps ==
  ASSUME AccessInvariant, NEW q \in Callers, SpaceStep(q)
  PROVE  AccessInvariant'
<1>1. AccessTypeOK
  BY DEF AccessInvariant
<1>2. UNCHANGED key
  BY SpaceStepParts
<1>3. \/ Done(q)
      \/ \E s \in Spaces : Bump(q, s)
  BY SpaceStepParts
<1>4. role' \in [Spaces -> [Users -> SpaceRoles \cup GroupRoles]]
  <2>1. role \in [Spaces -> [Users -> SpaceRoles \cup GroupRoles]] /\ {"owner", "editor", "none"} \subseteq SpaceRoles
    BY <1>1 DEF AccessTypeOK, SpaceRoles
  <2>2. CASE UNCHANGED role
    BY <2>1, <2>2
  <2>3. ASSUME NEW s \in Spaces, CreateSpace(q, s), call[q] # Idle
        PROVE  role' \in [Spaces -> [Users -> SpaceRoles \cup GroupRoles]]
    <3>1. call[q].user \in Users
      BY <1>1, <2>3, AccessTypes
    <3> QED BY <2>1, <2>3, <3>1 DEF CreateSpace
  <2>4. ASSUME NEW s \in Spaces, NEW u \in Users, NEW to \in SpaceRoles, SetMembership(q, s, u, to)
        PROVE  role' \in [Spaces -> [Users -> SpaceRoles \cup GroupRoles]]
    BY <2>1, <2>4 DEF SetMembership
  <2>5. ASSUME NEW s \in Spaces, NEW u \in Users, NEW emergency \in BOOLEAN, TransferOwnership(q, s, u, emergency)
        PROVE  role' \in [Spaces -> [Users -> SpaceRoles \cup GroupRoles]]
    BY <2>1, <2>5 DEF TransferOwnership
  <2>6. /\ Finish(q) => UNCHANGED role
        /\ \A s \in Spaces : ArchiveSpace(q, s) \/ UpdateChunkPolicy(q, s) => UNCHANGED role
    BY DEF ArchiveSpace, UpdateChunkPolicy, Finish
  <2>7. ASSUME NEW s \in Spaces,
               create_space(q, s) \/ archive_space(q, s) \/ update_space_chunk_policy(q, s)
        PROVE  role' \in [Spaces -> [Users -> SpaceRoles \cup GroupRoles]]
    BY <2>2, <2>3, <2>6, <2>7 DEF create_space, archive_space, update_space_chunk_policy, Admit
  <2>8. ASSUME NEW s \in Spaces, NEW u \in Users,
               \/ \E to \in SpaceRoles \ {"none", "owner"} : set_space_membership(q, s, u, to)
               \/ remove_space_membership(q, s, u)
        PROVE  role' \in [Spaces -> [Users -> SpaceRoles \cup GroupRoles]]
    BY <2>1, <2>4, <2>8 DEF set_space_membership, remove_space_membership
  <2>9. ASSUME NEW s \in Spaces, NEW u \in Users,
               transfer_space_ownership(q, s, u) \/ emergency_transfer_space_ownership(q, s, u)
        PROVE  role' \in [Spaces -> [Users -> SpaceRoles \cup GroupRoles]]
    BY <2>5, <2>9 DEF transfer_space_ownership, emergency_transfer_space_ownership
  <2> QED BY <2>2, <2>6, <2>7, <2>8, <2>9 DEF SpaceStep
<1>5. /\ call' \in [Callers -> Principal \cup {Idle}]
      /\ \A c \in Callers : \/ call'[c] = Idle
                            \/ /\ call[c] # Idle /\ call'[c].via = call[c].via
                               /\ call'[c].grants = call[c].grants
  BY <1>1, <1>3, DoneCalls, BumpCalls
<1>6. AccessTypeOK'
  BY <1>1, <1>2, <1>4, <1>5 DEF AccessTypeOK
<1> QED BY <1>2, <1>5, <1>6, AccessKept

\* A key is created in a place that was free, within the grants of its parent.
LEMMA NewKeyKeeps ==
  ASSUME AccessInvariant, NEW q \in Callers, call[q] # Idle, NEW k \in Keys, NEW r \in KeyRow,
         key[k].status = "absent", r.status = "active", r.user \in Users,
         key' = [key EXCEPT ![k] = r], Done(q), UNCHANGED role,
         r.parent # NoOne => r.parent = call[q].via /\ Narrower(r.grants, call[q].grants)
  PROVE  AccessInvariant'
<1>1. AccessTypeOK /\ Derived
  BY DEF AccessInvariant
<1>2. /\ call' \in [Callers -> Principal \cup {Idle}]
      /\ \A c \in Callers : call'[c] = Idle \/ call'[c] = call[c]
  BY <1>1, DoneCalls
<1>3. key' \in [Keys -> KeyRow] /\ key'[k] = r /\ \A l \in Keys \ {k} : key'[l] = key[l]
  BY <1>1 DEF AccessTypeOK
<1>4. AccessTypeOK'
  BY <1>1, <1>2, <1>3 DEF AccessTypeOK
<1>5. ASSUME NEW l \in Keys, key'[l].parent # NoOne
      PROVE  key'[key'[l].parent].status # "absent" /\ Narrower(key'[l].grants, key'[key'[l].parent].grants)
  <2>1. CASE l = k
    <3>1. r.parent \in Keys /\ r.parent = call[q].via /\ call[q].via # NoOne
      BY <1>3, <1>5, <2>1 DEF KeyRow
    <3>2. key[r.parent].status # "absent" /\ Narrower(call[q].grants, key[r.parent].grants)
      BY <1>1, <3>1 DEF Derived
    <3>3. r.parent # k /\ key'[r.parent] = key[r.parent]
      BY <1>3, <3>1, <3>2
    <3>4. Narrower(r.grants, call[q].grants)
      BY <1>3, <1>5, <2>1
    <3> QED BY <1>3, <2>1, <3>2, <3>3, <3>4 DEF Narrower
  <2>2. CASE l # k
    <3>1. key'[l] = key[l] /\ key[l].parent \in Keys
      BY <1>1, <1>3, <1>5, <2>2, AccessTypes
    <3>2. key[key[l].parent].status # "absent" /\ Narrower(key[l].grants, key[key[l].parent].grants)
      BY <1>1, <1>5, <3>1 DEF Derived
    <3>3. key[l].parent # k
      BY <3>2
    <3> QED BY <1>3, <3>1, <3>2, <3>3
  <2> QED BY <2>1, <2>2
<1>6. ASSUME NEW c \in Callers, call'[c] # Idle, call'[c].via # NoOne
      PROVE  key'[call'[c].via].status # "absent" /\ Narrower(call'[c].grants, key'[call'[c].via].grants)
  <2>1. call'[c] = call[c] /\ call[c].via \in Keys
    BY <1>1, <1>2, <1>6, AccessTypes
  <2>2. key[call[c].via].status # "absent" /\ Narrower(call[c].grants, key[call[c].via].grants)
    BY <1>1, <1>6, <2>1 DEF Derived
  <2> QED BY <1>3, <2>1, <2>2
<1>7. Derived'
  BY <1>5, <1>6 DEF Derived, Narrower
<1> QED BY <1>4, <1>7 DEF AccessInvariant

LEMMA ServiceScopes == \A f \in ProfileChoices : ProfileScopes[f] \in ScopeSets
  BY DEF ScopeSets

LEMMA KeyStepKeeps ==
  ASSUME AccessInvariant, NEW q \in Callers, KeyStep(q)
  PROVE  AccessInvariant'
<1>1. AccessTypeOK /\ Derived
  BY DEF AccessInvariant
<1>2. ASSUME NEW k \in Keys, ResolveKey(q, k) PROVE AccessInvariant'
  <2> DEFINE p == [user |-> key[k].user, kind |-> IF key[k].service THEN "service" ELSE "api_key",
                   scopes |-> key[k].scopes, grants |-> LiveGrants(k),
                   profile |-> key[k].profile, via |-> k, fresh |-> Spaces]
  <2>1. key[k] \in KeyRow /\ key[k].user \in Users /\ key[k].status = "active" /\ UNCHANGED <<role, key>>
    BY <1>1, <1>2 DEF AccessTypeOK, ResolveKey
  <2>2. LiveGrants(k) \in Grants /\ Narrower(LiveGrants(k), key[k].grants)
    BY <2>1, AccessAssumption DEF LiveGrants, Grants, Narrower, KeyRow
  <2>3. p \in Principal
    BY <2>1, <2>2 DEF KeyRow, Principal
  <2>4. call' = [call EXCEPT ![q] = p] /\ p.via = k /\ p.grants = LiveGrants(k)
    BY <1>2 DEF ResolveKey
  <2> HIDE DEF p
  <2>5. AccessTypeOK'
    BY <1>1, <2>1, <2>3, <2>4 DEF AccessTypeOK
  <2>6. ASSUME NEW c \in Callers, call'[c] # Idle, call'[c].via # NoOne
        PROVE  key'[call'[c].via].status # "absent" /\ Narrower(call'[c].grants, key'[call'[c].via].grants)
    <3>1. CASE c = q
      <4>1. call'[c].via = k /\ call'[c].grants = LiveGrants(k)
        BY <1>1, <2>4, <3>1 DEF AccessTypeOK
      <4> QED BY <2>1, <2>2, <4>1
    <3>2. CASE c # q
      <4>1. call'[c] = call[c]
        BY <1>1, <2>4, <3>2 DEF AccessTypeOK
      <4> QED BY <1>1, <2>1, <2>6, <4>1 DEF Derived
    <3> QED BY <3>1, <3>2
  <2>7. Derived'
    BY <1>1, <2>1, <2>6 DEF Derived, Narrower
  <2> QED BY <2>5, <2>7 DEF AccessInvariant
<1>3. ASSUME NEW k \in Keys, revoke_api_key(q, k) PROVE AccessInvariant'
  <2> DEFINE r == [key[k] EXCEPT !.status = "revoked"]
  <2>1. key[k] \in KeyRow /\ key[k].status # "absent" /\ key' = [key EXCEPT ![k] = r]
        /\ Done(q) /\ UNCHANGED role
    BY <1>1, <1>3, AccessTypes DEF revoke_api_key, RevokeKey
  <2>2. r \in KeyRow /\ r.status = "revoked" /\ r.grants = key[k].grants /\ r.parent = key[k].parent
        /\ r.user = key[k].user
    BY <2>1 DEF KeyRow
  <2> HIDE DEF r
  <2>3. /\ call' \in [Callers -> Principal \cup {Idle}]
        /\ \A c \in Callers : call'[c] = Idle \/ call'[c] = call[c]
    BY <1>1, <2>1, DoneCalls
  <2>4. AccessTypeOK'
    BY <1>1, <2>1, <2>2, <2>3 DEF AccessTypeOK
  <2>5. \A l \in Keys : /\ key'[l].grants = key[l].grants /\ key'[l].parent = key[l].parent
                        /\ key'[l].status = "absent" <=> key[l].status = "absent"
    BY <1>1, <2>1, <2>2 DEF AccessTypeOK
  <2> QED BY <2>3, <2>4, <2>5, AccessKept
<1>4. ASSUME NEW k \in Keys, NEW g \in SUBSET Spaces, NEW scopes \in ScopeChoices,
             NEW f \in ProfileChoices \cup {NoOne},
             create_api_key(q, k, scopes, IF g = {} THEN Anywhere ELSE g, f)
      PROVE  AccessInvariant'
  <2> DEFINE h == IF g = {} THEN Anywhere ELSE g
             r == [status |-> "active", user |-> call[q].user, scopes |-> scopes, grants |-> h,
                   service |-> FALSE, profile |-> f, parent |-> NoOne]
  <2>1. /\ call[q] # Idle /\ key[k].status = "absent" /\ Done(q) /\ UNCHANGED role
        /\ key' = [key EXCEPT ![k] = r]
    BY <1>4 DEF create_api_key, CreateKey, Admit
  <2>2. call[q].user \in Users
    BY <1>1, <2>1, AccessTypes
  <2>3. h \in Grants /\ scopes \in ScopeSets
    BY DEF Grants, ScopeSets
  <2>4. r \in KeyRow /\ r.status = "active" /\ r.user \in Users /\ r.parent = NoOne
    BY <2>2, <2>3 DEF KeyRow
  <2> HIDE DEF r
  <2> QED BY <2>1, <2>4, NewKeyKeeps
<1>5. ASSUME NEW k \in Keys, NEW g \in SUBSET Spaces, NEW f \in ProfileChoices, create_service_key(q, k, g, f)
      PROVE  AccessInvariant'
  <2> DEFINE r == [status |-> "active", user |-> call[q].user, scopes |-> ProfileScopes[f], grants |-> g,
                   service |-> TRUE, profile |-> f, parent |-> call[q].via]
  <2>1. /\ call[q] # Idle /\ key[k].status = "absent" /\ Done(q) /\ UNCHANGED role
        /\ key' = [key EXCEPT ![k] = r]
        /\ call[q].grants # Anywhere => g \subseteq call[q].grants
    BY <1>5 DEF create_service_key, CreateServiceKey, Admit
  <2>2. call[q].user \in Users /\ call[q].via \in Keys \cup {NoOne}
    BY <1>1, <2>1, AccessTypes
  <2>3. g # Anywhere /\ g \in Grants
    BY AccessAssumption DEF Grants
  <2>4. r \in KeyRow /\ r.status = "active" /\ r.user \in Users /\ r.parent = call[q].via /\ r.grants = g
    BY <2>2, <2>3, ServiceScopes DEF KeyRow
  <2>5. Narrower(r.grants, call[q].grants)
    BY <2>1, <2>3, <2>4 DEF Narrower
  <2> HIDE DEF r
  <2> QED BY <2>1, <2>4, <2>5, NewKeyKeeps
<1> QED BY <1>2, <1>3, <1>4, <1>5 DEF KeyStep

LEMMA OutsideKeeps ==
  ASSUME AccessInvariant,
         \/ \E q \in Callers, u \in Users : ResolveSession(q, u)
         \/ \E k \in Keys : ExpireKey(k)
         \/ \E u \in Users : SetStatus(u) \/ Provision(u)
         \/ UNCHANGED accessVars
  PROVE  AccessInvariant'
<1>1. AccessTypeOK /\ Derived
  BY DEF AccessInvariant
<1>2. ASSUME NEW q \in Callers, NEW u \in Users, ResolveSession(q, u) PROVE AccessInvariant'
  <2> DEFINE p == [user |-> u, kind |-> "session", scopes |-> {"*"}, grants |-> Anywhere,
                   profile |-> NoOne, via |-> NoOne, fresh |-> Spaces]
  <2>1. call' = [call EXCEPT ![q] = p] /\ UNCHANGED <<role, key>>
    BY <1>2 DEF ResolveSession
  <2>2. p \in Principal /\ p.via = NoOne
    BY DEF Principal, Grants, ScopeSets
  <2> HIDE DEF p
  <2>3. AccessTypeOK'
    BY <1>1, <2>1, <2>2 DEF AccessTypeOK
  <2>4. \A c \in Callers : call'[c].via # NoOne => call'[c] = call[c]
    BY <1>1, <2>1, <2>2 DEF AccessTypeOK
  <2>5. Derived'
    BY <1>1, <2>1, <2>4 DEF Derived, Narrower
  <2> QED BY <2>3, <2>5 DEF AccessInvariant
<1>3. ASSUME key' \in [Keys -> KeyRow], call' = call, role' = role,
             \A k \in Keys : /\ key'[k].grants = key[k].grants /\ key'[k].parent = key[k].parent
                             /\ key'[k].user = key[k].user
                             /\ key'[k].status = "absent" <=> key[k].status = "absent"
      PROVE  AccessInvariant'
  <2>1. AccessTypeOK'
    BY <1>1, <1>3 DEF AccessTypeOK
  <2>2. \A c \in Callers : call'[c] = Idle \/ call[c] # Idle
    BY <1>3
  <2> QED BY <1>3, <2>1, <2>2, AccessKept
<1>4. ASSUME NEW k \in Keys, ExpireKey(k) PROVE AccessInvariant'
  <2> DEFINE r == [key[k] EXCEPT !.status = "expired"]
  <2>1. key[k] \in KeyRow /\ key[k].status = "active" /\ key' = [key EXCEPT ![k] = r] /\ UNCHANGED <<role, call>>
    BY <1>1, <1>4, AccessTypes DEF ExpireKey
  <2>2. r \in KeyRow /\ r.status = "expired" /\ r.grants = key[k].grants /\ r.parent = key[k].parent
        /\ r.user = key[k].user
    BY <2>1 DEF KeyRow
  <2> HIDE DEF r
  <2>3. \A l \in Keys : /\ key'[l].grants = key[l].grants /\ key'[l].parent = key[l].parent
                        /\ key'[l].user = key[l].user
                        /\ key'[l].status = "absent" <=> key[l].status = "absent"
    BY <1>1, <2>1, <2>2 DEF AccessTypeOK
  <2>4. key' \in [Keys -> KeyRow]
    BY <1>1, <2>1, <2>2 DEF AccessTypeOK
  <2> QED BY <1>3, <2>1, <2>3, <2>4
<1>5. ASSUME NEW u \in Users, SetStatus(u) PROVE AccessInvariant'
  <2>1. ASSUME NEW k \in Keys
        PROVE  /\ key'[k] \in KeyRow
               /\ key'[k].grants = key[k].grants /\ key'[k].parent = key[k].parent
               /\ key'[k].user = key[k].user
               /\ key'[k].status = "absent" <=> key[k].status = "absent"
    <3> DEFINE r == [key[k] EXCEPT !.status = "revoked"]
    <3>1. key[k] \in KeyRow /\ (key'[k] = key[k] \/ (key[k].status = "active" /\ key'[k] = r))
      BY <1>1, <1>5, AccessTypes DEF SetStatus
    <3>2. r \in KeyRow /\ r.status = "revoked" /\ r.grants = key[k].grants /\ r.parent = key[k].parent
          /\ r.user = key[k].user
      BY <3>1 DEF KeyRow
    <3> HIDE DEF r
    <3> QED BY <3>1, <3>2
  <2>2. key' = [k \in Keys |-> key'[k]] /\ UNCHANGED <<role, call>>
    BY <1>5 DEF SetStatus
  <2>3. key' \in [Keys -> KeyRow]
    BY <2>1, <2>2
  <2> QED BY <1>3, <2>1, <2>2, <2>3
<1>6. ASSUME NEW u \in Users, Provision(u) PROVE AccessInvariant'
  <2>1. PICK r \in [Spaces -> GroupRoles \cup {"none"}] : ProviderLogin(u, r)
    BY <1>6 DEF Provision
  <2>2. /\ role' = [s \in Spaces |-> [role[s] EXCEPT ![u] = r[s]]]
        /\ UNCHANGED <<key, call>> /\ "none" \in SpaceRoles
    BY <2>1 DEF ProviderLogin, SpaceRoles
  <2>3. role' \in [Spaces -> [Users -> SpaceRoles \cup GroupRoles]]
    BY <1>1, <2>2 DEF AccessTypeOK
  <2>4. AccessTypeOK'
    BY <1>1, <2>2, <2>3 DEF AccessTypeOK
  <2>5. \A c \in Callers : call'[c] = Idle \/ call[c] # Idle
    BY <2>2
  <2> QED BY <2>2, <2>4, <2>5, AccessKept
<1>7. CASE UNCHANGED accessVars
  <2>1. key' = key /\ call' = call /\ role' = role
    BY <1>7 DEF accessVars
  <2>2. key' \in [Keys -> KeyRow]
    BY <1>1, <2>1 DEF AccessTypeOK
  <2> QED BY <1>3, <2>1, <2>2
<1> QED BY <1>2, <1>4, <1>5, <1>6, <1>7

LEMMA AccessStart == AccessInit => AccessInvariant
<1> SUFFICES ASSUME AccessInit PROVE AccessInvariant
  OBVIOUS
<1>1. NoKey \in KeyRow /\ NoKey.status = "absent" /\ NoKey.parent = NoOne
  BY DEF NoKey, KeyRow, Grants, ScopeSets
<1>2. /\ key \in [Keys -> KeyRow] /\ call \in [Callers -> Principal \cup {Idle}]
      /\ \A k \in Keys : key[k] = NoKey
      /\ \A q \in Callers : call[q] = Idle
  BY <1>1 DEF AccessInit
<1>3. role \in [Spaces -> [Users -> SpaceRoles \cup GroupRoles]]
  BY DEF AccessInit, SpaceRoles
<1> QED BY <1>1, <1>2, <1>3 DEF AccessInvariant, AccessTypeOK, Derived

LEMMA AccessStepKeeps == AccessInvariant /\ [AccessNext]_accessVars => AccessInvariant'
  BY SpaceStepKeeps, KeyStepKeeps, OutsideKeeps DEF AccessNext

\* A service key never reaches beyond the key it was created with, through any
\* number of keys, membership changes, revocations and overlapping requests.
THEOREM AccessDelegationNarrows == AccessSpec => []DelegationNarrows
<1>1. AccessInvariant => DelegationNarrows
  BY DEF AccessInvariant, Derived, Narrower, DelegationNarrows
<1> QED BY <1>1, AccessStart, AccessStepKeeps, PTL DEF AccessSpec

-----------------------------------------------------------------------------
(* Owners.                                                                  *)

LEMMA AnotherOwner ==
  ASSUME NEW S \in SUBSET Users, NEW u \in S, Cardinality(S) > 1
  PROVE  \E v \in S : v # u
<1> SUFFICES ASSUME \A v \in S : v = u PROVE FALSE
  OBVIOUS
<1>1. S = {u}
  OBVIOUS
<1>2. Cardinality({u}) = 1
  BY FS_Singleton
<1> QED BY <1>1, <1>2

LEMMA MembershipKeepsOwner ==
  ASSUME AccessTypeOK, NEW q \in Callers, NEW s \in Spaces, NEW u \in Users, NEW to, SetMembership(q, s, u, to)
  PROVE  \A t \in Spaces : Owners(t) # {} => Owners(t)' # {}
<1> SUFFICES ASSUME NEW t \in Spaces, Owners(t) # {} PROVE Owners(t)' # {}
  OBVIOUS
<1>1. /\ role' = [role EXCEPT ![s][u] = to] /\ KeepsOwner(s, u)
      /\ role \in [Spaces -> [Users -> SpaceRoles \cup GroupRoles]]
  BY DEF SetMembership, AccessTypeOK
<1>2. PICK v \in Users : role[t][v] = "owner" /\ (t = s => v # u)
  <2>1. PICK v \in Users : role[t][v] = "owner"
    BY DEF Owners
  <2>2. CASE t = s /\ v = u
    <3>1. Owners(s) \in SUBSET Users /\ u \in Owners(s) /\ Cardinality(Owners(s)) > 1
      BY <1>1, <2>1, <2>2 DEF Owners, KeepsOwner
    <3>2. \E x \in Owners(s) : x # u
      BY <3>1, AnotherOwner
    <3> QED BY <2>2, <3>2 DEF Owners
  <2> QED BY <2>1, <2>2
<1>3. role'[t][v] = "owner"
  BY <1>1, <1>2
<1> QED BY <1>3 DEF Owners

\* Whatever members and administrators ask for, with principals however old, a
\* space that has an owner keeps one.
THEOREM AccessOwnerKept == AccessSpec => OwnerKept
<1>1. ASSUME AccessInvariant, [AccessNext]_accessVars, ~(\E u \in Users : Provision(u)),
             NEW s \in Spaces, Owners(s) # {}
      PROVE  Owners(s)' # {}
  <2>1. AccessTypeOK /\ role \in [Spaces -> [Users -> SpaceRoles \cup GroupRoles]]
    BY <1>1 DEF AccessInvariant, AccessTypeOK
  <2>2. CASE UNCHANGED role
    BY <1>1, <2>2 DEF Owners
  <2>3. ASSUME NEW q \in Callers, NEW t \in Spaces, CreateSpace(q, t), call[q] # Idle PROVE Owners(s)' # {}
    <3>1. PICK v \in Users : role[s][v] = "owner"
      BY <1>1 DEF Owners
    <3>2. call[q].user \in Users
      BY <2>1, <2>3, AccessTypes
    <3>3. role'[s][v] = "owner"
      BY <2>1, <2>3, <3>1, <3>2 DEF CreateSpace
    <3> QED BY <3>3 DEF Owners
  <2>4. ASSUME NEW q \in Callers, NEW t \in Spaces, NEW u \in Users, NEW to, SetMembership(q, t, u, to)
        PROVE  Owners(s)' # {}
    BY <1>1, <2>1, <2>4, MembershipKeepsOwner
  <2>5. ASSUME NEW q \in Callers, NEW t \in Spaces, NEW u \in Users, NEW emergency, TransferOwnership(q, t, u, emergency)
        PROVE  Owners(s)' # {}
    <3>1. role' = [role EXCEPT ![t] = [v \in Users |-> IF v = u THEN "owner"
                                         ELSE IF @[v] = "owner" THEN "editor" ELSE @[v]]]
      BY <2>5 DEF TransferOwnership
    <3>2. CASE s = t
      <4>1. role'[s][u] = "owner"
        BY <2>1, <3>1, <3>2
      <4> QED BY <4>1 DEF Owners
    <3>3. CASE s # t
      <4>1. role'[s] = role[s]
        BY <2>1, <3>1, <3>3
      <4> QED BY <1>1, <4>1 DEF Owners
    <3> QED BY <3>2, <3>3
  <2>6. ASSUME NEW q \in Callers, SpaceStep(q) PROVE Owners(s)' # {}
    <3>1. \A t \in Spaces : ArchiveSpace(q, t) \/ UpdateChunkPolicy(q, t) \/ Finish(q) => UNCHANGED role
      BY DEF ArchiveSpace, UpdateChunkPolicy, Finish
    <3> QED BY <2>2, <2>3, <2>4, <2>5, <2>6, <3>1
            DEF SpaceStep, create_space, archive_space, update_space_chunk_policy, set_space_membership,
                remove_space_membership, transfer_space_ownership, emergency_transfer_space_ownership, Admit
  <2>7. ASSUME \/ \E q \in Callers : KeyStep(q) \/ \E u \in Users : ResolveSession(q, u)
               \/ \E k \in Keys : ExpireKey(k)
               \/ \E u \in Users : SetStatus(u)
               \/ UNCHANGED accessVars
        PROVE  UNCHANGED role
    BY <2>7 DEF KeyStep, ResolveKey, revoke_api_key, RevokeKey, create_api_key, CreateKey, create_service_key,
                CreateServiceKey, ResolveSession, ExpireKey, SetStatus, accessVars
  <2> QED BY <1>1, <2>2, <2>6, <2>7 DEF AccessNext
<1>2. AccessInvariant /\ [AccessNext]_accessVars =>
        [(\E u \in Users : Provision(u)) \/ \A s \in Spaces : Owners(s) # {} => Owners(s)' # {}]_accessVars
  BY <1>1
<1> QED BY <1>2, AccessStart, AccessStepKeeps, PTL DEF AccessSpec, OwnerKept

-----------------------------------------------------------------------------
(* Hits.                                                                    *)

LEMMA LeastNumber ==
  ASSUME NEW S \in SUBSET Nat, S # {}
  PROVE  \E x \in S : \A y \in S : x <= y
<1>1. IsWellFoundedOn(OpToRel(<, Nat), Nat)
  BY NatLessThanWellFounded
<1>2. PICK x \in S : \A y \in S : <<y, x>> \notin OpToRel(<, Nat)
  BY <1>1, WFMin
<1>3. \A y \in S : ~ (y < x)
  BY <1>2 DEF OpToRel
<1> QED BY <1>3

\* The loop over the ranked candidates, as far as the nth of them.
IsLoop(f, ordered, perSource, n) ==
  f = [m \in 0 .. n |-> IF m = 0 THEN <<>> ELSE Taken(f[m - 1], ordered[m], perSource, MaxHits)]

LEMMA LoopExists ==
  ASSUME NEW ordered, NEW perSource, NEW n \in Nat
  PROVE  \E f : IsLoop(f, ordered, perSource, n)
<1> DEFINE Without == {m \in Nat : ~(\E f : IsLoop(f, ordered, perSource, m))}
<1> SUFFICES ASSUME Without # {} PROVE FALSE
  OBVIOUS
<1>1. PICK m \in Without : \A k \in Without : m <= k
  <2>1. Without \in SUBSET Nat
    OBVIOUS
  <2> HIDE DEF Without
  <2> QED BY <2>1, LeastNumber
<1>2. m \in Nat /\ ~(\E f : IsLoop(f, ordered, perSource, m))
  BY <1>1
<1>3. CASE m = 0
  <2> DEFINE f == [k \in 0 .. 0 |-> <<>>]
  <2>1. f = [k \in 0 .. 0 |-> IF k = 0 THEN <<>> ELSE Taken(f[k - 1], ordered[k], perSource, MaxHits)]
    OBVIOUS
  <2>2. IsLoop(f, ordered, perSource, 0)
    BY <2>1 DEF IsLoop
  <2> QED BY <1>2, <1>3, <2>2
<1>4. CASE m # 0
  <2>1. m - 1 \in Nat /\ ~(m <= m - 1)
    BY <1>2, <1>4
  <2>2. PICK g : IsLoop(g, ordered, perSource, m - 1)
    BY <1>1, <2>1
  <2> DEFINE f == [k \in 0 .. m |-> IF k = m THEN Taken(g[m - 1], ordered[m], perSource, MaxHits) ELSE g[k]]
             step(k) == IF k = 0 THEN <<>> ELSE Taken(f[k - 1], ordered[k], perSource, MaxHits)
  <2>3. \A k \in 0 .. (m - 1) : g[k] = IF k = 0 THEN <<>> ELSE Taken(g[k - 1], ordered[k], perSource, MaxHits)
    BY <2>2 DEF IsLoop
  <2>4. \A k \in 0 .. (m - 1) : f[k] = g[k]
    BY <1>2, <1>4
  <2>5. f[m] = Taken(g[m - 1], ordered[m], perSource, MaxHits)
    BY <1>2
  <2>6. f = [k \in 0 .. m |-> f[k]]
    OBVIOUS
  <2> HIDE DEF f
  <2>7. ASSUME NEW k \in 0 .. m PROVE f[k] = step(k)
    <3>1. CASE k = m
      <4>1. m - 1 \in 0 .. (m - 1)
        BY <1>2, <1>4
      <4> QED BY <1>4, <2>4, <2>5, <3>1, <4>1
    <3>2. CASE k # m /\ k # 0
      <4>1. k \in 0 .. (m - 1) /\ k - 1 \in 0 .. (m - 1)
        BY <1>2, <3>2
      <4> QED BY <2>3, <2>4, <3>2, <4>1
    <3>3. CASE k # m /\ k = 0
      <4>1. 0 \in 0 .. (m - 1)
        BY <1>2, <1>4
      <4> QED BY <2>3, <2>4, <3>3, <4>1
    <3> QED BY <3>1, <3>2, <3>3
  <2>8. f = [k \in 0 .. m |-> step(k)]
    BY <2>6, <2>7
  <2>9. IsLoop(f, ordered, perSource, m)
    BY <2>8 DEF IsLoop
  <2> QED BY <1>2, <2>9
<1> QED BY <1>3, <1>4

\* The loop only ever takes candidates.
LEMMA SelectedFrom ==
  ASSUME NEW S, NEW ordered \in Seq(S), NEW perSource
  PROVE  Selected(ordered, perSource) \in Seq(S)
<1> DEFINE N == Len(ordered)
           f == CHOOSE g : IsLoop(g, ordered, perSource, N)
<1>1. N \in Nat /\ \A n \in 1 .. N : ordered[n] \in S
  BY LenProperties, ElementOfSeq
<1>2. Selected(ordered, perSource) = f[N]
  BY DEF Selected, IsLoop
<1>3. IsLoop(f, ordered, perSource, N)
  BY <1>1, LoopExists
<1>4. \A n \in 0 .. N : f[n] = IF n = 0 THEN <<>> ELSE Taken(f[n - 1], ordered[n], perSource, MaxHits)
  BY <1>3 DEF IsLoop
<1> HIDE DEF f
<1> DEFINE Wrong == {n \in 0 .. N : f[n] \notin Seq(S)}
<1>5. Wrong = {}
  <2> SUFFICES ASSUME Wrong # {} PROVE FALSE
    OBVIOUS
  <2>1. PICK n \in Wrong : \A k \in Wrong : n <= k
    <3>1. Wrong \in SUBSET Nat
      BY <1>1
    <3> HIDE DEF Wrong
    <3> QED BY <3>1, LeastNumber
  <2>2. n \in 0 .. N /\ f[n] \notin Seq(S)
    BY <2>1
  <2>3. CASE n = 0
    BY <1>4, <2>2, <2>3, EmptySeq
  <2>4. CASE n # 0
    <3>1. n - 1 \in 0 .. N /\ n \in 1 .. N /\ ~(n <= n - 1)
      BY <1>1, <2>2, <2>4
    <3>2. f[n - 1] \in Seq(S)
      BY <2>1, <3>1
    <3>3. f[n] = Taken(f[n - 1], ordered[n], perSource, MaxHits) /\ ordered[n] \in S
      BY <1>1, <1>4, <2>2, <2>4, <3>1
    <3>4. Append(f[n - 1], ordered[n]) \in Seq(S)
      BY <3>2, <3>3
    <3> QED BY <2>2, <3>2, <3>3, <3>4 DEF Taken
  <2> QED BY <2>3, <2>4
<1>6. f[N] \in Seq(S)
  BY <1>1, <1>5
<1> QED BY <1>2, <1>6

LEMMA ToSetOfSeq ==
  ASSUME NEW S, NEW s \in Seq(S)
  PROVE  ToSet(s) \subseteq S
<1>1. DOMAIN s = 1 .. Len(s) /\ \A i \in 1 .. Len(s) : s[i] \in S
  BY LenProperties, ElementOfSeq
<1> QED BY <1>1 DEF ToSet

LEMMA OrdersAreSeqs ==
  ASSUME NEW S, NEW s \in Orders(S)
  PROVE  s \in Seq(S)
<1>1. PICK m \in 0 .. Cardinality(S) : s \in [1 .. m -> S]
  BY DEF Orders, SeqOf
<1>2. m \in Nat
  BY <1>1
<1> QED BY <1>1, <1>2, SeqDef

\* Hits come from the two branches.
LEMMA HitsAreFound ==
  ASSUME NEW lexical, NEW vector, NEW active, NEW perSource, NEW hits \in Fuse(lexical, vector, active, perSource)
  PROVE  ToSet(hits) \subseteq ToSet(lexical) \cup ToSet(vector)
<1>1. PICK ordered \in Ranked(lexical, vector, active) : hits = Selected(ordered, perSource)
  BY DEF Fuse
<1>2. ordered \in Seq(Candidates(lexical, vector))
  BY <1>1, OrdersAreSeqs DEF Ranked
<1>3. ToSet(hits) \subseteq Candidates(lexical, vector)
  BY <1>1, <1>2, SelectedFrom, ToSetOfSeq
<1> QED BY <1>3 DEF Candidates

\* Appending a hit.
LEMMA HitAppended ==
  ASSUME NEW C, NEW h \in Seq(C), NEW u \in C
  PROVE  /\ Append(h, u) \in Seq(C) /\ Len(Append(h, u)) = Len(h) + 1 /\ Len(h) \in Nat
         /\ ToSet(Append(h, u)) = ToSet(h) \cup {u}
         /\ \A v : /\ OfSource(h, v) \in Nat
                   /\ OfSource(Append(h, u), v)
                        = OfSource(h, v) + (IF About[u].source = About[v].source THEN 1 ELSE 0)
<1> DEFINE g == Append(h, u)
           n == Len(h)
<1>1. /\ g \in Seq(C) /\ Len(g) = n + 1 /\ n \in Nat /\ g[n + 1] = u /\ \A i \in 1 .. n : g[i] = h[i]
      /\ DOMAIN g = 1 .. n + 1 /\ DOMAIN h = 1 .. n
  BY LenProperties
<1> HIDE DEF g, n
<1>2. 1 .. n + 1 = 1 .. n \cup {n + 1} /\ n + 1 \notin 1 .. n
  BY <1>1
<1>3. ToSet(g) = ToSet(h) \cup {u}
  BY <1>1, <1>2 DEF ToSet
<1>4. ASSUME NEW v
      PROVE  /\ OfSource(h, v) \in Nat
             /\ OfSource(g, v) = OfSource(h, v) + (IF About[u].source = About[v].source THEN 1 ELSE 0)
  <2> DEFINE at == {i \in 1 .. n : About[h[i]].source = About[v].source}
             now == {i \in 1 .. n + 1 : About[g[i]].source = About[v].source}
  <2>1. OfSource(h, v) = Cardinality(at) /\ OfSource(g, v) = Cardinality(now)
    BY <1>1 DEF OfSource, n
  <2>2. now = at \cup (IF About[u].source = About[v].source THEN {n + 1} ELSE {}) /\ n + 1 \notin at
    BY <1>1, <1>2
  <2>3. IsFiniteSet(at) /\ Cardinality(at) \in Nat
    <3>1. 1 \in Int /\ n \in Int
      BY <1>1
    <3>2. IsFiniteSet(1 .. n)
      BY <3>1, FS_Interval
    <3> QED BY <3>2, FS_Subset, FS_CardinalityType
  <2> HIDE DEF at, now
  <2>4. CASE About[u].source = About[v].source
    <3>1. now = at \cup {n + 1}
      BY <2>2, <2>4
    <3>2. Cardinality(now) = Cardinality(at) + 1
      BY <2>2, <2>3, <3>1, FS_AddElement
    <3> QED BY <2>1, <2>3, <2>4, <3>2
  <2>5. CASE About[u].source # About[v].source
    <3>1. now = at
      BY <2>2, <2>5
    <3> QED BY <2>1, <2>3, <2>5, <3>1
  <2> QED BY <2>4, <2>5
<1> QED BY <1>1, <1>3, <1>4 DEF g, n

\* Of the candidates C, where ahead[u] are those before u: the ones among the first
\* of their source, and of these the ones among the first MaxHits.
Thinned(C, ahead, perSource) ==
  {u \in C : Cardinality({v \in ahead[u] : About[v].source = About[u].source}) < perSource}
Topmost(C, ahead, perSource) ==
  {u \in Thinned(C, ahead, perSource) : Cardinality(ahead[u] \cap Thinned(C, ahead, perSource)) < MaxHits}

\* For each place in the order, ahead has what comes before it.
AheadIs(ordered, ahead) ==
  \A n \in 1 .. Len(ordered) : ahead[ordered[n]] = {ordered[i] : i \in 1 .. n - 1}

\* The loop takes the candidates that are among the first of their source, as
\* long as there is room.
LEMMA SelectedIsBest ==
  ASSUME NEW C, NEW ordered \in Seq(C), IsInjective(ordered), ToSet(ordered) = C,
         NEW ahead, AheadIs(ordered, ahead), NEW perSource \in Nat \ {0}
  PROVE  /\ Selected(ordered, perSource) \in Seq(C)
         /\ ToSet(Selected(ordered, perSource)) = Topmost(C, ahead, perSource)
<1> DEFINE N == Len(ordered)
           f == CHOOSE g : IsLoop(g, ordered, perSource, N)
           kept == {u \in C : Cardinality({v \in ahead[u] : About[v].source = About[u].source}) < perSource}
           best == {u \in kept : Cardinality(ahead[u] \cap kept) < MaxHits}
           seen(n) == {ordered[i] : i \in 1 .. n}
           count(n, u) == Cardinality({v \in seen(n) : About[v].source = About[u].source})
           right(n) == LET h == f[n] IN
             /\ h \in Seq(C) /\ Len(h) <= MaxHits /\ ToSet(h) = best \cap seen(n)
             /\ IsFiniteSet(seen(n)) /\ Len(h) = Cardinality(ToSet(h))
             /\ Len(h) < MaxHits => /\ ToSet(h) = kept \cap seen(n)
                                    /\ \A u \in C : OfSource(h, u) = IF count(n, u) < perSource THEN count(n, u)
                                                                     ELSE perSource
<1>1. N \in Nat /\ DOMAIN ordered = 1 .. N /\ \A n \in 1 .. N : ordered[n] \in C
  BY LenProperties, ElementOfSeq
<1>2. Selected(ordered, perSource) = f[N]
  BY DEF Selected, IsLoop
<1>3. IsLoop(f, ordered, perSource, N)
  BY <1>1, LoopExists
<1>4. \A n \in 0 .. N : f[n] = IF n = 0 THEN <<>> ELSE Taken(f[n - 1], ordered[n], perSource, MaxHits)
  BY <1>3 DEF IsLoop
<1>5. MaxHits \in Nat \ {0}
  BY RetrievalAssumption
<1>6. ASSUME NEW n \in 1 .. N
      PROVE  /\ seen(n) = seen(n - 1) \cup {ordered[n]} /\ ordered[n] \notin seen(n - 1)
             /\ ahead[ordered[n]] = seen(n - 1)
  <2>1. 1 .. n = 1 .. n - 1 \cup {n}
    BY <1>1
  <2>2. \A i \in 1 .. n - 1 : ordered[i] # ordered[n]
    <3>1. \A i \in 1 .. n - 1 : i \in DOMAIN ordered /\ n \in DOMAIN ordered /\ i # n
      BY <1>1
    <3> QED BY <3>1 DEF IsInjective
  <2>3. seen(n) = seen(n - 1) \cup {ordered[n]}
    BY <2>1
  <2>4. ordered[n] \notin seen(n - 1)
    BY <2>2
  <2>5. ahead[ordered[n]] = seen(n - 1)
    BY <1>1 DEF AheadIs
  <2> HIDE DEF seen
  <2> QED BY <2>3, <2>4, <2>5
<1>7. seen(0) = {} /\ seen(N) = C
  <2>1. 1 .. 0 = {}
    OBVIOUS
  <2> QED BY <1>1, <2>1 DEF ToSet
<1> HIDE DEF f, seen, N
<1> DEFINE Wrong == {n \in 0 .. N : ~right(n)}
<1>8. Wrong = {}
  <2> SUFFICES ASSUME Wrong # {} PROVE FALSE
    OBVIOUS
  <2>1. PICK n \in Wrong : \A k \in Wrong : n <= k
    <3>1. Wrong \in SUBSET Nat
      BY <1>1
    <3> HIDE DEF Wrong
    <3> QED BY <3>1, LeastNumber
  <2>2. n \in 0 .. N /\ ~right(n)
    BY <2>1
  <2>3. CASE n = 0
    <3>1. f[0] = <<>> /\ <<>> \in Seq(C) /\ Len(<<>>) = 0
      BY <1>1, <1>4
    <3>2. ToSet(<<>>) = {}
      <4>1. DOMAIN <<>> = {}
        OBVIOUS
      <4> QED BY <4>1 DEF ToSet
    <3>3. IsFiniteSet({}) /\ Cardinality({}) = 0
      BY FS_EmptySet
    <3>4. \A u : count(0, u) = 0
      BY <1>7, <3>3
    <3>5. \A u : OfSource(<<>>, u) = 0
      <4>1. \A u : {i \in 1 .. Len(<<>>) : About[<<>>[i]].source = About[u].source} = {}
        OBVIOUS
      <4> QED BY <3>3, <4>1 DEF OfSource
    <3> HIDE DEF count, best, kept
    <3>6. right(0)
      <4>1. \A u \in C : OfSource(f[0], u) = IF count(0, u) < perSource THEN count(0, u) ELSE perSource
        BY <3>1, <3>4, <3>5
      <4>2. /\ f[0] \in Seq(C) /\ Len(f[0]) = 0 /\ 0 <= MaxHits /\ ToSet(f[0]) = {}
        BY <1>5, <3>1, <3>2
      <4>3. IsFiniteSet(seen(0)) /\ best \cap seen(0) = {} /\ kept \cap seen(0) = {}
        BY <1>7, <3>3
      <4> QED BY <3>3, <4>1, <4>2, <4>3
    <3> QED BY <2>2, <2>3, <3>6
  <2>4. CASE n # 0
    <3> DEFINE h == f[n - 1]
               u == ordered[n]
    <3>1. n - 1 \in 0 .. N /\ n \in 1 .. N /\ ~(n <= n - 1)
      BY <1>1, <2>2, <2>4
    <3>2. right(n - 1)
      BY <2>1, <3>1
    <3>3. u \in C /\ f[n] = Taken(h, u, perSource, MaxHits)
      BY <1>1, <1>4, <2>2, <2>4, <3>1
    <3>4. /\ seen(n) = seen(n - 1) \cup {u} /\ u \notin seen(n - 1) /\ ahead[u] = seen(n - 1)
          /\ IsFiniteSet(seen(n - 1)) /\ IsFiniteSet(seen(n))
      <4>1. seen(n) = seen(n - 1) \cup {u} /\ u \notin seen(n - 1) /\ ahead[u] = seen(n - 1)
        BY <1>6, <3>1
      <4>2. IsFiniteSet(seen(n - 1))
        BY <3>2
      <4> QED BY <4>1, <4>2, FS_AddElement
    <3>5. ASSUME NEW v \in C
          PROVE  /\ count(n - 1, v) \in Nat
                 /\ count(n, v) = count(n - 1, v) + (IF About[u].source = About[v].source THEN 1 ELSE 0)
      <4> DEFINE old == {w \in seen(n - 1) : About[w].source = About[v].source}
                 new == {w \in seen(n) : About[w].source = About[v].source}
      <4>1. new = old \cup (IF About[u].source = About[v].source THEN {u} ELSE {}) /\ u \notin old
        BY <3>4
      <4>2. IsFiniteSet(old) /\ Cardinality(old) \in Nat
        BY <3>4, FS_Subset, FS_CardinalityType
      <4>5. count(n, v) = Cardinality(new) /\ count(n - 1, v) = Cardinality(old)
        OBVIOUS
      <4> HIDE DEF old, new, count
      <4>3. CASE About[u].source = About[v].source
        <5>1. new = old \cup {u}
          BY <4>1, <4>3
        <5>2. Cardinality(new) = Cardinality(old) + 1
          BY <4>1, <4>2, <5>1, FS_AddElement
        <5> QED BY <4>2, <4>3, <4>5, <5>2
      <4>4. CASE About[u].source # About[v].source
        <5>1. new = old
          BY <4>1, <4>4
        <5> QED BY <4>2, <4>4, <4>5, <5>1
      <4> QED BY <4>3, <4>4
    <3>6. u \in kept <=> count(n - 1, u) < perSource
      BY <3>3, <3>4
    <3>7. u \in best <=> u \in kept /\ Cardinality(seen(n - 1) \cap kept) < MaxHits
      BY <3>4
    <3>8. /\ h \in Seq(C) /\ Len(h) <= MaxHits /\ ToSet(h) = best \cap seen(n - 1)
          /\ Len(h) = Cardinality(ToSet(h)) /\ Len(h) \in Nat
          /\ Len(h) < MaxHits => /\ ToSet(h) = kept \cap seen(n - 1)
                                 /\ \A v \in C : OfSource(h, v) = IF count(n - 1, v) < perSource
                                                                  THEN count(n - 1, v) ELSE perSource
      BY <3>2, LenProperties
    <3>9. best \subseteq kept
      OBVIOUS
    <3> HIDE DEF count, best, kept, Wrong, h, u
    <3>10. CASE Len(h) < MaxHits /\ count(n - 1, u) < perSource
      <4>1. f[n] = Append(h, u)
        BY <3>3, <3>8, <3>10 DEF Taken
      <4>2. u \in kept /\ u \in best
        <5>1. seen(n - 1) \cap kept = ToSet(h)
          BY <3>8, <3>10
        <5> QED BY <3>6, <3>7, <3>8, <3>10, <5>1
      <4>3. /\ f[n] \in Seq(C) /\ Len(f[n]) = Len(h) + 1 /\ ToSet(f[n]) = ToSet(h) \cup {u}
            /\ \A v : OfSource(f[n], v) = OfSource(h, v) + (IF About[u].source = About[v].source THEN 1 ELSE 0)
        BY <3>3, <3>8, <4>1, HitAppended
      <4>4. ToSet(f[n]) = best \cap seen(n) /\ ToSet(f[n]) = kept \cap seen(n)
        BY <3>4, <3>8, <3>10, <4>2, <4>3
      <4>5. Len(f[n]) = Cardinality(ToSet(f[n]))
        <5>1. u \notin ToSet(h)
          BY <3>4, <3>8
        <5>2. IsFiniteSet(ToSet(h))
          BY <3>4, <3>8, FS_Subset
        <5>3. Cardinality(ToSet(h) \cup {u}) = Cardinality(ToSet(h)) + 1
          BY <5>1, <5>2, FS_AddElement
        <5> QED BY <3>8, <4>3, <5>3
      <4>6. Len(f[n]) <= MaxHits
        BY <1>5, <3>8, <3>10, <4>3
      <4>7. ASSUME NEW v \in C
            PROVE  OfSource(f[n], v) = IF count(n, v) < perSource THEN count(n, v) ELSE perSource
        <5>1. /\ count(n - 1, v) \in Nat
              /\ count(n, v) = count(n - 1, v) + (IF About[u].source = About[v].source THEN 1 ELSE 0)
              /\ OfSource(h, v) = IF count(n - 1, v) < perSource THEN count(n - 1, v) ELSE perSource
          BY <3>5, <3>8, <3>10
        <5>2. About[u].source = About[v].source => count(n - 1, v) = count(n - 1, u)
          BY DEF count
        <5>3. OfSource(f[n], v) = OfSource(h, v) + (IF About[u].source = About[v].source THEN 1 ELSE 0)
          BY <4>3
        <5> QED BY <3>10, <5>1, <5>2, <5>3
      <4>8. right(n)
        BY <3>4, <4>3, <4>4, <4>5, <4>6, <4>7
      <4> QED BY <2>2, <4>8
    <3>11. CASE Len(h) < MaxHits /\ ~(count(n - 1, u) < perSource)
      <4>1. f[n] = h
        BY <3>3, <3>8, <3>11 DEF Taken
      <4>2. u \notin kept /\ u \notin best
        BY <3>6, <3>9, <3>11
      <4>3. ToSet(h) = best \cap seen(n) /\ ToSet(h) = kept \cap seen(n)
        BY <3>4, <3>8, <3>11, <4>2
      <4>4. ASSUME NEW v \in C
            PROVE  OfSource(h, v) = IF count(n, v) < perSource THEN count(n, v) ELSE perSource
        <5>1. /\ count(n - 1, v) \in Nat
              /\ count(n, v) = count(n - 1, v) + (IF About[u].source = About[v].source THEN 1 ELSE 0)
              /\ OfSource(h, v) = IF count(n - 1, v) < perSource THEN count(n - 1, v) ELSE perSource
          BY <3>5, <3>8, <3>11
        <5>2. About[u].source = About[v].source => count(n - 1, v) = count(n - 1, u)
          BY DEF count
        <5> QED BY <3>11, <5>1, <5>2
      <4>5. right(n)
        BY <3>4, <3>8, <4>1, <4>3, <4>4
      <4> QED BY <2>2, <4>5
    <3>12. CASE ~(Len(h) < MaxHits)
      <4>1. f[n] = h /\ Len(h) = MaxHits
        BY <1>5, <3>3, <3>8, <3>12 DEF Taken
      <4>2. u \notin best
        <5>1. ToSet(h) \subseteq seen(n - 1) \cap kept /\ IsFiniteSet(seen(n - 1) \cap kept)
          BY <3>4, <3>8, <3>9, FS_Subset
        <5>2. Cardinality(ToSet(h)) <= Cardinality(seen(n - 1) \cap kept)
              /\ Cardinality(seen(n - 1) \cap kept) \in Nat
          BY <5>1, FS_Subset, FS_CardinalityType
        <5> QED BY <1>5, <3>7, <3>8, <4>1, <5>2
      <4>3. ToSet(h) = best \cap seen(n)
        BY <3>4, <3>8, <4>2
      <4>4. right(n)
        BY <3>4, <3>8, <3>12, <4>1, <4>3
      <4> QED BY <2>2, <4>4
    <3> QED BY <3>10, <3>11, <3>12
  <2> QED BY <2>3, <2>4
<1>9. right(N)
  <2>1. N \in 0 .. N
    BY <1>1
  <2> HIDE DEF right
  <2> QED BY <1>8, <2>1
<1>10. best \subseteq C
  OBVIOUS
<1> HIDE DEF best
<1>11. f[N] \in Seq(C) /\ ToSet(f[N]) = best
  BY <1>7, <1>9, <1>10
<1> QED BY <1>2, <1>11 DEF best, Topmost, Thinned

\* The score of a candidate is a number.
LEMMA ScoreIsNumber ==
  ASSUME NEW lexical \in Seq(Units), NEW vector \in Seq(Units), NEW active, NEW u
  PROVE  Score(lexical, vector, active, u) \in Int
<1>1. {Weights.lexical, Weights.vector, Boost, Scale} \subseteq Nat /\ RankK \in Nat \ {0}
  BY RetrievalAssumption
<1>2. ASSUME NEW weight \in Nat, NEW branch \in Seq(Units) PROVE Part(weight, branch, u) \in Int
  <2> DEFINE r == RankIn(branch, u)
  <2>1. r \in Nat
    <3>1. CASE u \in ToSet(branch)
      <4>1. \E i \in 1 .. Len(branch) : branch[i] = u
        BY <3>1, LenProperties DEF ToSet
      <4>2. Len(branch) \in Nat
        BY LenProperties
      <4> QED BY <3>1, <4>1, <4>2 DEF RankIn
    <3>2. CASE u \notin ToSet(branch)
      BY <3>2 DEF RankIn
    <3> QED BY <3>1, <3>2
  <2> HIDE DEF r
  <2>2. RankK + r \in Nat \ {0}
    BY <1>1, <2>1
  <2>3. Scale \div (RankK + r) \in Int
    BY <1>1, <2>2
  <2>4. Part(weight, branch, u) = IF r = 0 THEN 0 ELSE weight * (Scale \div (RankK + r))
    BY DEF Part, r
  <2> QED BY <2>3, <2>4
<1>3. /\ Part(Weights.lexical, lexical, u) \in Int /\ Part(Weights.vector, vector, u) \in Int
      /\ (IF About[u].space = active THEN 100 + Boost ELSE 100) \in Int
  <2>1. Weights.lexical \in Nat /\ Weights.vector \in Nat /\ Boost \in Nat
    BY <1>1
  <2>2. Part(Weights.lexical, lexical, u) \in Int
    BY <1>2, <2>1
  <2>3. Part(Weights.vector, vector, u) \in Int
    BY <1>2, <2>1
  <2>4. (IF About[u].space = active THEN 100 + Boost ELSE 100) \in Int
    BY <2>1
  <2> QED BY <2>2, <2>3, <2>4
<1> DEFINE l == Part(Weights.lexical, lexical, u)
           v == Part(Weights.vector, vector, u)
           b == IF About[u].space = active THEN 100 + Boost ELSE 100
<1>4. Score(lexical, vector, active, u) = (l + v) * b
  BY DEF Score
<1> HIDE DEF l, v, b
<1>5. l \in Int /\ v \in Int /\ b \in Int
  BY <1>3 DEF l, v, b
<1> QED BY <1>4, <1>5

\* What is ranked before a candidate comes before it in the order.
LEMMA RankedBefore ==
  ASSUME NEW lexical \in Seq(Units), NEW vector \in Seq(Units), NEW active,
         NEW ordered \in Ranked(lexical, vector, active), NEW n \in 1 .. Len(ordered)
  PROVE  {v \in Candidates(lexical, vector) : Ahead(lexical, vector, active, v, ordered[n])}
           = {ordered[i] : i \in 1 .. n - 1}
<1> DEFINE C == Candidates(lexical, vector)
<1>1. /\ ordered \in Seq(C) /\ ToSet(ordered) = C
      /\ \A i, j \in DOMAIN ordered : i < j => Ahead(lexical, vector, active, ordered[i], ordered[j])
  BY OrdersAreSeqs DEF Ranked
<1>2. C \subseteq Nat
  <2>1. C \subseteq Units
    BY ToSetOfSeq DEF Candidates
  <2> QED BY <2>1, RetrievalAssumption
<1> HIDE DEF C
<1>3. DOMAIN ordered = 1 .. Len(ordered) /\ Len(ordered) \in Nat /\ \A i \in 1 .. Len(ordered) : ordered[i] \in C
  BY <1>1, LenProperties, ElementOfSeq
<1>4. ASSUME NEW u \in C, NEW v \in C, Ahead(lexical, vector, active, u, v)
      PROVE  ~Ahead(lexical, vector, active, v, u)
  <2>1. u \in Nat /\ v \in Nat
        /\ Score(lexical, vector, active, u) \in Int /\ Score(lexical, vector, active, v) \in Int
    BY <1>2, ScoreIsNumber
  <2> QED BY <1>4, <2>1 DEF Ahead
<1>5. ASSUME NEW j \in 1 .. Len(ordered)
      PROVE  Ahead(lexical, vector, active, ordered[j], ordered[n]) <=> j < n
  <2>1. j < n => Ahead(lexical, vector, active, ordered[j], ordered[n])
    BY <1>1, <1>3
  <2>2. n < j => Ahead(lexical, vector, active, ordered[n], ordered[j])
    BY <1>1, <1>3
  <2>3. ordered[j] \in C /\ ordered[n] \in C
    BY <1>3
  <2>4. ~Ahead(lexical, vector, active, ordered[n], ordered[n])
    BY <1>4, <2>3
  <2>5. n < j => ~Ahead(lexical, vector, active, ordered[j], ordered[n])
    BY <1>4, <2>2, <2>3
  <2>6. j < n \/ n < j \/ j = n
    BY <1>3
  <2> QED BY <2>1, <2>4, <2>5, <2>6
<1>6. \A v \in C : \E j \in 1 .. Len(ordered) : v = ordered[j]
  BY <1>1, <1>3 DEF ToSet
<1>7. \A i \in 1 .. n - 1 : i \in 1 .. Len(ordered) /\ i < n
  BY <1>3
<1>8. \A j \in 1 .. Len(ordered) : j < n => j \in 1 .. n - 1
  BY <1>3
<1>9. {v \in C : Ahead(lexical, vector, active, v, ordered[n])} = {ordered[i] : i \in 1 .. n - 1}
  BY <1>3, <1>5, <1>6, <1>7, <1>8
<1> QED BY <1>9 DEF C

\* For each candidate, those ranked before it.
RankedAbove(lexical, vector, active) ==
  LET C == Candidates(lexical, vector)
  IN [u \in C |-> {v \in C : Ahead(lexical, vector, active, v, u)}]

\* The hits that are fused are the best there are.
LEMMA FusedIsBest ==
  ASSUME NEW lexical \in Seq(Units), NEW vector \in Seq(Units), NEW active, NEW perSource \in Nat \ {0},
         NEW hits \in Fuse(lexical, vector, active, perSource)
  PROVE  /\ hits \in Seq(Units)
         /\ ToSet(hits) = Topmost(Candidates(lexical, vector), RankedAbove(lexical, vector, active), perSource)
<1> DEFINE C == Candidates(lexical, vector)
           ahead == RankedAbove(lexical, vector, active)
<1>1. PICK ordered \in Ranked(lexical, vector, active) : hits = Selected(ordered, perSource)
  BY DEF Fuse
<1>2. ordered \in Seq(C) /\ IsInjective(ordered) /\ ToSet(ordered) = C
  BY OrdersAreSeqs DEF Ranked, Orders
<1>3. AheadIs(ordered, ahead)
  <2>1. \A n \in 1 .. Len(ordered) : ordered[n] \in C
    BY <1>2, ElementOfSeq
  <2> QED BY <2>1, RankedBefore DEF RankedAbove, AheadIs
<1>4. C \subseteq Units
  BY ToSetOfSeq DEF Candidates
<1> HIDE DEF C, ahead
<1>5. hits \in Seq(C) /\ ToSet(hits) = Topmost(C, ahead, perSource)
  <2>1. ordered \in Seq(C) /\ IsInjective(ordered) /\ ToSet(ordered) = C
    BY <1>2
  <2> DEFINE chosen == Selected(ordered, perSource)
  <2>2. chosen \in Seq(C) /\ ToSet(chosen) = Topmost(C, ahead, perSource)
    BY <2>1, <1>3, SelectedIsBest
  <2> HIDE DEF chosen
  <2>3. hits = chosen
    BY <1>1 DEF chosen
  <2> QED BY <2>2, <2>3
<1>6. hits \in Seq(Units)
  BY <1>4, <1>5
<1> QED BY <1>5, <1>6 DEF C, ahead

-----------------------------------------------------------------------------
(* Packages.                                                                *)

\* The values of a loop of N steps over S, from base.
Steps(S) == [Nat \X S -> S]
Loops(S, base, step, N) ==
  {f \in [0 .. N -> S] : f[0] = base /\ \A m \in 1 .. N : f[m] = step[<<m, f[m - 1]>>]}

LEMMA LoopOver ==
  ASSUME NEW S, NEW base \in S, NEW step \in Steps(S), NEW N \in Nat
  PROVE  Loops(S, base, step, N) # {}
<1> DEFINE loop(n) == \E f \in [0 .. n -> S] : f[0] = base /\ \A m \in 1 .. n : f[m] = step[<<m, f[m - 1]>>]
           Without == {n \in Nat : ~loop(n)}
<1>0. step \in [Nat \X S -> S]
  BY DEF Steps
<1> SUFFICES loop(N)
  BY DEF Loops
<1> SUFFICES ASSUME Without # {} PROVE FALSE
  OBVIOUS
<1>1. PICK n \in Without : \A k \in Without : n <= k
  <2>1. Without \in SUBSET Nat
    OBVIOUS
  <2> HIDE DEF Without
  <2> QED BY <2>1, LeastNumber
<1>2. n \in Nat /\ ~loop(n)
  BY <1>1
<1>3. CASE n = 0
  <2> DEFINE f == [m \in 0 .. 0 |-> base]
  <2>1. f \in [0 .. 0 -> S] /\ f[0] = base /\ \A m \in 1 .. 0 : f[m] = step[<<m, f[m - 1]>>]
    OBVIOUS
  <2> QED BY <1>2, <1>3, <2>1
<1>4. CASE n # 0
  <2>1. n - 1 \in Nat /\ ~(n <= n - 1)
    BY <1>2, <1>4
  <2>2. loop(n - 1)
    BY <1>1, <2>1
  <2>3. PICK g \in [0 .. (n - 1) -> S] : g[0] = base /\ \A m \in 1 .. (n - 1) : g[m] = step[<<m, g[m - 1]>>]
    BY <2>2
  <2> DEFINE f == [m \in 0 .. n |-> IF m = n THEN step[<<n, g[n - 1]>>] ELSE g[m]]
  <2>4. g[n - 1] \in S /\ n \in Nat
    BY <1>2, <2>1, <2>3
  <2>5. step[<<n, g[n - 1]>>] \in S
    BY <1>0, <2>4
  <2>6. /\ f \in [0 .. n -> S] /\ f[n] = step[<<n, g[n - 1]>>]
        /\ \A m \in 0 .. (n - 1) : f[m] = g[m]
    BY <1>2, <2>3, <2>5
  <2> HIDE DEF f
  <2>7. f[0] = base
    BY <2>1, <2>3, <2>6
  <2>8. ASSUME NEW m \in 1 .. n PROVE f[m] = step[<<m, f[m - 1]>>]
    <3>1. m - 1 \in 0 .. (n - 1) /\ f[m - 1] = g[m - 1]
      BY <1>2, <2>6
    <3>2. CASE m = n
      BY <2>6, <3>1, <3>2
    <3>3. CASE m # n
      <4>1. m \in 1 .. n - 1 /\ m \in 0 .. (n - 1)
        BY <1>2, <3>3
      <4> QED BY <2>3, <2>6, <3>1, <4>1
    <3> QED BY <3>2, <3>3
  <2> QED BY <1>2, <2>6, <2>7, <2>8
<1> QED BY <1>3, <1>4

IsSum(f, numbers, n) == f = [m \in 0 .. n |-> IF m = 0 THEN 0 ELSE f[m - 1] + numbers[m]]

LEMMA TotalIsSum ==
  ASSUME NEW numbers \in Seq(Nat)
  PROVE  \E f \in [0 .. Len(numbers) -> Nat] :
           /\ f[0] = 0 /\ \A m \in 1 .. Len(numbers) : f[m] = f[m - 1] + numbers[m]
           /\ Total(numbers) = f[Len(numbers)]
<1> DEFINE N == Len(numbers)
           step == [x \in Nat \X Nat |-> IF x[1] \in 1 .. N THEN x[2] + numbers[x[1]] ELSE x[2]]
           f == CHOOSE g : IsSum(g, numbers, N)
<1>1. N \in Nat /\ \A m \in 1 .. N : numbers[m] \in Nat
  BY LenProperties, ElementOfSeq
<1>2. Total(numbers) = f[N]
  BY DEF Total, IsSum
<1> HIDE DEF N
<1>3. step \in [Nat \X Nat -> Nat] /\ \A m \in 1 .. N, x \in Nat : step[<<m, x>>] = x + numbers[m]
  <2>1. ASSUME NEW x \in Nat \X Nat PROVE (IF x[1] \in 1 .. N THEN x[2] + numbers[x[1]] ELSE x[2]) \in Nat
    BY <1>1
  <2>2. \A m \in 1 .. N, x \in Nat : <<m, x>> \in Nat \X Nat
    BY <1>1
  <2> QED BY <2>1, <2>2
<1> HIDE DEF step
<1>4. PICK g \in [0 .. N -> Nat] : g[0] = 0 /\ \A m \in 1 .. N : g[m] = step[<<m, g[m - 1]>>]
  <2>1. step \in Steps(Nat) /\ 0 \in Nat /\ N \in Nat
    BY <1>1, <1>3 DEF Steps
  <2>2. Loops(Nat, 0, step, N) # {}
    BY <2>1, LoopOver
  <2> QED BY <2>2 DEF Loops
<1>5. \A m \in 1 .. N : m - 1 \in 0 .. N /\ g[m - 1] \in Nat
  BY <1>1, <1>4
<1>6. \A m \in 1 .. N : g[m] = g[m - 1] + numbers[m]
  BY <1>3, <1>4, <1>5
<1>7. IsSum(g, numbers, N)
  <2>1. \A m \in 0 .. N : m = 0 \/ m \in 1 .. N
    BY <1>1
  <2>2. g = [m \in 0 .. N |-> g[m]]
    BY <1>4
  <2>3. \A m \in 0 .. N : g[m] = IF m = 0 THEN 0 ELSE g[m - 1] + numbers[m]
    BY <1>4, <1>6, <2>1
  <2> QED BY <2>2, <2>3 DEF IsSum
<1>8. IsSum(f, numbers, N)
  BY <1>7
<1> HIDE DEF f
<1>9. \A m \in 0 .. N : f[m] = IF m = 0 THEN 0 ELSE f[m - 1] + numbers[m]
  BY <1>8 DEF IsSum
<1> DEFINE Other == {m \in 0 .. N : f[m] # g[m]}
<1>10. Other = {}
  <2> SUFFICES ASSUME Other # {} PROVE FALSE
    OBVIOUS
  <2>1. PICK m \in Other : \A k \in Other : m <= k
    <3>1. Other \in SUBSET Nat
      BY <1>1
    <3> HIDE DEF Other
    <3> QED BY <3>1, LeastNumber
  <2>2. m \in 0 .. N /\ f[m] # g[m]
    BY <2>1
  <2>3. m # 0
    BY <1>4, <1>9, <2>2
  <2>4. m \in 1 .. N /\ m - 1 \in 0 .. N /\ ~(m <= m - 1)
    BY <1>1, <2>2, <2>3
  <2>5. f[m - 1] = g[m - 1]
    BY <2>1, <2>4
  <2> QED BY <1>6, <1>9, <2>2, <2>3, <2>4, <2>5
<1>11. N \in 0 .. N /\ f[N] = g[N]
  BY <1>1, <1>10
<1> QED BY <1>2, <1>4, <1>6, <1>11 DEF N

\* A number more counts once.
LEMMA TotalAppended ==
  ASSUME NEW numbers \in Seq(Nat), NEW x \in Nat
  PROVE  Total(numbers) \in Nat /\ Total(Append(numbers, x)) = Total(numbers) + x
<1> DEFINE N == Len(numbers)
           longer == Append(numbers, x)
<1>1. /\ N \in Nat /\ longer \in Seq(Nat) /\ Len(longer) = N + 1 /\ longer[N + 1] = x
      /\ \A m \in 1 .. N : longer[m] = numbers[m]
  OBVIOUS
<1> HIDE DEF longer
<1>2. PICK f \in [0 .. N -> Nat] :
        f[0] = 0 /\ (\A m \in 1 .. N : f[m] = f[m - 1] + numbers[m]) /\ Total(numbers) = f[N]
  BY TotalIsSum
<1>3. PICK g \in [0 .. Len(longer) -> Nat] :
        g[0] = 0 /\ (\A m \in 1 .. Len(longer) : g[m] = g[m - 1] + longer[m]) /\ Total(longer) = g[Len(longer)]
  BY <1>1, TotalIsSum
<1> HIDE DEF N
<1> DEFINE Other == {m \in 0 .. N : f[m] # g[m]}
<1>4. Other = {}
  <2> SUFFICES ASSUME Other # {} PROVE FALSE
    OBVIOUS
  <2>1. PICK m \in Other : \A k \in Other : m <= k
    <3>1. Other \in SUBSET Nat
      BY <1>1
    <3> HIDE DEF Other
    <3> QED BY <3>1, LeastNumber
  <2>2. m \in 0 .. N /\ f[m] # g[m]
    BY <2>1
  <2>3. m # 0
    BY <1>2, <1>3, <2>2
  <2>4. m \in 1 .. N /\ m \in 1 .. Len(longer) /\ m - 1 \in 0 .. N /\ ~(m <= m - 1)
    BY <1>1, <2>2, <2>3
  <2>5. f[m - 1] = g[m - 1]
    BY <2>1, <2>4
  <2> QED BY <1>1, <1>2, <1>3, <2>2, <2>4, <2>5
<1>5. N \in 0 .. N /\ f[N] = g[N] /\ f[N] \in Nat
  <2>1. N \in 0 .. N
    BY <1>1
  <2> QED BY <1>2, <1>4, <2>1
<1>6. g[N + 1] = g[N] + x
  <2>1. N + 1 \in 1 .. Len(longer) /\ (N + 1) - 1 = N
    BY <1>1
  <2> QED BY <1>1, <1>3, <2>1
<1> QED BY <1>1, <1>2, <1>3, <1>5, <1>6 DEF longer

LEMMA TotalOfNone == Total(<<>>) = 0
<1>1. <<>> \in Seq(Nat) /\ Len(<<>>) = 0
  OBVIOUS
<1> QED BY <1>1, TotalIsSum

Snippets == [unit : Units, chars : Nat]

LEMMA NumbersOfUnits ==
  ASSUME NEW u \in Units
  PROVE  About[u].version \in Nat /\ About[u].chars \in Nat /\ About[u].superseded \in BOOLEAN
  BY RetrievalAssumption

LEMMA TokensAreNumbers == \A n \in Nat : Tokens(n) \in Nat
  BY DEF Tokens

\* What a snippet more adds to the budgets.
LEMMA SnippetAppended ==
  ASSUME NEW p \in Seq(Snippets), NEW x \in Snippets
  PROVE  /\ Chars(p) \in Nat /\ Chars(Append(p, x)) = Chars(p) + x.chars
         /\ TokensOf(p) \in Nat /\ TokensOf(Append(p, x)) = TokensOf(p) + Tokens(x.chars)
<1> DEFINE n == Len(p)
           q == Append(p, x)
           chars == [i \in DOMAIN p |-> p[i].chars]
           tokens == [i \in DOMAIN p |-> Tokens(p[i].chars)]
<1>1. /\ n \in Nat /\ DOMAIN p = 1 .. n /\ DOMAIN q = 1 .. n + 1 /\ q[n + 1] = x
      /\ \A i \in 1 .. n : q[i] = p[i] /\ p[i].chars \in Nat /\ Tokens(p[i].chars) \in Nat
  <2>1. \A i \in 1 .. n : p[i] \in Snippets
    BY ElementOfSeq
  <2>2. \A i \in 1 .. n : p[i].chars \in Nat
    BY <2>1 DEF Snippets
  <2>3. /\ n \in Nat /\ DOMAIN p = 1 .. n /\ q[n + 1] = x /\ \A i \in 1 .. n : q[i] = p[i]
    OBVIOUS
  <2>4. q \in Seq(Snippets) /\ Len(q) = n + 1
    OBVIOUS
  <2>5. DOMAIN q = 1 .. n + 1
    BY <2>4, LenProperties
  <2> HIDE DEF n, q
  <2> QED BY <2>2, <2>3, <2>5, TokensAreNumbers
<1>2. x.chars \in Nat /\ Tokens(x.chars) \in Nat
  BY TokensAreNumbers DEF Snippets
<1> HIDE DEF n, q
<1>3. chars \in Seq(Nat) /\ tokens \in Seq(Nat) /\ Len(chars) = n /\ Len(tokens) = n
  <2>1. chars \in [1 .. n -> Nat] /\ tokens \in [1 .. n -> Nat]
    BY <1>1
  <2>2. \A h \in [1 .. n -> Nat] : h \in Seq(Nat) /\ Len(h) = n
    <3>1. n \in Nat
      BY <1>1
    <3> QED BY <3>1
  <2> HIDE DEF chars, tokens
  <2> QED BY <2>1, <2>2
<1>4. [i \in DOMAIN q |-> q[i].chars] = Append(chars, x.chars)
  <2>1. \A i \in 1 .. n + 1 : q[i].chars = IF i = n + 1 THEN x.chars ELSE chars[i]
    BY <1>1
  <2> HIDE DEF chars
  <2> QED BY <1>1, <1>2, <1>3, <2>1
<1>5. [i \in DOMAIN q |-> Tokens(q[i].chars)] = Append(tokens, Tokens(x.chars))
  <2>1. \A i \in 1 .. n + 1 : Tokens(q[i].chars) = IF i = n + 1 THEN Tokens(x.chars) ELSE tokens[i]
    BY <1>1
  <2> HIDE DEF tokens
  <2> QED BY <1>1, <1>2, <1>3, <2>1
<1>6. /\ Total(chars) \in Nat /\ Total(Append(chars, x.chars)) = Total(chars) + x.chars
      /\ Total(tokens) \in Nat /\ Total(Append(tokens, Tokens(x.chars))) = Total(tokens) + Tokens(x.chars)
  <2> HIDE DEF chars, tokens
  <2> QED BY <1>2, <1>3, TotalAppended
<1> QED BY <1>4, <1>5, <1>6 DEF Chars, TokensOf, q

LEMMA NoSnippets == <<>> \in Seq(Snippets) /\ Chars(<<>>) = 0 /\ TokensOf(<<>>) = 0
<1>1. /\ [i \in DOMAIN <<>> |-> <<>>[i].chars] = <<>>
      /\ [i \in DOMAIN <<>> |-> Tokens(<<>>[i].chars)] = <<>>
  OBVIOUS
<1> QED BY <1>1, TotalOfNone, EmptySeq DEF Chars, TokensOf

\* A hit is left out only when there is a snippet already; otherwise its snippet
\* fits the budgets.
LEMMA SnippetFits ==
  ASSUME NEW hits \in Seq(Units), NEW i \in 1 .. Len(hits), NEW p \in Seq(Snippets)
  PROVE  \/ Snippet(hits, i, p) = <<>> /\ p # <<>>
         \/ \E x \in Snippets : /\ Snippet(hits, i, p) = <<x>> /\ x.unit = hits[i]
                                /\ Chars(p) + x.chars <= MaxChars
                                /\ TokensOf(p) + Tokens(x.chars) <= MaxTokens
<1> DEFINE u == hits[i]
           cut == LesserOf(LesserOf(About[u].chars, MaxChars), MaxTokens * 4)
           fits == /\ Chars(p) + About[u].chars <= MaxChars
                   /\ TokensOf(p) + Tokens(About[u].chars) <= MaxTokens
           again == \E s \in ToSet(p) : s.chars = About[s.unit].chars /\ About[s.unit].text = About[u].text
<1>1. Snippet(hits, i, p) = IF Len(p) >= MaxSources \/ again THEN <<>>
                            ELSE IF fits THEN <<[unit |-> u, chars |-> About[u].chars]>>
                            ELSE IF p = <<>> THEN <<[unit |-> u, chars |-> cut]>> ELSE <<>>
  BY DEF Snippet
<1>2. u \in Units /\ About[u].chars \in Nat /\ {MaxSources, MaxChars, MaxTokens} \subseteq Nat \ {0}
  <2>1. u \in Units
    BY ElementOfSeq
  <2> QED BY <2>1, NumbersOfUnits, RetrievalAssumption
<1>3. again \/ Len(p) >= MaxSources => p # <<>>
  <2>1. ToSet(<<>>) = {} /\ Len(<<>>) = 0
    BY DEF ToSet
  <2> QED BY <1>2, <2>1
<1>4. cut \in Nat /\ cut <= MaxChars /\ Tokens(cut) <= MaxTokens
  <2>1. cut \in Nat /\ cut <= MaxChars /\ cut <= MaxTokens * 4
    BY <1>2 DEF LesserOf
  <2> HIDE DEF cut
  <2>2. MaxTokens \in Nat \ {0}
    BY <1>2
  <2>3. cut \div 4 <= MaxTokens
    BY <2>1, <2>2
  <2> QED BY <2>1, <2>2, <2>3 DEF Tokens
<1> HIDE DEF u, cut, again
<1>5. CASE Len(p) >= MaxSources \/ again
  BY <1>1, <1>3, <1>5
<1>6. CASE ~(Len(p) >= MaxSources \/ again) /\ fits
  <2> DEFINE x == [unit |-> u, chars |-> About[u].chars]
  <2>1. x \in Snippets /\ x.unit = u /\ x.chars = About[u].chars
    BY <1>2 DEF Snippets
  <2>2. Snippet(hits, i, p) = <<x>>
    BY <1>1, <1>6
  <2> HIDE DEF x
  <2> QED BY <1>6, <2>1, <2>2 DEF u
<1>7. CASE ~(Len(p) >= MaxSources \/ again) /\ ~fits /\ p = <<>>
  <2> DEFINE x == [unit |-> u, chars |-> cut]
  <2>1. x \in Snippets /\ x.unit = u /\ x.chars = cut
    BY <1>2, <1>4 DEF Snippets
  <2>2. Snippet(hits, i, p) = <<x>>
    BY <1>1, <1>7
  <2>3. Tokens(cut) \in Nat
    BY <1>4, TokensAreNumbers
  <2>4. Chars(p) + x.chars <= MaxChars /\ TokensOf(p) + Tokens(x.chars) <= MaxTokens
    <3> HIDE DEF fits, x
    <3> QED BY <1>2, <1>4, <1>7, <2>1, <2>3, NoSnippets
  <2> HIDE DEF x
  <2> QED BY <2>1, <2>2, <2>4 DEF u
<1>8. CASE ~(Len(p) >= MaxSources \/ again) /\ ~fits /\ p # <<>>
  BY <1>1, <1>8
<1> QED BY <1>5, <1>6, <1>7, <1>8

\* Of the hits of a source one is its newest revision, the first of those.
LEMMA SomeFreshest ==
  ASSUME NEW hits \in Seq(Units), hits # <<>>
  PROVE  \E i \in 1 .. Len(hits) : Freshest(hits, i)
<1> DEFINE N == Len(hits)
           same(i) == About[hits[i]].source = About[hits[1]].source
           version(i) == About[hits[i]].version
           newest(k, i) == /\ i \in 1 .. k /\ same(i)
                           /\ \A j \in 1 .. k : same(j) => version(j) < version(i) \/ (version(j) = version(i) /\ i <= j)
           Without == {k \in 1 .. N : ~(\E i \in 1 .. k : newest(k, i))}
<1>1. N \in Nat \ {0} /\ \A i \in 1 .. N : version(i) \in Nat
  <2>1. N \in Nat \ {0}
    BY EmptySeq, LenProperties
  <2>2. \A i \in 1 .. N : hits[i] \in Units
    BY ElementOfSeq
  <2> QED BY <2>1, <2>2, NumbersOfUnits
<1>2. Without = {}
  <2> SUFFICES ASSUME Without # {} PROVE FALSE
    OBVIOUS
  <2>1. PICK k \in Without : \A n \in Without : k <= n
    <3>1. Without \in SUBSET Nat
      BY <1>1
    <3> HIDE DEF Without
    <3> QED BY <3>1, LeastNumber
  <2>2. k \in 1 .. N /\ ~(\E i \in 1 .. k : newest(k, i))
    BY <2>1
  <2> HIDE DEF N, version
  <2>3. CASE k = 1
    <3>1. newest(1, 1)
      BY <1>1
    <3> QED BY <2>2, <2>3, <3>1
  <2>4. CASE k # 1
    <3>1. k - 1 \in 1 .. N /\ ~(k <= k - 1) /\ k \in Nat
      BY <1>1, <2>2, <2>4
    <3>2. PICK i \in 1 .. (k - 1) : newest(k - 1, i)
      BY <2>1, <3>1
    <3>3. /\ i \in 1 .. (k - 1) /\ same(i)
          /\ \A j \in 1 .. (k - 1) : same(j) => version(j) < version(i) \/ (version(j) = version(i) /\ i <= j)
      BY <3>2
    <3>4. i \in 1 .. N /\ i \in 1 .. k /\ i < k /\ k \in 1 .. k
      BY <1>1, <2>2, <3>1, <3>3
    <3>5. version(i) \in Nat /\ version(k) \in Nat /\ \A j \in 1 .. (k - 1) : version(j) \in Nat
      <4>1. \A j \in 1 .. (k - 1) : j \in 1 .. N
        BY <1>1, <2>2
      <4> QED BY <1>1, <2>2, <3>4, <4>1
    <3>6. \A j \in 1 .. k : j \in 1 .. (k - 1) \/ j = k
      BY <3>1
    <3> HIDE DEF same
    <3>7. CASE same(k) /\ version(i) < version(k)
      <4>1. \A j \in 1 .. (k - 1) : same(j) => version(j) < version(k)
        <5> SUFFICES ASSUME NEW j \in 1 .. (k - 1), same(j) PROVE version(j) < version(k)
          OBVIOUS
        <5>1. version(j) < version(i) \/ version(j) = version(i)
          BY <3>3
        <5>2. version(j) \in Nat /\ version(i) \in Nat /\ version(k) \in Nat /\ version(i) < version(k)
          BY <3>5, <3>7
        <5> QED BY <5>1, <5>2
      <4>2. \A j \in 1 .. k : same(j) => version(j) < version(k) \/ (version(j) = version(k) /\ k <= j)
        BY <3>1, <3>6, <4>1
      <4> QED BY <2>2, <3>4, <3>7, <4>2
    <3>8. CASE ~(same(k) /\ version(i) < version(k))
      <4>1. same(k) => version(k) < version(i) \/ (version(k) = version(i) /\ i <= k)
        BY <3>1, <3>4, <3>5, <3>8
      <4>2. \A j \in 1 .. k : same(j) => version(j) < version(i) \/ (version(j) = version(i) /\ i <= j)
        BY <3>3, <3>6, <4>1
      <4> QED BY <2>2, <3>3, <3>4, <4>2
    <3> QED BY <3>7, <3>8
  <2> QED BY <2>3, <2>4
<1>3. PICK i \in 1 .. N : newest(N, i)
  <2>1. N \in 1 .. N
    BY <1>1
  <2> HIDE DEF newest, N
  <2> QED BY <1>2, <2>1
<1> QED BY <1>3 DEF Freshest

\* When the loop over the hits, of which there are Len(hits), is at the ith.
VisitAt(hits, i) == IF About[hits[i]].superseded THEN Len(hits) + i ELSE i

\* The package p after n steps of the loop.
PackageSoFar(hits, n, p) ==
  /\ p \in Seq(Snippets)
  /\ Chars(p) <= MaxChars /\ TokensOf(p) <= MaxTokens
  /\ \A k \in 1 .. Len(p) : \E i \in 1 .. Len(hits) :
       p[k].unit = hits[i] /\ Freshest(hits, i) /\ VisitAt(hits, i) <= n
  /\ \A k, l \in 1 .. Len(p) : k # l => About[p[k].unit].source # About[p[l].unit].source
  /\ \A i \in 1 .. Len(hits) : Freshest(hits, i) /\ VisitAt(hits, i) <= n => p # <<>>

\* The newest revision of a source is one hit.
LEMMA FreshestOnce ==
  ASSUME NEW hits \in Seq(Units), NEW i \in 1 .. Len(hits), NEW j \in 1 .. Len(hits),
         Freshest(hits, i), Freshest(hits, j), About[hits[i]].source = About[hits[j]].source
  PROVE  i = j
<1>1. About[hits[i]].version \in Nat /\ About[hits[j]].version \in Nat
  BY ElementOfSeq, NumbersOfUnits
<1>2. /\ About[hits[j]].version < About[hits[i]].version \/ (About[hits[j]].version = About[hits[i]].version /\ i <= j)
      /\ About[hits[i]].version < About[hits[j]].version \/ (About[hits[i]].version = About[hits[j]].version /\ j <= i)
  BY DEF Freshest
<1>3. i \in Nat /\ j \in Nat
  BY LenProperties
<1> QED BY <1>1, <1>2, <1>3

LEMMA AddedKeeps ==
  ASSUME NEW hits \in Seq(Units), NEW i \in 1 .. Len(hits), NEW last \in BOOLEAN, NEW n, NEW p,
         n = (IF last THEN Len(hits) + i ELSE i), PackageSoFar(hits, n - 1, p)
  PROVE  PackageSoFar(hits, n, Added(hits, i, last, p))
<1> DEFINE N == Len(hits)
<1>1. N \in Nat /\ \A j \in 1 .. N : About[hits[j]].superseded \in BOOLEAN
  BY ElementOfSeq, LenProperties, NumbersOfUnits
<1>2. n \in Nat \ {0} /\ \A j \in 1 .. N : VisitAt(hits, j) \in Nat
                        /\ (VisitAt(hits, j) = n <=> j = i /\ About[hits[i]].superseded = last)
                        /\ (VisitAt(hits, j) <= n <=> VisitAt(hits, j) <= n - 1 \/ VisitAt(hits, j) = n)
  <2>1. n \in Nat \ {0}
    BY <1>1
  <2>2. ASSUME NEW j \in 1 .. N
        PROVE  VisitAt(hits, j) \in Nat /\ (VisitAt(hits, j) = n <=> j = i /\ About[hits[i]].superseded = last)
    BY <1>1 DEF VisitAt
  <2> QED BY <2>1, <2>2
<1>3. /\ p \in Seq(Snippets) /\ Chars(p) <= MaxChars /\ TokensOf(p) <= MaxTokens
      /\ \A k \in 1 .. Len(p) : \E j \in 1 .. N : p[k].unit = hits[j] /\ Freshest(hits, j) /\ VisitAt(hits, j) <= n - 1
      /\ \A k, l \in 1 .. Len(p) : k # l => About[p[k].unit].source # About[p[l].unit].source
      /\ \A j \in 1 .. N : Freshest(hits, j) /\ VisitAt(hits, j) <= n - 1 => p # <<>>
  BY DEF PackageSoFar
<1>4. \A k \in 1 .. Len(p) : \E j \in 1 .. N :
        p[k].unit = hits[j] /\ Freshest(hits, j) /\ VisitAt(hits, j) <= n - 1 /\ VisitAt(hits, j) <= n
  BY <1>2, <1>3
<1>5. CASE ~(About[hits[i]].superseded = last /\ Freshest(hits, i))
  <2>1. Added(hits, i, last, p) = p
    BY <1>5 DEF Added, Chosen
  <2>2. \A j \in 1 .. N : Freshest(hits, j) /\ VisitAt(hits, j) <= n => p # <<>>
    BY <1>2, <1>3, <1>5
  <2> QED BY <1>3, <1>4, <2>1, <2>2 DEF PackageSoFar
<1>6. CASE About[hits[i]].superseded = last /\ Freshest(hits, i)
  <2>1. Added(hits, i, last, p) = p \o Snippet(hits, i, p) /\ VisitAt(hits, i) = n
    BY <1>2, <1>6 DEF Added, Chosen
  <2>2. CASE Snippet(hits, i, p) = <<>> /\ p # <<>>
    <3>1. Added(hits, i, last, p) = p
      BY <1>3, <2>1, <2>2, ConcatEmptySeq
    <3> QED BY <1>3, <1>4, <2>2, <3>1 DEF PackageSoFar
  <2>3. ASSUME NEW x \in Snippets, Snippet(hits, i, p) = <<x>>, x.unit = hits[i],
               Chars(p) + x.chars <= MaxChars, TokensOf(p) + Tokens(x.chars) <= MaxTokens
        PROVE  PackageSoFar(hits, n, Added(hits, i, last, p))
    <3> DEFINE q == Append(p, x)
               m == Len(p)
    <3>1. Added(hits, i, last, p) = q
      BY <1>3, <2>1, <2>3, AppendIsConcat
    <3>2. /\ q \in Seq(Snippets) /\ Len(q) = m + 1 /\ m \in Nat /\ q[m + 1] = x
          /\ \A k \in 1 .. m : q[k] = p[k]
      BY <1>3
    <3>3. Chars(q) <= MaxChars /\ TokensOf(q) <= MaxTokens
      BY <1>3, <2>3, SnippetAppended
    <3> HIDE DEF q, m
    <3>4. \A k \in 1 .. m + 1 : k \in 1 .. m \/ k = m + 1
      BY <3>2
    <3>5. ASSUME NEW k \in 1 .. m
          PROVE  \E j \in 1 .. N : /\ p[k].unit = hits[j] /\ Freshest(hits, j) /\ VisitAt(hits, j) <= n /\ j # i
    BY <1>2, <1>4, <2>1 DEF m
    <3>6. \A k \in 1 .. m : About[p[k].unit].source # About[hits[i]].source
      BY <1>6, <3>5, FreshestOnce
    <3>7. \A k \in 1 .. m + 1 : \E j \in 1 .. N : q[k].unit = hits[j] /\ Freshest(hits, j) /\ VisitAt(hits, j) <= n
      <4>1. \A k \in 1 .. m : \E j \in 1 .. N : q[k].unit = hits[j] /\ Freshest(hits, j) /\ VisitAt(hits, j) <= n
        BY <3>2, <3>5
      <4>2. q[m + 1].unit = hits[i] /\ Freshest(hits, i) /\ VisitAt(hits, i) <= n
        BY <1>2, <1>6, <2>1, <2>3, <3>2
      <4> QED BY <3>4, <4>1, <4>2
    <3>8. \A k, l \in 1 .. m + 1 : k # l => About[q[k].unit].source # About[q[l].unit].source
      <4>1. \A k, l \in 1 .. m : k # l => About[q[k].unit].source # About[q[l].unit].source
        <5>1. \A k, l \in 1 .. m : k # l => About[p[k].unit].source # About[p[l].unit].source
          BY <1>3 DEF m
        <5> QED BY <3>2, <5>1
      <4>2. \A k \in 1 .. m : About[q[k].unit].source # About[q[m + 1].unit].source
        BY <2>3, <3>2, <3>6
      <4> QED BY <3>4, <4>1, <4>2
    <3>9. q # <<>>
      BY <3>2, EmptySeq
    <3> QED BY <3>1, <3>2, <3>3, <3>7, <3>8, <3>9 DEF PackageSoFar
  <2> QED BY <1>3, <2>2, <2>3, SnippetFits
<1> QED BY <1>5, <1>6

\* The nth step of the two passes, and the passes as far as there.
OnePass(hits, n, p) == IF n <= Len(hits) THEN Added(hits, n, FALSE, p) ELSE Added(hits, n - Len(hits), TRUE, p)
IsPasses(f, hits, n) == f = [m \in 0 .. n |-> IF m = 0 THEN <<>> ELSE OnePass(hits, m, f[m - 1])]

LEMMA PassKeeps ==
  ASSUME NEW hits \in Seq(Units), NEW n \in 1 .. (2 * Len(hits)), NEW p, PackageSoFar(hits, n - 1, p)
  PROVE  PackageSoFar(hits, n, OnePass(hits, n, p))
<1>1. Len(hits) \in Nat /\ n \in Nat
  BY LenProperties
<1>2. CASE n <= Len(hits)
  <2>1. n \in 1 .. Len(hits) /\ FALSE \in BOOLEAN
    BY <1>1, <1>2
  <2> QED BY <1>2, <2>1, AddedKeeps DEF OnePass
<1>3. CASE ~(n <= Len(hits))
  <2>1. n - Len(hits) \in 1 .. Len(hits) /\ n = Len(hits) + (n - Len(hits)) /\ TRUE \in BOOLEAN
    BY <1>1, <1>3
  <2> QED BY <1>3, <2>1, AddedKeeps DEF OnePass
<1> QED BY <1>2, <1>3

LEMMA PassTypes ==
  ASSUME NEW hits \in Seq(Units), NEW n \in 1 .. (2 * Len(hits)), NEW p \in Seq(Snippets)
  PROVE  OnePass(hits, n, p) \in Seq(Snippets)
<1>1. ASSUME NEW i \in 1 .. Len(hits), NEW last PROVE Added(hits, i, last, p) \in Seq(Snippets)
  <2>1. Snippet(hits, i, p) \in Seq(Snippets)
    <3>1. \A x \in Snippets : <<x>> \in Seq(Snippets)
      OBVIOUS
    <3>2. Snippet(hits, i, p) = <<>> \/ \E x \in Snippets : Snippet(hits, i, p) = <<x>>
      BY SnippetFits
    <3>3. <<>> \in Seq(Snippets)
      BY EmptySeq
    <3> QED BY <3>1, <3>2, <3>3
  <2>2. p \o Snippet(hits, i, p) \in Seq(Snippets)
    BY <2>1, ConcatProperties
  <2> QED BY <2>2 DEF Added
<1>2. Len(hits) \in Nat
  BY LenProperties
<1>3. CASE n <= Len(hits)
  <2>1. n \in 1 .. Len(hits)
    BY <1>2, <1>3
  <2> QED BY <1>1, <1>3, <2>1 DEF OnePass
<1>4. CASE ~(n <= Len(hits))
  <2>1. n - Len(hits) \in 1 .. Len(hits)
    BY <1>2, <1>4
  <2> QED BY <1>1, <1>4, <2>1 DEF OnePass
<1> QED BY <1>3, <1>4

LEMMA AssembledSoFar ==
  ASSUME NEW hits \in Seq(Units)
  PROVE  PackageSoFar(hits, 2 * Len(hits), Assembled(hits))
<1> DEFINE N == 2 * Len(hits)
           S == Seq(Snippets)
           f == CHOOSE g : IsPasses(g, hits, N)
           step == [x \in Nat \X S |-> IF x[1] \in 1 .. N THEN OnePass(hits, x[1], x[2]) ELSE x[2]]
<1>1. N \in Nat /\ <<>> \in S
  BY LenProperties, EmptySeq
<1>2. Assembled(hits) = f[N]
  BY DEF Assembled, IsPasses, OnePass
<1>3. \A m \in 1 .. N, p \in S : OnePass(hits, m, p) \in S
  BY PassTypes
<1> HIDE DEF N, S
<1>4. step \in [Nat \X S -> S] /\ \A m \in 1 .. N, p \in S : step[<<m, p>>] = OnePass(hits, m, p)
  <2>1. ASSUME NEW x \in Nat \X S PROVE (IF x[1] \in 1 .. N THEN OnePass(hits, x[1], x[2]) ELSE x[2]) \in S
    BY <1>3
  <2>2. \A m \in 1 .. N, p \in S : <<m, p>> \in Nat \X S
    BY <1>1
  <2> QED BY <2>1, <2>2
<1> HIDE DEF step
<1>5. PICK g \in [0 .. N -> S] : g[0] = <<>> /\ \A m \in 1 .. N : g[m] = step[<<m, g[m - 1]>>]
  <2>1. step \in Steps(S)
    BY <1>4 DEF Steps
  <2>2. Loops(S, <<>>, step, N) # {}
    BY <1>1, <2>1, LoopOver
  <2> QED BY <2>2 DEF Loops
<1>6. \A m \in 1 .. N : g[m] = OnePass(hits, m, g[m - 1])
  <2>1. \A m \in 1 .. N : m - 1 \in 0 .. N
    BY <1>1
  <2>2. \A m \in 1 .. N : g[m - 1] \in S
    BY <1>5, <2>1
  <2> QED BY <1>4, <1>5, <2>2
<1>7. IsPasses(g, hits, N)
  <2>1. \A m \in 0 .. N : m = 0 \/ m \in 1 .. N
    BY <1>1
  <2>2. g = [m \in 0 .. N |-> g[m]]
    BY <1>5
  <2>3. \A m \in 0 .. N : g[m] = IF m = 0 THEN <<>> ELSE OnePass(hits, m, g[m - 1])
    BY <1>5, <1>6, <2>1
  <2> QED BY <2>2, <2>3 DEF IsPasses
<1>8. IsPasses(f, hits, N)
  BY <1>7
<1> HIDE DEF f
<1>9. \A m \in 0 .. N : f[m] = IF m = 0 THEN <<>> ELSE OnePass(hits, m, f[m - 1])
  BY <1>8 DEF IsPasses
<1> DEFINE Wrong == {n \in 0 .. N : ~PackageSoFar(hits, n, f[n])}
<1>10. Wrong = {}
  <2> SUFFICES ASSUME Wrong # {} PROVE FALSE
    OBVIOUS
  <2>1. PICK n \in Wrong : \A k \in Wrong : n <= k
    <3>1. Wrong \in SUBSET Nat
      BY <1>1
    <3> HIDE DEF Wrong
    <3> QED BY <3>1, LeastNumber
  <2>2. n \in 0 .. N /\ ~PackageSoFar(hits, n, f[n])
    BY <2>1
  <2>3. CASE n = 0
    <3>1. f[0] = <<>> /\ Len(<<>>) = 0
      BY <1>1, <1>9
    <3>2. \A i \in 1 .. Len(hits) : ~(VisitAt(hits, i) <= 0)
      BY LenProperties DEF VisitAt
    <3>3. 0 <= MaxChars /\ 0 <= MaxTokens
      BY RetrievalAssumption
    <3>4. PackageSoFar(hits, 0, <<>>)
      BY <3>1, <3>2, <3>3, NoSnippets DEF PackageSoFar
    <3> QED BY <2>2, <2>3, <3>1, <3>4
  <2>4. CASE n # 0
    <3>1. n \in 1 .. N /\ n - 1 \in 0 .. N /\ ~(n <= n - 1)
      BY <1>1, <2>2, <2>4
    <3>2. PackageSoFar(hits, n - 1, f[n - 1])
      BY <2>1, <3>1
    <3>3. f[n] = OnePass(hits, n, f[n - 1])
      BY <1>9, <2>2, <2>4
    <3>4. PackageSoFar(hits, n, OnePass(hits, n, f[n - 1]))
      BY <3>1, <3>2, PassKeeps DEF N
    <3> QED BY <2>2, <3>3, <3>4
  <2> QED BY <2>3, <2>4
<1>11. PackageSoFar(hits, N, f[N])
  <2>1. N \in 0 .. N
    BY <1>1
  <2> QED BY <1>10, <2>1
<1> QED BY <1>2, <1>11 DEF N

\* The package of a row whose hits are units.
LEMMA AssembledIsBest ==
  ASSUME NEW s, s.hits \in Seq(Units), s.package = Assembled(s.hits)
  PROVE  BestPackage(s)
<1> DEFINE p == s.package
           N == Len(s.hits)
<1>1. PackageSoFar(s.hits, 2 * N, p)
  BY AssembledSoFar
<1>2. N \in Nat /\ \A i \in 1 .. N : VisitAt(s.hits, i) <= 2 * N
  <2>1. N \in Nat
    BY LenProperties
  <2>2. \A i \in 1 .. N : VisitAt(s.hits, i) = N + i \/ VisitAt(s.hits, i) = i
    BY DEF VisitAt
  <2> HIDE DEF N
  <2> QED BY <2>1, <2>2
<1>3. /\ p \in Seq(Snippets) /\ Chars(p) <= MaxChars /\ TokensOf(p) <= MaxTokens
      /\ \A k \in 1 .. Len(p) : \E i \in 1 .. N : p[k].unit = s.hits[i] /\ Freshest(s.hits, i)
      /\ \A k, l \in 1 .. Len(p) : k # l => About[p[k].unit].source # About[p[l].unit].source
      /\ \A i \in 1 .. N : Freshest(s.hits, i) => p # <<>>
  BY <1>1, <1>2 DEF PackageSoFar
<1>4. s.hits # <<>> => p # <<>>
  BY <1>3, SomeFreshest
<1>5. ASSUME NEW x \in ToSet(p), NEW u \in ToSet(s.hits), About[u].source = About[x.unit].source
      PROVE  About[u].version <= About[x.unit].version
  <2>1. PICK k \in 1 .. Len(p) : x = p[k]
    BY <1>3, LenProperties DEF ToSet
  <2>2. PICK i \in 1 .. N : x.unit = s.hits[i] /\ Freshest(s.hits, i)
    BY <1>3, <2>1
  <2>3. PICK j \in 1 .. N : u = s.hits[j]
    BY LenProperties DEF ToSet
  <2>4. About[s.hits[j]].version < About[s.hits[i]].version \/ About[s.hits[j]].version = About[s.hits[i]].version
    BY <1>5, <2>2, <2>3 DEF Freshest
  <2>5. About[s.hits[i]].version \in Nat /\ About[s.hits[j]].version \in Nat
    BY ElementOfSeq, NumbersOfUnits
  <2> QED BY <2>2, <2>3, <2>4, <2>5
<1> QED BY <1>3, <1>4, <1>5 DEF BestPackage

-----------------------------------------------------------------------------
(* What a search shows.                                                     *)

SearchFields == {"pc", "policy", "perSource", "spaces", "active", "gen", "lexical", "vector",
                 "read", "hits", "package", "shown", "dark"}

\* What the row s of the request q has found or shown was readable, the spaces it
\* looks in are within the grants, and no space that the principal can read now
\* counts as closed to it.
RowSound(q, s) ==
  /\ DOMAIN s = SearchFields /\ s = [f \in SearchFields |-> s[f]]
  /\ s.pc = "none" => s = NoSearch
  /\ call[q] = Idle => s = NoSearch
  /\ call[q] # Idle => s.dark \cap EffectiveSpaces(call[q]) = {}
  /\ s.pc = "scoped" => s.lexical = <<>> /\ s.vector = <<>> /\ s.shown = {}
  /\ \A t \in s.spaces : t \in Spaces /\ (call[q].grants # Anywhere => t \in call[q].grants)
  /\ \A u \in ToSet(s.lexical) \cup ToSet(s.vector) \cup s.shown :
       /\ About[u].space \notin s.dark
       /\ call[q].grants # Anywhere => About[u].space \in call[q].grants

SearchSound ==
  /\ AccessInvariant
  /\ search = [q \in Callers |-> search[q]]
  /\ \A q \in Callers : RowSound(q, search[q])

LEMMA EmptyToSet == ToSet(<<>>) = {}
<1>1. DOMAIN <<>> = {}
  OBVIOUS
<1> QED BY <1>1 DEF ToSet

\* No search, whoever the request is for.
LEMMA NoSearchSound == \A q : RowSound(q, NoSearch)
<1> TAKE q
<1>1. /\ DOMAIN NoSearch = SearchFields /\ NoSearch = [f \in SearchFields |-> NoSearch[f]]
      /\ NoSearch.dark = {} /\ NoSearch.spaces = {} /\ NoSearch.shown = {}
      /\ NoSearch.lexical = <<>> /\ NoSearch.vector = <<>> /\ NoSearch.pc = "none"
  BY DEF NoSearch, SearchFields
<1> QED BY <1>1, EmptyToSet DEF RowSound

\* A step of one search.
LEMMA SetKeeps ==
  ASSUME SearchSound, NEW q \in Callers, NEW row, Set(q, row), RowSound(q, row)
  PROVE  SearchSound'
<1>1. UNCHANGED <<enabled, space, role, key, call>> /\ search' = [search EXCEPT ![q] = row]
  BY DEF Set, accessVars
<1>2. AccessInvariant'
  BY <1>1, OutsideKeeps DEF SearchSound, accessVars
<1>3. search' = [c \in Callers |-> search'[c]]
  BY <1>1 DEF SearchSound
<1>4. ASSUME NEW c \in Callers PROVE RowSound(c, search'[c])
  BY <1>1 DEF SearchSound
<1>5. ASSUME NEW c \in Callers PROVE RowSound(c, search[c])'
  <2>1. call' = call /\ \A p : EffectiveSpaces(p)' = EffectiveSpaces(p)
    BY <1>1 DEF EffectiveSpaces
  <2>2. EffectiveSpaces(call[c])' = EffectiveSpaces(call[c])
    BY <1>1 DEF EffectiveSpaces
  <2> QED BY <1>4, <2>1, <2>2 DEF RowSound
<1> QED BY <1>2, <1>3, <1>5 DEF SearchSound

\* What a request may rely on while others act.
GoesOn(c) == /\ call'[c] = Idle <=> call[c] = Idle
             /\ call[c] # Idle => call'[c].grants = call[c].grants

LEMMA ElsewhereKeeps ==
  ASSUME SearchSound, AccessInvariant',
         search' = [q \in Callers |-> [search[q] EXCEPT !.dark = Dark(q)]],
         \A c \in Callers : search[c] = NoSearch \/ GoesOn(c)
  PROVE  SearchSound'
<1>1. search' = [c \in Callers |-> search'[c]]
  OBVIOUS
<1>2. ASSUME NEW c \in Callers PROVE RowSound(c, search[c])'
  <2> DEFINE dark == Dark(c)
             now == [search[c] EXCEPT !.dark = dark]
  <2>1. search'[c] = now /\ RowSound(c, search[c])
    BY DEF SearchSound
  <2>2. CASE search[c] = NoSearch
    <3>1. dark = {}
      BY <2>2 DEF Dark, NoSearch
    <3> HIDE DEF dark
    <3>2. now = NoSearch
      <4>1. now = [NoSearch EXCEPT !.dark = {}]
        BY <2>2, <3>1
      <4>2. DOMAIN NoSearch = SearchFields /\ NoSearch = [f \in SearchFields |-> NoSearch[f]] /\ NoSearch.dark = {}
        BY DEF NoSearch, SearchFields
      <4>3. [NoSearch EXCEPT !.dark = {}] = NoSearch
        BY <4>2
      <4> QED BY <4>1, <4>3
    <3>3. search'[c] = NoSearch
      BY <2>1, <3>2
    <3>4. /\ DOMAIN NoSearch = SearchFields /\ NoSearch = [f \in SearchFields |-> NoSearch[f]]
          /\ NoSearch.dark = {} /\ NoSearch.spaces = {} /\ NoSearch.shown = {}
          /\ NoSearch.lexical = <<>> /\ NoSearch.vector = <<>> /\ NoSearch.pc = "none"
      BY DEF NoSearch, SearchFields
    <3> QED BY <3>3, <3>4, EmptyToSet DEF RowSound, NoSearch
  <2>3. CASE search[c] # NoSearch
    <3>1. GoesOn(c) /\ call[c] # Idle /\ call'[c] # Idle /\ call'[c].grants = call[c].grants
      BY <2>1, <2>3 DEF RowSound, GoesOn
    <3>2. dark \subseteq search[c].dark /\ dark \cap EffectiveSpaces(call[c])' = {}
      BY <3>1 DEF Dark
    <3> HIDE DEF dark
    <3>3. /\ DOMAIN now = SearchFields /\ now = [f \in SearchFields |-> now[f]] /\ now.dark = dark
          /\ now.pc = search[c].pc /\ now.spaces = search[c].spaces /\ now.shown = search[c].shown
          /\ now.lexical = search[c].lexical /\ now.vector = search[c].vector
      BY <2>1 DEF RowSound, SearchFields
    <3>4. search[c].pc # "none"
      BY <2>1, <2>3 DEF RowSound
    <3> HIDE DEF now
    <3> QED BY <2>1, <3>1, <3>2, <3>3, <3>4 DEF RowSound
  <2> QED BY <2>2, <2>3
<1> QED BY <1>1, <1>2 DEF SearchSound

\* A step of one request leaves the others their spaces.
LEMMA OthersGoOn ==
  ASSUME AccessTypeOK, NEW q \in Callers,
         SpaceStep(q) \/ KeyStep(q) \/ (\E u \in Users : ResolveSession(q, u)),
         NEW c \in Callers, c # q
  PROVE  GoesOn(c)
<1>1. CASE UNCHANGED call \/ \E p : call' = [call EXCEPT ![q] = p]
  BY <1>1 DEF AccessTypeOK, GoesOn
<1>2. ASSUME NEW s \in Spaces, Bump(q, s) PROVE GoesOn(c)
  <2>1. CASE call[c] = Idle
    BY <1>2, <2>1 DEF Bump, GoesOn
  <2>2. CASE call[c] # Idle
    <3> DEFINE p == [call[c] EXCEPT !.fresh = @ \ {s}]
    <3>1. call[c] \in Principal /\ call'[c] = p
      BY <1>2, <2>2, AccessTypes DEF Bump
    <3>2. p \in Principal /\ p.grants = call[c].grants
      BY <3>1 DEF Principal
    <3> HIDE DEF p
    <3> QED BY <2>2, <3>1, <3>2, PrincipalIsNotIdle DEF GoesOn
  <2> QED BY <2>1, <2>2
<1>3. CASE SpaceStep(q)
  <2>1. Done(q) \/ \E s \in Spaces : Bump(q, s)
    BY <1>3, SpaceStepParts
  <2> QED BY <1>1, <1>2, <2>1 DEF Done
<1>4. CASE KeyStep(q) \/ \E u \in Users : ResolveSession(q, u)
  <2>1. \E p : call' = [call EXCEPT ![q] = p]
    BY <1>4 DEF KeyStep, ResolveKey, revoke_api_key, RevokeKey, create_api_key, CreateKey,
                create_service_key, CreateServiceKey, Done, ResolveSession
  <2> QED BY <1>1, <2>1
<1> QED BY <1>3, <1>4

LEMMA BeginKeeps ==
  ASSUME SearchSound, NEW q \in Callers, NEW asked, NEW active, NEW wish, NEW perSource,
         BeginSearch(q, asked, active, wish, perSource)
  PROVE  SearchSound'
<1> DEFINE scope == EffectiveSpaces(call[q]) \cap asked \cap (IF active = NoOne THEN Spaces ELSE {active})
           pc == IF scope = {} THEN "answered" ELSE "scoped"
           row == [NoSearch EXCEPT !.pc = pc, !.policy = wish, !.perSource = perSource,
                                   !.spaces = scope, !.active = active]
<1>1. call[q] # Idle /\ Set(q, row)
  BY DEF BeginSearch, Searching
<1>2. \A t \in scope : t \in Spaces /\ (call[q].grants # Anywhere => t \in call[q].grants)
  BY DEF EffectiveSpaces
<1>3. pc \in {"answered", "scoped"}
  OBVIOUS
<1> HIDE DEF scope, pc
<1>4. /\ DOMAIN row = SearchFields /\ row = [f \in SearchFields |-> row[f]]
      /\ row.pc = pc /\ row.spaces = scope /\ row.dark = {} /\ row.shown = {}
      /\ row.lexical = <<>> /\ row.vector = <<>>
  BY DEF NoSearch, SearchFields
<1> HIDE DEF row
<1>5. RowSound(q, row)
  BY <1>1, <1>2, <1>3, <1>4, EmptyToSet DEF RowSound
<1> QED BY <1>1, <1>5, SetKeeps

LEMMA GenerationKeeps ==
  ASSUME SearchSound, NEW q \in Callers, ReadGeneration(q)
  PROVE  SearchSound'
<1> DEFINE s == search[q]
           pc == IF current # 0 THEN "reading" ELSE IF s.policy = "required" THEN "failed" ELSE "answered"
           dark == Spaces \ EffectiveSpaces(call[q])
           read == (IF Weights.lexical = 0 THEN {"lexical"} ELSE {})
                     \cup (IF Weights.vector = 0 \/ s.policy = "disabled" THEN {"vector"} ELSE {})
           row == [s EXCEPT !.pc = pc, !.gen = current, !.dark = dark, !.read = read]
<1>1. call[q] # Idle /\ s.pc = "scoped" /\ Set(q, row) /\ RowSound(q, s)
  BY DEF ReadGeneration, Searching, SearchSound
<1>2. pc \in {"reading", "failed", "answered"} /\ dark \cap EffectiveSpaces(call[q]) = {}
  OBVIOUS
<1> HIDE DEF pc, dark, read, s
<1>3. /\ DOMAIN row = SearchFields /\ row = [f \in SearchFields |-> row[f]]
      /\ row.pc = pc /\ row.dark = dark /\ row.spaces = s.spaces /\ row.shown = s.shown
      /\ row.lexical = s.lexical /\ row.vector = s.vector
  BY <1>1 DEF RowSound, SearchFields
<1> HIDE DEF row
<1>4. RowSound(q, row)
  BY <1>1, <1>2, <1>3, EmptyToSet DEF RowSound
<1> QED BY <1>1, <1>4, SetKeeps

\* What the joins leave is readable now.
LEMMA VisibleIsReadable ==
  ASSUME SearchSound, NEW q \in Callers, call[q] # Idle, NEW found \in Orders(Visible(q)), NEW u \in ToSet(found)
  PROVE  /\ About[u].space \notin search[q].dark
         /\ call[q].grants # Anywhere => About[u].space \in call[q].grants
<1>1. u \in Visible(q)
  BY OrdersAreSeqs, ToSetOfSeq
<1>2. RowSound(q, search[q])
  BY DEF SearchSound
<1>3. About[u].space \in search[q].spaces /\ About[u].space \in EffectiveSpaces(call[q])
  BY <1>1, <1>2 DEF Visible, EffectiveSpaces, RowSound
<1> QED BY <1>2, <1>3 DEF RowSound

LEMMA BranchKeeps ==
  ASSUME SearchSound, NEW q \in Callers, NEW found, LexicalSearch(q, found) \/ VectorSearch(q, found)
  PROVE  SearchSound'
<1> DEFINE s == search[q]
<1>1. call[q] # Idle /\ s.pc = "reading" /\ found \in Orders(Visible(q)) /\ RowSound(q, s)
  BY DEF LexicalSearch, VectorSearch, Searching, SearchSound
<1>2. \A u \in ToSet(found) : /\ About[u].space \notin s.dark
                              /\ call[q].grants # Anywhere => About[u].space \in call[q].grants
  BY <1>1, VisibleIsReadable
<1>3. CASE LexicalSearch(q, found)
  <2> DEFINE read == s.read \cup {"lexical"}
             row == [s EXCEPT !.lexical = found, !.read = read]
  <2>1. Set(q, row)
    BY <1>3 DEF LexicalSearch
  <2> HIDE DEF read, s
  <2>2. /\ DOMAIN row = SearchFields /\ row = [f \in SearchFields |-> row[f]]
        /\ row.pc = s.pc /\ row.dark = s.dark /\ row.spaces = s.spaces /\ row.shown = s.shown
        /\ row.lexical = found /\ row.vector = s.vector
    BY <1>1 DEF RowSound, SearchFields
  <2> HIDE DEF row
  <2>3. RowSound(q, row)
    BY <1>1, <1>2, <2>2 DEF RowSound
  <2> QED BY <2>1, <2>3, SetKeeps
<1>4. CASE VectorSearch(q, found)
  <2> DEFINE read == s.read \cup {"vector"}
             row == [s EXCEPT !.vector = found, !.read = read]
  <2>1. Set(q, row)
    BY <1>4 DEF VectorSearch
  <2> HIDE DEF read, s
  <2>2. /\ DOMAIN row = SearchFields /\ row = [f \in SearchFields |-> row[f]]
        /\ row.pc = s.pc /\ row.dark = s.dark /\ row.spaces = s.spaces /\ row.shown = s.shown
        /\ row.lexical = s.lexical /\ row.vector = found
    BY <1>1 DEF RowSound, SearchFields
  <2> HIDE DEF row
  <2>3. RowSound(q, row)
    BY <1>1, <1>2, <2>2 DEF RowSound
  <2> QED BY <2>1, <2>3, SetKeeps
<1> QED BY <1>3, <1>4

LEMMA UnavailableKeeps ==
  ASSUME SearchSound, NEW q \in Callers, EmbeddingUnavailable(q)
  PROVE  SearchSound'
<1> DEFINE s == search[q]
<1>1. call[q] # Idle /\ s.pc = "reading" /\ RowSound(q, s)
  BY DEF EmbeddingUnavailable, Searching, SearchSound
<1>2. CASE s.policy = "required"
  <2> DEFINE row == [NoSearch EXCEPT !.pc = "failed"]
  <2>1. Set(q, row)
    BY <1>2 DEF EmbeddingUnavailable
  <2>2. /\ DOMAIN row = SearchFields /\ row = [f \in SearchFields |-> row[f]]
        /\ row.pc = "failed" /\ row.spaces = {} /\ row.dark = {} /\ row.shown = {}
        /\ row.lexical = <<>> /\ row.vector = <<>>
    BY DEF NoSearch, SearchFields
  <2> HIDE DEF row
  <2>3. RowSound(q, row)
    BY <1>1, <2>2, EmptyToSet DEF RowSound
  <2> QED BY <2>1, <2>3, SetKeeps
<1>3. CASE s.policy # "required"
  <2> DEFINE read == s.read \cup {"vector"}
             row == [s EXCEPT !.read = read]
  <2>1. Set(q, row)
    BY <1>3 DEF EmbeddingUnavailable
  <2> HIDE DEF read, s
  <2>2. /\ DOMAIN row = SearchFields /\ row = [f \in SearchFields |-> row[f]]
        /\ row.pc = s.pc /\ row.dark = s.dark /\ row.spaces = s.spaces /\ row.shown = s.shown
        /\ row.lexical = s.lexical /\ row.vector = s.vector
    BY <1>1 DEF RowSound, SearchFields
  <2> HIDE DEF row
  <2>3. RowSound(q, row)
    BY <1>1, <2>2 DEF RowSound
  <2> QED BY <2>1, <2>3, SetKeeps
<1> QED BY <1>2, <1>3

\* The hits shown are among what the branches have found.
LEMMA AnswerKeeps ==
  ASSUME SearchSound, NEW q \in Callers, Answer(q)
  PROVE  SearchSound'
<1> DEFINE s == search[q]
<1>1. call[q] # Idle /\ s.pc = "reading" /\ RowSound(q, s)
  BY DEF Answer, Searching, SearchSound
<1>2. PICK hits \in Fuse(s.lexical, s.vector, IF s.active \in s.spaces THEN s.active ELSE NoOne, s.perSource) :
        \E reranked \in {h \in [1 .. Len(hits) -> ToSet(hits)] : ToSet(h) = ToSet(hits)} :
          Set(q, [s EXCEPT !.pc = "answered", !.hits = reranked, !.shown = ToSet(hits)])
  BY DEF Answer
<1>3. PICK reranked : Set(q, [s EXCEPT !.pc = "answered", !.hits = reranked, !.shown = ToSet(hits)])
  BY <1>2
<1>4. ToSet(hits) \subseteq ToSet(s.lexical) \cup ToSet(s.vector)
  BY <1>2, HitsAreFound
<1> DEFINE seen == ToSet(hits)
           row == [s EXCEPT !.pc = "answered", !.hits = reranked, !.shown = seen]
<1>5. Set(q, row) /\ seen \subseteq ToSet(s.lexical) \cup ToSet(s.vector)
  BY <1>3, <1>4
<1> HIDE DEF seen, s
<1>6. /\ DOMAIN row = SearchFields /\ row = [f \in SearchFields |-> row[f]]
      /\ row.pc = "answered" /\ row.dark = s.dark /\ row.spaces = s.spaces /\ row.shown = seen
      /\ row.lexical = s.lexical /\ row.vector = s.vector
  BY <1>1 DEF RowSound, SearchFields
<1> HIDE DEF row
<1>7. RowSound(q, row)
  BY <1>1, <1>5, <1>6 DEF RowSound
<1> QED BY <1>5, <1>7, SetKeeps

LEMMA ContextKeeps ==
  ASSUME SearchSound, NEW q \in Callers, AssembleContext(q)
  PROVE  SearchSound'
<1> DEFINE s == search[q]
           package == Assembled(s.hits)
           row == [s EXCEPT !.pc = "assembled", !.package = package]
<1>1. call[q] # Idle /\ s.pc = "answered" /\ Set(q, row) /\ RowSound(q, s)
  BY DEF AssembleContext, Searching, SearchSound
<1> HIDE DEF s, package
<1>2. /\ DOMAIN row = SearchFields /\ row = [f \in SearchFields |-> row[f]]
      /\ row.pc = "assembled" /\ row.dark = s.dark /\ row.spaces = s.spaces /\ row.shown = s.shown
      /\ row.lexical = s.lexical /\ row.vector = s.vector
  BY <1>1 DEF RowSound, SearchFields
<1> HIDE DEF row
<1>3. RowSound(q, row)
  BY <1>1, <1>2 DEF RowSound
<1> QED BY <1>1, <1>3, SetKeeps

LEMMA EvidenceKeeps ==
  ASSUME SearchSound, NEW q \in Callers, NEW u, ResolveEvidence(q, u)
  PROVE  SearchSound'
<1> DEFINE dark == Spaces \ EffectiveSpaces(call[q])
           row == [NoSearch EXCEPT !.pc = "answered", !.shown = {u}, !.dark = dark]
<1>1. call[q] # Idle /\ Set(q, row) /\ AuthorizeSpace(call[q], About[u].space, "content:read")
  BY DEF ResolveEvidence, Searching
<1>2. /\ dark \cap EffectiveSpaces(call[q]) = {} /\ About[u].space \notin dark
      /\ call[q].grants # Anywhere => About[u].space \in call[q].grants
  BY <1>1 DEF AuthorizeSpace, EffectiveSpaces
<1> HIDE DEF dark
<1>3. /\ DOMAIN row = SearchFields /\ row = [f \in SearchFields |-> row[f]]
      /\ row.pc = "answered" /\ row.spaces = {} /\ row.dark = dark /\ row.shown = {u}
      /\ row.lexical = <<>> /\ row.vector = <<>>
  BY DEF NoSearch, SearchFields
<1> HIDE DEF row
<1>4. RowSound(q, row)
  BY <1>1, <1>2, <1>3, EmptyToSet DEF RowSound
<1> QED BY <1>1, <1>4, SetKeeps

LEMMA EndKeeps ==
  ASSUME SearchSound, NEW q \in Callers, EndRequest(q)
  PROVE  SearchSound'
<1>1. /\ UNCHANGED <<enabled, space, role, key>> /\ call' = [call EXCEPT ![q] = Idle]
      /\ search' = [search EXCEPT ![q] = NoSearch]
  BY DEF EndRequest
<1>2. AccessInvariant'
  <2>1. SpaceStep(q)
    BY DEF EndRequest, SpaceStep, Finish, Done
  <2> QED BY <2>1, SpaceStepKeeps DEF SearchSound
<1>3. search' = [c \in Callers |-> search'[c]]
  BY <1>1 DEF SearchSound
<1>4. ASSUME NEW c \in Callers PROVE RowSound(c, search[c])'
  <2>1. call \in [Callers -> Principal \cup {Idle}]
    BY DEF SearchSound, AccessInvariant, AccessTypeOK
  <2>2. CASE c = q
    <3>1. search'[c] = NoSearch
      BY <1>1, <2>2 DEF SearchSound
    <3>2. /\ DOMAIN NoSearch = SearchFields /\ NoSearch = [f \in SearchFields |-> NoSearch[f]]
          /\ NoSearch.dark = {} /\ NoSearch.spaces = {} /\ NoSearch.shown = {}
          /\ NoSearch.lexical = <<>> /\ NoSearch.vector = <<>> /\ NoSearch.pc = "none"
      BY DEF NoSearch, SearchFields
    <3> QED BY <3>1, <3>2, EmptyToSet DEF RowSound, NoSearch
  <2>3. CASE c # q
    <3>1. search'[c] = search[c] /\ call'[c] = call[c] /\ RowSound(c, search[c])
      BY <1>1, <2>1, <2>3 DEF SearchSound
    <3>2. RowSound(c, search'[c])
      BY <3>1
    <3> QED BY <1>1, <3>1, <3>2 DEF RowSound, EffectiveSpaces
  <2> QED BY <2>2, <2>3
<1> QED BY <1>2, <1>3, <1>4 DEF SearchSound

LEMMA SearchStep == SearchSound /\ [RetrievalNext]_retrievalVars => SearchSound'
<1> SUFFICES ASSUME SearchSound, [RetrievalNext]_retrievalVars PROVE SearchSound'
  OBVIOUS
<1>1. AccessInvariant /\ AccessTypeOK
  BY DEF SearchSound, AccessInvariant
<1>2. ASSUME NEW q \in Callers, search[q] = NoSearch,
             Elsewhere(\/ SpaceStep(q) \/ KeyStep(q)
                       \/ \E u \in Users : ResolveSession(q, u))
      PROVE  SearchSound'
  <2>1. /\ SpaceStep(q) \/ KeyStep(q) \/ (\E u \in Users : ResolveSession(q, u))
        /\ search' = [c \in Callers |-> [search[c] EXCEPT !.dark = Dark(c)]]
    BY <1>2 DEF Elsewhere
  <2>2. AccessInvariant'
    BY <1>1, <2>1, SpaceStepKeeps, KeyStepKeeps, OutsideKeeps
  <2>3. \A c \in Callers : search[c] = NoSearch \/ GoesOn(c)
    BY <1>1, <1>2, <2>1, OthersGoOn
  <2> QED BY <2>1, <2>2, <2>3, ElsewhereKeeps
<1>3. CASE Elsewhere(\/ \E u \in Users : Provision(u) \/ SetStatus(u)
                     \/ \E k \in Keys : ExpireKey(k))
  <2>1. /\ (\E u \in Users : Provision(u) \/ SetStatus(u)) \/ (\E k \in Keys : ExpireKey(k))
        /\ search' = [c \in Callers |-> [search[c] EXCEPT !.dark = Dark(c)]]
    BY <1>3 DEF Elsewhere
  <2>2. AccessInvariant'
    BY <1>1, <2>1, OutsideKeeps
  <2>3. call' = call
    BY <2>1 DEF Provision, ProviderLogin, SetStatus, ExpireKey
  <2>4. \A c \in Callers : GoesOn(c)
    BY <2>3 DEF GoesOn
  <2> QED BY <2>1, <2>2, <2>4, ElsewhereKeeps
<1>4. CASE UNCHANGED <<accessVars, search>>
  <2>1. AccessInvariant'
    BY <1>1, <1>4, OutsideKeeps
  <2>2. UNCHANGED <<enabled, space, role, key, call, search>>
    BY <1>4 DEF accessVars
  <2> QED BY <2>1, <2>2 DEF SearchSound, RowSound, EffectiveSpaces
<1>5. ASSUME NEW q \in Callers, SearchOn(q) PROVE SearchSound'
  BY <1>5, GenerationKeeps, UnavailableKeeps, AnswerKeeps, ContextKeeps, BranchKeeps, EvidenceKeeps, EndKeeps
     DEF SearchOn
<1>6. (\E u \in Units : SourceGone(u) \/ UnitReplaced(u)) \/ GenerationPromoted => UNCHANGED <<accessVars, search>>
  BY DEF SourceGone, UnitReplaced, GenerationPromoted
<1>7. UNCHANGED retrievalVars => UNCHANGED <<accessVars, search>>
  BY DEF retrievalVars, accessVars
<1> QED BY <1>2, <1>3, <1>4, <1>5, <1>6, <1>7, BeginKeeps DEF RetrievalNext

LEMMA SearchStart == RetrievalInit => SearchSound
<1> SUFFICES ASSUME RetrievalInit PROVE SearchSound
  OBVIOUS
<1>1. AccessInvariant
  BY AccessStart DEF RetrievalInit
<1>2. search = [q \in Callers |-> NoSearch]
  BY DEF RetrievalInit
<1>3. search = [q \in Callers |-> search[q]] /\ \A q \in Callers : search[q] = NoSearch
  BY <1>2
<1> QED BY <1>1, <1>3, NoSearchSound DEF SearchSound

\* Nothing is shown of a space that was closed to the member all the time the
\* queries ran or that is outside the grants of the key, whatever memberships,
\* keys, sources and generations do between the queries of a search.
THEOREM SearchShowsReadable == RetrievalSpec => []ShownWasReadable
<1>1. SearchSound => ShownWasReadable
  BY DEF SearchSound, RowSound, ShownWasReadable
<1> QED BY <1>1, SearchStart, SearchStep, PTL DEF RetrievalSpec

\* A row of the searches is one whose hits and package are the best of what was
\* found; before it is answered there are none.
RowBest(s) ==
  /\ DOMAIN s = SearchFields /\ s = [f \in SearchFields |-> s[f]]
  /\ s.lexical \in Seq(Units) /\ s.vector \in Seq(Units) /\ s.hits \in Seq(Units)
  /\ s.perSource \in Nat \ {0}
  /\ s.pc \in {"scoped", "reading"} => s.hits = <<>>
  /\ s.pc = "scoped" => s.lexical = <<>> /\ s.vector = <<>>
  /\ s.pc \in {"answered", "assembled"} => BestHits(s)
  /\ s.pc = "assembled" => BestPackage(s)

SearchBest == /\ search = [q \in Callers |-> search[q]]
              /\ \A q \in Callers : RowBest(search[q])

\* Without hits, and with nothing found, the hits are the best.
LEMMA NoHitsBest ==
  ASSUME NEW s, s.hits = <<>>, s.lexical = <<>>, s.vector = <<>>
  PROVE  BestHits(s)
<1>1. ToSet(<<>>) = {}
  <2>1. DOMAIN <<>> = {}
    OBVIOUS
  <2> QED BY <2>1 DEF ToSet
<1>2. Candidates(<<>>, <<>>) = {}
  BY <1>1 DEF Candidates
<1>3. Found(s) = {}
  BY <1>2 DEF Found
<1> QED BY <1>1, <1>3 DEF BestHits, Kept

\* A row of a search without queries.
LEMMA FreshRow ==
  ASSUME NEW s, DOMAIN s = SearchFields, s = [f \in SearchFields |-> s[f]],
         s.hits = <<>>, s.lexical = <<>>, s.vector = <<>>, s.perSource \in Nat \ {0}, s.pc # "assembled"
  PROVE  RowBest(s)
  BY NoHitsBest, EmptySeq DEF RowBest

LEMMA SetBest ==
  ASSUME SearchBest, NEW q \in Callers, NEW row, search' = [search EXCEPT ![q] = row], RowBest(row)
  PROVE  SearchBest'
<1>1. search' = [c \in Callers |-> search'[c]]
  BY DEF SearchBest
<1>2. \A c \in Callers : RowBest(search'[c])
  BY DEF SearchBest
<1>3. \A c \in Callers : RowBest(search[c])'
  BY <1>2 DEF RowBest, BestHits, BestPackage, Kept, Before, Found
<1> QED BY <1>1, <1>3 DEF SearchBest

\* What is read of a row by the ranking.
LEMMA SameRanking ==
  ASSUME NEW s, NEW t, t.hits = s.hits, t.lexical = s.lexical, t.vector = s.vector, t.read = s.read,
         t.active = s.active, t.spaces = s.spaces, t.perSource = s.perSource
  PROVE  /\ Found(t) = Found(s) /\ (\A u : Before(t, u) = Before(s, u)) /\ Kept(t) = Kept(s)
         /\ BestHits(s) => BestHits(t)
<1>1. Found(t) = Found(s) /\ \A u : Before(t, u) = Before(s, u)
  BY DEF Found, Before
<1>2. Kept(t) = Kept(s)
  <2>1. \A u : {v \in Before(t, u) : About[v].source = About[u].source}
                = {v \in Before(s, u) : About[v].source = About[u].source}
    BY <1>1
  <2> QED BY <1>1, <2>1 DEF Kept
<1> QED BY <1>1, <1>2 DEF BestHits

\* Others act: only what counts as closed changes.
LEMMA DarkBest ==
  ASSUME SearchBest, search' = [q \in Callers |-> [search[q] EXCEPT !.dark = Dark(q)]]
  PROVE  SearchBest'
<1>1. search' = [c \in Callers |-> search'[c]]
  OBVIOUS
<1>2. ASSUME NEW c \in Callers PROVE RowBest(search'[c])
  <2> DEFINE s == search[c]
             dark == Dark(c)
             t == [s EXCEPT !.dark = dark]
  <2>1. search'[c] = t /\ RowBest(s)
    BY DEF SearchBest
  <2> HIDE DEF s, dark
  <2>2. /\ DOMAIN t = SearchFields /\ t = [f \in SearchFields |-> t[f]] /\ t.pc = s.pc
        /\ t.hits = s.hits /\ t.lexical = s.lexical /\ t.vector = s.vector /\ t.read = s.read
        /\ t.active = s.active /\ t.spaces = s.spaces /\ t.perSource = s.perSource /\ t.package = s.package
    BY <2>1 DEF RowBest, SearchFields
  <2> HIDE DEF t
  <2>3. RowBest(t)
    <3>1. BestHits(s) => BestHits(t)
      BY <2>2, SameRanking
    <3>2. BestPackage(s) => BestPackage(t)
      BY <2>2 DEF BestPackage
    <3> QED BY <2>1, <2>2, <3>1, <3>2 DEF RowBest
  <2> QED BY <2>1, <2>3
<1>3. \A c \in Callers : RowBest(search[c])'
  BY <1>2 DEF RowBest, BestHits, BestPackage, Kept, Before, Found
<1> QED BY <1>1, <1>3 DEF SearchBest

LEMMA NoSearchBest == RowBest(NoSearch)
<1>1. /\ DOMAIN NoSearch = SearchFields /\ NoSearch = [f \in SearchFields |-> NoSearch[f]]
      /\ NoSearch.hits = <<>> /\ NoSearch.lexical = <<>> /\ NoSearch.vector = <<>>
      /\ NoSearch.perSource = 1 /\ NoSearch.pc = "none"
  BY DEF NoSearch, SearchFields
<1> QED BY <1>1, FreshRow

LEMMA BeginBest ==
  ASSUME SearchBest, NEW q \in Callers, NEW wanted, NEW active, NEW wish, NEW perSource \in Diversity,
         BeginSearch(q, wanted, active, wish, perSource)
  PROVE  SearchBest'
<1> DEFINE scope == EffectiveSpaces(call[q]) \cap wanted \cap (IF active = NoOne THEN Spaces ELSE {active})
           pc == IF scope = {} THEN "answered" ELSE "scoped"
           row == [NoSearch EXCEPT !.pc = pc, !.policy = wish, !.perSource = perSource,
                                   !.spaces = scope, !.active = active]
<1>1. search' = [search EXCEPT ![q] = row]
  BY DEF BeginSearch, Set
<1>2. pc # "assembled" /\ perSource \in Nat \ {0}
  BY RetrievalAssumption
<1> HIDE DEF pc, scope
<1>3. /\ DOMAIN row = SearchFields /\ row = [f \in SearchFields |-> row[f]]
      /\ row.pc = pc /\ row.hits = <<>> /\ row.lexical = <<>> /\ row.vector = <<>> /\ row.perSource = perSource
  BY DEF NoSearch, SearchFields
<1> HIDE DEF row
<1>4. RowBest(row)
  BY <1>2, <1>3, FreshRow
<1> QED BY <1>1, <1>4, SetBest

LEMMA GenerationBest ==
  ASSUME SearchBest, NEW q \in Callers, ReadGeneration(q)
  PROVE  SearchBest'
<1> DEFINE s == search[q]
           pc == IF current # 0 THEN "reading" ELSE IF s.policy = "required" THEN "failed" ELSE "answered"
           dark == Spaces \ EffectiveSpaces(call[q])
           read == (IF Weights.lexical = 0 THEN {"lexical"} ELSE {})
                     \cup (IF Weights.vector = 0 \/ s.policy = "disabled" THEN {"vector"} ELSE {})
           row == [s EXCEPT !.pc = pc, !.gen = current, !.dark = dark, !.read = read]
<1>1. s.pc = "scoped" /\ search' = [search EXCEPT ![q] = row] /\ RowBest(s)
  BY DEF ReadGeneration, Searching, Set, SearchBest
<1>2. pc # "assembled"
  OBVIOUS
<1> HIDE DEF pc, dark, read, s
<1>3. /\ DOMAIN row = SearchFields /\ row = [f \in SearchFields |-> row[f]] /\ row.pc = pc
      /\ row.hits = s.hits /\ row.lexical = s.lexical /\ row.vector = s.vector /\ row.perSource = s.perSource
  BY <1>1 DEF RowBest, SearchFields
<1> HIDE DEF row
<1>4. RowBest(row)
  BY <1>1, <1>2, <1>3, FreshRow DEF RowBest
<1> QED BY <1>1, <1>4, SetBest

\* A query of a branch.
LEMMA BranchBest ==
  ASSUME SearchBest, NEW q \in Callers, NEW found, LexicalSearch(q, found) \/ VectorSearch(q, found)
  PROVE  SearchBest'
<1> DEFINE s == search[q]
<1>1. s.pc = "reading" /\ found \in Orders(Visible(q)) /\ RowBest(s)
  BY DEF LexicalSearch, VectorSearch, Searching, SearchBest
<1>2. found \in Seq(Units)
  <2>1. found \in Seq(Visible(q)) /\ Visible(q) \subseteq Units
    BY <1>1, OrdersAreSeqs DEF Visible
  <2> QED BY <2>1
<1>3. CASE LexicalSearch(q, found)
  <2> DEFINE read == s.read \cup {"lexical"}
             row == [s EXCEPT !.lexical = found, !.read = read]
  <2>1. search' = [search EXCEPT ![q] = row]
    BY <1>3 DEF LexicalSearch, Set
  <2> HIDE DEF read, s
  <2>2. /\ DOMAIN row = SearchFields /\ row = [f \in SearchFields |-> row[f]] /\ row.pc = s.pc
        /\ row.hits = s.hits /\ row.lexical = found /\ row.vector = s.vector /\ row.perSource = s.perSource
    BY <1>1 DEF RowBest, SearchFields
  <2> HIDE DEF row
  <2>3. RowBest(row)
    BY <1>1, <1>2, <2>2 DEF RowBest
  <2> QED BY <2>1, <2>3, SetBest
<1>4. CASE VectorSearch(q, found)
  <2> DEFINE read == s.read \cup {"vector"}
             row == [s EXCEPT !.vector = found, !.read = read]
  <2>1. search' = [search EXCEPT ![q] = row]
    BY <1>4 DEF VectorSearch, Set
  <2> HIDE DEF read, s
  <2>2. /\ DOMAIN row = SearchFields /\ row = [f \in SearchFields |-> row[f]] /\ row.pc = s.pc
        /\ row.hits = s.hits /\ row.lexical = s.lexical /\ row.vector = found /\ row.perSource = s.perSource
    BY <1>1 DEF RowBest, SearchFields
  <2> HIDE DEF row
  <2>3. RowBest(row)
    BY <1>1, <1>2, <2>2 DEF RowBest
  <2> QED BY <2>1, <2>3, SetBest
<1> QED BY <1>3, <1>4

LEMMA UnavailableBest ==
  ASSUME SearchBest, NEW q \in Callers, EmbeddingUnavailable(q)
  PROVE  SearchBest'
<1> DEFINE s == search[q]
<1>1. s.pc = "reading" /\ RowBest(s)
  BY DEF EmbeddingUnavailable, Searching, SearchBest
<1>2. CASE s.policy = "required"
  <2> DEFINE row == [NoSearch EXCEPT !.pc = "failed"]
  <2>1. search' = [search EXCEPT ![q] = row]
    BY <1>2 DEF EmbeddingUnavailable, Set
  <2>2. /\ DOMAIN row = SearchFields /\ row = [f \in SearchFields |-> row[f]] /\ row.pc = "failed"
        /\ row.hits = <<>> /\ row.lexical = <<>> /\ row.vector = <<>> /\ row.perSource = 1
    BY DEF NoSearch, SearchFields
  <2> HIDE DEF row
  <2>3. RowBest(row)
    BY <2>2, FreshRow
  <2> QED BY <2>1, <2>3, SetBest
<1>3. CASE s.policy # "required"
  <2> DEFINE read == s.read \cup {"vector"}
             row == [s EXCEPT !.read = read]
  <2>1. search' = [search EXCEPT ![q] = row]
    BY <1>3 DEF EmbeddingUnavailable, Set
  <2> HIDE DEF read, s
  <2>2. /\ DOMAIN row = SearchFields /\ row = [f \in SearchFields |-> row[f]] /\ row.pc = s.pc
        /\ row.hits = s.hits /\ row.lexical = s.lexical /\ row.vector = s.vector /\ row.perSource = s.perSource
    BY <1>1 DEF RowBest, SearchFields
  <2> HIDE DEF row
  <2>3. RowBest(row)
    BY <1>1, <2>2 DEF RowBest
  <2> QED BY <2>1, <2>3, SetBest
<1> QED BY <1>2, <1>3

\* The answer: both branches have been read, and a reranker keeps the hits.
LEMMA AnswerBest ==
  ASSUME SearchBest, NEW q \in Callers, Answer(q)
  PROVE  SearchBest'
<1> DEFINE s == search[q]
           active == IF s.active \in s.spaces THEN s.active ELSE NoOne
<1>1. s.pc = "reading" /\ s.read = {"lexical", "vector"} /\ RowBest(s)
  BY DEF Answer, Searching, SearchBest
<1>11. PICK hits \in Fuse(s.lexical, s.vector, active, s.perSource) :
         \E reranked \in {h \in [1 .. Len(hits) -> ToSet(hits)] : ToSet(h) = ToSet(hits)} :
           search' = [search EXCEPT ![q] = [s EXCEPT !.pc = "answered", !.hits = reranked, !.shown = ToSet(hits)]]
  BY DEF Answer, Set
<1>2. PICK reranked \in {h \in [1 .. Len(hits) -> ToSet(hits)] : ToSet(h) = ToSet(hits)} :
        search' = [search EXCEPT ![q] = [s EXCEPT !.pc = "answered", !.hits = reranked, !.shown = ToSet(hits)]]
  BY <1>11
<1> DEFINE shown == ToSet(hits)
           row == [s EXCEPT !.pc = "answered", !.hits = reranked, !.shown = shown]
           C == Candidates(s.lexical, s.vector)
           above == RankedAbove(s.lexical, s.vector, active)
<1>3. hits \in Seq(Units) /\ ToSet(hits) = Topmost(C, above, s.perSource)
  <2>1. s.lexical \in Seq(Units) /\ s.vector \in Seq(Units) /\ s.perSource \in Nat \ {0}
    BY <1>1 DEF RowBest
  <2> QED BY <1>2, <2>1, FusedIsBest
<1>4. reranked \in Seq(Units) /\ ToSet(reranked) = ToSet(hits)
  <2>1. ToSet(hits) \subseteq Units /\ Len(hits) \in Nat
    BY <1>3, ToSetOfSeq, LenProperties
  <2>2. reranked \in [1 .. Len(hits) -> Units]
    BY <1>2, <2>1
  <2> QED BY <1>2, <2>1, <2>2, SeqDef
<1>5. search' = [search EXCEPT ![q] = row]
  BY <1>2
<1> HIDE DEF shown
<1>6. /\ DOMAIN row = SearchFields /\ row = [f \in SearchFields |-> row[f]] /\ row.pc = "answered"
      /\ row.hits = reranked /\ row.lexical = s.lexical /\ row.vector = s.vector /\ row.perSource = s.perSource
      /\ row.read = s.read /\ row.active = s.active /\ row.spaces = s.spaces
  <2> HIDE DEF s
  <2> QED BY <1>1 DEF RowBest, SearchFields
<1> HIDE DEF row
<1>7. Found(row) = C /\ \A u \in C : Before(row, u) = above[u]
  <2>1. Found(row) = C
    BY <1>1, <1>6 DEF Found
  <2>2. \A u : Before(row, u) = {v \in C : Ahead(s.lexical, s.vector, active, v, u)}
    BY <1>6, <2>1 DEF Before
  <2> QED BY <2>1, <2>2 DEF RankedAbove
<1> HIDE DEF C, above, active, s
<1>8. Kept(row) = Thinned(C, above, s.perSource)
  <2>1. \A u \in C : {v \in Before(row, u) : About[v].source = About[u].source}
                      = {v \in above[u] : About[v].source = About[u].source}
    BY <1>7
  <2> QED BY <1>6, <1>7, <2>1 DEF Kept, Thinned
<1>9. BestHits(row)
  <2>1. Kept(row) \subseteq C
    BY <1>7 DEF Kept
  <2>2. {u \in Kept(row) : Cardinality(Before(row, u) \cap Kept(row)) < MaxHits}
          = {u \in Kept(row) : Cardinality(above[u] \cap Kept(row)) < MaxHits}
    BY <1>7, <2>1
  <2>3. ToSet(row.hits) = Topmost(C, above, s.perSource)
    BY <1>3, <1>4, <1>6
  <2>4. Topmost(C, above, s.perSource) = {u \in Kept(row) : Cardinality(above[u] \cap Kept(row)) < MaxHits}
    BY <1>8 DEF Topmost
  <2> QED BY <2>2, <2>3, <2>4 DEF BestHits
<1>10. RowBest(row)
  BY <1>1, <1>4, <1>6, <1>9 DEF RowBest
<1> QED BY <1>5, <1>10, SetBest

LEMMA ContextBest ==
  ASSUME SearchBest, NEW q \in Callers, AssembleContext(q)
  PROVE  SearchBest'
<1> DEFINE s == search[q]
           package == Assembled(s.hits)
           row == [s EXCEPT !.pc = "assembled", !.package = package]
<1>1. s.pc = "answered" /\ search' = [search EXCEPT ![q] = row] /\ RowBest(s)
  BY DEF AssembleContext, Searching, Set, SearchBest
<1> HIDE DEF s, package
<1>2. /\ DOMAIN row = SearchFields /\ row = [f \in SearchFields |-> row[f]] /\ row.pc = "assembled"
      /\ row.hits = s.hits /\ row.lexical = s.lexical /\ row.vector = s.vector /\ row.perSource = s.perSource
      /\ row.read = s.read /\ row.active = s.active /\ row.spaces = s.spaces /\ row.package = package
  BY <1>1 DEF RowBest, SearchFields
<1> HIDE DEF row
<1>3. BestHits(row)
  BY <1>1, <1>2, SameRanking DEF RowBest
<1>4. BestPackage(row)
  BY <1>1, <1>2, AssembledIsBest DEF RowBest, package
<1>5. RowBest(row)
  BY <1>1, <1>2, <1>3, <1>4 DEF RowBest
<1> QED BY <1>1, <1>5, SetBest

LEMMA EvidenceBest ==
  ASSUME SearchBest, NEW q \in Callers, NEW u, ResolveEvidence(q, u)
  PROVE  SearchBest'
<1> DEFINE dark == Spaces \ EffectiveSpaces(call[q])
           row == [NoSearch EXCEPT !.pc = "answered", !.shown = {u}, !.dark = dark]
<1>1. search' = [search EXCEPT ![q] = row]
  BY DEF ResolveEvidence, Set
<1> HIDE DEF dark
<1>2. /\ DOMAIN row = SearchFields /\ row = [f \in SearchFields |-> row[f]] /\ row.pc = "answered"
      /\ row.hits = <<>> /\ row.lexical = <<>> /\ row.vector = <<>> /\ row.perSource = 1
  BY DEF NoSearch, SearchFields
<1> HIDE DEF row
<1>3. RowBest(row)
  BY <1>2, FreshRow
<1> QED BY <1>1, <1>3, SetBest

LEMMA SearchBestStep == SearchBest /\ [RetrievalNext]_retrievalVars => SearchBest'
<1> SUFFICES ASSUME SearchBest, [RetrievalNext]_retrievalVars PROVE SearchBest'
  OBVIOUS
<1>2. ASSUME NEW q \in Callers, EndRequest(q) PROVE SearchBest'
  BY <1>2, NoSearchBest, SetBest DEF EndRequest
<1>3. CASE UNCHANGED search
  <2>1. \A c \in Callers : RowBest(search'[c])
    BY <1>3 DEF SearchBest
  <2>2. \A c \in Callers : RowBest(search[c])'
    BY <2>1 DEF RowBest, BestHits, BestPackage, Kept, Before, Found
  <2> QED BY <1>3, <2>2 DEF SearchBest
<1>4. (\E u \in Units : SourceGone(u) \/ UnitReplaced(u)) \/ GenerationPromoted \/ UNCHANGED retrievalVars => UNCHANGED search
  BY DEF SourceGone, UnitReplaced, GenerationPromoted, retrievalVars
<1>5. ASSUME NEW q \in Callers, SearchOn(q) PROVE SearchBest'
  BY <1>2, <1>5, GenerationBest, UnavailableBest, AnswerBest, ContextBest, BranchBest, EvidenceBest DEF SearchOn
<1>6. CASE search' = [q \in Callers |-> [search[q] EXCEPT !.dark = Dark(q)]]
  BY <1>6, DarkBest
<1> QED BY <1>3, <1>4, <1>5, <1>6, BeginBest DEF RetrievalNext, Elsewhere

\* Whatever the branches find and however memberships, keys, sources and
\* generations change in between, the hits of an answer are the best candidates
\* and its package keeps the budgets and the newest revisions.
THEOREM SearchAnswersBest == RetrievalSpec => []AnswerIsBest
<1>1. RetrievalInit => SearchBest
  <2> SUFFICES ASSUME RetrievalInit PROVE SearchBest
    OBVIOUS
  <2>1. search = [q \in Callers |-> NoSearch]
    BY DEF RetrievalInit
  <2>2. search = [q \in Callers |-> search[q]] /\ \A q \in Callers : search[q] = NoSearch
    BY <2>1
  <2> QED BY <2>2, NoSearchBest DEF SearchBest
<1>2. SearchBest => AnswerIsBest
  BY DEF SearchBest, RowBest, AnswerIsBest
<1> QED BY <1>1, <1>2, SearchBestStep, PTL DEF RetrievalSpec

-----------------------------------------------------------------------------
(* The git connector.                                                       *)

Docs == 1 .. Len(documents)
Working == {"paths", "created", "revised"}
MappingRow == [doc : Nat, checksum : Contents]
SyncRow == [pc : {"idle", "based"} \cup Working, base : Nat, head : Nat,
            todo : SUBSET Paths, skipped : SUBSET Paths, path : Paths \cup {Nothing}, doc : Nat]
ReceiptRow == [head : Nat, content : Contents, op : {"create", "revise"}, path : Paths, doc : Nat]
DocumentRow == [state : {"processing", "ready", "failed", "archived"}, latest : Contents]

GitRows ==
  /\ history \in Seq(Trees) /\ Newest \in Nat \ {0}
  /\ connector.last \in 0 .. Newest
  /\ connector \in [status : {"none", "active", "deleted"}, last : Nat]
  /\ documents \in Seq(DocumentRow)
  /\ mapping \in [Paths -> MappingRow \cup {Nothing}]
  /\ receipts \subseteq ReceiptRow
  /\ sync \in [Syncs -> SyncRow]

\* A key was used for what its commit holds at its path.
Contented == \A r \in receipts : /\ r.head \in 1 .. Newest /\ r.content = history[r.head][r.path]
                                 /\ r.doc \in Docs

\* No two paths share a document: each was created for the path it is mapped to.
OwnPath == /\ \A r, q \in receipts : r.doc = q.doc => r.path = q.path
           /\ \A p \in Paths : mapping[p] # Nothing =>
                \E r \in receipts : r.doc = mapping[p].doc /\ r.path = p

\* A document holds the content of its latest receipt, so that an upload whose
\* key is known may be taken for done.
LatestReceipt ==
  \A r \in receipts : (\A q \in receipts : q.doc = r.doc => q.head <= r.head)
                        => documents[r.doc].latest = r.content

\* The one sync under way has carried over what it is through with, and nobody
\* has uploaded for a later commit.
SyncSound(s) ==
  /\ sync[s].pc \in {"based"} \cup Working => sync[s].base \in 0 .. Newest
  /\ sync[s].pc \in Working =>
       /\ sync[s].head \in 1 .. Newest
       /\ \A r \in receipts : r.head <= sync[s].head
       /\ \A p \in (ChangedPaths(sync[s].base, sync[s].head) \ sync[s].todo) \ sync[s].skipped :
            Holds(p, At(s, p))

\* Between an upload and the row that maps its path.
UploadSound(s) ==
  sync[s].pc \in {"created", "revised"} =>
    /\ sync[s].path \in sync[s].todo /\ At(s, sync[s].path) # Nothing
    /\ sync[s].doc \in Docs /\ documents[sync[s].doc].latest = At(s, sync[s].path)
    /\ \E r \in receipts : r.doc = sync[s].doc /\ r.path = sync[s].path
    /\ sync[s].pc = "revised" => /\ mapping[sync[s].path] # Nothing
                                 /\ mapping[sync[s].path].doc = sync[s].doc

\* The checksum of a mapped path is that of its document, until a sync that has
\* uploaded a revision records it.
Mapped == \A p \in Paths : mapping[p] # Nothing =>
            \/ documents[mapping[p].doc].latest = mapping[p].checksum
            \/ \E s \in Syncs : sync[s].pc = "revised" /\ sync[s].path = p

OneSync == \A s, o \in Syncs : sync[s].pc # "idle" /\ sync[o].pc # "idle" => s = o

GitSafe == /\ GitRows /\ Contented /\ OwnPath /\ LatestReceipt /\ Mapped /\ OneSync
           /\ \A s \in Syncs : SyncSound(s) /\ UploadSound(s)

GitInvariant == ~torn => GitSafe

LEMMA GitStart == GitInit => GitInvariant
<1> SUFFICES ASSUME GitInit PROVE GitSafe
  BY DEF GitInvariant
<1>1. Ready \in SyncRow /\ Ready.pc = "idle"
  BY DEF Ready, SyncRow
<1>2. history \in Seq(Trees) /\ Newest = 1
  <2>1. PICK t \in Trees : history = <<t>>
    BY DEF GitInit
  <2> QED BY <2>1 DEF Newest
<1>3. connector = [status |-> "none", last |-> 0] /\ documents = <<>> /\ receipts = {}
      /\ mapping = [p \in Paths |-> Nothing] /\ sync = [s \in Syncs |-> Ready]
  BY DEF GitInit
<1>4. GitRows
  BY <1>1, <1>2, <1>3 DEF GitRows
<1> QED BY <1>1, <1>3, <1>4 DEF GitSafe, Contented, OwnPath, LatestReceipt, Mapped, OneSync, SyncSound,
                                UploadSound, Working

\* Commits, ingestion outcomes and registrations: nothing a sync relies on.
LEMMA GitOutsideKeeps ==
  ASSUME GitSafe, history' \in Seq(Trees), Newest <= Newest', Newest' \in Nat,
         \A h \in 1 .. Newest : history'[h] = history[h],
         documents' \in Seq(DocumentRow), Len(documents') = Len(documents),
         \A d \in Docs : documents'[d].latest = documents[d].latest,
         connector' \in [status : {"none", "active", "deleted"}, last : Nat],
         connector'.last \in 0 .. Newest',
         UNCHANGED <<mapping, receipts, sync>>
  PROVE  GitSafe'
<1> USE DEF GitSafe
<1>1. GitRows'
  BY DEF GitRows
<1>2. Contented' /\ OwnPath'
  BY DEF GitRows, Contented, OwnPath, Docs
<1>3. LatestReceipt'
  BY DEF Contented, LatestReceipt, Docs
<1>4. \A p \in Paths : mapping[p] # Nothing => mapping[p].doc \in Docs
  BY DEF OwnPath, Contented
<1>5. Mapped' /\ OneSync'
  BY <1>4 DEF Mapped, OneSync, Docs
<1>6. ASSUME NEW s \in Syncs PROVE SyncSound(s)'
  <2>1. ASSUME sync[s].pc \in Working
        PROVE  \A p \in Paths : /\ history'[sync[s].head][p] = history[sync[s].head][p]
                                /\ At(s, p)' = At(s, p)
    BY <2>1 DEF SyncSound, At
  <2>2. ASSUME sync[s].pc \in Working
        PROVE  ChangedPaths(sync[s].base, sync[s].head)' = ChangedPaths(sync[s].base, sync[s].head)
    <3>1. sync[s].base = 0 \/ sync[s].base \in 1 .. Newest
      BY <2>2 DEF SyncSound, GitRows
    <3> QED BY <2>1, <2>2, <3>1 DEF ChangedPaths
  <2>3. \A p \in Paths : \A c : Holds(p, c)' <=> Holds(p, c)
    BY <1>4 DEF Holds
  <2> QED BY <2>1, <2>2, <2>3 DEF SyncSound, GitRows, ChangedPaths
<1>7. ASSUME NEW s \in Syncs PROVE UploadSound(s)'
  BY DEF UploadSound, SyncSound, At, GitRows, Docs, Working
<1> QED BY <1>1, <1>2, <1>3, <1>5, <1>6, <1>7

\* A step of one sync leaves the others, which are idle, alone.
LEMMA OthersIdle ==
  ASSUME GitSafe, NEW s \in Syncs, NEW row \in SyncRow, sync' = [sync EXCEPT ![s] = row],
         sync[s].pc = "idle" => \A o \in Syncs : sync[o].pc = "idle",
         SyncSound(s)', UploadSound(s)'
  PROVE  /\ sync' \in [Syncs -> SyncRow] /\ OneSync'
         /\ \A o \in Syncs : SyncSound(o)' /\ UploadSound(o)'
<1>1. sync' \in [Syncs -> SyncRow]
  BY DEF GitSafe, GitRows
<1>2. \A o \in Syncs : o # s => sync[o].pc = "idle" /\ sync'[o].pc = "idle"
  BY DEF GitSafe, GitRows, OneSync
<1>3. OneSync'
  BY <1>2 DEF OneSync
<1>4. \A o \in Syncs : o # s => SyncSound(o)' /\ UploadSound(o)'
  BY <1>2 DEF SyncSound, UploadSound, Working
<1> QED BY <1>1, <1>3, <1>4

\* A step of a sync that writes no more than its own row.
LEMMA OwnRowKeeps ==
  ASSUME GitSafe, NEW s \in Syncs, NEW row \in SyncRow, sync' = [sync EXCEPT ![s] = row],
         sync[s].pc = "idle" => \A o \in Syncs : sync[o].pc = "idle",
         sync[s].pc # "revised", SyncSound(s)', UploadSound(s)',
         UNCHANGED <<history, mapping, documents, receipts>>,
         connector' \in [status : {"none", "active", "deleted"}, last : Nat],
         connector'.last \in 0 .. Newest
  PROVE  GitSafe'
<1>1. /\ sync' \in [Syncs -> SyncRow] /\ OneSync'
      /\ \A o \in Syncs : SyncSound(o)' /\ UploadSound(o)'
  BY OthersIdle
<1>2. GitRows' /\ Contented' /\ OwnPath' /\ LatestReceipt'
  BY <1>1 DEF GitSafe, GitRows, Newest, Contented, OwnPath, LatestReceipt, Docs
<1>3. Mapped'
  <2>1. \A o \in Syncs : sync[o].pc = "revised" => sync'[o] = sync[o]
    BY DEF GitSafe, GitRows
  <2> QED BY <2>1 DEF GitSafe, Mapped
<1> QED BY <1>1, <1>2, <1>3 DEF GitSafe

\* The steps that read, skip, record the commit or stop.
LEMMA ReadingKeeps ==
  ASSUME GitSafe, ~torn', NEW s \in Syncs,
         \/ ReadConnector(s) \/ ReadHead(s) \/ FinishSync(s) \/ AbortSync(s)
         \/ \E p \in Paths : SkipPath(s, p) \/ SkipUnchanged(s, p)
  PROVE  GitSafe'
<1> USE DEF GitSafe
<1>0. /\ sync[s] \in SyncRow /\ SyncSound(s) /\ UploadSound(s)
      /\ Newest \in Nat
  BY DEF GitRows, Newest
<1>1. CASE ReadConnector(s)
  <2> DEFINE row == [sync[s] EXCEPT !.pc = "based", !.base = connector.last]
  <2>1. /\ \A o \in Syncs : sync[o].pc = "idle"
        /\ sync' = [sync EXCEPT ![s] = row] /\ UNCHANGED <<history, connector, mapping, documents, receipts>>
    BY <1>1 DEF ReadConnector, GitRows
  <2>2. row \in SyncRow /\ row.pc = "based" /\ row.base = connector.last
    BY <1>0 DEF SyncRow, GitRows
  <2> HIDE DEF row
  <2>3. sync'[s] = row
    BY <2>1 DEF GitRows
  <2>4. SyncSound(s)' /\ UploadSound(s)'
    BY <2>1, <2>2, <2>3 DEF SyncSound, UploadSound, Working, GitRows, Newest
  <2>5. connector' \in [status : {"none", "active", "deleted"}, last : Nat] /\ connector'.last \in 0 .. Newest
    BY <2>1 DEF GitRows
  <2> QED BY <2>1, <2>2, <2>4, <2>5, OwnRowKeeps
<1>2. CASE ReadHead(s)
  <2>1. sync[s].pc = "based" /\ UNCHANGED <<history, connector, mapping, documents, receipts>>
    BY <1>2 DEF ReadHead
  <2>2. CASE sync[s].base = Newest
    <3>1. sync' = [sync EXCEPT ![s] = Ready] /\ Ready \in SyncRow /\ Ready.pc = "idle"
      BY <1>2, <2>2 DEF ReadHead, Ready, SyncRow
    <3>2. SyncSound(s)' /\ UploadSound(s)'
      BY <3>1 DEF SyncSound, UploadSound, Working, GitRows
    <3> QED BY <2>1, <3>1, <3>2, OwnRowKeeps DEF GitRows
  <2>3. CASE sync[s].base # Newest
    <3> DEFINE row == [sync[s] EXCEPT !.pc = "paths", !.head = Newest,
                                      !.todo = ChangedPaths(sync[s].base, Newest)]
    <3>1. sync' = [sync EXCEPT ![s] = row]
      BY <1>2, <2>3 DEF ReadHead, GitRows
    <3>2. /\ row \in SyncRow /\ row.pc = "paths" /\ row.head = Newest /\ row.base = sync[s].base
          /\ row.todo = ChangedPaths(sync[s].base, Newest)
      <4>1. ChangedPaths(sync[s].base, Newest) \in SUBSET Paths
        BY DEF ChangedPaths
      <4> QED BY <1>0, <4>1 DEF SyncRow, Working
    <3> HIDE DEF row
    <3>3. sync'[s] = row
      BY <3>1 DEF GitRows
    <3>4. SyncSound(s)'
      BY <2>1, <3>2, <3>3, <1>0 DEF SyncSound, Contented, GitRows, Newest, ChangedPaths, ReceiptRow
    <3>5. UploadSound(s)'
      BY <3>2, <3>3 DEF UploadSound
    <3> QED BY <2>1, <3>1, <3>2, <3>4, <3>5, OwnRowKeeps DEF GitRows
  <2> QED BY <2>2, <2>3
<1>3. CASE FinishSync(s) \/ AbortSync(s)
  <2>1. /\ sync' = [sync EXCEPT ![s] = Ready] /\ Ready \in SyncRow /\ Ready.pc = "idle"
        /\ sync[s].pc \notin {"idle", "revised"}
        /\ UNCHANGED <<history, mapping, documents, receipts>>
    BY <1>3 DEF FinishSync, AbortSync, Ready, SyncRow
  <2>2. SyncSound(s)' /\ UploadSound(s)'
    BY <2>1 DEF SyncSound, UploadSound, Working, GitRows
  <2>3. connector' \in [status : {"none", "active", "deleted"}, last : Nat] /\ connector'.last \in 0 .. Newest
    <3>1. CASE FinishSync(s)
      <4>1. sync[s].head \in 1 .. Newest
        BY <1>0, <3>1 DEF FinishSync, SyncSound, Working
      <4> QED BY <1>0, <3>1, <4>1 DEF FinishSync, SyncedCommit, GitRows
    <3>2. CASE AbortSync(s)
      BY <3>2 DEF AbortSync, GitRows
    <3> QED BY <1>3, <3>1, <3>2
  <2> QED BY <2>1, <2>2, <2>3, OwnRowKeeps
<1>4. ASSUME NEW p \in Paths, SkipPath(s, p) \/ SkipUnchanged(s, p) PROVE GitSafe'
  <2> DEFINE skips == IF SkipPath(s, p) THEN sync[s].skipped \cup {p} ELSE sync[s].skipped
             row == [sync[s] EXCEPT !.todo = @ \ {p}, !.skipped = skips]
  <2>1. /\ sync[s].pc = "paths" /\ p \in sync[s].todo
        /\ UNCHANGED <<history, connector, mapping, documents, receipts>>
        /\ ~SkipPath(s, p) => Unchanged(s, p)
    BY <1>4 DEF SkipPath, SkipUnchanged, Doing
  <2>2. sync' = [sync EXCEPT ![s] = row]
    BY <1>0, <1>4 DEF SkipPath, SkipUnchanged, Through, GitRows, SyncRow
  <2>3. /\ row \in SyncRow /\ row.pc = "paths" /\ row.base = sync[s].base /\ row.head = sync[s].head
        /\ row.todo = sync[s].todo \ {p} /\ row.skipped = skips
    BY <1>0, <2>1 DEF SyncRow
  <2> HIDE DEF row
  <2>4. sync'[s] = row
    BY <2>2 DEF GitRows
  <2>5. p \in skips \/ Holds(p, At(s, p))
    <3>1. CASE SkipPath(s, p)
      BY <3>1
    <3>2. CASE ~SkipPath(s, p)
      <4>1. mapping[p] # Nothing /\ mapping[p].checksum = At(s, p) /\ At(s, p) # Nothing
        BY <1>4, <3>2 DEF SkipUnchanged, Unchanged
      <4>2. documents[mapping[p].doc].latest = mapping[p].checksum
        BY <2>1, <4>1 DEF Mapped, OneSync
      <4> QED BY <4>1, <4>2 DEF Holds
    <3> QED BY <3>1, <3>2
  <2>6. sync[s].skipped \subseteq skips
    OBVIOUS
  <2> HIDE DEF skips
  <2>7. SyncSound(s)'
    <3>1. sync'[s].base = sync[s].base /\ sync'[s].head = sync[s].head /\ history' = history
      BY <2>1, <2>3, <2>4
    <3>2. /\ Newest' = Newest /\ \A q : At(s, q)' = At(s, q)
          /\ ChangedPaths(sync[s].base, sync[s].head)' = ChangedPaths(sync[s].base, sync[s].head)
      BY <3>1 DEF Newest, At, ChangedPaths
    <3>3. \A q : Holds(q, At(s, q))' <=> Holds(q, At(s, q))
      BY <2>1, <3>2 DEF Holds
    <3>4. sync[s].pc \in Working /\ sync'[s].pc \in Working
      BY <2>1, <2>3, <2>4 DEF Working
    <3>5. /\ sync[s].head \in 1 .. Newest /\ sync[s].base \in 0 .. Newest /\ \A r \in receipts : r.head <= sync[s].head
          /\ \A q \in (ChangedPaths(sync[s].base, sync[s].head) \ sync[s].todo) \ sync[s].skipped :
               Holds(q, At(s, q))
      BY <1>0, <3>4 DEF SyncSound
    <3>6. \A q \in (ChangedPaths(sync[s].base, sync[s].head) \ sync'[s].todo) \ sync'[s].skipped :
             Holds(q, At(s, q))
      BY <2>3, <2>4, <2>5, <2>6, <3>5
    <3> QED BY <2>1, <3>1, <3>2, <3>3, <3>4, <3>5, <3>6 DEF SyncSound
  <2>8. UploadSound(s)'
    BY <2>3, <2>4 DEF UploadSound
  <2> QED BY <2>1, <2>2, <2>3, <2>7, <2>8, OwnRowKeeps DEF GitRows
<1> QED BY <1>1, <1>2, <1>3, <1>4

\* What another path is mapped to is another document.
LEMMA OtherDocument ==
  ASSUME GitSafe, NEW p \in Paths, NEW q \in Paths, p # q, mapping[p] # Nothing,
         NEW r \in receipts, r.path = q
  PROVE  mapping[p].doc # r.doc
BY DEF GitSafe, OwnPath

\* What a path that is through holds is not touched by a step for another path.
LEMMA CarriedStays ==
  ASSUME GitSafe, NEW s \in Syncs, sync[s].pc \in Working, NEW p \in Paths,
         sync' = [sync EXCEPT ![s] = sync'[s]], sync'[s] \in SyncRow,
         sync'[s].pc \in Working, sync'[s].base = sync[s].base, sync'[s].head = sync[s].head,
         sync'[s].skipped = sync[s].skipped,
         sync[s].todo \subseteq sync'[s].todo \cup {p},
         \A q \in Paths : q # p => mapping'[q] = mapping[q],
         \A q \in Paths : q # p /\ mapping[q] # Nothing =>
            documents'[mapping[q].doc].latest = documents[mapping[q].doc].latest,
         p \in sync'[s].todo \/ Holds(p, At(s, p))',
         \A r \in receipts' : r.head <= sync[s].head,
         history' = history
  PROVE  SyncSound(s)'
<1>1. /\ SyncSound(s) /\ Newest' = Newest
      /\ \A q \in Paths : At(s, q)' = At(s, q)
      /\ ChangedPaths(sync[s].base, sync[s].head)' = ChangedPaths(sync[s].base, sync[s].head)
  BY DEF GitSafe, At, Newest, ChangedPaths
<1>2. ASSUME NEW q \in (ChangedPaths(sync[s].base, sync[s].head) \ sync'[s].todo) \ sync'[s].skipped
      PROVE  Holds(q, At(s, q))'
  <2>1. q \in Paths
    BY DEF ChangedPaths
  <2>2. CASE q = p
    BY <1>2, <2>2
  <2>3. CASE q # p
    <3>1. Holds(q, At(s, q))
      BY <1>1, <1>2, <2>3 DEF SyncSound
    <3> QED BY <1>1, <2>1, <2>3, <3>1 DEF Holds
  <2> QED BY <2>2, <2>3
<1>3. sync'[s].base \in 0 .. Newest /\ sync'[s].head \in 1 .. Newest
  BY <1>1 DEF SyncSound
<1> QED BY <1>1, <1>2, <1>3 DEF SyncSound, ChangedPaths

\* A deleted path is unmapped and its document archived.
LEMMA ArchiveKeeps ==
  ASSUME GitSafe, NEW s \in Syncs, NEW p \in Paths, ArchivePath(s, p)
  PROVE  GitSafe'
<1> DEFINE row == [sync[s] EXCEPT !.todo = @ \ {p}]
<1>1. /\ sync[s] \in SyncRow /\ sync[s].pc = "paths" /\ At(s, p) = Nothing
      /\ SyncSound(s) /\ UNCHANGED <<history, connector, receipts>>
      /\ mapping' = [mapping EXCEPT ![p] = Nothing]
      /\ sync' = [sync EXCEPT ![s] = row]
  BY DEF ArchivePath, Doing, Through, GitSafe, GitRows, SyncRow
<1>2. /\ row \in SyncRow /\ row.pc = "paths" /\ row.base = sync[s].base /\ row.head = sync[s].head
      /\ row.todo = sync[s].todo \ {p} /\ row.skipped = sync[s].skipped
  BY <1>1 DEF SyncRow
<1> HIDE DEF row
<1>3. sync'[s] = row
  BY <1>1 DEF GitSafe, GitRows
<1>4. \A q \in Paths : mapping[q] # Nothing => mapping[q].doc \in Docs
  BY DEF GitSafe, OwnPath, Contented
<1>5. /\ documents' \in Seq(DocumentRow) /\ Len(documents') = Len(documents)
      /\ \A d \in Docs : documents'[d].latest = documents[d].latest
  <2>1. CASE mapping[p] = Nothing
    BY <2>1 DEF ArchivePath, GitSafe, GitRows
  <2>2. CASE mapping[p] # Nothing
    <3> DEFINE d == mapping[p].doc
    <3>1. d \in Docs /\ documents[d] \in DocumentRow /\ Len(documents) \in Nat
      BY <1>4, <2>2 DEF GitSafe, GitRows, Docs
    <3>2. documents' = [documents EXCEPT ![d] = [documents[d] EXCEPT !.state = "archived"]]
      BY <2>2, <3>1 DEF ArchivePath, GitSafe, GitRows
    <3>3. /\ [documents[d] EXCEPT !.state = "archived"] \in DocumentRow
          /\ [documents[d] EXCEPT !.state = "archived"].latest = documents[d].latest
      BY <3>1 DEF DocumentRow
    <3> QED BY <3>1, <3>2, <3>3 DEF GitSafe, GitRows, Docs
  <2> QED BY <2>1, <2>2
<1>6. \A q \in Paths : q # p => mapping'[q] = mapping[q]
  BY <1>1 DEF GitSafe, GitRows
<1>7. mapping' \in [Paths -> MappingRow \cup {Nothing}] /\ mapping'[p] = Nothing
  BY <1>1 DEF GitSafe, GitRows
<1>8. SyncSound(s)'
  <2>1. Holds(p, At(s, p))'
    BY <1>1, <1>2, <1>3, <1>7 DEF Holds, At
  <2>2. \A r \in receipts' : r.head <= sync[s].head
    BY <1>1 DEF SyncSound, Working
  <2> QED BY <1>1, <1>2, <1>3, <1>4, <1>5, <1>6, <2>1, <2>2, CarriedStays DEF Working
<1>9. UploadSound(s)'
  BY <1>2, <1>3 DEF UploadSound
<1>10. /\ sync' \in [Syncs -> SyncRow] /\ OneSync'
       /\ \A o \in Syncs : SyncSound(o)' /\ UploadSound(o)'
  BY <1>1, <1>2, <1>8, <1>9, OthersIdle
<1>11. GitRows' /\ Contented' /\ OwnPath' /\ LatestReceipt'
  BY <1>1, <1>5, <1>6, <1>7, <1>10
     DEF GitSafe, GitRows, Newest, Contented, OwnPath, LatestReceipt, Docs
<1>12. Mapped'
  BY <1>1, <1>4, <1>5, <1>6, <1>7, <1>10 DEF GitSafe, Mapped, OneSync
<1> QED BY <1>10, <1>11, <1>12 DEF GitSafe

\* The row that maps a path, after a new document or a revision of the old one.
LEMMA RecordKeepsGit ==
  ASSUME GitSafe, NEW s \in Syncs, RecordMapping(s)
  PROVE  GitSafe'
<1>0. PICK p \in Paths : p = sync[s].path
  BY DEF RecordMapping, GitSafe, GitRows, SyncRow, UploadSound
<1> DEFINE row == [sync[s] EXCEPT !.pc = "paths", !.todo = @ \ {p}, !.path = Nothing]
           new == [doc |-> sync[s].doc, checksum |-> At(s, p)]
<1>1. /\ sync[s] \in SyncRow /\ sync[s].pc \in {"created", "revised"} /\ SyncSound(s)
      /\ UNCHANGED <<history, connector, documents, receipts>>
      /\ p \in sync[s].todo /\ At(s, p) # Nothing /\ sync[s].doc \in Docs
      /\ documents[sync[s].doc].latest = At(s, p)
      /\ \E r \in receipts : r.doc = sync[s].doc /\ r.path = p
      /\ sync[s].pc = "revised" => mapping[p] # Nothing /\ mapping[p].doc = sync[s].doc
  BY <1>0 DEF RecordMapping, GitSafe, GitRows, UploadSound
<1>2. sync' = [sync EXCEPT ![s] = row]
  BY <1>0 DEF RecordMapping, GitSafe, GitRows
<1>3. /\ row \in SyncRow /\ row.pc = "paths" /\ row.base = sync[s].base /\ row.head = sync[s].head
      /\ row.todo = sync[s].todo \ {p} /\ row.skipped = sync[s].skipped
  BY <1>1 DEF SyncRow, Working
<1> HIDE DEF row
<1>4. sync'[s] = row
  BY <1>2 DEF GitSafe, GitRows
<1>5. At(s, p) \in Contents /\ new \in MappingRow /\ new # Nothing
  <2>1. sync[s].head \in 1 .. Newest
    BY <1>1 DEF SyncSound, Working
  <2>2. At(s, p) \in Contents
    BY <1>1, <2>1 DEF At, GitSafe, GitRows, Newest, Trees
  <2>3. sync[s].doc \in Nat
    BY <1>1 DEF SyncRow
  <2> QED BY <2>2, <2>3, GitAssumption DEF MappingRow
<1>6. mapping' = [mapping EXCEPT ![p] = new]
  <2>1. CASE sync[s].pc = "created"
    BY <1>0, <2>1 DEF RecordMapping
  <2>2. CASE sync[s].pc = "revised"
    <3>1. mapping[p] \in MappingRow /\ mapping[p].doc = sync[s].doc
      BY <1>1, <2>2 DEF GitSafe, GitRows
    <3>2. [mapping[p] EXCEPT !.checksum = At(s, p)] = new
      BY <3>1 DEF MappingRow
    <3>3. mapping' = [mapping EXCEPT ![p] = [mapping[p] EXCEPT !.checksum = At(s, p)]]
      BY <1>0, <1>1, <2>2 DEF RecordMapping, GitSafe, GitRows
    <3> QED BY <3>2, <3>3
  <2> QED BY <1>1, <2>1, <2>2
<1>7. new.doc = sync[s].doc /\ new.checksum = At(s, p)
  OBVIOUS
<1> HIDE DEF new
<1>8. /\ mapping' \in [Paths -> MappingRow \cup {Nothing}] /\ mapping'[p] = new
      /\ \A q \in Paths : q # p => mapping'[q] = mapping[q]
  BY <1>1, <1>5, <1>6 DEF GitSafe, GitRows
<1>9. SyncSound(s)'
  <2>1. Holds(p, At(s, p))'
    BY <1>1, <1>3, <1>4, <1>5, <1>7, <1>8 DEF Holds, At
  <2>2. \A r \in receipts' : r.head <= sync[s].head
    BY <1>1 DEF SyncSound, Working
  <2>3. sync' = [sync EXCEPT ![s] = sync'[s]] /\ sync'[s] \in SyncRow
    BY <1>2, <1>3, <1>4
  <2> QED BY <1>1, <1>3, <1>4, <1>8, <2>1, <2>2, <2>3, CarriedStays DEF Working
<1>10. UploadSound(s)'
  BY <1>3, <1>4 DEF UploadSound
<1>11. /\ sync' \in [Syncs -> SyncRow] /\ OneSync'
       /\ \A o \in Syncs : SyncSound(o)' /\ UploadSound(o)'
  BY <1>1, <1>2, <1>3, <1>9, <1>10, OthersIdle
<1>12. GitRows' /\ Contented' /\ LatestReceipt'
  BY <1>1, <1>8, <1>11 DEF GitSafe, GitRows, Newest, Contented, LatestReceipt, Docs
<1>13. OwnPath'
  BY <1>1, <1>7, <1>8 DEF GitSafe, OwnPath
<1>14. Mapped'
  <2>1. \A q \in Paths : q # p /\ mapping[q] # Nothing =>
          documents[mapping[q].doc].latest = mapping[q].checksum
    BY <1>0, <1>1 DEF GitSafe, Mapped, OneSync
  <2> QED BY <1>1, <1>7, <1>8, <2>1 DEF Mapped
<1> QED BY <1>11, <1>12, <1>13, <1>14 DEF GitSafe

\* A key that is known was used for this commit and path, and its document has
\* not been revised since.
LEMMA ReplayKeeps ==
  ASSUME GitSafe, NEW s \in Syncs, NEW p \in Paths, Doing(s, p), At(s, p) # Nothing,
         NEW pc \in {"created", "revised"}, NEW r \in SameKey(s, p), r.path = p,
         pc = "revised" => mapping[p] # Nothing /\ mapping[p].doc = r.doc,
         sync' = [sync EXCEPT ![s].pc = pc, ![s].path = p, ![s].doc = r.doc],
         UNCHANGED <<history, connector, mapping, documents, receipts>>
  PROVE  GitSafe'
<1> DEFINE row == [sync[s] EXCEPT !.pc = pc, !.path = p, !.doc = r.doc]
<1>1. /\ sync[s] \in SyncRow /\ sync[s].pc = "paths" /\ SyncSound(s) /\ p \in sync[s].todo
      /\ r \in receipts /\ r \in ReceiptRow /\ r.head = sync[s].head /\ r.content = At(s, p)
  BY DEF Doing, SameKey, GitSafe, GitRows
<1>2. sync' = [sync EXCEPT ![s] = row]
  BY DEF GitSafe, GitRows
<1>3. r.doc \in Nat /\ pc \in {"idle", "based"} \cup Working /\ p \in Paths \cup {Nothing}
  BY <1>1 DEF ReceiptRow, Working
<1>4. /\ row \in SyncRow /\ row.pc = pc /\ row.path = p /\ row.doc = r.doc /\ row.base = sync[s].base
      /\ row.head = sync[s].head /\ row.todo = sync[s].todo /\ row.skipped = sync[s].skipped
  BY <1>1, <1>3 DEF SyncRow
<1> HIDE DEF row
<1>5. sync'[s] = row
  BY <1>2 DEF GitSafe, GitRows
<1>6. SyncSound(s)'
  <2>1. \A t \in receipts' : t.head <= sync[s].head
    BY <1>1 DEF SyncSound, Working
  <2>2. sync' = [sync EXCEPT ![s] = sync'[s]]
    BY <1>2, <1>5
  <2>3. \A q \in Paths : mapping'[q] = mapping[q] /\ documents' = documents
    OBVIOUS
  <2> QED BY <1>1, <1>4, <1>5, <2>1, <2>2, <2>3, CarriedStays DEF Working
<1>7. documents[r.doc].latest = At(s, p) /\ r.doc \in Docs
  <2>1. \A q \in receipts : q.head <= r.head
    BY <1>1 DEF SyncSound, Working
  <2> QED BY <1>1, <2>1 DEF GitSafe, LatestReceipt, Contented
<1>8. UploadSound(s)'
  BY <1>1, <1>4, <1>5, <1>7 DEF UploadSound, At, Docs
<1>9. connector' \in [status : {"none", "active", "deleted"}, last : Nat] /\ connector'.last \in 0 .. Newest
  BY DEF GitSafe, GitRows
<1> QED BY <1>1, <1>2, <1>4, <1>6, <1>8, <1>9, OwnRowKeeps

LEMMA NewDocumentKeeps ==
  ASSUME GitSafe, NEW s \in Syncs, NEW p \in Paths, Doing(s, p), At(s, p) # Nothing,
         documents' = Append(documents, [state |-> "processing", latest |-> At(s, p)]),
         receipts' = receipts \cup {Receipt(s, p, "create", Len(documents'))},
         sync' = [sync EXCEPT ![s].pc = "created", ![s].path = p, ![s].doc = Len(documents')],
         UNCHANGED <<history, connector, mapping>>
  PROVE  GitSafe'
<1> DEFINE fresh == Len(documents) + 1
           row == [sync[s] EXCEPT !.pc = "created", !.path = p, !.doc = fresh]
           receipt == Receipt(s, p, "create", fresh)
<1>1. /\ sync[s] \in SyncRow /\ sync[s].pc = "paths" /\ SyncSound(s) /\ p \in sync[s].todo
      /\ sync[s].head \in 1 .. Newest /\ Len(documents) \in Nat
  BY DEF Doing, GitSafe, GitRows, SyncSound, Working
<1>2. At(s, p) \in Contents
  BY <1>1 DEF At, GitSafe, GitRows, Newest, Trees
<1>3. /\ Len(documents') = fresh /\ documents' \in Seq(DocumentRow)
      /\ documents'[fresh].latest = At(s, p) /\ \A d \in Docs : documents'[d] = documents[d]
  <2>1. [state |-> "processing", latest |-> At(s, p)] \in DocumentRow
    BY <1>2 DEF DocumentRow
  <2> QED BY <1>1, <2>1 DEF GitSafe, GitRows, Docs
<1>4. /\ receipt \in ReceiptRow /\ receipt.head = sync[s].head /\ receipt.content = At(s, p)
      /\ receipt.path = p /\ receipt.doc = fresh
  BY <1>1, <1>2 DEF Receipt, ReceiptRow, SyncRow
<1>5. receipts' = receipts \cup {receipt}
  BY <1>3
<1>6. sync' = [sync EXCEPT ![s] = row]
  BY <1>3 DEF GitSafe, GitRows
<1>7. /\ row \in SyncRow /\ row.pc = "created" /\ row.path = p /\ row.doc = fresh
      /\ row.base = sync[s].base /\ row.head = sync[s].head
      /\ row.todo = sync[s].todo /\ row.skipped = sync[s].skipped
  <2>1. fresh \in Nat /\ p \in Paths \cup {Nothing}
    BY <1>1
  <2> QED BY <1>1, <2>1 DEF SyncRow, Working
<1> HIDE DEF row, receipt
<1>8. sync'[s] = row
  BY <1>6 DEF GitSafe, GitRows
<1>9. /\ \A q \in Paths : mapping[q] # Nothing => mapping[q].doc \in Docs
      /\ \A r \in receipts : r.doc \in Docs /\ r.doc # fresh
  BY <1>1 DEF GitSafe, OwnPath, Contented, Docs
<1>10. Docs \subseteq Docs' /\ fresh \in Docs'
  BY <1>1, <1>3 DEF Docs
<1>11. SyncSound(s)'
  <2>1. \A r \in receipts' : r.head <= sync[s].head
    BY <1>1, <1>4, <1>5 DEF SyncSound, Working
  <2>2. sync' = [sync EXCEPT ![s] = sync'[s]]
    BY <1>6, <1>8
  <2> QED BY <1>1, <1>3, <1>7, <1>8, <1>9, <2>1, <2>2, CarriedStays DEF Working
<1>12. UploadSound(s)'
  BY <1>1, <1>3, <1>4, <1>5, <1>7, <1>8, <1>10 DEF UploadSound, At
<1>13. /\ sync' \in [Syncs -> SyncRow] /\ OneSync'
       /\ \A o \in Syncs : SyncSound(o)' /\ UploadSound(o)'
  BY <1>1, <1>6, <1>7, <1>11, <1>12, OthersIdle
<1>14. GitRows'
  BY <1>3, <1>4, <1>5, <1>13 DEF GitSafe, GitRows, Newest
<1>15. Contented'
  BY <1>1, <1>4, <1>5, <1>10 DEF GitSafe, Contented, Newest, At
<1>16. OwnPath'
  BY <1>4, <1>5, <1>9 DEF GitSafe, OwnPath
<1>17. LatestReceipt'
  BY <1>3, <1>4, <1>5, <1>9 DEF GitSafe, LatestReceipt
<1>18. Mapped'
  BY <1>1, <1>3, <1>9 DEF GitSafe, Mapped, OneSync
<1> QED BY <1>13, <1>14, <1>15, <1>16, <1>17, <1>18 DEF GitSafe

LEMMA NewRevisionKeeps ==
  ASSUME GitSafe, NEW s \in Syncs, NEW p \in Paths, Doing(s, p), At(s, p) # Nothing,
         mapping[p] # Nothing, NEW d, d = mapping[p].doc,
         documents' = [documents EXCEPT ![d].latest = At(s, p)],
         receipts' = receipts \cup {Receipt(s, p, "revise", d)},
         sync' = [sync EXCEPT ![s].pc = "revised", ![s].path = p, ![s].doc = d],
         UNCHANGED <<history, connector, mapping>>
  PROVE  GitSafe'
<1> DEFINE row == [sync[s] EXCEPT !.pc = "revised", !.path = p, !.doc = d]
           receipt == Receipt(s, p, "revise", d)
<1>1. /\ sync[s] \in SyncRow /\ sync[s].pc = "paths" /\ SyncSound(s) /\ p \in sync[s].todo
      /\ sync[s].head \in 1 .. Newest /\ Len(documents) \in Nat
  BY DEF Doing, GitSafe, GitRows, SyncSound, Working
<1>2. At(s, p) \in Contents
  BY <1>1 DEF At, GitSafe, GitRows, Newest, Trees
<1>3. /\ \A q \in Paths : mapping[q] # Nothing => mapping[q].doc \in Docs
      /\ \A r \in receipts : r.doc \in Docs /\ (r.doc = d => r.path = p)
      /\ \A q \in Paths : q # p /\ mapping[q] # Nothing => mapping[q].doc # d
      /\ \E r \in receipts : r.doc = d /\ r.path = p
  BY DEF GitSafe, OwnPath, Contented
<1>4. d \in Docs /\ d \in Nat
  BY <1>3 DEF Docs
<1>5. /\ Len(documents') = Len(documents) /\ documents' \in Seq(DocumentRow)
      /\ documents'[d].latest = At(s, p) /\ \A e \in Docs : e # d => documents'[e] = documents[e]
  <2>1. documents[d] \in DocumentRow
    BY <1>1, <1>4 DEF GitSafe, GitRows, Docs
  <2>2. /\ [documents[d] EXCEPT !.latest = At(s, p)] \in DocumentRow
        /\ [documents[d] EXCEPT !.latest = At(s, p)].latest = At(s, p)
    BY <1>2, <2>1 DEF DocumentRow
  <2>3. documents' = [documents EXCEPT ![d] = [documents[d] EXCEPT !.latest = At(s, p)]]
    BY <1>4 DEF GitSafe, GitRows, Docs
  <2> QED BY <1>1, <1>4, <2>2, <2>3 DEF GitSafe, GitRows, Docs
<1>6. /\ receipt \in ReceiptRow /\ receipt.head = sync[s].head /\ receipt.content = At(s, p)
      /\ receipt.path = p /\ receipt.doc = d
  BY <1>1, <1>2, <1>4 DEF Receipt, ReceiptRow, SyncRow
<1>7. receipts' = receipts \cup {receipt} /\ sync' = [sync EXCEPT ![s] = row]
  BY DEF GitSafe, GitRows
<1>8. /\ row \in SyncRow /\ row.pc = "revised" /\ row.path = p /\ row.doc = d
      /\ row.base = sync[s].base /\ row.head = sync[s].head
      /\ row.todo = sync[s].todo /\ row.skipped = sync[s].skipped
  BY <1>1, <1>4 DEF SyncRow, Working
<1> HIDE DEF row, receipt
<1>9. sync'[s] = row
  BY <1>7 DEF GitSafe, GitRows
<1>10. Docs' = Docs
  BY <1>5 DEF Docs
<1>11. \A r \in receipts' : r.head <= sync[s].head
  BY <1>1, <1>6, <1>7 DEF SyncSound, Working
<1>12. SyncSound(s)'
  <2>1. sync' = [sync EXCEPT ![s] = sync'[s]]
    BY <1>7, <1>9
  <2>2. \A q \in Paths : q # p /\ mapping[q] # Nothing =>
          documents'[mapping[q].doc].latest = documents[mapping[q].doc].latest
    BY <1>3, <1>5
  <2>3. sync[s].pc \in Working /\ sync'[s].pc \in Working
    BY <1>1, <1>8, <1>9 DEF Working
  <2>4. /\ sync'[s] \in SyncRow /\ sync'[s].base = sync[s].base /\ sync'[s].head = sync[s].head
        /\ sync'[s].skipped = sync[s].skipped /\ sync'[s].todo = sync[s].todo
    BY <1>8, <1>9
  <2>5. p \in sync'[s].todo /\ sync[s].todo \subseteq sync'[s].todo \cup {p}
    BY <1>1, <2>4
  <2>6. history' = history /\ \A q \in Paths : mapping'[q] = mapping[q]
    OBVIOUS
  <2> QED BY <1>11, <2>1, <2>2, <2>3, <2>4, <2>5, <2>6, CarriedStays
<1>13. UploadSound(s)'
  BY <1>1, <1>4, <1>5, <1>6, <1>7, <1>8, <1>9, <1>10 DEF UploadSound, At
<1>14. /\ sync' \in [Syncs -> SyncRow] /\ OneSync'
       /\ \A o \in Syncs : SyncSound(o)' /\ UploadSound(o)'
  BY <1>1, <1>7, <1>8, <1>12, <1>13, OthersIdle
<1>15. GitRows' /\ Contented' /\ OwnPath'
  <2>1. GitRows'
    BY <1>1, <1>5, <1>6, <1>7, <1>14 DEF GitSafe, GitRows, Newest
  <2>2. Contented'
    <3>1. Newest' = Newest /\ receipt.head \in 1 .. Newest /\ receipt.doc \in Docs'
      BY <1>1, <1>4, <1>6, <1>10 DEF Newest
    <3>2. receipt.content = history'[receipt.head][receipt.path]
      BY <1>6 DEF At
    <3> QED BY <1>7, <1>10, <3>1, <3>2 DEF GitSafe, Contented
  <2>3. OwnPath'
    BY <1>3, <1>6, <1>7 DEF GitSafe, OwnPath
  <2> QED BY <2>1, <2>2, <2>3
<1>16. LatestReceipt'
  <2> SUFFICES ASSUME NEW r \in receipts', \A q \in receipts' : q.doc = r.doc => q.head <= r.head
               PROVE  documents'[r.doc].latest = r.content
    BY DEF LatestReceipt
  <2>1. CASE r.doc = d
    <3>1. r.head = sync[s].head /\ r.path = p
      <4>1. sync[s].head <= r.head /\ r.head <= sync[s].head /\ r.head \in Nat /\ sync[s].head \in Nat
        BY <1>1, <1>6, <1>7, <1>11, <2>1 DEF GitSafe, GitRows, ReceiptRow, SyncRow
      <4> QED BY <1>3, <1>6, <1>7, <2>1, <4>1
    <3>2. r.content = At(s, p)
      BY <1>6, <1>7, <3>1 DEF GitSafe, Contented, At
    <3> QED BY <1>5, <2>1, <3>2
  <2>2. CASE r.doc # d
    <3>1. r \in receipts /\ r.doc \in Docs
      BY <1>3, <1>6, <1>7, <2>2
    <3> QED BY <1>5, <1>7, <2>2, <3>1 DEF GitSafe, LatestReceipt
  <2> QED BY <2>1, <2>2
<1>17. Mapped'
  <2>1. \A q \in Paths : q # p /\ mapping[q] # Nothing =>
          documents'[mapping[q].doc].latest = mapping[q].checksum
    BY <1>1, <1>3, <1>5 DEF GitSafe, Mapped, OneSync
  <2> QED BY <1>8, <1>9, <2>1 DEF Mapped
<1> QED BY <1>14, <1>15, <1>16, <1>17 DEF GitSafe

LEMMA UploadKeeps ==
  ASSUME GitSafe, NEW s \in Syncs, NEW p \in Paths, UploadNew(s, p) \/ UploadRevision(s, p)
  PROVE  GitSafe'
<1>1. CASE UploadNew(s, p)
  <2>1. Doing(s, p) /\ At(s, p) # Nothing /\ UNCHANGED <<history, connector, mapping>>
    BY <1>1 DEF UploadNew
  <2>2. CASE \E r \in SameKey(s, p) :
               /\ r.op = "create" /\ r.path = p
               /\ sync' = [sync EXCEPT ![s].pc = "created", ![s].path = p, ![s].doc = r.doc]
               /\ UNCHANGED <<documents, receipts>>
    BY <2>1, <2>2, ReplayKeeps
  <2> QED BY <1>1, <2>1, <2>2, NewDocumentKeeps DEF UploadNew
<1>2. CASE UploadRevision(s, p)
  <2> DEFINE d == mapping[p].doc
  <2>1. /\ Doing(s, p) /\ At(s, p) # Nothing /\ UNCHANGED <<history, connector, mapping>>
        /\ mapping[p] # Nothing
        /\ sync' = [sync EXCEPT ![s].pc = "revised", ![s].path = p, ![s].doc = d]
    BY <1>2 DEF UploadRevision
  <2>2. CASE Receipt(s, p, "revise", d) \in SameKey(s, p) /\ UNCHANGED <<documents, receipts>>
    <3>1. Receipt(s, p, "revise", d).path = p /\ Receipt(s, p, "revise", d).doc = d
      BY DEF Receipt
    <3> QED BY <2>1, <2>2, <3>1, ReplayKeeps
  <2>3. CASE /\ documents' = [documents EXCEPT ![d].latest = At(s, p)]
             /\ receipts' = receipts \cup {Receipt(s, p, "revise", d)}
    BY <2>1, <2>3, NewRevisionKeeps
  <2> QED BY <1>2, <2>2, <2>3 DEF UploadRevision
<1> QED BY <1>1, <1>2

LEMMA GitStep ==
  ASSUME GitSafe, ~torn', GitNext
  PROVE  GitSafe'
<1>1. ASSUME NEW t \in Trees, CommitTree(t) PROVE GitSafe'
  <2>1. /\ history' = Append(history, t) /\ UNCHANGED <<connector, mapping, documents, receipts, sync>>
        /\ history \in Seq(Trees)
    BY <1>1 DEF CommitTree, GitSafe, GitRows
  <2>2. /\ history' \in Seq(Trees) /\ Newest' = Newest + 1 /\ Newest \in Nat
        /\ \A h \in 1 .. Newest : history'[h] = history[h]
    BY <2>1 DEF Newest
  <2>3. connector'.last \in 0 .. Newest' /\ documents' \in Seq(DocumentRow)
        /\ connector' \in [status : {"none", "active", "deleted"}, last : Nat]
    BY <2>1, <2>2 DEF GitSafe, GitRows
  <2>4. /\ Newest <= Newest' /\ Newest' \in Nat /\ Len(documents') = Len(documents)
        /\ \A d \in Docs : documents'[d].latest = documents[d].latest
        /\ connector'.last \in 0 .. Newest'
    BY <2>1, <2>2, <2>3
  <2> QED BY <2>1, <2>2, <2>3, <2>4, GitOutsideKeeps
<1>2. ASSUME NEW d \in DOMAIN documents, NEW state \in {"ready", "failed", "archived"},
             DocumentSettles(d, state)
      PROVE  GitSafe'
  <2>1. /\ documents' = [documents EXCEPT ![d].state = state] /\ documents \in Seq(DocumentRow)
        /\ UNCHANGED <<history, connector, mapping, receipts, sync>> /\ documents[d] \in DocumentRow
    BY <1>2 DEF DocumentSettles, GitSafe, GitRows
  <2>2. /\ [documents[d] EXCEPT !.state = state] \in DocumentRow
        /\ [documents[d] EXCEPT !.state = state].latest = documents[d].latest
    BY <2>1 DEF DocumentRow
  <2>3. documents' = [documents EXCEPT ![d] = [documents[d] EXCEPT !.state = state]]
    BY <2>1
  <2>4. /\ documents' \in Seq(DocumentRow) /\ Len(documents') = Len(documents)
        /\ \A e \in Docs : documents'[e].latest = documents[e].latest
    BY <2>1, <2>2, <2>3 DEF Docs
  <2> QED BY <2>1, <2>4, GitOutsideKeeps DEF GitSafe, GitRows, Newest
<1>3. CASE Register \/ Unregister
  <2>1. /\ connector' \in [status : {"none", "active", "deleted"}, last : Nat]
        /\ connector'.last = connector.last
        /\ UNCHANGED <<history, mapping, documents, receipts, sync>>
    BY <1>3 DEF Register, Unregister, GitSafe, GitRows
  <2> QED BY <2>1, GitOutsideKeeps DEF GitSafe, GitRows, Newest
<1> QED BY <1>1, <1>2, <1>3, ReadingKeeps, ArchiveKeeps, RecordKeepsGit, UploadKeeps DEF GitNext

\* What two syncs at once, or a lost checksum, have broken is never mended.
LEMMA TornStays == GitNext /\ torn => torn'
<1> SUFFICES ASSUME GitNext, torn PROVE torn'
  OBVIOUS
<1>1. ASSUME NEW t \in Trees, CommitTree(t) PROVE torn'
  BY <1>1 DEF CommitTree
<1>2. ASSUME NEW d \in DOMAIN documents, NEW state \in {"ready", "failed", "archived"},
             DocumentSettles(d, state)
      PROVE  torn'
  BY <1>2 DEF DocumentSettles
<1>3. CASE Register \/ Unregister
  BY <1>3 DEF Register, Unregister
<1>4. ASSUME NEW s \in Syncs, ReadConnector(s) \/ ReadHead(s) PROVE torn'
  BY <1>4 DEF ReadConnector, ReadHead
<1>5. ASSUME NEW s \in Syncs, RecordMapping(s) \/ FinishSync(s) \/ AbortSync(s) PROVE torn'
  <2>1. torn' = torn \/ torn' = (torn \/ sync[s].pc = "revised")
    BY <1>5 DEF RecordMapping, FinishSync, AbortSync
  <2> QED BY <2>1
<1>6. ASSUME NEW s \in Syncs, NEW p \in Paths,
             \/ SkipPath(s, p) \/ SkipUnchanged(s, p) \/ ArchivePath(s, p)
             \/ UploadNew(s, p) \/ UploadRevision(s, p)
      PROVE  torn'
  <2>1. torn' = torn
    BY <1>6 DEF SkipPath, SkipUnchanged, ArchivePath, UploadNew, UploadRevision
  <2> QED BY <2>1
<1> QED BY <1>1, <1>2, <1>3, <1>4, <1>5, <1>6 DEF GitNext

\* A sync that records a commit has carried over every path the commit changed,
\* or reported it as skipped, whatever syncs stopped part-way before, as long as
\* no two ran at once and none stopped between a revision and its checksum.
THEOREM GitSyncedOrReported == GitSpec => SyncedOrReported
<1> DEFINE Reported == \A s \in Syncs : FinishSync(s) /\ ~torn =>
                         \A p \in ChangedPaths(sync[s].base, connector'.last) \ sync[s].skipped :
                           Holds(p, history[connector'.last][p])
<1>1. GitInit => GitInvariant
  BY GitStart
<1>2. GitInvariant /\ [GitNext]_gitVars => GitInvariant'
  <2> SUFFICES ASSUME GitInvariant, [GitNext]_gitVars, ~torn' PROVE GitSafe'
    BY DEF GitInvariant
  <2>1. CASE UNCHANGED gitVars
    <3>1. GitSafe
      BY <2>1 DEF gitVars, GitInvariant
    <3>2. UNCHANGED <<history, connector, mapping, documents, receipts, sync>>
      BY <2>1 DEF gitVars
    <3>3. Newest' = Newest /\ Docs' = Docs
      BY <3>2 DEF Newest, Docs
    <3>4. GitRows' /\ Contented' /\ OwnPath' /\ LatestReceipt'
      BY <3>1, <3>2, <3>3 DEF GitSafe, GitRows, Contented, OwnPath, LatestReceipt
    <3>5. OneSync' /\ Mapped'
      BY <3>1, <3>2, <3>3 DEF GitSafe, OneSync, Mapped
    <3>6. ASSUME NEW s \in Syncs PROVE SyncSound(s)' /\ UploadSound(s)'
      <4>1. \A q : At(s, q)' = At(s, q) /\ (Holds(q, At(s, q))' <=> Holds(q, At(s, q)))
        BY <3>2 DEF At, Holds
      <4>2. ChangedPaths(sync[s].base, sync[s].head)' = ChangedPaths(sync[s].base, sync[s].head)
        BY <3>2 DEF ChangedPaths
      <4>3. SyncSound(s)'
        BY <3>1, <3>2, <3>3, <4>1, <4>2 DEF GitSafe, SyncSound
      <4>4. UploadSound(s)'
        BY <3>1, <3>2, <3>3, <4>1 DEF GitSafe, UploadSound, At
      <4> QED BY <4>3, <4>4
    <3> QED BY <3>4, <3>5, <3>6 DEF GitSafe
  <2>2. CASE GitNext
    <3>1. torn => torn'
      BY <2>2, TornStays
    <3> QED BY <2>2, <3>1, GitStep DEF GitInvariant
  <2> QED BY <2>1, <2>2
<1>3. GitInvariant => Reported
  <2> SUFFICES ASSUME GitSafe, NEW s \in Syncs, FinishSync(s),
                      NEW p \in ChangedPaths(sync[s].base, connector'.last) \ sync[s].skipped
               PROVE  Holds(p, history[connector'.last][p])
    BY DEF GitInvariant
  <2>1. sync[s].pc = "paths" /\ sync[s].todo = {} /\ connector'.last = sync[s].head
    BY DEF FinishSync, SyncedCommit, GitSafe, GitRows
  <2> QED BY <2>1 DEF GitSafe, SyncSound, Working, At
<1>4. GitSpec => [][Reported]_gitVars
  BY <1>1, <1>2, <1>3, PTL DEF GitSpec
<1> QED BY <1>4 DEF SyncedOrReported
=============================================================================

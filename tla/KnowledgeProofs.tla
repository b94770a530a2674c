--------------------------- MODULE KnowledgeProofs ---------------------------
(***************************************************************************)
(* Theorems about knowledge items and the enrichment of their revisions,   *)
(* for any number of items, revisions and workers.  What the queue promises *)
(* is JobQueueProofs'.                                                     *)
(***************************************************************************)
EXTENDS KnowledgeItems, JobQueueProofs, FiniteSetTheorems

-----------------------------------------------------------------------------
(* The inductive invariant.                                                 *)

\* A worker is in a phase exactly while it is busy, with a job that exists.
Working == \A w \in Workers : /\ claim[w].pc = "busy" <=> phase[w] # "none"
                              /\ claim[w].pc = "busy" => job[claim[w].job].state # "absent"

\* A number no revision has been given has no job, and the current revision of
\* an item is one of its own.
OwnRevisions ==
  /\ \A r \in Jobs : rev[r].version = 0 => job[r].state = "absent"
  /\ \A i \in Items : item[i].exists =>
       /\ item[i].current \in Jobs
       /\ rev[item[i].current].item = i /\ rev[item[i].current].version > 0

\* Revisions whose enrichment has written its unit and not yet completed.
Projecting == {claim[w].job : w \in {v \in Workers : phase[v] \in {"cp90", "complete"}}}

\* Revisions that are reported as searchable, or are about to be.
Promised(r) == job[r].state \in {"absent", "succeeded"} \/ r \in Projecting

\* EnrichedIsSearchable, from the moment the unit is written.
Found == \A i \in Items :
           Readable(i) /\ item[i].status # "superseded" /\ Promised(item[i].current)
             => item[i].current \in live

KnowledgeSafe == KnowledgeTypeOK /\ ClaimsFenced /\ EnrichmentFenced
                   /\ Working /\ OwnRevisions /\ Found

\* The types every step's proof uses.
LEMMA KnowledgeTypes ==
  ASSUME KnowledgeTypeOK
  PROVE  /\ QueueTypeOK /\ job \in [Jobs -> JobRow] /\ claim \in [Workers -> JobClaim]
         /\ \A r \in Jobs : job[r] \in JobRow /\ job[r].state \in States /\ job[r].cancel \in BOOLEAN
         /\ item \in [Items -> ItemRow] /\ rev \in [Jobs -> KnowledgeRevision]
         /\ live \in SUBSET Jobs /\ phase \in [Workers -> Phases]
         /\ \A r \in Jobs : rev[r].item \in Items /\ rev[r].version \in Nat
BY DEF KnowledgeTypeOK, QueueTypeOK, JobRow, KnowledgeRevision

LEMMA KnowledgeInitially ==
  ASSUME Init PROVE KnowledgeSafe
<1>1. QueueTypeOK /\ ClaimsFenced
  <2>1. QueueTypeOK
    BY Bounds, StateNames DEF Init, QueueInit, QueueTypeOK, NoRow, Idle, JobRow, JobClaim
  <2> QED BY <2>1, ClaimsFencedInit DEF Init
<1>2. NoItem \in ItemRow /\ NoItem.exists = FALSE
  BY DEF NoItem, ItemRow, Lifecycle
<1>3. item \in [Items -> ItemRow] /\ \A i \in Items : ~item[i].exists
  BY <1>2 DEF Init
<1>4. rev \in [Jobs -> KnowledgeRevision]
  BY DEF Init, KnowledgeRevision
<1>5. \A w \in Workers : phase[w] = "none" /\ claim[w].pc = "idle"
  BY DEF Init, QueueInit, Idle
<1>6. phase \in [Workers -> Phases] /\ live = {}
  BY DEF Init, Phases
<1>7. \A r \in Jobs : job[r].state = "absent"
  BY DEF Init, QueueInit, NoRow
<1>8. KnowledgeTypeOK
  BY <1>1, <1>3, <1>4, <1>6 DEF KnowledgeTypeOK
<1>9. EnrichmentFenced /\ Working
  BY <1>5 DEF EnrichmentFenced, Working
<1>10. OwnRevisions /\ Found
  BY <1>3, <1>7 DEF OwnRevisions, Found, Readable
<1> QED BY <1>1, <1>8, <1>9, <1>10 DEF KnowledgeSafe

-----------------------------------------------------------------------------
(* Steps of the queue.                                                      *)

\* What a step may do to a row that is there.
SameJobs == \A r \in Jobs : /\ job'[r].state = "absent" <=> job[r].state = "absent"
                            /\ job'[r].state = "succeeded" =>
                                 job[r].state = "succeeded" \/ r \in Projecting

\* The claim of a worker that is computing an embedding, and its row, stay.
LocksHold == \A v \in Workers : phase[v] = "embed" /\ phase'[v] = "embed" =>
               /\ claim'[v] = claim[v]
               /\ LET r == claim[v].job IN
                    job'[r].state = "running" /\ job'[r].token = job[r].token /\ ~job'[r].cancel

\* Nobody else owns the job of a worker that is computing an embedding.
LEMMA EmbeddingOwner ==
  ASSUME KnowledgeSafe, NEW v \in Workers, NEW w \in Workers, v # w,
         phase[v] = "embed", Owns(w)
  PROVE  claim[v].job # claim[w].job
BY DEF KnowledgeSafe, EnrichmentFenced, ClaimsFenced, Working, Owns

LEMMA EmbeddingBusy ==
  ASSUME KnowledgeSafe, NEW v \in Workers, phase[v] = "embed"
  PROVE  /\ claim[v].pc = "busy" /\ claim[v].job \in Jobs /\ Locked(claim[v].job)
         /\ job[claim[v].job].state = "running" /\ ~job[claim[v].job].cancel
BY DEF KnowledgeSafe, EnrichmentFenced, ClaimsFenced, Working, Locked

LEMMA SweepSteady ==
  ASSUME KnowledgeSafe, NEW w \in Workers, SweepQueue(w)
  PROVE  SameJobs /\ LocksHold
<1>1. /\ \A r \in Jobs : job'[r] = SweptRow(job[r], r \in Usable)
      /\ \A r \in Jobs : Locked(r) => job'[r] = job[r]
      /\ claim' = [claim EXCEPT ![w].pc = "claiming"] /\ claim[w].pc = "idle"
  BY DEF SweepQueue, Sweep
<1>2. ASSUME NEW r \in Jobs PROVE SweepEffect(job[r], job'[r])
  <2> DEFINE u == r \in Usable
  <2>1. u \in BOOLEAN /\ job[r] \in JobRow /\ job'[r] = SweptRow(job[r], u)
    BY <1>1, KnowledgeTypes DEF KnowledgeSafe
  <2> HIDE DEF u
  <2> QED BY <2>1, SweptRowEffect
<1>3. SameJobs
  BY <1>2 DEF SweepEffect, SameJobs
<1>4. ASSUME NEW v \in Workers, phase[v] = "embed"
      PROVE  claim'[v] = claim[v] /\ job'[claim[v].job] = job[claim[v].job]
  BY <1>1, <1>4, EmbeddingBusy, KnowledgeTypes DEF KnowledgeSafe
<1>5. LocksHold
  BY <1>4, EmbeddingBusy DEF LocksHold
<1> QED BY <1>3, <1>5

\* One row changes, and it is not one a worker computes an embedding for.
LEMMA RowSteady ==
  ASSUME KnowledgeSafe, NEW r \in Jobs, NEW row \in JobRow,
         job' = [job EXCEPT ![r] = row],
         row.state = "absent" <=> job[r].state = "absent",
         row.state = "succeeded" => job[r].state = "succeeded" \/ r \in Projecting,
         \A v \in Workers : phase[v] = "embed" /\ phase'[v] = "embed" =>
           claim'[v] = claim[v] /\ claim[v].job # r
  PROVE  SameJobs /\ LocksHold
<1>1. job'[r] = row /\ \A s \in Jobs \ {r} : job'[s] = job[s]
  BY KnowledgeTypes DEF KnowledgeSafe
<1>2. SameJobs
  BY <1>1 DEF SameJobs
<1>3. LocksHold
  BY <1>1, EmbeddingBusy DEF LocksHold
<1> QED BY <1>2, <1>3

LEMMA RowsStill ==
  ASSUME KnowledgeSafe, UNCHANGED job,
         \A v \in Workers : phase[v] = "embed" /\ phase'[v] = "embed" => claim'[v] = claim[v]
  PROVE  SameJobs /\ LocksHold
<1>1. SameJobs
  BY DEF SameJobs
<1>2. LocksHold
  BY EmbeddingBusy DEF LocksHold
<1> QED BY <1>1, <1>2

\* A worker that ends its claim.
LEMMA ClaimEnds ==
  ASSUME KnowledgeSafe, NEW w \in Workers, Forget(w), Goto(w, "none")
  PROVE  \A v \in Workers : phase[v] = "embed" /\ phase'[v] = "embed" =>
           v # w /\ claim'[v] = claim[v]
BY KnowledgeTypes DEF KnowledgeSafe, Forget, Goto

LEMMA OwnerSteady ==
  ASSUME KnowledgeSafe, NEW w \in Workers,
         \/ RenewLease(w) \/ StopAtCheckpoint(w) \/ CompleteJob(w) \/ RecordFailure(w)
  PROVE  SameJobs /\ LocksHold
<1> DEFINE r == claim[w].job
<1>1. Owns(w) /\ r \in Jobs /\ job[r] \in JobRow /\ job[r].state = "running"
  <2>1. Owns(w)
    BY DEF RenewLease, Heartbeat, StopAtCheckpoint, AcknowledgeCancellation, CompleteJob,
           Complete, RecordFailure, Fail, MayWrite
  <2> QED BY <2>1, KnowledgeTypes DEF KnowledgeSafe, ClaimsFenced, Owns
<1>2. \A v \in Workers : v # w /\ phase[v] = "embed" => claim[v].job # r
  BY <1>1, EmbeddingOwner
<1>3. CASE RenewLease(w)
  <2> DEFINE row == [job[r] EXCEPT !.lease = LeaseTicks]
  <2>1. row \in JobRow /\ row.state = "running"
    BY <1>1, Bounds DEF JobRow
  <2>2. job' = [job EXCEPT ![r] = row] /\ claim' = claim /\ phase' = phase /\ phase[w] # "embed"
    BY <1>1, <1>3 DEF RenewLease, Heartbeat, knowledgeVars, JobRow
  <2> HIDE DEF row, r
  <2> QED BY <1>1, <1>2, <2>1, <2>2, RowSteady
<1>4. CASE StopAtCheckpoint(w)
  <2>1. /\ Leave(job[r], "cancelled") \in JobRow /\ Leave(job[r], "cancelled").state = "cancelled"
    BY <1>1, LeaveRow, StateNames
  <2>2. job' = [job EXCEPT ![r] = Leave(job[r], "cancelled")] /\ Forget(w) /\ Goto(w, "none")
    BY <1>4 DEF StopAtCheckpoint, AcknowledgeCancellation
  <2> HIDE DEF r
  <2> QED BY <1>1, <1>2, <2>1, <2>2, ClaimEnds, RowSteady
<1>5. CASE CompleteJob(w)
  <2>1. /\ Leave(job[r], "succeeded") \in JobRow /\ Leave(job[r], "succeeded").state = "succeeded"
    BY <1>1, LeaveRow, StateNames
  <2>2. job' = [job EXCEPT ![r] = Leave(job[r], "succeeded")] /\ Forget(w) /\ Goto(w, "none")
        /\ r \in Projecting
    BY <1>5 DEF CompleteJob, Complete, Projecting
  <2> HIDE DEF r
  <2> QED BY <1>1, <1>2, <2>1, <2>2, ClaimEnds, RowSteady
<1>6. CASE RecordFailure(w)
  <2>1. PICK retryable \in BOOLEAN : Fail(w, retryable)
    BY <1>6 DEF RecordFailure
  <2>2. /\ FailedRow(job[r], retryable) \in JobRow
        /\ FailedRow(job[r], retryable).state \in {"retry_wait", "cancelled", "failed"}
    BY <1>1, FailedRowEffect
  <2>3. job' = [job EXCEPT ![r] = FailedRow(job[r], retryable)] /\ Forget(w) /\ Goto(w, "none")
    BY <1>6, <2>1 DEF RecordFailure, Fail
  <2> HIDE DEF r
  <2> QED BY <1>1, <1>2, <2>2, <2>3, ClaimEnds, RowSteady
<1> QED BY <1>3, <1>4, <1>5, <1>6

LEMMA OtherWorkerSteady ==
  ASSUME KnowledgeSafe, NEW w \in Workers,
         \/ FindNothing(w) \/ PassCheckpoint(w) \/ EnrichRead(w) \/ EnrichWrite(w) \/ Raise(w)
         \/ DropClaim(w) \/ CrashWorker(w)
         \/ \E r \in Jobs : TakeJob(w, r)
  PROVE  SameJobs /\ LocksHold
<1>1. CASE FindNothing(w)
  <2>1. claim[w].pc = "claiming" /\ Forget(w) /\ job' = job
    BY <1>1 DEF FindNothing
  <2>2. \A v \in Workers : phase[v] = "embed" => claim'[v] = claim[v]
    BY <2>1, EmbeddingBusy, KnowledgeTypes DEF KnowledgeSafe, Forget
  <2> QED BY <2>1, <2>2, RowsStill
<1>2. CASE PassCheckpoint(w) \/ EnrichRead(w) \/ EnrichWrite(w) \/ Raise(w)
  <2>1. UNCHANGED <<job, claim>>
    BY <1>2 DEF PassCheckpoint, EnrichRead, EnrichWrite, Raise, SetProgress, queueVars
  <2> QED BY <2>1, RowsStill
<1>3. CASE DropClaim(w) \/ CrashWorker(w)
  <2>1. UNCHANGED job /\ Forget(w) /\ Goto(w, "none")
    BY <1>3 DEF DropClaim, CrashWorker, LoseLease, Crash
  <2> QED BY <2>1, ClaimEnds, RowsStill
<1>4. ASSUME NEW r \in Jobs, TakeJob(w, r) PROVE SameJobs /\ LocksHold
  <2>1. /\ job' = [job EXCEPT ![r] = ClaimedRow(job[r])]
        /\ claim' = [claim EXCEPT ![w] = [pc |-> "busy", job |-> r, token |-> ClaimedRow(job[r]).token]]
        /\ claim[w].pc = "claiming" /\ ~Locked(r) /\ Claimable(job[r])
    BY <1>4 DEF TakeJob, Take
  <2>2. /\ ClaimedRow(job[r]) \in JobRow /\ ClaimedRow(job[r]).state = "running"
        /\ job[r].state # "absent"
    BY <2>1, KnowledgeTypes, ClaimedRowEffect DEF KnowledgeSafe, Claimable, Expired, Waiting
  <2>3. \A v \in Workers : phase[v] = "embed" => claim'[v] = claim[v] /\ claim[v].job # r
    BY <2>1, EmbeddingBusy, KnowledgeTypes DEF KnowledgeSafe
  <2> QED BY <2>1, <2>2, <2>3, RowSteady
<1> QED BY <1>1, <1>2, <1>3, <1>4

LEMMA ApiSteady ==
  ASSUME KnowledgeSafe, NEW r \in Jobs,
         CancelJob(r) \/ RetryJob(r) \/ LeaseRunsDown(r) \/ RetryFallsDue(r)
  PROVE  SameJobs /\ LocksHold
<1>1. job[r] \in JobRow /\ UNCHANGED <<claim, phase>>
  BY KnowledgeTypes DEF KnowledgeSafe, CancelJob, RetryJob, LeaseRunsDown, RetryFallsDue,
     RequestCancellation, RequestRetry, LeaseTick, BecomeDue, knowledgeVars
<1>2. CASE CancelJob(r)
  <2> DEFINE row == [job[r] EXCEPT !.cancel = TRUE, !.retry = FALSE]
  <2>1. row \in JobRow /\ row.state = job[r].state
    BY <1>1 DEF JobRow
  <2>2. job' = [job EXCEPT ![r] = row] /\ ~Locked(r)
    BY <1>2 DEF CancelJob, RequestCancellation
  <2>3. \A v \in Workers : phase[v] = "embed" => claim'[v] = claim[v] /\ claim[v].job # r
    BY <1>1, <2>2, EmbeddingBusy
  <2> HIDE DEF row
  <2> QED BY <2>1, <2>2, <2>3, RowSteady
<1>3. CASE RetryJob(r)
  <2> DEFINE row == [job[r] EXCEPT !.retry = TRUE, !.cancel = FALSE]
  <2>1. row \in JobRow /\ row.state = job[r].state
    BY <1>1 DEF JobRow
  <2>2. job' = [job EXCEPT ![r] = row] /\ job[r].state # "running"
    BY <1>3 DEF RetryJob, RequestRetry
  <2>3. \A v \in Workers : phase[v] = "embed" => claim'[v] = claim[v] /\ claim[v].job # r
    BY <1>1, <2>2, EmbeddingBusy
  <2> HIDE DEF row
  <2> QED BY <2>1, <2>2, <2>3, RowSteady
<1>4. CASE RetryFallsDue(r)
  <2> DEFINE row == [job[r] EXCEPT !.due = TRUE]
  <2>1. row \in JobRow /\ row.state = job[r].state
    BY <1>1 DEF JobRow
  <2>2. job' = [job EXCEPT ![r] = row] /\ job[r].state # "running"
    BY <1>1, <1>4 DEF RetryFallsDue, BecomeDue, JobRow
  <2>3. \A v \in Workers : phase[v] = "embed" => claim'[v] = claim[v] /\ claim[v].job # r
    BY <1>1, <2>2, EmbeddingBusy
  <2> HIDE DEF row
  <2> QED BY <2>1, <2>2, <2>3, RowSteady
<1>5. CASE LeaseRunsDown(r)
  <2>1. job' = [job EXCEPT ![r] = [@ EXCEPT !.lease = job[r].lease - 1]]
    BY <1>1, <1>5 DEF LeaseRunsDown, LeaseTick, JobRow
  <2>2. /\ job'[r].state = job[r].state /\ job'[r].token = job[r].token
        /\ job'[r].cancel = job[r].cancel
        /\ \A s \in Jobs \ {r} : job'[s] = job[s]
    BY <1>1, <2>1, KnowledgeTypes DEF KnowledgeSafe, JobRow
  <2> QED BY <1>1, <2>2, EmbeddingBusy DEF SameJobs, LocksHold
<1> QED BY <1>2, <1>3, <1>4, <1>5

-----------------------------------------------------------------------------
(* Steps of a worker.                                                       *)

\* What a step of worker w does to the phases.
WorkerMove(w) ==
  /\ \A v \in Workers \ {w} : claim'[v] = claim[v] /\ phase'[v] = phase[v]
  /\ phase' \in [Workers -> Phases]
  /\ claim'[w].pc = "busy" <=> phase'[w] # "none"
  /\ claim'[w].pc = "busy" => /\ claim'[w].job \in Jobs
                              /\ job'[claim'[w].job].state # "absent"
  /\ phase'[w] = "embed" => phase[w] = "embed" \/ (MayWrite(w) /\ UNCHANGED queueVars)
  /\ phase'[w] \in {"cp90", "complete"} =>
       claim'[w] = claim[w] /\ (phase[w] \in {"cp90", "complete"} \/ claim[w].job \in live')
  /\ UNCHANGED <<item, rev>> /\ live \subseteq live' /\ live' \subseteq Jobs

\* The worker lets its claim go.
LEMMA ForgetMoves ==
  ASSUME KnowledgeSafe, NEW w \in Workers, Forget(w), Goto(w, "none"), UNCHANGED <<item, rev, live>>
  PROVE  WorkerMove(w)
<1>1. claim'[w] = Idle /\ phase'[w] = "none" /\ Idle.pc = "idle"
      /\ phase' \in [Workers -> Phases]
      /\ \A v \in Workers \ {w} : claim'[v] = claim[v] /\ phase'[v] = phase[v]
  BY KnowledgeTypes DEF KnowledgeSafe, Forget, Goto, Idle, Phases
<1> QED BY <1>1, KnowledgeTypes DEF KnowledgeSafe, WorkerMove

\* The worker goes on with its job.
LEMMA PhaseMoves ==
  ASSUME KnowledgeSafe, SameJobs, NEW w \in Workers, NEW p \in Phases \ {"none"}, Goto(w, p),
         UNCHANGED <<claim, item, rev>>, claim[w].pc = "busy",
         p = "embed" => MayWrite(w) /\ UNCHANGED job,
         p \in {"cp90", "complete"} => phase[w] \in {"cp90", "complete"} \/ claim[w].job \in live',
         live \subseteq live', live' \subseteq Jobs
  PROVE  WorkerMove(w)
<1>1. phase'[w] = p /\ phase' \in [Workers -> Phases]
      /\ \A v \in Workers \ {w} : phase'[v] = phase[v]
  BY KnowledgeTypes DEF KnowledgeSafe, Goto
<1>2. claim[w].job \in Jobs /\ job'[claim[w].job].state # "absent"
  BY DEF KnowledgeSafe, ClaimsFenced, Working, SameJobs
<1> QED BY <1>1, <1>2 DEF WorkerMove, queueVars

LEMMA EnrichMoves ==
  ASSUME KnowledgeSafe, SameJobs, NEW w \in Workers, EnrichStep(w)
  PROVE  WorkerMove(w)
<1>1. /\ claim \in [Workers -> JobClaim] /\ phase \in [Workers -> Phases] /\ live \in SUBSET Jobs
      /\ claim[w].pc = "busy" <=> phase[w] # "none"
  BY KnowledgeTypes DEF KnowledgeSafe, Working
<1>2. CASE SweepQueue(w)
  <2>1. /\ claim[w].pc = "idle" /\ UNCHANGED knowledgeVars
        /\ claim' = [claim EXCEPT ![w] = [@ EXCEPT !.pc = "claiming"]]
    BY <1>1, <1>2 DEF SweepQueue, Sweep, JobClaim
  <2>2. claim'[w].pc = "claiming" /\ \A v \in Workers \ {w} : claim'[v] = claim[v]
    BY <1>1, <2>1 DEF JobClaim
  <2> QED BY <1>1, <2>1, <2>2 DEF WorkerMove, knowledgeVars
<1>3. CASE FindNothing(w)
  <2>1. claim[w].pc = "claiming" /\ Forget(w) /\ UNCHANGED knowledgeVars
    BY <1>3 DEF FindNothing
  <2>2. Goto(w, "none")
    BY <1>1, <2>1 DEF Goto, knowledgeVars
  <2> QED BY <2>1, <2>2, ForgetMoves DEF knowledgeVars
<1>4. CASE RenewLease(w)
  <2>1. UNCHANGED <<claim, item, rev, live, phase>> /\ Owns(w) /\ phase[w] # "embed"
    BY <1>4 DEF RenewLease, Heartbeat, knowledgeVars, MayWrite
  <2>2. Goto(w, phase[w]) /\ phase[w] \in Phases \ {"none"} /\ claim[w].pc = "busy"
    BY <1>1, <2>1 DEF Goto, Owns
  <2> QED BY <1>1, <2>1, <2>2, PhaseMoves
<1>5. CASE PassCheckpoint(w)
  <2>1. /\ UNCHANGED <<job, claim, item, rev, live>> /\ phase[w] \in {"cp10", "cp90"}
        /\ Goto(w, AfterCheckpoint[phase[w]])
    BY <1>5 DEF PassCheckpoint, SetProgress, queueVars
  <2>2. /\ phase[w] = "cp10" => AfterCheckpoint[phase[w]] = "enrich"
        /\ phase[w] = "cp90" => AfterCheckpoint[phase[w]] = "complete"
    BY DEF AfterCheckpoint
  <2>3. AfterCheckpoint[phase[w]] \in Phases \ {"none"} /\ claim[w].pc = "busy"
        /\ AfterCheckpoint[phase[w]] # "embed"
    BY <1>1, <2>1, <2>2 DEF Phases
  <2>4. AfterCheckpoint[phase[w]] \in {"cp90", "complete"} => phase[w] = "cp90"
    BY <2>1, <2>2
  <2> QED BY <1>1, <2>1, <2>3, <2>4, PhaseMoves
<1>6. CASE EnrichRead(w)
  <2> DEFINE p == IF Readable(rev[claim[w].job].item) THEN "embed" ELSE "fail_final"
  <2>1. /\ UNCHANGED <<job, claim, item, rev, live>> /\ phase[w] = "enrich" /\ MayWrite(w)
        /\ Goto(w, p)
    BY <1>6 DEF EnrichRead, SetProgress, queueVars
  <2>2. p \in Phases \ {"none", "cp90", "complete"} /\ claim[w].pc = "busy"
    BY <1>1, <2>1 DEF Phases, Failures
  <2> HIDE DEF p
  <2> QED BY <1>1, <2>1, <2>2, PhaseMoves
<1>7. CASE EnrichWrite(w)
  <2>1. UNCHANGED <<job, claim, item, rev>> /\ phase[w] = "embed" /\ claim[w].pc = "busy"
        /\ claim[w].job \in Jobs
    BY <1>7, EmbeddingBusy DEF EnrichWrite
  <2>2. \/ live' = live \cup {claim[w].job} /\ Goto(w, "cp90")
        \/ live' = live /\ Goto(w, "fail_final")
    BY <1>7 DEF EnrichWrite
  <2>3. "cp90" \in Phases \ {"none"} /\ "fail_final" \in Phases \ {"none"}
    BY DEF Phases, Failures
  <2> QED BY <1>1, <2>1, <2>2, <2>3, PhaseMoves
<1>8. CASE Raise(w)
  <2>1. UNCHANGED <<job, claim, item, rev, live>> /\ Goto(w, "fail_retry") /\ claim[w].pc = "busy"
    BY <1>1, <1>8 DEF Raise
  <2>2. "fail_retry" \in Phases \ {"none"}
    BY DEF Phases, Failures
  <2> QED BY <1>1, <2>1, <2>2, PhaseMoves
<1>9. CASE \/ StopAtCheckpoint(w) \/ CompleteJob(w) \/ RecordFailure(w)
           \/ DropClaim(w) \/ CrashWorker(w)
  <2>1. Forget(w) /\ Goto(w, "none") /\ UNCHANGED <<item, rev, live>>
    BY <1>9 DEF StopAtCheckpoint, AcknowledgeCancellation, CompleteJob, Complete,
       RecordFailure, Fail, DropClaim, LoseLease, CrashWorker, Crash
  <2> QED BY <2>1, ForgetMoves
<1>10. ASSUME NEW r \in Jobs, TakeJob(w, r) PROVE WorkerMove(w)
  <2>1. /\ claim'[w].pc = "busy" /\ claim'[w].job = r /\ phase'[w] = "cp10"
        /\ phase' \in [Workers -> Phases]
        /\ \A v \in Workers \ {w} : claim'[v] = claim[v] /\ phase'[v] = phase[v]
        /\ UNCHANGED <<item, rev, live>>
    BY <1>1, <1>10 DEF TakeJob, Take, Phases
  <2>2. job[r].state # "absent"
    BY <1>10 DEF TakeJob, Take, Claimable, Expired, Waiting
  <2> QED BY <1>1, <2>1, <2>2 DEF WorkerMove, SameJobs
<1> QED BY <1>2, <1>3, <1>4, <1>5, <1>6, <1>7, <1>8, <1>9, <1>10 DEF EnrichStep, Process

\* A step that leaves items and revisions alone keeps the invariant, when what
\* it promises newly has its unit.
LEMMA QueueSideKeeps ==
  ASSUME KnowledgeSafe, QueueTypeOK', ClaimsFenced', SameJobs, LocksHold,
         UNCHANGED <<item, rev>>, live \subseteq live', live' \subseteq Jobs,
         phase' \in [Workers -> Phases], Working',
         \A v \in Workers : phase'[v] = "embed" =>
           phase[v] = "embed" \/ (MayWrite(v) /\ UNCHANGED queueVars),
         \A v \in Workers : phase'[v] \in {"cp90", "complete"} =>
           claim'[v] = claim[v] /\ (phase[v] \in {"cp90", "complete"} \/ claim[v].job \in live')
  PROVE  KnowledgeSafe'
<1>1. KnowledgeTypeOK'
  BY KnowledgeTypes DEF KnowledgeSafe, KnowledgeTypeOK
<1>2. EnrichmentFenced'
  <2> SUFFICES ASSUME NEW v \in Workers, phase'[v] = "embed"
               PROVE  LET r == job'[claim'[v].job] IN
                        r.state = "running" /\ r.token = claim'[v].token /\ ~r.cancel
    BY DEF EnrichmentFenced
  <2>1. CASE phase[v] = "embed"
    BY <2>1 DEF LocksHold, KnowledgeSafe, EnrichmentFenced
  <2>2. CASE MayWrite(v) /\ UNCHANGED queueVars
    BY <2>2 DEF MayWrite, Owns, queueVars
  <2> QED BY <2>1, <2>2
<1>3. OwnRevisions'
  BY DEF KnowledgeSafe, OwnRevisions, SameJobs
<1>4. \A r \in Projecting' : r \in Projecting \/ r \in live'
  BY DEF Projecting
<1>5. \A i \in Items : Readable(i)' <=> Readable(i)
  BY DEF Readable
<1>6. ASSUME NEW i \in Items, Readable(i), item[i].status # "superseded",
             \/ job'[item[i].current].state \in {"absent", "succeeded"}
             \/ item[i].current \in Projecting'
      PROVE  item[i].current \in live'
  <2> DEFINE r == item[i].current
  <2>1. r \in Jobs
    BY <1>6 DEF KnowledgeSafe, OwnRevisions, Readable
  <2>2. CASE r \in live'
    BY <2>2
  <2>3. CASE r \notin live'
    <3>1. Promised(r)
      BY <1>4, <1>6, <2>1, <2>3 DEF Promised, SameJobs
    <3> QED BY <1>6, <3>1 DEF KnowledgeSafe, Found
  <2> QED BY <2>2, <2>3
<1>7. Found'
  BY <1>5, <1>6 DEF Found, Promised
<1> QED BY <1>1, <1>2, <1>3, <1>7 DEF KnowledgeSafe

LEMMA EnrichRunsQueue ==
  ASSUME NEW w \in Workers, EnrichStep(w) PROVE [QueueNext]_queueVars
<1>1. CASE SweepQueue(w)
  <2>1. Usable \in SUBSET Jobs
    BY DEF Usable
  <2> QED BY <1>1, <2>1 DEF SweepQueue, QueueNext, WorkerStep
<1>2. CASE FindNothing(w)
  <2>1. Crash(w)
    BY <1>2 DEF FindNothing, Crash
  <2> QED BY <2>1 DEF QueueNext, WorkerStep
<1>3. CASE RenewLease(w) \/ CrashWorker(w) \/ \E r \in Jobs : TakeJob(w, r)
  BY <1>3 DEF RenewLease, CrashWorker, TakeJob, QueueNext, WorkerStep
<1>4. CASE PassCheckpoint(w) \/ EnrichRead(w) \/ EnrichWrite(w) \/ Raise(w)
  BY <1>4 DEF PassCheckpoint, EnrichRead, EnrichWrite, Raise, SetProgress, queueVars
<1>5. CASE StopAtCheckpoint(w) \/ CompleteJob(w) \/ DropClaim(w)
  BY <1>5 DEF StopAtCheckpoint, CompleteJob, DropClaim, QueueNext, WorkerStep
<1>6. CASE RecordFailure(w)
  <2>1. PICK retryable \in BOOLEAN : Fail(w, retryable)
    BY <1>6 DEF RecordFailure
  <2> QED BY <2>1 DEF QueueNext, WorkerStep
<1> QED BY <1>1, <1>2, <1>3, <1>4, <1>5, <1>6 DEF EnrichStep, Process

LEMMA EnrichKeeps ==
  ASSUME KnowledgeSafe, NEW w \in Workers, EnrichStep(w) PROVE KnowledgeSafe'
<1>1. QueueTypeOK' /\ ClaimsFenced'
  BY EnrichRunsQueue, QueueTypeStep, ClaimsFencedStep, KnowledgeTypes DEF KnowledgeSafe
<1>2. SameJobs /\ LocksHold
  BY SweepSteady, OwnerSteady, OtherWorkerSteady DEF EnrichStep, Process
<1>3. WorkerMove(w)
  BY <1>2, EnrichMoves
<1>4. Working'
  <2>1. \A v \in Workers \ {w} : claim'[v].pc = "busy" =>
           job'[claim'[v].job].state # "absent"
    BY <1>2, <1>3 DEF WorkerMove, KnowledgeSafe, Working, ClaimsFenced, SameJobs
  <2> QED BY <1>3, <2>1 DEF WorkerMove, KnowledgeSafe, Working
<1>5. \A v \in Workers : phase'[v] = "embed" =>
        phase[v] = "embed" \/ (MayWrite(v) /\ UNCHANGED queueVars)
  BY <1>3 DEF WorkerMove
<1>6. \A v \in Workers : phase'[v] \in {"cp90", "complete"} =>
        claim'[v] = claim[v] /\ (phase[v] \in {"cp90", "complete"} \/ claim[v].job \in live')
  BY <1>3 DEF WorkerMove
<1> QED BY <1>1, <1>2, <1>3, <1>4, <1>5, <1>6, QueueSideKeeps DEF WorkerMove

LEMMA ApiKeeps ==
  ASSUME KnowledgeSafe, NEW r \in Jobs,
         CancelJob(r) \/ RetryJob(r) \/ LeaseRunsDown(r) \/ RetryFallsDue(r)
  PROVE  KnowledgeSafe'
<1>1. [QueueNext]_queueVars
  BY DEF CancelJob, RetryJob, LeaseRunsDown, RetryFallsDue, QueueNext, JobStep
<1>2. QueueTypeOK' /\ ClaimsFenced'
  BY <1>1, QueueTypeStep, ClaimsFencedStep, KnowledgeTypes DEF KnowledgeSafe
<1>3. SameJobs /\ LocksHold
  BY ApiSteady
<1>4. UNCHANGED <<claim, item, rev, live, phase>>
  BY DEF CancelJob, RetryJob, LeaseRunsDown, RetryFallsDue, RequestCancellation,
         RequestRetry, LeaseTick, BecomeDue, knowledgeVars
<1>5. Working'
  BY <1>3, <1>4 DEF KnowledgeSafe, Working, ClaimsFenced, SameJobs
<1> QED BY <1>2, <1>3, <1>4, <1>5, KnowledgeTypes, QueueSideKeeps DEF KnowledgeSafe

-----------------------------------------------------------------------------
(* Writers of items.                                                        *)

\* Workers stand still: the claims that are fenced stay so if their rows do.
LEMMA WritersAside ==
  ASSUME KnowledgeSafe, UNCHANGED <<claim, phase>>,
         \A s \in Jobs : job[s].state # "absent" =>
           job'[s].state = job[s].state /\ job'[s].token = job[s].token,
         \A s \in Jobs : Locked(s) => job'[s].cancel = job[s].cancel
  PROVE  EnrichmentFenced' /\ Working' /\ Projecting' = Projecting
<1>1. EnrichmentFenced'
  <2> SUFFICES ASSUME NEW v \in Workers, phase[v] = "embed"
               PROVE  LET r == job'[claim[v].job] IN
                        r.state = "running" /\ r.token = claim[v].token /\ ~r.cancel
    BY DEF EnrichmentFenced
  <2> QED BY EmbeddingBusy DEF KnowledgeSafe, EnrichmentFenced
<1>2. Working'
  BY DEF Working, KnowledgeSafe, ClaimsFenced
<1>3. Projecting' = Projecting
  BY DEF Projecting
<1> QED BY <1>1, <1>2, <1>3

LEMMA RevisionAdded ==
  ASSUME KnowledgeSafe, NEW i \in Items, NEW r \in Jobs, NEW v \in Nat, v > 0,
         NEW async \in BOOLEAN, AddRevision(i, r, v, async)
  PROVE  /\ QueueTypeOK' /\ ClaimsFenced' /\ EnrichmentFenced' /\ Working'
         /\ Projecting' = Projecting /\ r \notin Projecting
         /\ rev[r].version = 0 /\ rev' \in [Jobs -> KnowledgeRevision]
         /\ rev'[r].item = i /\ rev'[r].version = v
         /\ \A s \in Jobs \ {r} : rev'[s] = rev[s] /\ job'[s] = job[s]
         /\ \A s \in Jobs : rev'[s].version = 0 => job'[s].state = "absent"
         /\ live' \in SUBSET Jobs /\ phase' = phase
         /\ IF async THEN job'[r].state = "queued" /\ live' = live
                     ELSE r \in live' /\ \A s \in live : rev[s].item # i => s \in live'
<1>1. /\ rev[r].version = 0 /\ job[r].state = "absent"
      /\ rev' = [rev EXCEPT ![r] = [item |-> i, version |-> v]]
      /\ rev \in [Jobs -> KnowledgeRevision] /\ live \in SUBSET Jobs
      /\ job \in [Jobs -> JobRow]
  BY KnowledgeTypes DEF AddRevision, KnowledgeSafe, OwnRevisions
<1>2. [item |-> i, version |-> v] \in KnowledgeRevision
  BY DEF KnowledgeRevision
<1>3. /\ rev' \in [Jobs -> KnowledgeRevision] /\ rev'[r].item = i /\ rev'[r].version = v
      /\ \A s \in Jobs \ {r} : rev'[s] = rev[s]
  BY <1>1, <1>2
<1>4. [QueueNext]_queueVars
  BY DEF AddRevision, QueueNext, JobStep
<1>5. QueueTypeOK' /\ ClaimsFenced'
  BY <1>4, QueueTypeStep, ClaimsFencedStep, KnowledgeTypes DEF KnowledgeSafe
<1>6. /\ UNCHANGED <<claim, phase>> /\ \A s \in Jobs \ {r} : job'[s] = job[s]
      /\ async => job'[r].state = "queued" /\ live' = live
      /\ ~async => job' = job /\ live' = Projected(i, r)
  <2>1. CASE async
    <3>1. UNCHANGED <<claim, phase, live>>
          /\ job' = [job EXCEPT ![r] = [NoRow EXCEPT !.state = "queued", !.issued = job[r].issued]]
      BY <2>1 DEF AddRevision, Insert
    <3>2. [NoRow EXCEPT !.state = "queued", !.issued = job[r].issued].state = "queued"
      BY DEF NoRow
    <3> QED BY <1>1, <2>1, <3>1, <3>2
  <2>2. CASE ~async
    BY <2>2 DEF AddRevision, queueVars
  <2> QED BY <2>1, <2>2
<1>7. ~Locked(r) /\ r \notin Projecting
  <2>1. \A w \in Workers : phase[w] # "none" => claim[w].job # r
    BY <1>1 DEF KnowledgeSafe, Working
  <2> QED BY <2>1 DEF Locked, Projecting
<1>8. EnrichmentFenced' /\ Working' /\ Projecting' = Projecting
  <2>1. \A s \in Jobs : job[s].state # "absent" => job'[s] = job[s]
    BY <1>1, <1>6
  <2>2. \A s \in Jobs : Locked(s) => job'[s] = job[s]
    BY <1>6, <1>7
  <2> QED BY <1>6, <2>1, <2>2, WritersAside
<1>9. \A s \in Jobs : rev'[s].version = 0 => job'[s].state = "absent"
  BY <1>3, <1>6 DEF KnowledgeSafe, OwnRevisions
<1>10. live' \in SUBSET Jobs
       /\ IF async THEN job'[r].state = "queued" /\ live' = live
                   ELSE r \in live' /\ \A s \in live : rev[s].item # i => s \in live'
  BY <1>1, <1>6 DEF Projected, RevisionsOf
<1> QED BY <1>1, <1>3, <1>5, <1>6, <1>7, <1>8, <1>9, <1>10

\* A revision is added and becomes the current one of its item.
LEMMA NewCurrent ==
  ASSUME KnowledgeSafe, NEW i \in Items, NEW r \in Jobs, NEW v \in Nat, v > 0,
         NEW async \in BOOLEAN, AddRevision(i, r, v, async),
         NEW row \in ItemRow, row.current = r, item' = [item EXCEPT ![i] = row]
  PROVE  KnowledgeSafe'
<1>1. /\ QueueTypeOK' /\ ClaimsFenced' /\ EnrichmentFenced' /\ Working'
      /\ Projecting' = Projecting /\ r \notin Projecting
      /\ rev[r].version = 0 /\ rev' \in [Jobs -> KnowledgeRevision]
      /\ rev'[r].item = i /\ rev'[r].version = v
      /\ \A s \in Jobs \ {r} : rev'[s] = rev[s] /\ job'[s] = job[s]
      /\ \A s \in Jobs : rev'[s].version = 0 => job'[s].state = "absent"
      /\ live' \in SUBSET Jobs /\ phase' = phase
      /\ IF async THEN job'[r].state = "queued" /\ live' = live
                  ELSE r \in live' /\ \A s \in live : rev[s].item # i => s \in live'
  BY RevisionAdded
<1>2. /\ item \in [Items -> ItemRow] /\ item' \in [Items -> ItemRow] /\ item'[i] = row
      /\ \A k \in Items \ {i} : item'[k] = item[k]
  BY KnowledgeTypes DEF KnowledgeSafe
<1>3. KnowledgeTypeOK'
  BY <1>1, <1>2, KnowledgeTypes DEF KnowledgeSafe, KnowledgeTypeOK
<1>4. \A k \in Items \ {i} : item[k].exists =>
        LET c == item[k].current IN c \in Jobs \ {r} /\ rev[c].item = k /\ rev[c].version > 0
  BY <1>1, KnowledgeTypes DEF KnowledgeSafe, OwnRevisions
<1>5. OwnRevisions'
  <2>1. \A k \in Items : item'[k].exists =>
          /\ item'[k].current \in Jobs
          /\ rev'[item'[k].current].item = k /\ rev'[item'[k].current].version > 0
    BY <1>1, <1>2, <1>4
  <2> QED BY <1>1, <2>1 DEF OwnRevisions
<1>6. Found'
  <2> SUFFICES ASSUME NEW k \in Items, item'[k].exists, ~item'[k].deleted,
                      item'[k].status # "superseded",
                      \/ job'[item'[k].current].state \in {"absent", "succeeded"}
                      \/ item'[k].current \in Projecting'
               PROVE  item'[k].current \in live'
    BY DEF Found, Promised, Readable
  <2>1. CASE k = i
    BY <1>1, <1>2, <2>1
  <2>2. CASE k # i
    <3> DEFINE c == item[k].current
    <3>1. c \in Jobs \ {r} /\ rev[c].item # i /\ item'[k] = item[k]
      BY <1>2, <1>4, <2>2
    <3>2. c \in live
      BY <1>1, <3>1 DEF KnowledgeSafe, Found, Promised, Readable
    <3> QED BY <1>1, <3>1, <3>2
  <2> QED BY <2>1, <2>2
<1> QED BY <1>1, <1>3, <1>5, <1>6 DEF KnowledgeSafe

LEMMA CreateKeeps ==
  ASSUME KnowledgeSafe, NEW i \in Items, NEW r \in Jobs, NEW status \in Lifecycle,
         NEW async \in BOOLEAN, Create(i, r, status, async)
  PROVE  KnowledgeSafe'
<1> DEFINE row == [NoItem EXCEPT !.exists = TRUE, !.status = status, !.current = r]
<1>1. row \in ItemRow /\ row.current = r
  BY DEF NoItem, ItemRow
<1>2. AddRevision(i, r, 1, async) /\ item' = [item EXCEPT ![i] = row]
  BY DEF Create
<1>3. 1 \in Nat /\ 1 > 0
  OBVIOUS
<1> HIDE DEF row
<1> QED BY <1>1, <1>2, <1>3, NewCurrent

LEMMA UpdateKeeps ==
  ASSUME KnowledgeSafe, NEW i \in Items, NEW r \in Jobs, NEW async \in BOOLEAN,
         Update(i, r, async)
  PROVE  KnowledgeSafe'
<1> DEFINE row == [item[i] EXCEPT !.current = r]
           v == rev[item[i].current].version + 1
<1>1. item[i] \in ItemRow /\ item[i].exists /\ item[i].current \in Jobs
      /\ rev[item[i].current].version \in Nat
  BY KnowledgeTypes DEF Update, Readable, KnowledgeSafe, OwnRevisions
<1>2. row \in ItemRow /\ row.current = r
  BY <1>1 DEF ItemRow
<1>3. AddRevision(i, r, v, async) /\ item' = [item EXCEPT ![i] = row]
  BY <1>1 DEF Update, ItemRow
<1>4. v \in Nat /\ v > 0
  BY <1>1
<1> HIDE DEF row, v
<1> QED BY <1>2, <1>3, <1>4, NewCurrent

\* A step of item i that leaves the current revisions of the others alone, and
\* of rows of jobs changes at most whether they were asked to stop.
LEMMA ItemAside ==
  ASSUME KnowledgeSafe, NEW i \in Items, UNCHANGED <<claim, phase, rev>>,
         QueueTypeOK', ClaimsFenced',
         \A s \in Jobs : job'[s].state = job[s].state /\ job'[s].token = job[s].token,
         \A s \in Jobs : Locked(s) => job'[s].cancel = job[s].cancel,
         NEW row \in ItemRow, item' = [item EXCEPT ![i] = row],
         row.exists => item[i].exists /\ row.current = item[i].current,
         live' \in SUBSET Jobs,
         \A s \in live : rev[s].item # i => s \in live',
         row.exists /\ ~row.deleted /\ row.status # "superseded" => row.current \in live'
  PROVE  KnowledgeSafe'
<1>1. EnrichmentFenced' /\ Working' /\ Projecting' = Projecting
  BY WritersAside
<1>2. /\ item \in [Items -> ItemRow] /\ item' \in [Items -> ItemRow] /\ item'[i] = row
      /\ \A k \in Items \ {i} : item'[k] = item[k]
  BY KnowledgeTypes DEF KnowledgeSafe
<1>3. KnowledgeTypeOK'
  BY <1>2, KnowledgeTypes DEF KnowledgeSafe, KnowledgeTypeOK
<1>4. OwnRevisions'
  BY <1>2 DEF KnowledgeSafe, OwnRevisions
<1>5. Found'
  <2> SUFFICES ASSUME NEW k \in Items, item'[k].exists, ~item'[k].deleted,
                      item'[k].status # "superseded",
                      \/ job'[item'[k].current].state \in {"absent", "succeeded"}
                      \/ item'[k].current \in Projecting'
               PROVE  item'[k].current \in live'
    BY DEF Found, Promised, Readable
  <2>1. CASE k = i
    BY <1>2, <2>1
  <2>2. CASE k # i
    <3> DEFINE c == item[k].current
    <3>1. c \in Jobs /\ rev[c].item # i /\ item'[k] = item[k]
      BY <1>2, <2>2 DEF KnowledgeSafe, OwnRevisions
    <3>2. c \in live
      BY <1>1, <3>1 DEF KnowledgeSafe, Found, Promised, Readable
    <3> QED BY <3>1, <3>2
  <2> QED BY <2>1, <2>2
<1> QED BY <1>1, <1>3, <1>4, <1>5 DEF KnowledgeSafe

LEMMA QueueAside ==
  ASSUME KnowledgeSafe, UNCHANGED <<job, claim>>
  PROVE  QueueTypeOK' /\ ClaimsFenced'
BY KnowledgeTypes, QueueTypeStep, ClaimsFencedStep DEF KnowledgeSafe, queueVars

LEMMA TransitionKeeps ==
  ASSUME KnowledgeSafe, NEW i \in Items, NEW to \in Lifecycle, Transition(i, to)
  PROVE  KnowledgeSafe'
<1> DEFINE row == [item[i] EXCEPT !.status = to]
<1>1. item[i] \in ItemRow /\ item[i].exists /\ item[i].current \in Jobs /\ live \in SUBSET Jobs
  BY KnowledgeTypes DEF Transition, Readable, KnowledgeSafe, OwnRevisions
<1>2. row \in ItemRow /\ row.current = item[i].current /\ row.status = to
  BY <1>1 DEF ItemRow
<1>3. /\ item' = [item EXCEPT ![i] = row] /\ UNCHANGED <<job, claim, rev, phase>>
      /\ live' = IF to = "superseded" THEN live \ RevisionsOf(i) ELSE Projected(i, item[i].current)
  BY <1>1 DEF Transition, ItemRow
<1>4. /\ live' \in SUBSET Jobs /\ \A s \in live : rev[s].item # i => s \in live'
      /\ to # "superseded" => item[i].current \in live'
  BY <1>1, <1>3 DEF Projected, RevisionsOf
<1> HIDE DEF row
<1> QED BY <1>1, <1>2, <1>3, <1>4, QueueAside, ItemAside

LEMMA DeletedRow ==
  ASSUME KnowledgeSafe, NEW i \in Items, Readable(i)
  PROVE  /\ [item[i] EXCEPT !.deleted = TRUE] \in ItemRow
         /\ [item[i] EXCEPT !.deleted = TRUE].deleted = TRUE
         /\ [item[i] EXCEPT !.deleted = TRUE].current = item[i].current
         /\ item[i].exists /\ item[i].current \in Jobs /\ rev[item[i].current].item = i
<1>1. item[i] \in ItemRow
  BY KnowledgeTypes DEF KnowledgeSafe
<1>2. item[i].exists /\ item[i].current \in Jobs /\ rev[item[i].current].item = i
  BY DEF Readable, KnowledgeSafe, OwnRevisions
<1> QED BY <1>1, <1>2 DEF ItemRow

LEMMA SoftDeleteKeeps ==
  ASSUME KnowledgeSafe, NEW i \in Items, SoftDelete(i)
  PROVE  KnowledgeSafe'
<1> DEFINE row == [item[i] EXCEPT !.deleted = TRUE]
<1>1. /\ row \in ItemRow /\ row.deleted = TRUE /\ row.current = item[i].current
      /\ item[i].exists /\ rev[item[i].current].item = i
  BY DeletedRow DEF SoftDelete
<1>2. item' = [item EXCEPT ![i] = row] /\ live' = live \ {item[i].current}
      /\ UNCHANGED <<job, claim, rev, phase>>
  BY KnowledgeTypes DEF KnowledgeSafe, SoftDelete, ItemRow
<1>3. live' \in SUBSET Jobs /\ \A s \in live : rev[s].item # i => s \in live'
  BY <1>1, <1>2, KnowledgeTypes DEF KnowledgeSafe
<1> HIDE DEF row
<1> QED BY <1>1, <1>2, <1>3, QueueAside, ItemAside

LEMMA DeleteKeeps ==
  ASSUME KnowledgeSafe, NEW i \in Items, Delete(i)
  PROVE  KnowledgeSafe'
<1> DEFINE row == [item[i] EXCEPT !.deleted = TRUE]
<1>1. /\ row \in ItemRow /\ row.deleted = TRUE /\ row.current = item[i].current
      /\ item[i].exists /\ rev[item[i].current].item = i
  BY DeletedRow DEF Delete
<1>2. /\ item' = [item EXCEPT ![i] = row] /\ live' = live \ {item[i].current}
      /\ UNCHANGED <<claim, rev, phase>>
  BY KnowledgeTypes DEF KnowledgeSafe, Delete, ItemRow
<1>3. live' \in SUBSET Jobs /\ \A s \in live : rev[s].item # i => s \in live'
  BY <1>1, <1>2, KnowledgeTypes DEF KnowledgeSafe
<1>4. job' = [r \in Jobs |-> IF r \in Stoppable(i) THEN [job[r] EXCEPT !.cancel = TRUE] ELSE job[r]]
      /\ \A r \in Stoppable(i) : ~Locked(r)
  BY DEF Delete
<1>5. ASSUME NEW s \in Jobs
      PROVE  /\ job'[s] \in JobRow /\ job'[s].state = job[s].state /\ job'[s].token = job[s].token
             /\ job'[s].issued = job[s].issued /\ job'[s].lease = job[s].lease
             /\ Locked(s) => job'[s].cancel = job[s].cancel
  <2>1. job[s] \in JobRow
    BY KnowledgeTypes DEF KnowledgeSafe
  <2>2. [job[s] EXCEPT !.cancel = TRUE] \in JobRow
    BY <2>1 DEF JobRow
  <2> QED BY <1>4, <2>1, <2>2 DEF JobRow
<1>6. QueueTypeOK'
  BY <1>2, <1>4, <1>5, KnowledgeTypes DEF KnowledgeSafe, QueueTypeOK
<1>7. ClaimsFenced'
  <2>1. \A s \in Jobs : ClaimColumns(job'[s])
    BY <1>5 DEF KnowledgeSafe, ClaimsFenced, ClaimColumns
  <2> QED BY <1>2, <1>5, <2>1 DEF KnowledgeSafe, ClaimsFenced
<1> HIDE DEF row
<1> QED BY <1>1, <1>2, <1>3, <1>5, <1>6, <1>7, ItemAside

LEMMA ImportOrder ==
  ASSUME NEW n \in 1 .. Cardinality(Jobs), NEW order \in Injection(1 .. n, Jobs)
  PROVE  /\ order \in [1 .. n -> Jobs] /\ DOMAIN order = 1 .. n
         /\ Len(order) \in 1 .. n /\ n \in Nat
<1>1. order \in [1 .. n -> Jobs]
  BY DEF Injection
<1>2. n \in Nat /\ n >= 1
  BY KnowledgeAssumption, FS_CardinalityType
<1>3. Len(order) = n
  BY <1>1, <1>2
<1> QED BY <1>1, <1>2, <1>3

LEMMA ImportKeeps ==
  ASSUME KnowledgeSafe, NEW i \in Items, NEW n \in 1 .. Cardinality(Jobs),
         NEW status \in Lifecycle, NEW order \in Injection(1 .. n, Jobs),
         ImportItem(i, order, status)
  PROVE  KnowledgeSafe'
<1> DEFINE last == order[Len(order)]
           row == [NoItem EXCEPT !.exists = TRUE, !.status = status, !.current = last]
           Comes(r) == \E m \in DOMAIN order : order[m] = r
           place(r) == CHOOSE m \in DOMAIN order : order[m] = r
<1>1. /\ order \in [1 .. n -> Jobs] /\ DOMAIN order = 1 .. n /\ n \in Nat
      /\ last \in Jobs /\ Comes(last)
  BY ImportOrder
<1>2. /\ ~item[i].exists /\ \A m \in DOMAIN order : rev[order[m]].version = 0
      /\ rev' = [r \in Jobs |-> IF Comes(r) THEN [item |-> i, version |-> place(r)] ELSE rev[r]]
      /\ item' = [item EXCEPT ![i] = row] /\ live' = live \cup {last}
      /\ UNCHANGED <<job, claim, phase>>
  BY DEF ImportItem
<1>3. \A r \in Jobs : Comes(r) => place(r) \in 1 .. n
  BY <1>1
<1>4. \A r \in Jobs : Comes(r) => rev[r].version = 0
  BY <1>2
<1>5. row \in ItemRow /\ row.current = last
  BY <1>1 DEF NoItem, ItemRow
<1> HIDE DEF row, last, Comes, place
<1>6. \A r \in Jobs : /\ Comes(r) => rev'[r] = [item |-> i, version |-> place(r)]
                      /\ ~Comes(r) => rev'[r] = rev[r]
  BY <1>2
<1>7. \A r \in Jobs : Comes(r) => /\ rev'[r] \in KnowledgeRevision
                                  /\ rev'[r].item = i /\ rev'[r].version > 0
  <2> SUFFICES ASSUME NEW r \in Jobs, Comes(r)
               PROVE  /\ rev'[r] \in KnowledgeRevision
                      /\ rev'[r].item = i /\ rev'[r].version > 0
    OBVIOUS
  <2> DEFINE v == place(r)
  <2>1. v \in Nat /\ v > 0
    BY <1>1, <1>3
  <2>2. rev'[r] = [item |-> i, version |-> v]
    BY <1>6
  <2> HIDE DEF v
  <2> QED BY <2>1, <2>2 DEF KnowledgeRevision
<1>8. rev' \in [Jobs -> KnowledgeRevision]
  <2>1. \A r \in Jobs : rev'[r] \in KnowledgeRevision
    BY <1>6, <1>7, KnowledgeTypes DEF KnowledgeSafe
  <2>2. rev' = [r \in Jobs |-> rev'[r]]
    BY <1>2
  <2> QED BY <2>1, <2>2
<1>9. /\ item \in [Items -> ItemRow] /\ item' \in [Items -> ItemRow] /\ item'[i] = row
      /\ \A k \in Items \ {i} : item'[k] = item[k]
  BY <1>2, <1>5, KnowledgeTypes DEF KnowledgeSafe
<1>10. QueueTypeOK' /\ ClaimsFenced' /\ EnrichmentFenced' /\ Working' /\ Projecting' = Projecting
  BY <1>2, QueueAside, WritersAside
<1>11. KnowledgeTypeOK'
  BY <1>1, <1>2, <1>8, <1>9, <1>10, KnowledgeTypes DEF KnowledgeSafe, KnowledgeTypeOK
<1>12. \A k \in Items \ {i} : item[k].exists =>
         item[k].current \in Jobs /\ ~Comes(item[k].current)
  BY <1>4 DEF KnowledgeSafe, OwnRevisions
<1>13. OwnRevisions'
  <2>1. \A r \in Jobs : rev'[r].version = 0 => job'[r].state = "absent"
    BY <1>2, <1>6, <1>7 DEF KnowledgeSafe, OwnRevisions
  <2>2. \A k \in Items : item'[k].exists =>
          /\ item'[k].current \in Jobs
          /\ rev'[item'[k].current].item = k /\ rev'[item'[k].current].version > 0
    <3> TAKE k \in Items
    <3>1. CASE k = i
      BY <1>1, <1>5, <1>7, <1>9, <3>1
    <3>2. CASE k # i
      <4> SUFFICES ASSUME item'[k].exists
                   PROVE  /\ item'[k].current \in Jobs
                          /\ rev'[item'[k].current].item = k /\ rev'[item'[k].current].version > 0
        OBVIOUS
      <4> DEFINE c == item[k].current
      <4>1. item'[k] = item[k] /\ item[k].exists
        BY <1>9, <3>2
      <4>2. c \in Jobs /\ ~Comes(c) /\ rev[c].item = k /\ rev[c].version > 0
        BY <1>12, <3>2, <4>1 DEF KnowledgeSafe, OwnRevisions
      <4>3. rev'[c] = rev[c]
        BY <1>6, <4>2
      <4> QED BY <4>1, <4>2, <4>3
    <3> QED BY <3>1, <3>2
  <2> QED BY <2>1, <2>2 DEF OwnRevisions
<1>14. Found'
  <2> SUFFICES ASSUME NEW k \in Items, item'[k].exists, ~item'[k].deleted,
                      item'[k].status # "superseded",
                      \/ job'[item'[k].current].state \in {"absent", "succeeded"}
                      \/ item'[k].current \in Projecting'
               PROVE  item'[k].current \in live'
    BY DEF Found, Promised, Readable
  <2>1. CASE k = i
    BY <1>2, <1>5, <1>9, <2>1
  <2>2. CASE k # i
    BY <1>2, <1>9, <1>10, <2>2 DEF KnowledgeSafe, Found, Promised, Readable
  <2> QED BY <2>1, <2>2
<1> QED BY <1>10, <1>11, <1>13, <1>14 DEF KnowledgeSafe

-----------------------------------------------------------------------------
(* The theorems.                                                            *)

LEMMA KnowledgeStep ==
  ASSUME KnowledgeSafe, [Next]_vars PROVE KnowledgeSafe'
<1>1. ASSUME NEW i \in Items, NEW r \in Jobs, NEW async \in BOOLEAN,
             \/ \E status \in Lifecycle : Create(i, r, status, async)
             \/ Update(i, r, async) \/ CreateItem(i, r) \/ UpdateItemOcc(i, r)
      PROVE  KnowledgeSafe'
  <2>1. "accepted" \in Lifecycle /\ FALSE \in BOOLEAN
    BY DEF Lifecycle
  <2> QED BY <1>1, <2>1, CreateKeeps, UpdateKeeps DEF CreateItem, UpdateItemOcc
<1>2. ASSUME NEW i \in Items,
             \/ \E to \in Lifecycle : Transition(i, to)
             \/ Delete(i) \/ SoftDelete(i)
      PROVE  KnowledgeSafe'
  BY <1>2, TransitionKeeps, DeleteKeeps, SoftDeleteKeeps
<1>3. ASSUME NEW i \in Items, NEW n \in 1 .. Cardinality(Jobs), NEW status \in Lifecycle,
             NEW order \in Injection(1 .. n, Jobs), ImportItem(i, order, status)
      PROVE  KnowledgeSafe'
  BY <1>3, ImportKeeps
<1>4. ASSUME NEW i \in Items, ItemStep(i) PROVE KnowledgeSafe'
  BY <1>1, <1>2, <1>3, <1>4 DEF ItemStep
<1>5. ASSUME NEW w \in Workers, EnrichStep(w) PROVE KnowledgeSafe'
  BY <1>5, EnrichKeeps
<1>6. ASSUME NEW r \in Jobs, CancelJob(r) \/ RetryJob(r) \/ LeaseRunsDown(r) \/ RetryFallsDue(r)
      PROVE  KnowledgeSafe'
  BY <1>6, ApiKeeps
<1>7. CASE UNCHANGED vars
  <2>1. UNCHANGED <<job, claim, item, rev, live, phase>>
    BY <1>7 DEF vars
  <2>2. SameJobs /\ LocksHold
    BY <2>1, RowsStill
  <2>3. Working'
    BY <2>1 DEF KnowledgeSafe, Working
  <2> QED BY <2>1, <2>2, <2>3, KnowledgeTypes, QueueAside, QueueSideKeeps DEF KnowledgeSafe
<1> QED BY <1>4, <1>5, <1>6, <1>7 DEF Next

\* Rows are well typed, and from the moment an enrichment has read its job until
\* it commits, nobody ends the claim it writes under.
THEOREM KnowledgeFenced == Spec => []KnowledgeInvariant
<1>1. Init => KnowledgeSafe
  BY KnowledgeInitially
<1>2. KnowledgeSafe /\ [Next]_vars => KnowledgeSafe'
  BY KnowledgeStep
<1>3. KnowledgeSafe => KnowledgeInvariant
  BY DEF KnowledgeSafe, KnowledgeInvariant
<1> QED BY <1>1, <1>2, <1>3, PTL DEF Spec

\* Whatever enrichments of older revisions did meanwhile, an item whose current
\* revision is reported enriched is found.
THEOREM KnowledgeSearchable == Spec => []EnrichedIsSearchable
<1>1. Init => KnowledgeSafe
  BY KnowledgeInitially
<1>2. KnowledgeSafe /\ [Next]_vars => KnowledgeSafe'
  BY KnowledgeStep
<1>3. KnowledgeSafe => EnrichedIsSearchable
  BY DEF KnowledgeSafe, Found, Promised, EnrichedIsSearchable
<1> QED BY <1>1, <1>2, <1>3, PTL DEF Spec

\* The claims of the queue exclude each other also where deletions of items
\* write its rows, which is no step of the queue alone.
THEOREM KnowledgeKeepsClaims == Spec => []ExclusiveClaim
<1>1. Init => KnowledgeSafe
  BY KnowledgeInitially
<1>2. KnowledgeSafe /\ [Next]_vars => KnowledgeSafe'
  BY KnowledgeStep
<1>3. KnowledgeSafe => ExclusiveClaim
  BY FencedIsExclusive DEF KnowledgeSafe
<1> QED BY <1>1, <1>2, <1>3, PTL DEF Spec
=============================================================================

------------------------------ MODULE JobQueue ------------------------------
(***************************************************************************)
(* The durable job queue of application/services/ingestion_job_service.py: *)
(* the ingestion_jobs table and the worker processes that claim from it.   *)
(* One action is one database transaction (READ COMMITTED, the row locked  *)
(* or matched by the WHERE clause), so a guard below is the WHERE clause.  *)
(* What a job is about (a document revision, a knowledge revision) is      *)
(* added by the modules that extend this one.                              *)
(*                                                                         *)
(* Time.  lease_expires_at > now is lease > 0: a lease counts down ticks   *)
(* and a heartbeat winds it up again.  next_attempt_at <= now is due.      *)
(***************************************************************************)
EXTENDS Naturals, FiniteSets

CONSTANTS Jobs,         \* rows of ingestion_jobs
          Workers,      \* worker processes
          NoJob,        \* a worker that holds no claim
          MaxAttempts,  \* max_attempts
          LeaseTicks,   \* lease_seconds
          MaxClaims     \* bound: claim tokens ever issued for one row

ASSUME QueueAssumption == /\ NoJob \notin Jobs
                          /\ MaxAttempts \in Nat \ {0}
                          /\ LeaseTicks \in Nat \ {0}
                          /\ MaxClaims \in Nat

VARIABLES job,    \* job[j]: the row
          claim   \* claim[w]: the JobClaim worker w believes in

queueVars == <<job, claim>>

Terminal == {"succeeded", "failed", "cancelled"}
Waiting == {"queued", "retry_wait"}
States == {"absent", "preparing", "running"} \cup Waiting \cup Terminal

JobRow == [state : States, token : Nat, issued : Nat, lease : 0..LeaseTicks,
           due : BOOLEAN, attempts : 0..MaxAttempts, cancel : BOOLEAN, retry : BOOLEAN]

JobClaim == [pc : {"idle", "claiming", "busy"}, job : Jobs \cup {NoJob}, token : Nat]

QueueTypeOK == /\ job \in [Jobs -> JobRow]
               /\ claim \in [Workers -> JobClaim]

NoRow == [state |-> "absent", token |-> 0, issued |-> 0, lease |-> 0, due |-> TRUE,
          attempts |-> 0, cancel |-> FALSE, retry |-> FALSE]
Idle == [pc |-> "idle", job |-> NoJob, token |-> 0]

QueueInit == /\ job = [j \in Jobs |-> NoRow]
             /\ claim = [w \in Workers |-> Idle]

Expired(r) == r.state = "running" /\ r.lease = 0

\* The bound on claim tokens leaves room for a full run of attempts, so a job
\* the queue has accepted is never stopped by the bound.
WithinBound(r) == r.issued + MaxAttempts <= MaxClaims

\* The claim columns are cleared whenever a row leaves "running".
Leave(r, s) == [r EXCEPT !.state = s, !.token = 0, !.lease = 0]

-----------------------------------------------------------------------------
(* The row of a new job: an upload inserts it in "preparing", an enrichment *)
(* request in "queued".                                                     *)
Insert(j, s) ==
  /\ job[j].state = "absent"
  /\ WithinBound(job[j])
  /\ job' = [job EXCEPT ![j] = [NoRow EXCEPT !.state = s, !.issued = job[j].issued]]
  /\ UNCHANGED claim

\* The upload is finalized: preparing -> queued.
Enqueue(j) ==
  /\ job[j].state = "preparing"
  /\ job' = [job EXCEPT ![j].state = "queued"]
  /\ UNCHANGED claim

-----------------------------------------------------------------------------
(* claim_next: three sweeps over the table, then one claim.  The statements *)
(* of the transaction see what other transactions commit in between, so the *)
(* sweeps and the claim are two steps of the worker.                        *)

ActivateRetry(r, usable) ==
  IF r.state \in {"failed", "cancelled"} /\ r.retry /\ ~r.cancel
  THEN IF usable
       THEN [Leave(r, "queued") EXCEPT !.attempts = 0, !.due = TRUE, !.retry = FALSE]
       ELSE [r EXCEPT !.retry = FALSE]
  ELSE r

\* Seeded fault: a cancelled job that is still waiting is left to the claim.
FinalizeCancellation_RunningOnly(r) ==
  IF r.cancel /\ Expired(r) THEN [Leave(r, "cancelled") EXCEPT !.retry = FALSE] ELSE r

FinalizeCancellation(r) ==
  IF r.cancel /\ (r.state \in Waiting \/ Expired(r))
  THEN [Leave(r, "cancelled") EXCEPT !.retry = FALSE]
  ELSE r

\* Seeded fault: no sweep for exhausted jobs.
FinalizeExhausted_Never(r) == r

\* Seeded fault: the sweep forgets to compare lease_expires_at with now.
FinalizeExhausted_AnyLease(r) ==
  IF ((r.state \in Waiting /\ r.due) \/ r.state = "running") /\ r.attempts >= MaxAttempts
  THEN Leave(r, "failed")
  ELSE r

FinalizeExhausted(r) ==
  IF ((r.state \in Waiting /\ r.due) \/ Expired(r)) /\ r.attempts >= MaxAttempts
  THEN Leave(r, "failed")
  ELSE r

SweptRow(r, usable) == FinalizeExhausted(FinalizeCancellation(ActivateRetry(r, usable)))

\* usable: the jobs whose subject still allows a retry.
Sweep(w, usable) ==
  /\ claim[w].pc = "idle"
  /\ job' = [j \in Jobs |-> SweptRow(job[j], j \in usable)]
  /\ claim' = [claim EXCEPT ![w].pc = "claiming"]

\* Seeded fault: attempts are not compared with max_attempts.
Claimable_Unbounded(r) == (r.state \in Waiting /\ r.due /\ ~r.cancel) \/ Expired(r)

\* An expired running row is claimable whatever its cancellation flag says.
Claimable(r) == /\ \/ r.state \in Waiting /\ r.due /\ ~r.cancel
                   \/ Expired(r)
                /\ r.attempts < MaxAttempts

\* Seeded fault: a reclaimed row keeps the claim token it has.
ClaimedRow_SameToken(r) ==
  LET t == IF r.token = 0 THEN r.issued + 1 ELSE r.token IN
  [r EXCEPT !.state = "running", !.token = t, !.issued = t,
            !.lease = LeaseTicks, !.attempts = r.attempts + 1]

\* A fresh claim token, a full lease and one more attempt.
ClaimedRow(r) == [r EXCEPT !.state = "running", !.token = r.issued + 1, !.issued = r.issued + 1,
                           !.lease = LeaseTicks, !.attempts = r.attempts + 1]

Take(w, j) ==
  /\ claim[w].pc = "claiming"
  /\ Claimable(job[j])
  /\ job' = [job EXCEPT ![j] = ClaimedRow(@)]
  /\ claim' = [claim EXCEPT ![w] = [pc |-> "busy", job |-> j, token |-> ClaimedRow(job[j]).token]]

TakeNothing(w) ==
  /\ claim[w].pc = "claiming"
  /\ \A j \in Jobs : ~Claimable(job[j])
  /\ claim' = [claim EXCEPT ![w] = Idle]
  /\ UNCHANGED job

-----------------------------------------------------------------------------
(* Statements of a worker that holds a claim.                               *)

\* Seeded fault: the claim token is not compared.
Owns_NoFence(w) == /\ claim[w].pc = "busy"
                   /\ job[claim[w].job].state = "running"
                   /\ job[claim[w].job].lease > 0

\* The WHERE clause of _locked_claim and is_cancellation_requested: the row is
\* running under the worker's own token and the lease has not run out.
Owns(w) == /\ claim[w].pc = "busy"
           /\ job[claim[w].job].state = "running"
           /\ job[claim[w].job].token = claim[w].token
           /\ job[claim[w].job].lease > 0

\* Seeded fault: a cancellation request is not looked at.
MayWrite_IgnoresCancel(w) == Owns(w)

\* heartbeat, set_progress, complete and activate also need an uncancelled job.
MayWrite(w) == Owns(w) /\ ~job[claim[w].job].cancel

Forget(w) == claim' = [claim EXCEPT ![w] = Idle]

Heartbeat(w) ==
  /\ MayWrite(w)
  /\ job' = [job EXCEPT ![claim[w].job].lease = LeaseTicks]
  /\ UNCHANGED claim

\* set_progress: progress is not modelled, what is left is the guard.
SetProgress(w) == MayWrite(w) /\ UNCHANGED queueVars

Complete(w) ==
  /\ MayWrite(w)
  /\ job' = [job EXCEPT ![claim[w].job] = Leave(@, "succeeded")]
  /\ Forget(w)

FailedRow(r, retryable) ==
  IF retryable /\ r.attempts < MaxAttempts /\ ~r.cancel
  THEN [Leave(r, "retry_wait") EXCEPT !.due = FALSE]
  ELSE Leave(r, IF r.cancel THEN "cancelled" ELSE "failed")

Fail(w, retryable) ==
  /\ Owns(w)
  /\ job' = [job EXCEPT ![claim[w].job] = FailedRow(@, retryable)]
  /\ Forget(w)

AcknowledgeCancellation(w) ==
  /\ Owns(w)
  /\ job[claim[w].job].cancel
  /\ job' = [job EXCEPT ![claim[w].job] = Leave(@, "cancelled")]
  /\ Forget(w)

\* JobLeaseLostException: a statement matched no row, the worker drops the job.
LoseLease(w) ==
  /\ claim[w].pc = "busy"
  /\ ~MayWrite(w)
  /\ Forget(w)
  /\ UNCHANGED job

\* The process stops between two transactions; nothing is rolled back.
Crash(w) ==
  /\ claim[w].pc # "idle"
  /\ Forget(w)
  /\ UNCHANGED job

-----------------------------------------------------------------------------
(* The management API.                                                      *)

RequestCancellation(j) ==
  /\ job[j].state \notin Terminal \cup {"absent"}
  /\ job' = [job EXCEPT ![j] = [@ EXCEPT !.cancel = TRUE, !.retry = FALSE]]
  /\ UNCHANGED claim

\* Refused unless the job failed or was cancelled; the extending module adds
\* what the subject must look like.
RequestRetry(j) ==
  /\ job[j].state \in {"failed", "cancelled"}
  /\ WithinBound(job[j])
  /\ job' = [job EXCEPT ![j] = [@ EXCEPT !.retry = TRUE, !.cancel = FALSE]]
  /\ UNCHANGED claim

\* Storage maintenance fails a job from outside, whoever holds it.
ForceFail(j) ==
  /\ job[j].state \notin Terminal \cup {"absent"}
  /\ job' = [job EXCEPT ![j] = Leave(@, "failed")]
  /\ UNCHANGED claim

-----------------------------------------------------------------------------
(* Time.                                                                    *)

LeaseTick(j) ==
  /\ job[j].state = "running"
  /\ job[j].lease > 0
  /\ job' = [job EXCEPT ![j].lease = @ - 1]
  /\ UNCHANGED claim

BecomeDue(j) ==
  /\ job[j].state = "retry_wait"
  /\ ~job[j].due
  /\ job' = [job EXCEPT ![j].due = TRUE]
  /\ UNCHANGED claim

-----------------------------------------------------------------------------
WorkerStep(w) == \/ \E usable \in SUBSET Jobs : Sweep(w, usable)
                 \/ \E j \in Jobs : Take(w, j)
                 \/ TakeNothing(w)
                 \/ Heartbeat(w)
                 \/ Complete(w)
                 \/ \E retryable \in BOOLEAN : Fail(w, retryable)
                 \/ AcknowledgeCancellation(w)
                 \/ LoseLease(w)
                 \/ Crash(w)

JobStep(j) == \/ \E s \in {"preparing", "queued"} : Insert(j, s)
              \/ Enqueue(j)
              \/ RequestCancellation(j)
              \/ RequestRetry(j)
              \/ ForceFail(j)
              \/ LeaseTick(j)
              \/ BecomeDue(j)

QueueNext == (\E w \in Workers : WorkerStep(w)) \/ (\E j \in Jobs : JobStep(j))

QueueSpec == QueueInit /\ [][QueueNext]_queueVars

(* What the code's scheduling guarantees.  run_until_stopped polls for ever; *)
(* rows are claimed in order of next_attempt_at, so a claimable row is not   *)
(* passed over for ever; a busy worker ends its attempt; time passes.        *)
(* Crashes, heartbeats and API calls are not promised.                       *)
EndAttempt(w) == \/ Complete(w)
                 \/ \E retryable \in BOOLEAN : Fail(w, retryable)
                 \/ AcknowledgeCancellation(w)
                 \/ LoseLease(w)

QueueFairness ==
  /\ \A w \in Workers : /\ WF_queueVars(\E usable \in SUBSET Jobs : Sweep(w, usable))
                        /\ WF_queueVars(TakeNothing(w))
                        /\ WF_queueVars(EndAttempt(w))
  /\ \A j \in Jobs : /\ SF_queueVars(\E w \in Workers : Take(w, j))
                     /\ WF_queueVars(LeaseTick(j))
                     /\ WF_queueVars(BecomeDue(j))

QueueFairSpec == QueueSpec /\ QueueFairness

-----------------------------------------------------------------------------
(* Properties.                                                              *)

\* Why claims exclude each other, as an inductive invariant.  A row carries a
\* claim token exactly while it is running, and a lease only then (the CHECK
\* constraint ck_ingestion_jobs_claim); the token is the newest one issued for
\* the row; what a worker believes in was really issued; and no two workers,
\* stale ones included, hold the same token for one row.
ClaimColumns(r) == /\ (r.state = "running") <=> (r.token # 0)
                   /\ r.lease > 0 => r.state = "running"
                   /\ r.token \in {0, r.issued}

ClaimsFenced ==
  /\ \A j \in Jobs : ClaimColumns(job[j])
  /\ \A w \in Workers :
       IF claim[w].pc = "busy"
       THEN claim[w].job \in Jobs /\ claim[w].token \in 1..job[claim[w].job].issued
       ELSE claim[w].job = NoJob /\ claim[w].token = 0
  /\ \A v, w \in Workers :
       v # w /\ claim[v].pc = "busy" /\ claim[v].job = claim[w].job => claim[v].token # claim[w].token

\* The inductive invariant of the queue: rows and claims are well typed, in
\* particular attempts stay within max_attempts, and tokens fence claims.
QueueInvariant == QueueTypeOK /\ ClaimsFenced

\* Two workers never both pass the ownership check on one job, however long a
\* worker that lost its lease keeps running (claim_token fences it).
ExclusiveClaim ==
  \A v, w \in Workers : v # w /\ Owns(v) /\ Owns(w) => claim[v].job # claim[w].job

\* A job whose cancellation was requested, and not undone by a retry, is never
\* reported as succeeded: the request either finds it finished or stops it.
CancelledNeverSucceeds ==
  \A j \in Jobs : ~(job[j].cancel /\ job[j].state = "succeeded")

\* claim_next never takes a job away from a worker whose lease is live: while a
\* worker owns a job, only that worker's own step, or storage maintenance
\* failing the job, ends the claim.  The exhaustion sweep is the hard case.
LiveLeaseRespected ==
  [][\A v \in Workers : Owns(v) /\ claim'[v] = claim[v] =>
        \/ job'[claim[v].job].token = claim[v].token
        \/ ForceFail(claim[v].job)]_queueVars

\* Under the fairness above every job that was queued reaches a terminal state,
\* through any number of crashes and lost leases: attempts run out, and a last
\* attempt that expires is failed rather than left running.  One with a
\* cancellation request ends unsuccessfully, even when nobody ever acknowledges
\* the request because the worker is gone.
EveryJobSettles ==
  \A j \in Jobs :
    /\ job[j].state \in Waiting \cup {"running"} ~> job[j].state \in Terminal
    /\ (job[j].cancel /\ job[j].state \in Waiting \cup {"running"})
          ~> job[j].state \in {"failed", "cancelled"}

-----------------------------------------------------------------------------
(* The queue implements LeasedWork: attempts, leases, due times, retries and *)
(* cancellation are the queue's own business.                                *)
WorkStatus(s) == CASE s = "absent" -> "none"
                   [] s = "succeeded" -> "done"
                   [] s \in {"failed", "cancelled"} -> "dead"
                   [] OTHER -> "open"

Work == INSTANCE LeasedWork WITH
          Tasks <- Jobs,
          Actors <- Workers,
          NoTask <- NoJob,
          status <- [j \in Jobs |-> WorkStatus(job[j].state)],
          holder <- [j \in Jobs |-> job[j].token],
          last <- [j \in Jobs |-> job[j].issued],
          grant <- [w \in Workers |-> [task |-> claim[w].job, token |-> claim[w].token]]

\* Every step of the queue is a step of LeasedWork or invisible to it.
ImplementsLeasedWork == Work!Spec
=============================================================================

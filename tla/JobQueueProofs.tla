--------------------------- MODULE JobQueueProofs ---------------------------
(***************************************************************************)
(* Theorems about the job queue, for any number of jobs, workers, attempts *)
(* and lease ticks.                                                        *)
(***************************************************************************)
EXTENDS JobQueue, TLAPS

-----------------------------------------------------------------------------
(* What the helpers do to one row.                                          *)

\* The bounds leave room for the values the code assigns.
LEMMA Bounds == /\ 0 \in 0..LeaseTicks /\ LeaseTicks \in 0..LeaseTicks
                /\ 0 \in 0..MaxAttempts
                /\ \A n \in 0..LeaseTicks : n > 0 => n - 1 \in 0..LeaseTicks
                /\ \A n \in 0..MaxAttempts : n < MaxAttempts => n + 1 \in 0..MaxAttempts
  BY QueueAssumption

LEMMA StateNames == /\ {"absent", "preparing", "running"} \subseteq States
                    /\ Waiting \subseteq States /\ Terminal \subseteq States
                    /\ Waiting = {"queued", "retry_wait"}
                    /\ Terminal = {"succeeded", "failed", "cancelled"}
  BY DEF States, Waiting, Terminal

\* Leave clears the claim columns and touches nothing else.
LEMMA LeaveRow ==
  ASSUME NEW r \in JobRow, NEW s \in States
  PROVE  /\ Leave(r, s) \in JobRow
         /\ Leave(r, s).state = s /\ Leave(r, s).token = 0 /\ Leave(r, s).lease = 0
         /\ Leave(r, s).issued = r.issued /\ Leave(r, s).attempts = r.attempts
         /\ Leave(r, s).due = r.due /\ Leave(r, s).cancel = r.cancel
         /\ Leave(r, s).retry = r.retry
<1>1. Leave(r, s) \in JobRow
  BY Bounds DEF JobRow, Leave
<1>2. /\ Leave(r, s).state = s /\ Leave(r, s).token = 0 /\ Leave(r, s).lease = 0
      /\ Leave(r, s).issued = r.issued /\ Leave(r, s).attempts = r.attempts
  BY DEF JobRow, Leave
<1>3. /\ Leave(r, s).due = r.due /\ Leave(r, s).cancel = r.cancel
      /\ Leave(r, s).retry = r.retry
  BY DEF JobRow, Leave
<1> QED BY <1>1, <1>2, <1>3

\* What a sweep may do to a row r: it never issues a token; the row keeps its
\* claim and stays as it is, or loses its claim and leaves "running"; a live
\* lease, and a job that is new or done, are left alone.
SweepEffect(r, s) ==
  /\ s \in JobRow
  /\ s.issued = r.issued
  /\ s = r \/ (s.token = 0 /\ s.lease = 0 /\ s.state \notin {"absent", "running", "preparing", "succeeded"})
           \/ (s.token = r.token /\ s.lease = r.lease /\ s.state = r.state)
  /\ r.state \in {"absent", "preparing", "succeeded"} => s.state = r.state
  /\ s.cancel = r.cancel
  /\ r.state = "running" /\ r.lease > 0 => s = r

LEMMA ActivateRetryEffect ==
  ASSUME NEW r \in JobRow, NEW u \in BOOLEAN
  PROVE  SweepEffect(r, ActivateRetry(r, u))
<1> DEFINE q == Leave(r, "queued")
<1>1. CASE ~(r.state \in {"failed", "cancelled"} /\ r.retry /\ ~r.cancel)
  BY <1>1 DEF ActivateRetry, SweepEffect
<1>2. CASE (r.state \in {"failed", "cancelled"} /\ r.retry /\ ~r.cancel) /\ ~u
  <2>1. ActivateRetry(r, u) = [r EXCEPT !.retry = FALSE]
    BY <1>2 DEF ActivateRetry
  <2> QED BY <1>2, <2>1 DEF SweepEffect, JobRow
<1>3. CASE (r.state \in {"failed", "cancelled"} /\ r.retry /\ ~r.cancel) /\ u
  <2>1. ActivateRetry(r, u) = [q EXCEPT !.attempts = 0, !.due = TRUE, !.retry = FALSE]
    BY <1>3 DEF ActivateRetry
  <2>2. /\ q \in JobRow /\ q.state = "queued" /\ q.token = 0 /\ q.lease = 0
        /\ q.issued = r.issued /\ q.cancel = r.cancel
    BY LeaveRow, StateNames
  <2> HIDE DEF q
  <2> QED BY <1>3, <2>1, <2>2, Bounds DEF SweepEffect, JobRow
<1> QED BY <1>1, <1>2, <1>3

LEMMA FinalizeCancellationEffect ==
  ASSUME NEW r \in JobRow
  PROVE  SweepEffect(r, FinalizeCancellation(r))
<1> DEFINE q == Leave(r, "cancelled")
           stop == r.cancel /\ (r.state \in Waiting \/ Expired(r))
<1>1. CASE ~stop
  BY <1>1 DEF FinalizeCancellation, SweepEffect
<1>2. CASE stop
  <2>1. FinalizeCancellation(r) = [q EXCEPT !.retry = FALSE]
    BY <1>2 DEF FinalizeCancellation
  <2>2. /\ q \in JobRow /\ q.state = "cancelled" /\ q.token = 0 /\ q.lease = 0
        /\ q.issued = r.issued /\ q.cancel = r.cancel
    BY LeaveRow, StateNames
  <2>3. r.state \notin {"absent", "preparing", "succeeded"} /\ ~(r.state = "running" /\ r.lease > 0)
    BY <1>2, StateNames DEF Expired
  <2> HIDE DEF q
  <2> QED BY <2>1, <2>2, <2>3 DEF SweepEffect, JobRow
<1> QED BY <1>1, <1>2

LEMMA FinalizeExhaustedEffect ==
  ASSUME NEW r \in JobRow
  PROVE  SweepEffect(r, FinalizeExhausted(r))
<1> DEFINE q == Leave(r, "failed")
           stop == ((r.state \in Waiting /\ r.due) \/ Expired(r)) /\ r.attempts >= MaxAttempts
<1>1. CASE ~stop
  BY <1>1 DEF FinalizeExhausted, SweepEffect
<1>2. CASE stop
  <2>1. FinalizeExhausted(r) = q
    BY <1>2 DEF FinalizeExhausted
  <2>2. /\ q \in JobRow /\ q.state = "failed" /\ q.token = 0 /\ q.lease = 0
        /\ q.issued = r.issued /\ q.cancel = r.cancel
    BY LeaveRow, StateNames
  <2>3. r.state \notin {"absent", "preparing", "succeeded"} /\ ~(r.state = "running" /\ r.lease > 0)
    BY <1>2, StateNames DEF Expired
  <2> HIDE DEF q
  <2> QED BY <2>1, <2>2, <2>3 DEF SweepEffect
<1> QED BY <1>1, <1>2

LEMMA SweptRowEffect ==
  ASSUME NEW r \in JobRow, NEW u \in BOOLEAN
  PROVE  SweepEffect(r, SweptRow(r, u))
<1> DEFINE a == ActivateRetry(r, u)
           b == FinalizeCancellation(a)
           c == FinalizeExhausted(b)
<1>1. SweepEffect(r, a)
  BY ActivateRetryEffect
<1>2. a \in JobRow
  BY <1>1 DEF SweepEffect
<1>3. SweepEffect(a, b)
  <2> HIDE DEF a
  <2> QED BY <1>2, FinalizeCancellationEffect DEF b
<1>4. b \in JobRow
  BY <1>3 DEF SweepEffect
<1>5. SweepEffect(b, c)
  <2> HIDE DEF b
  <2> QED BY <1>4, FinalizeExhaustedEffect DEF c
<1>6. SweptRow(r, u) = c
  BY DEF SweptRow
<1> HIDE DEF a, b, c
<1> QED BY <1>1, <1>3, <1>5, <1>6 DEF SweepEffect

-----------------------------------------------------------------------------
(* Type correctness.                                                        *)

\* FailedRow keeps a row well typed, gives up the claim and is never "succeeded".
LEMMA FailedRowEffect ==
  ASSUME NEW r \in JobRow, NEW retryable \in BOOLEAN
  PROVE  LET f == FailedRow(r, retryable) IN
         /\ f \in JobRow
         /\ f.state \in {"retry_wait", "cancelled", "failed"}
         /\ f.token = 0 /\ f.lease = 0 /\ f.issued = r.issued
<1> DEFINE q == Leave(r, "retry_wait")
           again == retryable /\ r.attempts < MaxAttempts /\ ~r.cancel
<1>1. CASE again
  <2>1. FailedRow(r, retryable) = [q EXCEPT !.due = FALSE]
    BY <1>1 DEF FailedRow
  <2>2. q \in JobRow /\ q.state = "retry_wait" /\ q.token = 0 /\ q.lease = 0 /\ q.issued = r.issued
    <3>1. "retry_wait" \in States
      BY StateNames
    <3> QED BY <3>1, LeaveRow
  <2> HIDE DEF q
  <2> QED BY <2>1, <2>2 DEF JobRow
<1>2. CASE ~again
  <2>1. PICK s \in {"cancelled", "failed"} : FailedRow(r, retryable) = Leave(r, s)
    BY <1>2 DEF FailedRow
  <2> DEFINE g == Leave(r, s)
  <2>2. g \in JobRow /\ g.state = s /\ g.token = 0 /\ g.lease = 0 /\ g.issued = r.issued
    <3>1. s \in States
      BY StateNames
    <3> QED BY <3>1, LeaveRow
  <2>3. FailedRow(r, retryable) = g
    BY <2>1
  <2> HIDE DEF g
  <2> QED BY <2>2, <2>3
<1> QED BY <1>1, <1>2

\* A claim is granted under the next token.
LEMMA ClaimedRowEffect ==
  ASSUME NEW r \in JobRow
  PROVE  LET c == ClaimedRow(r) IN
         /\ c.state = "running" /\ c.token = r.issued + 1 /\ c.issued = r.issued + 1
         /\ c.lease = LeaseTicks
         /\ c.cancel = r.cancel
         /\ r.attempts < MaxAttempts => c \in JobRow
<1>1. "running" \in States /\ LeaseTicks \in 0..LeaseTicks /\ r.issued + 1 \in Nat
  BY Bounds, StateNames DEF JobRow
<1>2. r.attempts < MaxAttempts => r.attempts + 1 \in 0..MaxAttempts
  BY Bounds DEF JobRow
<1> QED BY <1>1, <1>2 DEF ClaimedRow, JobRow

\* Every step of the queue keeps rows and claims well typed.
LEMMA QueueTypeStep == QueueTypeOK /\ [QueueNext]_queueVars => QueueTypeOK'
<1> SUFFICES ASSUME QueueTypeOK, [QueueNext]_queueVars PROVE QueueTypeOK'
  OBVIOUS
<1> USE DEF QueueTypeOK
<1>0. \A j \in Jobs, s \in States : Leave(job[j], s) \in JobRow
  BY LeaveRow
<1>1. CASE UNCHANGED queueVars
  BY <1>1 DEF queueVars
<1>2. ASSUME NEW w \in Workers, NEW usable \in SUBSET Jobs, Sweep(w, usable)
      PROVE  QueueTypeOK'
  <2>1. \A j \in Jobs : SweptRow(job[j], j \in usable) \in JobRow
    <3> TAKE j \in Jobs
    <3> DEFINE u == j \in usable
    <3>1. u \in BOOLEAN /\ job[j] \in JobRow
      OBVIOUS
    <3> HIDE DEF u
    <3>2. SweepEffect(job[j], SweptRow(job[j], u))
      BY <3>1, SweptRowEffect
    <3> QED BY <3>2 DEF SweepEffect, u
  <2>2. claim' \in [Workers -> JobClaim]
    BY <1>2 DEF Sweep, JobClaim
  <2> QED BY <1>2, <2>1, <2>2 DEF Sweep
<1>3. ASSUME NEW w \in Workers, NEW j \in Jobs, Take(w, j)
      PROVE  QueueTypeOK'
  <2>1. job[j].attempts < MaxAttempts
    BY <1>3 DEF Take, Claimable
  <2>2. ClaimedRow(job[j]) \in JobRow
    BY <2>1, ClaimedRowEffect
  <2>3. job' \in [Jobs -> JobRow]
    BY <1>3, <2>2 DEF Take
  <2>4. claim' \in [Workers -> JobClaim]
    BY <1>3, <2>2 DEF Take, JobRow, JobClaim
  <2> QED BY <2>3, <2>4
<1>4. ASSUME NEW w \in Workers, TakeNothing(w) \/ LoseLease(w) \/ Crash(w)
      PROVE  QueueTypeOK'
  BY <1>4 DEF TakeNothing, LoseLease, Crash, Forget, Idle, JobClaim
<1>5. ASSUME NEW w \in Workers, Heartbeat(w)
      PROVE  QueueTypeOK'
  BY <1>5, Bounds DEF Heartbeat, JobRow
<1>6. ASSUME NEW w \in Workers, Complete(w) \/ AcknowledgeCancellation(w)
      PROVE  QueueTypeOK'
  <2>1. claim' \in [Workers -> JobClaim]
    BY <1>6 DEF Complete, AcknowledgeCancellation, Forget, Idle, JobClaim
  <2>2. job' \in [Jobs -> JobRow]
    BY <1>0, <1>6, StateNames DEF Complete, AcknowledgeCancellation
  <2> QED BY <2>1, <2>2
<1>7. ASSUME NEW w \in Workers, NEW retryable \in BOOLEAN, Fail(w, retryable)
      PROVE  QueueTypeOK'
  <2>1. claim' \in [Workers -> JobClaim]
    BY <1>7 DEF Fail, Forget, Idle, JobClaim
  <2>2. job' \in [Jobs -> JobRow]
    BY <1>7, FailedRowEffect DEF Fail
  <2> QED BY <2>1, <2>2
<1>8. ASSUME NEW j \in Jobs, NEW s \in {"preparing", "queued"}, Insert(j, s)
      PROVE  QueueTypeOK'
  BY <1>8, Bounds, StateNames DEF Insert, NoRow, JobRow
<1>9. ASSUME NEW j \in Jobs, Enqueue(j) \/ RequestCancellation(j) \/ RequestRetry(j)
      PROVE  QueueTypeOK'
  <2>1. CASE Enqueue(j)
    BY <2>1, StateNames DEF Enqueue, JobRow
  <2>2. CASE RequestCancellation(j)
    BY <2>2 DEF RequestCancellation, JobRow
  <2>3. CASE RequestRetry(j)
    BY <2>3 DEF RequestRetry, JobRow
  <2> QED BY <1>9, <2>1, <2>2, <2>3
<1>10. ASSUME NEW j \in Jobs, ForceFail(j)
       PROVE  QueueTypeOK'
  BY <1>0, <1>10, StateNames DEF ForceFail
<1>11. ASSUME NEW j \in Jobs, LeaseTick(j)
       PROVE  QueueTypeOK'
  <2>1. job[j].lease - 1 \in 0..LeaseTicks
    BY <1>11, Bounds DEF LeaseTick, JobRow
  <2> QED BY <1>11, <2>1 DEF LeaseTick, JobRow
<1>12. ASSUME NEW j \in Jobs, BecomeDue(j)
       PROVE  QueueTypeOK'
  BY <1>12 DEF BecomeDue, JobRow
<1> QED BY <1>1, <1>2, <1>3, <1>4, <1>5, <1>6, <1>7, <1>8, <1>9, <1>10, <1>11, <1>12
        DEF QueueNext, WorkerStep, JobStep

\* Every reachable state is well typed.  That attempts never passes
\* max_attempts is the part that rests on the claim's guard.
THEOREM QueueTypeCorrect == QueueSpec => []QueueTypeOK
<1>1. QueueInit => QueueTypeOK
  BY Bounds, StateNames DEF QueueInit, QueueTypeOK, NoRow, Idle, JobRow, JobClaim
<1>2. QueueTypeOK /\ [QueueNext]_queueVars => QueueTypeOK'
  BY QueueTypeStep
<1> QED BY <1>1, <1>2, PTL DEF QueueSpec

-----------------------------------------------------------------------------
(* Claims.                                                                  *)

\* A step that grants nothing: no token is issued, rows keep their claim or
\* lose it, workers keep what they believe in or forget it.
QuietRow(r, s) == s.issued = r.issued /\ s.token \in {r.token, 0} /\ ClaimColumns(s)

Quiet == /\ \A j \in Jobs : QuietRow(job[j], job'[j])
         /\ \A w \in Workers : \/ claim'[w] = claim[w]
                               \/ /\ claim'[w].pc # "busy"
                                  /\ claim'[w].job = NoJob /\ claim'[w].token = 0

\* Only Take issues tokens.
LEMMA OnlyTakeGrants ==
  ASSUME QueueTypeOK, \A j \in Jobs : ClaimColumns(job[j]),
         \A w \in Workers : claim[w].pc # "busy" => claim[w].job = NoJob /\ claim[w].token = 0,
         [QueueNext]_queueVars
  PROVE  Quiet \/ \E w \in Workers, j \in Jobs : Take(w, j)
<1> USE DEF QueueTypeOK
<1>1. CASE UNCHANGED queueVars
  BY <1>1 DEF queueVars, Quiet, QuietRow
<1>2. ASSUME NEW w \in Workers, NEW usable \in SUBSET Jobs, Sweep(w, usable)
      PROVE  Quiet
  <2>1. ASSUME NEW j \in Jobs PROVE QuietRow(job[j], job'[j])
    <3> DEFINE u == j \in usable
               s == SweptRow(job[j], u)
    <3>1. u \in BOOLEAN /\ job[j] \in JobRow
      OBVIOUS
    <3>2. job'[j] = s
      BY <1>2 DEF Sweep
    <3>3. SweepEffect(job[j], s)
      <4> HIDE DEF u
      <4> QED BY <3>1, SweptRowEffect DEF s
    <3>4. ClaimColumns(job[j])
      BY <2>1
    <3> HIDE DEF s
    <3> QED BY <3>1, <3>2, <3>3, <3>4 DEF SweepEffect, QuietRow, ClaimColumns
  <2>2. ASSUME NEW v \in Workers
        PROVE  claim'[v] = claim[v] \/ (claim'[v].pc # "busy" /\ claim'[v].job = NoJob /\ claim'[v].token = 0)
    BY <1>2 DEF Sweep, JobClaim
  <2> QED BY <2>1, <2>2 DEF Quiet
<1>3. ASSUME NEW w \in Workers, TakeNothing(w) \/ LoseLease(w) \/ Crash(w)
      PROVE  Quiet
  BY <1>3 DEF TakeNothing, LoseLease, Crash, Forget, Idle, JobClaim, Quiet, QuietRow
<1>4. ASSUME NEW w \in Workers, Heartbeat(w)
      PROVE  Quiet
  BY <1>4 DEF Heartbeat, MayWrite, Owns, Quiet, QuietRow, ClaimColumns, JobRow
\* A row that leaves "running" keeps the newest token it was issued.
<1>5. ASSUME NEW j \in Jobs, NEW s \in States \ {"running"}
      PROVE  QuietRow(job[j], Leave(job[j], s))
  BY LeaveRow DEF QuietRow, ClaimColumns
<1>6. ASSUME NEW w \in Workers, Complete(w) \/ AcknowledgeCancellation(w)
      PROVE  Quiet
  <2>1. PICK s \in States \ {"running"} : job' = [job EXCEPT ![claim[w].job] = Leave(@, s)]
    BY <1>6, StateNames DEF Complete, AcknowledgeCancellation
  <2>2. \A j \in Jobs : QuietRow(job[j], job'[j])
    BY <1>5, <2>1 DEF QuietRow
  <2>3. claim' = [claim EXCEPT ![w] = Idle]
    BY <1>6 DEF Complete, AcknowledgeCancellation, Forget
  <2> QED BY <2>2, <2>3 DEF Quiet, Idle
<1>7. ASSUME NEW w \in Workers, NEW retryable \in BOOLEAN, Fail(w, retryable)
      PROVE  Quiet
  <2>1. \A j \in Jobs : QuietRow(job[j], FailedRow(job[j], retryable))
    BY FailedRowEffect DEF QuietRow, ClaimColumns
  <2>2. \A j \in Jobs : QuietRow(job[j], job'[j])
    BY <1>7, <2>1 DEF Fail, QuietRow
  <2>3. claim' = [claim EXCEPT ![w] = Idle]
    BY <1>7 DEF Fail, Forget
  <2> QED BY <2>2, <2>3 DEF Quiet, Idle
<1>8. ASSUME NEW j \in Jobs, NEW s \in {"preparing", "queued"}, Insert(j, s)
      PROVE  Quiet
  BY <1>8 DEF Insert, NoRow, JobRow, Quiet, QuietRow, ClaimColumns
<1>9. ASSUME NEW j \in Jobs, Enqueue(j) \/ RequestCancellation(j) \/ RequestRetry(j)
                               \/ LeaseTick(j) \/ BecomeDue(j)
      PROVE  Quiet
  <2>1. CASE Enqueue(j)
    BY <2>1 DEF Enqueue, Quiet, QuietRow, ClaimColumns, JobRow
  <2>2. CASE RequestCancellation(j)
    BY <2>2 DEF RequestCancellation, Quiet, QuietRow, ClaimColumns, JobRow
  <2>3. CASE RequestRetry(j)
    BY <2>3 DEF RequestRetry, Quiet, QuietRow, ClaimColumns, JobRow
  <2>4. CASE LeaseTick(j)
    BY <2>4 DEF LeaseTick, Quiet, QuietRow, ClaimColumns, JobRow
  <2>5. CASE BecomeDue(j)
    BY <2>5 DEF BecomeDue, Quiet, QuietRow, ClaimColumns, JobRow
  <2> QED BY <1>9, <2>1, <2>2, <2>3, <2>4, <2>5
<1>10. ASSUME NEW j \in Jobs, ForceFail(j)
       PROVE  Quiet
  BY <1>5, <1>10, StateNames DEF ForceFail, Quiet, QuietRow
<1> QED BY <1>1, <1>2, <1>3, <1>4, <1>6, <1>7, <1>8, <1>9, <1>10
        DEF QueueNext, WorkerStep, JobStep

\* The inductive step, on its own so that modules that extend the queue can use it.
LEMMA ClaimsFencedStep ==
  ASSUME QueueTypeOK, ClaimsFenced, [QueueNext]_queueVars
  PROVE  ClaimsFenced'
<1> USE DEF QueueTypeOK
<1>1. CASE Quiet
  <2>1. \A j \in Jobs : ClaimColumns(job'[j])
    BY <1>1 DEF Quiet, QuietRow
  <2>2. ASSUME NEW w \in Workers
        PROVE  IF claim'[w].pc = "busy"
               THEN claim'[w].job \in Jobs /\ claim'[w].token \in 1..job'[claim'[w].job].issued
               ELSE claim'[w].job = NoJob /\ claim'[w].token = 0
    BY <1>1 DEF Quiet, QuietRow, ClaimsFenced
  <2>3. ASSUME NEW v \in Workers, NEW w \in Workers, v # w,
               claim'[v].pc = "busy", claim'[v].job = claim'[w].job
        PROVE  claim'[v].token # claim'[w].token
    <3>1. claim'[v] = claim[v] /\ claim[v].token # 0 /\ claim[v].job \in Jobs
      BY <1>1, <2>3 DEF Quiet, ClaimsFenced, JobClaim
    <3>2. CASE claim'[w] = claim[w]
      BY <2>3, <3>1, <3>2 DEF ClaimsFenced
    <3>3. CASE claim'[w].job = NoJob
      BY <2>3, <3>1, <3>3, QueueAssumption
    <3> QED BY <1>1, <3>2, <3>3 DEF Quiet
  <2> QED BY <2>1, <2>2, <2>3 DEF ClaimsFenced
<1>2. ASSUME NEW w \in Workers, NEW j \in Jobs, Take(w, j)
      PROVE  ClaimsFenced'
  <2> DEFINE n == job[j].issued + 1
  <2>1. /\ job'[j].state = "running" /\ job'[j].token = n /\ job'[j].issued = n
        /\ \A i \in Jobs : i # j => job'[i] = job[i]
        /\ claim'[w].pc = "busy" /\ claim'[w].job = j /\ claim'[w].token = n
        /\ \A v \in Workers : v # w => claim'[v] = claim[v]
    BY <1>2, ClaimedRowEffect DEF Take, JobClaim
  <2>2. n \in Nat /\ n > job[j].issued /\ n # 0
    BY DEF JobRow
  <2> HIDE DEF n
  <2>3. \A i \in Jobs : ClaimColumns(job'[i])
    BY <2>1, <2>2 DEF ClaimColumns, ClaimsFenced
  \* Every claim on j is older than the one just issued.
  <2>4. \A v \in Workers : claim[v].job = j => claim[v].token < n
    BY <2>2, QueueAssumption DEF ClaimsFenced, JobRow, JobClaim
  <2>5. ASSUME NEW v \in Workers
        PROVE  IF claim'[v].pc = "busy"
               THEN claim'[v].job \in Jobs /\ claim'[v].token \in 1..job'[claim'[v].job].issued
               ELSE claim'[v].job = NoJob /\ claim'[v].token = 0
    <3>1. CASE v = w
      BY <2>1, <2>2, <3>1
    <3>2. CASE v # w
      BY <2>1, <2>2, <2>4, <3>2 DEF ClaimsFenced, JobRow, JobClaim
    <3> QED BY <3>1, <3>2
  <2>6. ASSUME NEW u \in Workers, NEW v \in Workers, u # v,
               claim'[u].pc = "busy", claim'[u].job = claim'[v].job
        PROVE  claim'[u].token # claim'[v].token
    <3>1. CASE u # w /\ v # w
      BY <2>1, <2>6, <3>1 DEF ClaimsFenced
    <3>2. CASE u = w
      BY <2>1, <2>2, <2>4, <2>6, <3>2 DEF JobClaim
    <3>3. CASE v = w
      BY <2>1, <2>2, <2>4, <2>6, <3>3 DEF JobClaim
    <3> QED BY <3>1, <3>2, <3>3
  <2> QED BY <2>3, <2>5, <2>6 DEF ClaimsFenced
<1>3. Quiet \/ \E w \in Workers, j \in Jobs : Take(w, j)
  BY OnlyTakeGrants DEF ClaimsFenced
<1> QED BY <1>1, <1>2, <1>3

LEMMA ClaimsFencedInit == QueueInit => ClaimsFenced
  BY DEF QueueInit, ClaimsFenced, ClaimColumns, NoRow, Idle

\* Claims are fenced in every reachable state.
THEOREM QueueClaimsFenced == QueueSpec => []ClaimsFenced
<1>1. QueueTypeOK /\ ClaimsFenced /\ [QueueNext]_queueVars => ClaimsFenced'
  BY ClaimsFencedStep
<1> QED BY <1>1, ClaimsFencedInit, QueueTypeCorrect, PTL DEF QueueSpec

\* Typing and fencing together are the invariant the other proofs rest on.
THEOREM QueueInductive == QueueSpec => []QueueInvariant
<1>1. QueueTypeOK /\ ClaimsFenced => QueueInvariant
  BY DEF QueueInvariant
<1> QED BY <1>1, QueueTypeCorrect, QueueClaimsFenced, PTL

LEMMA FencedIsExclusive == ASSUME ClaimsFenced PROVE ExclusiveClaim
  BY DEF ClaimsFenced, ExclusiveClaim, Owns

\* However many workers there are and however late a stale one writes, at most
\* one of them passes the ownership check of a job.
THEOREM QueueExclusiveClaim == QueueSpec => []ExclusiveClaim
<1>1. ClaimsFenced => ExclusiveClaim
  BY FencedIsExclusive
<1> QED BY <1>1, QueueClaimsFenced, PTL

-----------------------------------------------------------------------------
(* Cancellation.                                                            *)

\* A job is never both cancelled on request and succeeded.
THEOREM QueueCancellation == QueueSpec => []CancelledNeverSucceeds
<1>1. QueueInit => CancelledNeverSucceeds
  BY DEF QueueInit, CancelledNeverSucceeds, NoRow
<1>2. QueueTypeOK /\ CancelledNeverSucceeds /\ [QueueNext]_queueVars => CancelledNeverSucceeds'
  <2> SUFFICES ASSUME QueueTypeOK, CancelledNeverSucceeds, [QueueNext]_queueVars,
                      NEW k \in Jobs
               PROVE  ~(job'[k].cancel /\ job'[k].state = "succeeded")
    BY DEF CancelledNeverSucceeds
  <2> USE DEF QueueTypeOK, CancelledNeverSucceeds
  <2>1. CASE UNCHANGED queueVars
    BY <2>1 DEF queueVars
  <2>2. ASSUME NEW w \in Workers, NEW usable \in SUBSET Jobs, Sweep(w, usable)
        PROVE  ~(job'[k].cancel /\ job'[k].state = "succeeded")
    <3> DEFINE u == k \in usable
               s == SweptRow(job[k], u)
    <3>1. job'[k] = s
      BY <2>2 DEF Sweep
    <3>2. SweepEffect(job[k], s)
      <4>1. u \in BOOLEAN /\ job[k] \in JobRow
        OBVIOUS
      <4> HIDE DEF u
      <4> QED BY <4>1, SweptRowEffect DEF s
    <3> HIDE DEF s
    <3> QED BY <3>1, <3>2 DEF SweepEffect
  <2>3. ASSUME NEW w \in Workers, NEW j \in Jobs, Take(w, j)
        PROVE  ~(job'[k].cancel /\ job'[k].state = "succeeded")
    BY <2>3, ClaimedRowEffect DEF Take
  <2>4. ASSUME NEW w \in Workers, TakeNothing(w) \/ LoseLease(w) \/ Crash(w)
        PROVE  ~(job'[k].cancel /\ job'[k].state = "succeeded")
    BY <2>4 DEF TakeNothing, LoseLease, Crash
  <2>5. ASSUME NEW w \in Workers, Heartbeat(w)
        PROVE  ~(job'[k].cancel /\ job'[k].state = "succeeded")
    BY <2>5 DEF Heartbeat, JobRow
  \* complete looks at the flag in the transaction that sets the state.
  <2>6. ASSUME NEW w \in Workers, Complete(w)
        PROVE  ~(job'[k].cancel /\ job'[k].state = "succeeded")
    <3>1. CASE k # claim[w].job
      BY <2>6, <3>1 DEF Complete
    <3>2. CASE k = claim[w].job
      <4> DEFINE q == Leave(job[k], "succeeded")
      <4>1. job'[k] = q /\ ~job[k].cancel
        BY <2>6, <3>2 DEF Complete, MayWrite
      <4>2. q.cancel = job[k].cancel
        BY LeaveRow, StateNames
      <4> HIDE DEF q
      <4> QED BY <4>1, <4>2
    <3> QED BY <3>1, <3>2
  <2>7. ASSUME NEW w \in Workers, AcknowledgeCancellation(w)
        PROVE  ~(job'[k].cancel /\ job'[k].state = "succeeded")
    <3>1. CASE k # claim[w].job
      BY <2>7, <3>1 DEF AcknowledgeCancellation
    <3>2. CASE k = claim[w].job
      <4> DEFINE q == Leave(job[k], "cancelled")
      <4>1. job'[k] = q
        BY <2>7, <3>2 DEF AcknowledgeCancellation
      <4>2. "cancelled" \in States
        BY StateNames
      <4>3. q.state = "cancelled"
        BY <4>2, LeaveRow
      <4> HIDE DEF q
      <4> QED BY <4>1, <4>3
    <3> QED BY <3>1, <3>2
  <2>8. ASSUME NEW w \in Workers, NEW retryable \in BOOLEAN, Fail(w, retryable)
        PROVE  ~(job'[k].cancel /\ job'[k].state = "succeeded")
    <3>1. FailedRow(job[k], retryable).state # "succeeded"
      BY FailedRowEffect
    <3> QED BY <2>8, <3>1 DEF Fail
  <2>9. ASSUME NEW j \in Jobs, JobStep(j)
        PROVE  ~(job'[k].cancel /\ job'[k].state = "succeeded")
    <3>1. ASSUME NEW s \in {"preparing", "queued"}, Insert(j, s)
          PROVE  ~(job'[k].cancel /\ job'[k].state = "succeeded")
      BY <3>1 DEF Insert, NoRow
    <3>2. CASE Enqueue(j)
      BY <3>2 DEF Enqueue, JobRow
    <3>3. CASE RequestCancellation(j)
      BY <3>3 DEF RequestCancellation, Terminal, JobRow
    <3>4. CASE RequestRetry(j)
      BY <3>4 DEF RequestRetry, JobRow
    <3>5. CASE ForceFail(j)
      BY <3>5, LeaveRow, StateNames DEF ForceFail
    <3>6. CASE LeaseTick(j) \/ BecomeDue(j)
      BY <3>6 DEF LeaseTick, BecomeDue, JobRow
    <3> QED BY <2>9, <3>1, <3>2, <3>3, <3>4, <3>5, <3>6 DEF JobStep
  <2> QED BY <2>1, <2>2, <2>3, <2>4, <2>5, <2>6, <2>7, <2>8, <2>9 DEF QueueNext, WorkerStep
<1> QED BY <1>1, <1>2, QueueTypeCorrect, PTL DEF QueueSpec

-----------------------------------------------------------------------------
(* Leases.                                                                  *)

\* A live lease is not taken away: neither by the sweeps nor by another claim.
THEOREM QueueLiveLease == QueueSpec => LiveLeaseRespected
<1>1. ASSUME QueueTypeOK, ClaimsFenced, QueueNext,
             NEW v \in Workers, Owns(v), claim'[v] = claim[v]
      PROVE  job'[claim[v].job].token = claim[v].token \/ ForceFail(claim[v].job)
  <2>t. QueueTypeOK
    BY <1>1
  <2> USE <2>t DEF QueueTypeOK
  <2> DEFINE k == claim[v].job
  <2>0. /\ k \in Jobs /\ job[k] \in JobRow /\ job[k].state = "running" /\ job[k].lease > 0
        /\ job[k].token = claim[v].token /\ claim[v].pc = "busy"
    BY <1>1 DEF Owns, ClaimsFenced
  \* Another worker that passes the check holds another job.
  <2>1. ASSUME NEW w \in Workers, Owns(w), claim'[w] # claim[w]
        PROVE  claim[w].job # k
    BY <1>1, <2>1, FencedIsExclusive DEF ExclusiveClaim
  <2> HIDE DEF k
  <2>2. ASSUME NEW w \in Workers, NEW usable \in SUBSET Jobs, Sweep(w, usable)
        PROVE  job'[k].token = claim[v].token
    <3> DEFINE u == k \in usable
               s == SweptRow(job[k], u)
    <3>1. job'[k] = s
      BY <2>0, <2>2 DEF Sweep
    <3>2. SweepEffect(job[k], s)
      <4>1. u \in BOOLEAN
        OBVIOUS
      <4> HIDE DEF u
      <4> QED BY <2>0, <4>1, SweptRowEffect DEF s
    <3> HIDE DEF s
    <3> QED BY <2>0, <3>1, <3>2 DEF SweepEffect
  <2>3. ASSUME NEW w \in Workers, NEW j \in Jobs, Take(w, j)
        PROVE  job'[k].token = claim[v].token
    <3>1. Claimable(job[j])
      BY <2>3 DEF Take
    <3>2. j # k
      BY <2>0, <3>1, StateNames DEF Claimable, Expired, JobRow
    <3>3. job'[k] = job[k]
      BY <2>0, <2>3, <3>2 DEF Take
    <3> QED BY <2>0, <3>3
  <2>4. ASSUME NEW w \in Workers, TakeNothing(w) \/ LoseLease(w) \/ Crash(w)
        PROVE  job'[k].token = claim[v].token
    BY <2>0, <2>4 DEF TakeNothing, LoseLease, Crash
  <2>5. ASSUME NEW w \in Workers, Heartbeat(w)
        PROVE  job'[k].token = claim[v].token
    BY <2>0, <2>5 DEF Heartbeat, JobRow
  <2>6. ASSUME NEW w \in Workers, NEW r,
               Owns(w), Forget(w), job' = [job EXCEPT ![claim[w].job] = r]
        PROVE  job'[k].token = claim[v].token
    <3>1. claim'[w].pc = "idle" /\ claim[w].pc = "busy"
      BY <2>6 DEF Owns, Forget, Idle
    <3> QED BY <2>0, <2>1, <2>6, <3>1
  <2>7. ASSUME NEW w \in Workers, Complete(w) \/ AcknowledgeCancellation(w)
                                    \/ \E retryable \in BOOLEAN : Fail(w, retryable)
        PROVE  job'[k].token = claim[v].token
    BY <2>6, <2>7 DEF Complete, AcknowledgeCancellation, Fail, MayWrite
  <2>8. ASSUME NEW j \in Jobs, JobStep(j)
        PROVE  job'[k].token = claim[v].token \/ ForceFail(k)
    <3>1. CASE j # k
      <4>1. job'[k] = job[k]
        BY <2>0, <2>8, <3>1 DEF JobStep, Insert, Enqueue, RequestCancellation, RequestRetry,
                                ForceFail, LeaseTick, BecomeDue
      <4> QED BY <2>0, <4>1
    <3>2. CASE j = k
      <4>1. ForceFail(j) \/ LeaseTick(j) \/ RequestCancellation(j)
        BY <2>0, <2>8, <3>2, StateNames DEF JobStep, Insert, Enqueue, RequestRetry, BecomeDue
      <4>2. CASE LeaseTick(j)
        BY <2>0, <3>2, <4>2 DEF LeaseTick, JobRow
      <4>3. CASE RequestCancellation(j)
        BY <2>0, <3>2, <4>3 DEF RequestCancellation, JobRow
      <4> QED BY <3>2, <4>1, <4>2, <4>3
    <3> QED BY <3>1, <3>2
  <2> QED BY <1>1, <2>2, <2>3, <2>4, <2>5, <2>7, <2>8 DEF QueueNext, WorkerStep, k
<1> DEFINE A == \A v \in Workers : Owns(v) /\ claim'[v] = claim[v] =>
                  \/ job'[claim[v].job].token = claim[v].token
                  \/ ForceFail(claim[v].job)
<1>2. QueueTypeOK /\ ClaimsFenced /\ [QueueNext]_queueVars => [A]_queueVars
  BY <1>1
<1> QED BY <1>2, QueueTypeCorrect, QueueClaimsFenced, PTL DEF QueueSpec, LiveLeaseRespected

-----------------------------------------------------------------------------
(* Refinement.                                                              *)

LEMMA WorkStatusValue ==
  /\ WorkStatus("absent") = "none" /\ WorkStatus("succeeded") = "done"
  /\ WorkStatus("failed") = "dead" /\ WorkStatus("cancelled") = "dead"
  /\ \A x \in {"preparing", "running", "queued", "retry_wait"} : WorkStatus(x) = "open"
  BY DEF WorkStatus

\* A step that changes rows only in ways LeasedWork cannot see.
LEMMA InvisibleStep ==
  ASSUME \A j \in Jobs : /\ WorkStatus(job'[j].state) = WorkStatus(job[j].state)
                         /\ job'[j].token = job[j].token /\ job'[j].issued = job[j].issued,
         UNCHANGED claim
  PROVE  UNCHANGED Work!vars
  BY DEF Work!vars

\* A step in which the queue only withdraws claims and gives jobs up.
AdministeredRow(r, s) ==
  /\ WorkStatus(s.state) \in {"none", "open", "done", "dead"}
  /\ (WorkStatus(r.state) = "done") <=> (WorkStatus(s.state) = "done")
  /\ (WorkStatus(r.state) = "none") <=> (WorkStatus(s.state) = "none")
  /\ s.token \in {r.token, 0} /\ s.token \in Nat
  /\ WorkStatus(s.state) = "dead" => s.token = 0
  /\ s.issued = r.issued

LEMMA AdministerStep ==
  ASSUME \A j \in Jobs : AdministeredRow(job[j], job'[j]),
         \A w \in Workers : claim'[w].job = claim[w].job /\ claim'[w].token = claim[w].token
  PROVE  Work!Administer
  BY DEF Work!Administer, AdministeredRow

\* The sweeps are such a step.
LEMMA SweepAdministers ==
  ASSUME NEW r \in JobRow, NEW s, SweepEffect(r, s), ClaimColumns(r)
  PROVE  AdministeredRow(r, s)
<1>1. s.state \in States /\ r.state \in States /\ s.token \in Nat
  BY DEF SweepEffect, JobRow
<1>2. (WorkStatus(r.state) = "done") <=> (WorkStatus(s.state) = "done")
  BY <1>1, WorkStatusValue DEF SweepEffect, States, Waiting, Terminal
<1>3. (WorkStatus(r.state) = "none") <=> (WorkStatus(s.state) = "none")
  BY <1>1, WorkStatusValue DEF SweepEffect, States, Waiting, Terminal
<1>4. WorkStatus(s.state) = "dead" => s.token = 0
  BY <1>1, WorkStatusValue DEF SweepEffect, ClaimColumns, States, Waiting, Terminal
<1>5. WorkStatus(s.state) \in {"none", "open", "done", "dead"}
  BY <1>1, WorkStatusValue DEF States, Waiting, Terminal
<1> QED BY <1>1, <1>2, <1>3, <1>4, <1>5 DEF SweepEffect, AdministeredRow

\* A worker that owns its job and ends its claim yields or finishes the task.
LEMMA OwnerStep ==
  ASSUME QueueTypeOK, ClaimsFenced, NEW w \in Workers, Owns(w), Forget(w),
         NEW r, job' = [job EXCEPT ![claim[w].job] = r],
         r.token = 0, r.issued = job[claim[w].job].issued,
         r.state \in {"succeeded", "failed", "cancelled", "retry_wait"}
  PROVE  Work!Next
<1> DEFINE st == [j \in Jobs |-> WorkStatus(job[j].state)]
<1>0. PICK k \in Jobs : k = claim[w].job
  BY DEF Owns, ClaimsFenced
<1>1. job[k].token # 0 /\ job[k].token = claim[w].token /\ job[k].state = "running"
  BY <1>0 DEF Owns, ClaimsFenced, ClaimColumns
<1>2. st[k] = "open" /\ Work!Holds(w, k)
  BY <1>0, <1>1, WorkStatusValue DEF Work!Holds
<1>3. [j \in Jobs |-> job'[j].token] = [[j \in Jobs |-> job[j].token] EXCEPT ![k] = 0]
  BY <1>0, <1>1 DEF QueueTypeOK
<1>4. [j \in Jobs |-> job'[j].issued] = [j \in Jobs |-> job[j].issued]
  BY <1>0, <1>1 DEF QueueTypeOK
<1>5. [j \in Jobs |-> WorkStatus(job'[j].state)] = [st EXCEPT ![k] = WorkStatus(r.state)]
  BY <1>0, <1>1 DEF QueueTypeOK
<1>6. [v \in Workers |-> [task |-> claim'[v].job, token |-> claim'[v].token]]
        = [[v \in Workers |-> [task |-> claim[v].job, token |-> claim[v].token]]
             EXCEPT ![w] = Work!NoGrant]
  BY DEF Forget, Idle, Work!NoGrant, QueueTypeOK
<1>7. WorkStatus(r.state) \in {"done", "dead", "open"}
  BY WorkStatusValue
<1>8. CASE WorkStatus(r.state) = "done"
  <2>1. Work!Finish(w, k)
    BY <1>2, <1>3, <1>4, <1>5, <1>6, <1>8 DEF Work!Finish
  <2> QED BY <2>1 DEF Work!Next
<1>9. CASE WorkStatus(r.state) \in {"dead", "open"}
  <2>1. Work!Yield(w, k)
    BY <1>2, <1>3, <1>4, <1>5, <1>6, <1>9 DEF Work!Yield
  <2> QED BY <2>1 DEF Work!Next
<1> QED BY <1>7, <1>8, <1>9

LEMMA QueueInitRefines == QueueInit => Work!Init
  BY WorkStatusValue DEF QueueInit, NoRow, Idle, Work!Init, Work!NoGrant

LEMMA QueueStepRefines ==
  ASSUME QueueTypeOK, ClaimsFenced, [QueueNext]_queueVars
  PROVE  [Work!Next]_(Work!vars)
<1> USE DEF QueueTypeOK
<1>0. \A j \in Jobs : ClaimColumns(job[j])
  BY DEF ClaimsFenced
<1>1. CASE UNCHANGED queueVars
  BY <1>1, InvisibleStep DEF queueVars
<1>2. ASSUME NEW w \in Workers, NEW usable \in SUBSET Jobs, Sweep(w, usable)
      PROVE  Work!Next
  <2>1. ASSUME NEW j \in Jobs PROVE AdministeredRow(job[j], job'[j])
    <3> DEFINE u == j \in usable
               s == SweptRow(job[j], u)
    <3>1. job'[j] = s
      BY <1>2 DEF Sweep
    <3>2. SweepEffect(job[j], s)
      <4>1. u \in BOOLEAN /\ job[j] \in JobRow
        OBVIOUS
      <4> HIDE DEF u
      <4> QED BY <4>1, SweptRowEffect DEF s
    <3> HIDE DEF s
    <3> QED BY <1>0, <3>1, <3>2, SweepAdministers
  <2>2. \A v \in Workers : claim'[v].job = claim[v].job /\ claim'[v].token = claim[v].token
    BY <1>2 DEF Sweep, JobClaim
  <2>3. Work!Administer
    BY <2>1, <2>2, AdministerStep
  <2> QED BY <2>3 DEF Work!Next
<1>3. ASSUME NEW w \in Workers, NEW j \in Jobs, Take(w, j)
      PROVE  Work!Next
  <2>1. WorkStatus(job[j].state) = "open" /\ WorkStatus("running") = "open"
    BY <1>3, WorkStatusValue, StateNames DEF Take, Claimable, Expired
  <2>2. claim[w].job = NoJob /\ claim[w].token = 0
    BY <1>3 DEF Take, ClaimsFenced
  <2> DEFINE c == ClaimedRow(job[j])
  <2>3. c.state = "running" /\ c.token = job[j].issued + 1 /\ c.issued = job[j].issued + 1
    BY ClaimedRowEffect
  <2>4. job' = [job EXCEPT ![j] = c]
    BY <1>3 DEF Take
  <2>5. claim' = [claim EXCEPT ![w] = [pc |-> "busy", job |-> j, token |-> c.token]]
    BY <1>3 DEF Take
  <2> HIDE DEF c
  <2>6. [i \in Jobs |-> WorkStatus(job'[i].state)] = [i \in Jobs |-> WorkStatus(job[i].state)]
    BY <2>1, <2>3, <2>4
  <2>7. [i \in Jobs |-> job'[i].token] = [[i \in Jobs |-> job[i].token] EXCEPT ![j] = job[j].issued + 1]
    BY <2>3, <2>4
  <2>8. [i \in Jobs |-> job'[i].issued] = [[i \in Jobs |-> job[i].issued] EXCEPT ![j] = job[j].issued + 1]
    BY <2>3, <2>4
  <2>9. [v \in Workers |-> [task |-> claim'[v].job, token |-> claim'[v].token]]
          = [[v \in Workers |-> [task |-> claim[v].job, token |-> claim[v].token]]
               EXCEPT ![w] = [task |-> j, token |-> job[j].issued + 1]]
    BY <2>3, <2>5
  <2>10. Work!Grant(w, j)
    BY <2>1, <2>2, <2>6, <2>7, <2>8, <2>9 DEF Work!Grant, Work!NoGrant
  <2> QED BY <2>10 DEF Work!Next
<1>4. ASSUME NEW w \in Workers, TakeNothing(w) \/ LoseLease(w) \/ Crash(w)
      PROVE  Work!Next
  <2>1. UNCHANGED job /\ claim' = [claim EXCEPT ![w] = Idle]
    BY <1>4 DEF TakeNothing, LoseLease, Crash, Forget
  <2>2. [v \in Workers |-> [task |-> claim'[v].job, token |-> claim'[v].token]]
          = [[v \in Workers |-> [task |-> claim[v].job, token |-> claim[v].token]]
               EXCEPT ![w] = Work!NoGrant]
    BY <2>1 DEF Idle, Work!NoGrant
  <2>3. Work!Drop(w)
    BY <2>1, <2>2 DEF Work!Drop
  <2> QED BY <2>3 DEF Work!Next
<1>5. ASSUME NEW w \in Workers, Heartbeat(w)
      PROVE  UNCHANGED Work!vars
  BY <1>5, InvisibleStep DEF Heartbeat, JobRow
<1>6. ASSUME NEW w \in Workers, Complete(w) \/ AcknowledgeCancellation(w)
      PROVE  Work!Next
  <2>1. claim[w].job \in Jobs /\ Owns(w) /\ Forget(w)
    BY <1>6 DEF Complete, AcknowledgeCancellation, MayWrite, Owns, ClaimsFenced
  <2>2. PICK s \in {"succeeded", "cancelled"} :
          job' = [job EXCEPT ![claim[w].job] = Leave(job[claim[w].job], s)]
    BY <1>6 DEF Complete, AcknowledgeCancellation
  <2> DEFINE r == Leave(job[claim[w].job], s)
  <2>3. r.token = 0 /\ r.issued = job[claim[w].job].issued /\ r.state = s
    <3>1. s \in States /\ job[claim[w].job] \in JobRow
      BY <2>1, StateNames
    <3> QED BY <3>1, LeaveRow
  <2> HIDE DEF r
  <2> QED BY <2>1, <2>2, <2>3, OwnerStep DEF r
<1>7. ASSUME NEW w \in Workers, NEW retryable \in BOOLEAN, Fail(w, retryable)
      PROVE  Work!Next
  <2>1. claim[w].job \in Jobs /\ Owns(w) /\ Forget(w)
    BY <1>7 DEF Fail, Owns, ClaimsFenced
  <2> DEFINE r == FailedRow(job[claim[w].job], retryable)
  <2>2. job' = [job EXCEPT ![claim[w].job] = r]
    BY <1>7 DEF Fail
  <2>3. /\ r.token = 0 /\ r.issued = job[claim[w].job].issued
        /\ r.state \in {"retry_wait", "cancelled", "failed"}
    BY <2>1, FailedRowEffect
  <2> HIDE DEF r
  <2> QED BY <2>1, <2>2, <2>3, OwnerStep
<1>8. ASSUME NEW j \in Jobs, NEW s \in {"preparing", "queued"}, Insert(j, s)
      PROVE  Work!Next
  <2>1. /\ job[j].state = "absent" /\ job[j].token = 0
        /\ job'[j].state = s /\ job'[j].token = 0 /\ job'[j].issued = job[j].issued
        /\ \A i \in Jobs : i # j => job'[i] = job[i]
        /\ UNCHANGED claim
    BY <1>0, <1>8 DEF Insert, NoRow, ClaimColumns
  <2>2. [i \in Jobs |-> WorkStatus(job'[i].state)]
          = [[i \in Jobs |-> WorkStatus(job[i].state)] EXCEPT ![j] = "open"]
    BY <2>1, WorkStatusValue
  <2>3. [i \in Jobs |-> job'[i].token] = [i \in Jobs |-> job[i].token]
    BY <2>1
  <2>4. [i \in Jobs |-> job'[i].issued] = [i \in Jobs |-> job[i].issued]
    BY <2>1
  <2>5. Work!Submit(j)
    BY <2>1, <2>2, <2>3, <2>4, WorkStatusValue DEF Work!Submit
  <2> QED BY <2>5 DEF Work!Next
<1>9. ASSUME NEW j \in Jobs, ForceFail(j)
      PROVE  Work!Next
  <2> DEFINE r == Leave(job[j], "failed")
  <2>1. r.state = "failed" /\ r.token = 0 /\ r.issued = job[j].issued
    BY LeaveRow, StateNames
  <2>2. job' = [job EXCEPT ![j] = r] /\ UNCHANGED claim
    BY <1>9 DEF ForceFail
  <2>3. job[j].state \notin {"absent", "succeeded", "failed", "cancelled"}
    BY <1>9 DEF ForceFail, Terminal
  <2>4. WorkStatus(job[j].state) = "open"
    BY <2>3, WorkStatusValue DEF JobRow, States, Waiting, Terminal
  <2> HIDE DEF r
  <2>5. ASSUME NEW i \in Jobs PROVE AdministeredRow(job[i], job'[i])
    <3>1. CASE i = j
      BY <2>1, <2>2, <2>4, <3>1, WorkStatusValue DEF AdministeredRow
    <3>2. CASE i # j
      <4>1. SweepEffect(job[i], job[i])
        BY DEF SweepEffect
      <4>2. AdministeredRow(job[i], job[i])
        BY <1>0, <4>1, SweepAdministers
      <4> QED BY <2>2, <3>2, <4>2
    <3> QED BY <3>1, <3>2
  <2>6. Work!Administer
    BY <2>2, <2>5, AdministerStep
  <2> QED BY <2>6 DEF Work!Next
<1>10. ASSUME NEW j \in Jobs, Enqueue(j) \/ RequestCancellation(j) \/ RequestRetry(j)
                                \/ LeaseTick(j) \/ BecomeDue(j)
       PROVE  UNCHANGED Work!vars
  <2>1. CASE Enqueue(j)
    BY <2>1, InvisibleStep, WorkStatusValue DEF Enqueue, JobRow
  <2>2. CASE RequestCancellation(j)
    BY <2>2, InvisibleStep DEF RequestCancellation, JobRow
  <2>3. CASE RequestRetry(j)
    BY <2>3, InvisibleStep DEF RequestRetry, JobRow
  <2>4. CASE LeaseTick(j)
    BY <2>4, InvisibleStep DEF LeaseTick, JobRow
  <2>5. CASE BecomeDue(j)
    BY <2>5, InvisibleStep DEF BecomeDue, JobRow
  <2> QED BY <1>10, <2>1, <2>2, <2>3, <2>4, <2>5
<1> QED BY <1>1, <1>2, <1>3, <1>4, <1>5, <1>6, <1>7, <1>8, <1>9, <1>10
        DEF QueueNext, WorkerStep, JobStep

\* The ingestion queue implements LeasedWork.
THEOREM QueueImplementsLeasedWork == QueueSpec => ImplementsLeasedWork
<1>1. QueueTypeOK /\ ClaimsFenced /\ [QueueNext]_queueVars => [Work!Next]_(Work!vars)
  BY QueueStepRefines
<1> QED BY <1>1, QueueInitRefines, QueueTypeCorrect, QueueClaimsFenced, PTL
        DEF QueueSpec, ImplementsLeasedWork, Work!Spec

=============================================================================

--------------------------- MODULE IngestionProofs ---------------------------
(***************************************************************************)
(* Theorems about document ingestion, for any number of documents, jobs,   *)
(* workers, attempts and claims: the job queue runs inside it, the tables   *)
(* agree, one revision is searchable, and what a search sees is what        *)
(* DocumentCatalog promises.                                                *)
(***************************************************************************)
EXTENDS DocumentIngestion, JobQueueProofs

-----------------------------------------------------------------------------
(* The queue inside.                                                        *)

LEMMA IngestRunsQueue == [Next]_vars => [QueueNext]_queueVars
<1> SUFFICES ASSUME [Next]_vars PROVE [QueueNext]_queueVars
  OBVIOUS
<1>1. ASSUME NEW w \in Workers, IngestStep(w) PROVE [QueueNext]_queueVars
  <2>1. CASE SweepQueue(w)
    <3>1. Usable \in SUBSET Jobs
      BY DEF Usable
    <3> QED BY <2>1, <3>1 DEF SweepQueue, QueueNext, WorkerStep
  <2>2. CASE FindNothing(w) \/ RenewLease(w)
    BY <2>2 DEF FindNothing, RenewLease, QueueNext, WorkerStep
  <2>3. CASE MarkProcessing(w) \/ PassCheckpoint(w)
    BY <2>3 DEF MarkProcessing, PassCheckpoint, SetProgress
  <2>4. CASE StopAtCheckpoint(w) \/ Activate(w)
    BY <2>4 DEF StopAtCheckpoint, Activate, QueueNext, WorkerStep
  <2>5. CASE RecordFailure(w)
    <3>1. (phase[w] = "fail_retry") \in BOOLEAN
      OBVIOUS
    <3> QED BY <2>5, <3>1 DEF RecordFailure, QueueNext, WorkerStep
  <2>6. CASE DropClaim(w) \/ CrashWorker(w)
    BY <2>6 DEF DropClaim, CrashWorker, QueueNext, WorkerStep
  <2>7. CASE \E j \in Jobs : TakeJob(w, j)
    BY <2>7 DEF TakeJob, QueueNext, WorkerStep
  <2>8. CASE \E f \in Failures : Raise(w, f)
    BY <2>8 DEF Raise, queueVars
  <2> QED BY <1>1, <2>1, <2>2, <2>3, <2>4, <2>5, <2>6, <2>7, <2>8 DEF IngestStep, Process
<1>2. ASSUME NEW j \in Jobs, SourceStep(j) PROVE [QueueNext]_queueVars
  <2>1. CASE \E d \in Documents : UploadNew(d, j) \/ UploadRevision(d, j)
    <3>1. Insert(j, "preparing")
      BY <2>1 DEF UploadNew, UploadRevision, InsertRevision
    <3> QED BY <3>1 DEF QueueNext, JobStep
  <2>2. CASE Finalize(j) \/ CancelJob(j) \/ RetryJob(j) \/ LeaseRunsDown(j) \/ RetryFallsDue(j)
    BY <2>2 DEF Finalize, CancelJob, RetryJob, LeaseRunsDown, RetryFallsDue, QueueNext, JobStep
  <2>3. CASE FailExpiredStaging(j) \/ Quarantine(j)
    BY <2>3 DEF FailExpiredStaging, Quarantine, FailUnlessTerminal, QueueNext, JobStep
  <2> QED BY <1>2, <2>1, <2>2, <2>3 DEF SourceStep
<1>3. CASE (\E d \in Documents : Archive(d)) \/ Snapshot \/ UNCHANGED vars
  BY <1>3 DEF Archive, Snapshot, vars, queueVars
<1> QED BY <1>1, <1>2, <1>3 DEF Next

\* Every run of the ingestion pipeline is, for the jobs and claims, a run of the
\* queue, so what is proved of the queue holds in it: leases are respected,
\* claims exclude each other, a cancelled job does not succeed.
THEOREM IngestionKeepsQueue ==
  Spec => QueueSpec /\ []QueueInvariant /\ []ExclusiveClaim /\ []CancelledNeverSucceeds /\ LiveLeaseRespected
<1>1. Init => QueueInit
  BY DEF Init
<1>2. Spec => QueueSpec
  BY <1>1, IngestRunsQueue, PTL DEF Spec, QueueSpec
<1> QED BY <1>2, QueueInductive, QueueExclusiveClaim, QueueCancellation, QueueLiveLease, PTL

-----------------------------------------------------------------------------
(* Rows.                                                                    *)

\* Agree, one implication for each state of a job.
Agreed(s, r) ==
  /\ s = "absent" => r.status = "none"
  /\ s = "preparing" => r.status = "pending" /\ r.key = "staging" /\ ~r.chunks
  /\ s \in {"queued", "retry_wait"} => r.status = "pending" /\ r.key = "object" /\ ~r.chunks
  /\ s = "running" => r.status \in {"pending", "processing"} /\ r.key = "object" /\ ~r.chunks
  /\ s = "succeeded" => r.status \in {"active", "ready", "quarantined"} /\ r.chunks
  /\ s = "cancelled" => r.status \in {"cancelled", "quarantined"} /\ ~r.chunks
  /\ s = "failed" => r.status \notin {"none", "active", "ready"} /\ ~r.chunks

LEMMA AgreeIsAgreed == ASSUME NEW s \in States, NEW r PROVE Agree(s, r) <=> Agreed(s, r)
<1>1. s \in {"absent", "preparing", "running", "queued", "retry_wait", "succeeded", "failed", "cancelled"}
  BY DEF States, Waiting, Terminal
<1>2. CASE s \in {"absent", "preparing"}
  BY <1>2 DEF Agree, Agreed, Waiting
<1>3. CASE s \in {"queued", "retry_wait", "running"}
  BY <1>3 DEF Agree, Agreed, Waiting
<1>4. CASE s \in {"succeeded", "failed", "cancelled"}
  BY <1>4 DEF Agree, Agreed, Waiting
<1> QED BY <1>1, <1>2, <1>3, <1>4

LEMMA SettledRow ==
  ASSUME NEW r \in RevisionRow, NEW s \in RevisionStatus
  PROVE  /\ Settled(r, s) \in RevisionRow
         /\ Settled(r, s).document = r.document /\ Settled(r, s).version = r.version
         /\ Settled(r, s).key = r.key /\ Settled(r, s).chunks = r.chunks /\ Settled(r, s).live = r.live
         /\ r.status \in Unsettled => Settled(r, s).status = s
         /\ r.status \notin Unsettled => Settled(r, s) = r
<1>1. CASE r.status \in Unsettled
  <2> DEFINE q == [r EXCEPT !.status = s]
  <2>1. Settled(r, s) = q
    BY <1>1 DEF Settled
  <2>2. q \in RevisionRow
    BY DEF RevisionRow, RevisionStatus, Unsettled
  <2>3. /\ q.document = r.document /\ q.version = r.version /\ q.key = r.key
        /\ q.chunks = r.chunks /\ q.live = r.live /\ q.status = s
    BY DEF RevisionRow
  <2> HIDE DEF q
  <2> QED BY <1>1, <2>1, <2>2, <2>3
<1>2. CASE r.status \notin Unsettled
  BY <1>2 DEF Settled
<1> QED BY <1>1, <1>2

\* What the sweeps make of a job.
LEMMA SweptState ==
  ASSUME NEW r \in JobRow, NEW u \in BOOLEAN
  PROVE  \/ SweptRow(r, u).state = r.state
         \/ SweptRow(r, u).state = "queued" /\ r.state \in {"failed", "cancelled"} /\ u
         \/ SweptRow(r, u).state \in {"failed", "cancelled"} /\ r.state \in {"queued", "retry_wait", "running"}
<1> DEFINE a == ActivateRetry(r, u)
           b == FinalizeCancellation(a)
           c == FinalizeExhausted(b)
<1>1. a \in JobRow /\ b \in JobRow
  BY ActivateRetryEffect, FinalizeCancellationEffect DEF SweepEffect
<1>2. \/ a.state = r.state
      \/ a.state = "queued" /\ r.state \in {"failed", "cancelled"} /\ u /\ a.attempts = 0 /\ ~a.cancel
  <2> DEFINE q == Leave(r, "queued")
             s == [q EXCEPT !.attempts = 0, !.due = TRUE, !.retry = FALSE]
  <2>1. q \in JobRow /\ q.state = "queued" /\ q.cancel = r.cancel
    BY LeaveRow, StateNames
  <2>2. CASE ~(r.state \in {"failed", "cancelled"} /\ r.retry /\ ~r.cancel)
    BY <2>2 DEF ActivateRetry
  <2>3. CASE (r.state \in {"failed", "cancelled"} /\ r.retry /\ ~r.cancel) /\ ~u
    BY <2>3 DEF ActivateRetry, JobRow
  <2>4. CASE (r.state \in {"failed", "cancelled"} /\ r.retry /\ ~r.cancel) /\ u
    <3>1. a = s
      BY <2>4 DEF ActivateRetry
    <3> HIDE DEF q
    <3>2. s.state = q.state /\ s.attempts = 0
      BY <2>1 DEF JobRow
    <3>3. s.cancel = q.cancel
      BY <2>1 DEF JobRow
    <3> QED BY <2>1, <2>4, <3>1, <3>2, <3>3
  <2> QED BY <2>2, <2>3, <2>4
<1> HIDE DEF a
<1>3. \/ b = a
      \/ /\ b.state = "cancelled" /\ a.state \in {"queued", "retry_wait", "running"} /\ a.cancel
  <2> DEFINE q == Leave(a, "cancelled")
  <2>1. q \in JobRow /\ q.state = "cancelled"
    BY <1>1, LeaveRow, StateNames
  <2>2. [q EXCEPT !.retry = FALSE].state = q.state
    BY <2>1 DEF JobRow
  <2> QED BY <2>1, <2>2 DEF FinalizeCancellation, Waiting, Expired
<1> HIDE DEF b
<1>4. \/ c = b
      \/ /\ c.state = "failed" /\ b.state \in {"queued", "retry_wait", "running"} /\ b.attempts >= MaxAttempts
  <2>1. Leave(b, "failed").state = "failed"
    BY <1>1, LeaveRow, StateNames
  <2> QED BY <2>1 DEF FinalizeExhausted, Waiting, Expired
<1>5. SweptRow(r, u) = c
  BY DEF SweptRow, a, b
<1>6. MaxAttempts \in Nat \ {0}
  BY QueueAssumption
<1> HIDE DEF c
<1>7. CASE a.state = r.state
  BY <1>3, <1>4, <1>5, <1>7
<1>8. CASE a.state # r.state
  <2>1. b = a
    BY <1>2, <1>3, <1>8
  <2>2. c = b
    <3>1. ~(b.attempts >= MaxAttempts)
      BY <1>2, <1>6, <1>8, <2>1
    <3> QED BY <1>4, <3>1
  <2> QED BY <1>2, <1>5, <1>8, <2>1, <2>2
<1> QED BY <1>7, <1>8

LEMMA FailureState ==
  ASSUME NEW r \in JobRow, NEW retryable \in BOOLEAN, NEW q \in BOOLEAN
  PROVE  \/ FailedRow(r, retryable).state = "retry_wait" /\ FailureStatus(FailedRow(r, retryable).state, q) = "pending"
         \/ FailedRow(r, retryable).state = "cancelled" /\ FailureStatus(FailedRow(r, retryable).state, q) = "cancelled"
         \/ FailedRow(r, retryable).state = "failed"
              /\ FailureStatus(FailedRow(r, retryable).state, q) \in {"failed", "quarantined"}
  BY FailedRowEffect DEF FailureStatus

-----------------------------------------------------------------------------
(* The inductive invariant.                                                 *)

\* An object key is only written together with the queued event, so a job that
\* may be retried was announced.
ObjectAnnounced == \A j \in Jobs : rev[j].key = "object" => <<j, "queued">> \in outbox

Tables == TypeOK /\ JobRevisionAgreement /\ OutboxMatchesOutcome /\ ObjectAnnounced

\* A row with a status has a version, of a document that exists.
RowsVersioned ==
  \A j \in Jobs : /\ rev[j].status # "none" <=> rev[j].version > 0
                  /\ rev[j].chunks => rev[j].status # "none"
                  /\ rev[j].status # "none" => doc[rev[j].document].exists

CurrentIsOwn ==
  \A d \in Documents : doc[d].current # NoJob => rev[doc[d].current].document = d

\* Nothing published is newer than the current revision, and what still waits is
\* the next version: why a second upload finds its version taken.
NextInLine ==
  \A d \in Documents, j \in Jobs :
    doc[d].current # NoJob /\ rev[j].document = d /\ rev[j].version > 0 =>
      IF rev[j].chunks THEN rev[j].version <= rev[doc[d].current].version
                       ELSE rev[j].version = rev[doc[d].current].version + 1

Lineage == /\ OneSearchable /\ VersionOrder /\ RowsVersioned /\ CurrentIsOwn /\ NextInLine

IngestInvariant == Tables /\ Lineage

LEMMA IngestTypes ==
  ASSUME TypeOK
  PROVE  /\ \A j \in Jobs : /\ job[j] \in JobRow /\ rev[j] \in RevisionRow
                            /\ job[j].state \in States /\ rev[j].document \in Documents /\ rev[j].version \in Nat
                            /\ rev[j].status \in RevisionStatus /\ rev[j].chunks \in BOOLEAN /\ rev[j].live \in BOOLEAN
         /\ \A d \in Documents : doc[d] \in DocumentRow /\ doc[d].current \in Jobs \cup {NoJob}
         /\ job \in [Jobs -> JobRow] /\ rev \in [Jobs -> RevisionRow] /\ doc \in [Documents -> DocumentRow]
         /\ claim \in [Workers -> JobClaim] /\ phase \in [Workers -> Phases]
  BY DEF TypeOK, QueueTypeOK, JobRow, RevisionRow, DocumentRow

-----------------------------------------------------------------------------
(* Steps that change the row of one job and its revision.                   *)

LEMMA TablesOfOne ==
  ASSUME Tables, QueueTypeOK', NEW j \in Jobs,
         rev' \in [Jobs -> RevisionRow], doc' \in [Documents -> DocumentRow],
         phase' \in [Workers -> Phases], listing' \in SUBSET Jobs,
         \A i \in Jobs \ {j} : job'[i].state = job[i].state /\ rev'[i] = rev[i],
         outbox \subseteq outbox', outbox' \subseteq Jobs \X {"queued", "succeeded", "integrity"},
         \A i \in Jobs \ {j}, e \in {"succeeded"} : <<i, e>> \in outbox' => <<i, e>> \in outbox,
         Agreed(job'[j].state, rev'[j]),
         <<j, "succeeded">> \in outbox' <=> job'[j].state = "succeeded",
         job'[j].state \in {"queued", "retry_wait", "running", "succeeded"} => <<j, "queued">> \in outbox',
         rev'[j].key = "object" => <<j, "queued">> \in outbox'
  PROVE  Tables'
<1>1. \A i \in Jobs : i = j \/ i \in Jobs \ {j}
  OBVIOUS
<1>2. TypeOK'
  BY DEF TypeOK
<1>3. \A i \in Jobs : job'[i].state \in States
  BY DEF QueueTypeOK, JobRow
<1>4. JobRevisionAgreement'
  <2> SUFFICES ASSUME NEW i \in Jobs PROVE Agree(job'[i].state, rev'[i])
    BY DEF JobRevisionAgreement
  <2>1. CASE i = j
    BY <1>3, <2>1, AgreeIsAgreed
  <2>2. CASE i # j
    BY <2>2 DEF Tables, JobRevisionAgreement
  <2> QED BY <2>1, <2>2
<1>5. OutboxMatchesOutcome'
  BY <1>1 DEF Tables, OutboxMatchesOutcome, Waiting
<1>6. ObjectAnnounced'
  BY <1>1 DEF Tables, ObjectAnnounced
<1> QED BY <1>2, <1>4, <1>5, <1>6 DEF Tables

\* A revision that keeps its place: Lineage says the same of it.
SamePlace(r, s) ==
  /\ s.document = r.document /\ s.version = r.version /\ s.chunks = r.chunks /\ s.live = r.live
  /\ s.status = "active" <=> r.status = "active"
  /\ s.status = "none" <=> r.status = "none"

SameRows == UNCHANGED doc /\ \A j \in Jobs : SamePlace(rev[j], rev'[j])

LEMMA LineageStays ==
  ASSUME TypeOK, Lineage, \A j \in Jobs : SamePlace(rev[j], rev'[j]), UNCHANGED doc
  PROVE  Lineage'
<1>1. \A j \in Jobs : /\ rev'[j].document = rev[j].document /\ rev'[j].version = rev[j].version
                      /\ rev'[j].chunks = rev[j].chunks /\ rev'[j].live = rev[j].live
                      /\ rev'[j].status = "active" <=> rev[j].status = "active"
                      /\ rev'[j].status = "none" <=> rev[j].status = "none"
  BY DEF SamePlace
<1>2. OneSearchable'
  BY <1>1 DEF Lineage, OneSearchable
<1>3. VersionOrder'
  BY <1>1 DEF Lineage, VersionOrder
<1>4. RowsVersioned'
  BY <1>1 DEF Lineage, RowsVersioned
<1>5. CurrentIsOwn' /\ NextInLine'
  BY <1>1, IngestTypes DEF Lineage, CurrentIsOwn, NextInLine
<1> QED BY <1>2, <1>3, <1>4, <1>5 DEF Lineage

LEMMA OwnedRuns ==
  ASSUME QueueInvariant, NEW w \in Workers, Owns(w)
  PROVE  claim[w].job \in Jobs /\ job[claim[w].job].state = "running"
  BY DEF QueueInvariant, ClaimsFenced, Owns

LEMMA AgreedNow ==
  ASSUME Tables, NEW j \in Jobs
  PROVE  /\ Agreed(job[j].state, rev[j])
         /\ <<j, "succeeded">> \in outbox <=> job[j].state = "succeeded"
         /\ job[j].state \in {"queued", "retry_wait", "running", "succeeded"} => <<j, "queued">> \in outbox
         /\ rev[j].key = "object" => <<j, "queued">> \in outbox
<1>1. job[j].state \in States
  BY IngestTypes DEF Tables
<1>2. Agreed(job[j].state, rev[j])
  BY <1>1, AgreeIsAgreed DEF Tables, JobRevisionAgreement
<1> QED BY <1>2 DEF Tables, OutboxMatchesOutcome, ObjectAnnounced, Waiting

\* The job and its revision move on together, the revision in its place.
LEMMA MovesTogether ==
  ASSUME IngestInvariant, QueueInvariant', NEW j \in Jobs, NEW s \in RevisionRow,
         rev' = [rev EXCEPT ![j] = s], SamePlace(rev[j], s), s.key = rev[j].key,
         \A i \in Jobs \ {j} : job'[i].state = job[i].state,
         Agreed(job'[j].state, s),
         job'[j].state = "succeeded" <=> job[j].state = "succeeded",
         rev[j].key = "object",
         UNCHANGED <<doc, outbox>>, phase' \in [Workers -> Phases], listing' \in SUBSET Jobs
  PROVE  IngestInvariant' /\ SameRows
<1>1. /\ Tables /\ Lineage /\ TypeOK /\ QueueTypeOK'
      /\ rev \in [Jobs -> RevisionRow] /\ doc \in [Documents -> DocumentRow]
      /\ outbox \subseteq Jobs \X {"queued", "succeeded", "integrity"}
  BY DEF IngestInvariant, Tables, QueueInvariant, TypeOK
<1>2. /\ rev' \in [Jobs -> RevisionRow] /\ rev'[j] = s /\ \A i \in Jobs \ {j} : rev'[i] = rev[i]
      /\ doc' = doc /\ outbox' = outbox
  BY <1>1
<1>3. \A i \in Jobs : SamePlace(rev[i], rev'[i])
  BY <1>2 DEF SamePlace
<1>4. Lineage'
  BY <1>1, <1>3, LineageStays
<1>5. <<j, "queued">> \in outbox /\ (<<j, "succeeded">> \in outbox <=> job[j].state = "succeeded")
  BY <1>1, AgreedNow
<1>6. Tables'
  BY <1>1, <1>2, <1>5, TablesOfOne
<1> QED BY <1>2, <1>3, <1>4, <1>6 DEF IngestInvariant, SameRows

\* Only the queue, or a phase, changes, and no job changes its state.
LEMMA QueueOnly ==
  ASSUME IngestInvariant, QueueInvariant', \A j \in Jobs : job'[j].state = job[j].state,
         UNCHANGED <<doc, rev, outbox>>, phase' \in [Workers -> Phases], listing' \in SUBSET Jobs
  PROVE  IngestInvariant'
<1>1. /\ Tables /\ Lineage /\ TypeOK /\ QueueTypeOK'
  BY DEF IngestInvariant, Tables, QueueInvariant
<1>2. Lineage'
  BY <1>1, LineageStays DEF SamePlace
<1>3. TypeOK'
  BY <1>1 DEF TypeOK
<1>4. JobRevisionAgreement' /\ OutboxMatchesOutcome' /\ ObjectAnnounced'
  BY <1>1 DEF Tables, JobRevisionAgreement, OutboxMatchesOutcome, ObjectAnnounced
<1> QED BY <1>1, <1>2, <1>3, <1>4 DEF Tables, IngestInvariant

LEMMA PhaseSet ==
  ASSUME TypeOK, NEW w \in Workers, NEW p \in Phases, phase' = [phase EXCEPT ![w] = p]
  PROVE  phase' \in [Workers -> Phases]
  BY DEF TypeOK

-----------------------------------------------------------------------------
(* Upload.                                                                  *)

LEMMA InsertStep ==
  ASSUME IngestInvariant, QueueInvariant', NEW j \in Jobs, NEW d \in Documents, NEW v \in Nat, v > 0,
         InsertRevision(j, d, v),
         doc' = [doc EXCEPT ![d].exists = TRUE],
         \A i \in Jobs : rev[i].document = d /\ rev[i].version > 0 => rev[i].chunks /\ rev[i].version < v,
         doc[d].current # NoJob => v = rev[doc[d].current].version + 1
  PROVE  /\ IngestInvariant'
         /\ ~rev[j].chunks /\ ~rev[j].live /\ ~rev'[j].chunks /\ ~rev'[j].live
         /\ \A i \in Jobs \ {j} : rev'[i] = rev[i]
         /\ \A e \in Documents : doc'[e].archived = doc[e].archived
<1> DEFINE s == [NoRevision(d) EXCEPT !.version = v, !.status = "pending", !.key = "staging"]
<1>1. /\ Tables /\ Lineage /\ TypeOK /\ QueueTypeOK'
      /\ rev \in [Jobs -> RevisionRow] /\ doc \in [Documents -> DocumentRow]
      /\ outbox \subseteq Jobs \X {"queued", "succeeded", "integrity"}
      /\ phase \in [Workers -> Phases] /\ listing \in SUBSET Jobs
  BY DEF IngestInvariant, Tables, QueueInvariant, TypeOK
<1>2. /\ NoRevision(d) \in RevisionRow /\ NoRevision(d).document = d
      /\ ~NoRevision(d).chunks /\ ~NoRevision(d).live
  BY DEF NoRevision, RevisionRow, RevisionStatus, Unsettled
<1>3. s \in RevisionRow
  BY <1>2 DEF RevisionRow, RevisionStatus, Unsettled
<1>4. /\ s.document = d /\ s.version = v /\ s.status = "pending" /\ s.key = "staging" /\ ~s.chunks /\ ~s.live
  BY <1>2 DEF RevisionRow
<1>5. /\ rev' = [rev EXCEPT ![j] = s] /\ UNCHANGED <<phase, outbox, listing>>
      /\ job[j].state = "absent"
  BY DEF InsertRevision, Insert
<1>6. job'[j].state = "preparing" /\ \A i \in Jobs \ {j} : job'[i] = job[i]
  <2>1. job' = [job EXCEPT ![j] = [NoRow EXCEPT !.state = "preparing", !.issued = job[j].issued]]
    BY DEF InsertRevision, Insert
  <2>2. job \in [Jobs -> JobRow]
    BY <1>1, IngestTypes
  <2> QED BY <2>1, <2>2 DEF NoRow
<1> HIDE DEF s
<1>7. rev' \in [Jobs -> RevisionRow] /\ rev'[j] = s /\ \A i \in Jobs \ {j} : rev'[i] = rev[i]
  BY <1>1, <1>3, <1>5
<1>8. /\ doc' \in [Documents -> DocumentRow]
      /\ \A e \in Documents : /\ doc'[e].current = doc[e].current /\ doc'[e].archived = doc[e].archived
                              /\ doc'[e].exists = IF e = d THEN TRUE ELSE doc[e].exists
  BY <1>1 DEF DocumentRow
<1>9. rev[j].status = "none" /\ <<j, "succeeded">> \notin outbox /\ ~rev[j].chunks
  <2>1. rev[j].status = "none"
    BY <1>1, <1>5, AgreedNow DEF Agreed
  <2> QED BY <1>1, <1>5, <2>1, AgreedNow DEF Lineage, RowsVersioned
<1>10. Tables'
  <2>1. Agreed(job'[j].state, rev'[j]) /\ rev'[j].key = "staging"
    BY <1>4, <1>6, <1>7 DEF Agreed
  <2>2. /\ outbox' = outbox /\ phase' \in [Workers -> Phases] /\ listing' \in SUBSET Jobs
        /\ \A i \in Jobs \ {j} : job'[i].state = job[i].state /\ rev'[i] = rev[i]
    BY <1>1, <1>5, <1>6, <1>7
  <2>3. outbox \subseteq outbox' /\ outbox' \subseteq Jobs \X {"queued", "succeeded", "integrity"}
    BY <1>1, <2>2
  <2>4. <<j, "succeeded">> \in outbox' <=> job'[j].state = "succeeded"
    BY <1>6, <1>9, <2>2
  <2>5. /\ job'[j].state \notin {"queued", "retry_wait", "running", "succeeded"}
        /\ rev'[j].key # "object"
    BY <1>6, <2>1
  <2> QED BY <1>1, <1>7, <1>8, <2>1, <2>2, <2>3, <2>4, <2>5, TablesOfOne
<1>11. \A e \in Documents : doc[e].current # j
  <2> SUFFICES ASSUME NEW e \in Documents, doc[e].current = j PROVE FALSE
    OBVIOUS
  <2>1. rev[j].document = e
    <3>1. doc[e].current # NoJob
      BY QueueAssumption
    <3> QED BY <1>1, <3>1 DEF Lineage, CurrentIsOwn
  <2> QED BY <1>1, <1>9, <2>1 DEF Lineage, OneSearchable
<1>12. \A i \in Jobs : i = j \/ i \in Jobs \ {j}
  OBVIOUS
<1>13. OneSearchable'
  BY <1>1, <1>4, <1>7, <1>8, <1>11, <1>12, IngestTypes DEF Lineage, OneSearchable
<1>14. VersionOrder'
  <2> SUFFICES ASSUME NEW i \in Jobs, NEW k \in Jobs, i # k, rev'[i].document = rev'[k].document,
                      rev'[i].version > 0, rev'[k].version > 0, ~rev'[k].chunks
               PROVE  rev'[i].chunks /\ rev'[i].version < rev'[k].version
    BY DEF VersionOrder
  <2>1. CASE k = j
    BY <1>4, <1>7, <2>1
  <2>2. CASE i = j
    <3>1. rev[k].document = d /\ rev[k].version > 0 /\ ~rev[k].chunks
      BY <1>4, <1>7, <2>2
    <3> QED BY <3>1
  <2>3. CASE i # j /\ k # j
    BY <1>1, <1>7, <2>3 DEF Lineage, VersionOrder
  <2> QED BY <2>1, <2>2, <2>3
<1>15. RowsVersioned'
  <2> SUFFICES ASSUME NEW i \in Jobs
               PROVE  /\ rev'[i].status # "none" <=> rev'[i].version > 0
                      /\ rev'[i].chunks => rev'[i].status # "none"
                      /\ rev'[i].status # "none" => doc'[rev'[i].document].exists
    BY DEF RowsVersioned
  <2>1. CASE i = j
    BY <1>4, <1>7, <1>8, <2>1
  <2>2. CASE i # j
    BY <1>1, <1>7, <1>8, <2>2, IngestTypes DEF Lineage, RowsVersioned
  <2> QED BY <2>1, <2>2
<1>16. CurrentIsOwn'
  BY <1>1, <1>7, <1>8, <1>11, IngestTypes DEF Lineage, CurrentIsOwn
<1>17. NextInLine'
  <2> SUFFICES ASSUME NEW e \in Documents, NEW i \in Jobs, doc'[e].current # NoJob, rev'[i].document = e,
                      rev'[i].version > 0
               PROVE  IF rev'[i].chunks THEN rev'[i].version <= rev'[doc'[e].current].version
                                        ELSE rev'[i].version = rev'[doc'[e].current].version + 1
    BY DEF NextInLine
  <2>1. doc'[e].current = doc[e].current /\ rev'[doc[e].current] = rev[doc[e].current]
    BY <1>1, <1>7, <1>8, <1>11, IngestTypes
  <2>2. CASE i = j
    BY <1>4, <1>7, <2>1, <2>2
  <2>3. CASE i # j
    BY <1>1, <1>7, <2>1, <2>3 DEF Lineage, NextInLine
  <2> QED BY <2>2, <2>3
<1>18. ~rev[j].live
  BY <1>1, <1>9 DEF Lineage, OneSearchable
<1>19. IngestInvariant'
  BY <1>10, <1>13, <1>14, <1>15, <1>16, <1>17 DEF Lineage, IngestInvariant
<1> QED BY <1>4, <1>7, <1>8, <1>9, <1>18, <1>19

LEMMA UploadStep ==
  ASSUME IngestInvariant, QueueInvariant', NEW j \in Jobs, NEW d \in Documents,
         UploadNew(d, j) \/ UploadRevision(d, j)
  PROVE  /\ IngestInvariant'
         /\ ~rev[j].chunks /\ ~rev[j].live /\ ~rev'[j].chunks /\ ~rev'[j].live
         /\ \A i \in Jobs \ {j} : rev'[i] = rev[i]
         /\ \A e \in Documents : doc'[e].archived = doc[e].archived
<1>1. Tables /\ Lineage /\ TypeOK
  BY DEF IngestInvariant, Tables
<1>2. CASE UploadNew(d, j)
  <2>1. \A i \in Jobs : rev[i].document = d => ~(rev[i].version > 0)
    BY <1>1, <1>2 DEF UploadNew, Lineage, RowsVersioned
  <2>2. doc[d].current = NoJob
    <3> SUFFICES ASSUME doc[d].current # NoJob PROVE FALSE
      OBVIOUS
    <3>1. doc[d].current \in Jobs
      BY <1>1, IngestTypes
    <3>2. rev[doc[d].current].document = d
      BY <1>1 DEF Lineage, CurrentIsOwn
    <3>3. rev[doc[d].current].status = "active"
      BY <1>1, <3>1, <3>2 DEF Lineage, OneSearchable
    <3> QED BY <1>1, <2>1, <3>1, <3>2, <3>3 DEF Lineage, RowsVersioned
  <2>3. InsertRevision(j, d, 1) /\ doc' = [doc EXCEPT ![d].exists = TRUE] /\ 1 \in Nat /\ 1 > 0
    BY <1>2 DEF UploadNew
  <2> QED BY <2>1, <2>2, <2>3, InsertStep
<1>3. CASE UploadRevision(d, j)
  <2> DEFINE c == doc[d].current
  <2>1. /\ c \in Jobs /\ c # NoJob /\ rev[c].version \in Nat /\ doc[d].exists
        /\ ~VersionTaken(d, rev[c].version + 1) /\ InsertRevision(j, d, rev[c].version + 1) /\ UNCHANGED doc
    BY <1>1, <1>3, IngestTypes DEF UploadRevision
  <2>2. \A i \in Jobs : rev[i].document = d /\ rev[i].version > 0
                          => rev[i].chunks /\ rev[i].version <= rev[c].version
    BY <1>1, <2>1 DEF Lineage, NextInLine, VersionTaken
  <2>3. doc = [doc EXCEPT ![d].exists = TRUE]
    BY <1>1, <2>1, IngestTypes DEF DocumentRow
  <2>4. \A i \in Jobs : rev[i].version \in Nat
    BY <1>1, IngestTypes
  <2> QED BY <2>1, <2>2, <2>3, <2>4, InsertStep
<1> QED BY <1>2, <1>3

LEMMA IngestParts ==
  ASSUME IngestInvariant, QueueInvariant'
  PROVE  /\ Tables /\ Lineage /\ TypeOK /\ QueueTypeOK' /\ job' \in [Jobs -> JobRow]
         /\ job \in [Jobs -> JobRow] /\ rev \in [Jobs -> RevisionRow] /\ doc \in [Documents -> DocumentRow]
         /\ outbox \subseteq Jobs \X {"queued", "succeeded", "integrity"}
         /\ phase \in [Workers -> Phases] /\ listing \in SUBSET Jobs
  BY DEF IngestInvariant, Tables, QueueInvariant, TypeOK, QueueTypeOK

LEMMA FinalizeStep ==
  ASSUME IngestInvariant, QueueInvariant', NEW j \in Jobs, Finalize(j)
  PROVE  IngestInvariant' /\ SameRows
<1> DEFINE s == [rev[j] EXCEPT !.key = "object"]
<1>1. rev[j] \in RevisionRow
  BY IngestParts
<1>2. /\ s \in RevisionRow /\ SamePlace(rev[j], s) /\ s.key = "object" /\ s.status = rev[j].status
      /\ s.chunks = rev[j].chunks
  BY <1>1 DEF RevisionRow, SamePlace
<1>3. /\ rev' = [rev EXCEPT ![j] = s] /\ outbox' = outbox \cup {<<j, "queued">>}
      /\ UNCHANGED <<doc, phase, listing>> /\ job[j].state = "preparing"
      /\ job' = [job EXCEPT ![j].state = "queued"]
  BY DEF Finalize, Enqueue
<1> HIDE DEF s
<1>4. job'[j].state = "queued" /\ \A i \in Jobs \ {j} : job'[i] = job[i]
  BY <1>3, IngestParts DEF JobRow
<1>5. rev'[j] = s /\ (\A i \in Jobs \ {j} : rev'[i] = rev[i]) /\ rev' \in [Jobs -> RevisionRow]
  BY <1>2, <1>3, IngestParts
<1>6. SameRows /\ Lineage'
  <2>1. \A i \in Jobs : SamePlace(rev[i], rev'[i])
    BY <1>2, <1>5 DEF SamePlace
  <2> QED BY <1>3, <2>1, IngestParts, LineageStays DEF SameRows
<1>7. rev[j].status = "pending" /\ ~rev[j].chunks /\ <<j, "succeeded">> \notin outbox
  BY <1>3, IngestParts, AgreedNow DEF Agreed
<1>8. Tables'
  <2>1. Agreed(job'[j].state, rev'[j])
    BY <1>2, <1>4, <1>5, <1>7 DEF Agreed
  <2>2. /\ outbox \subseteq outbox' /\ outbox' \subseteq Jobs \X {"queued", "succeeded", "integrity"}
        /\ \A i \in Jobs \ {j}, e \in {"succeeded"} : <<i, e>> \in outbox' => <<i, e>> \in outbox
        /\ <<j, "queued">> \in outbox' /\ <<j, "succeeded">> \notin outbox'
    BY <1>3, <1>7, IngestParts
  <2>3. /\ doc' \in [Documents -> DocumentRow] /\ phase' \in [Workers -> Phases]
        /\ listing' \in SUBSET Jobs
    BY <1>3, IngestParts
  <2> QED BY <1>4, <1>5, <2>1, <2>2, <2>3, IngestParts, TablesOfOne
<1> QED BY <1>6, <1>8 DEF IngestInvariant

-----------------------------------------------------------------------------
(* Workers.                                                                 *)

LEMMA SweepStep ==
  ASSUME IngestInvariant, QueueInvariant', NEW w \in Workers, SweepQueue(w)
  PROVE  IngestInvariant' /\ SameRows
<1>1. /\ \A j \in Jobs : job'[j] = SweptRow(job[j], j \in Usable)
      /\ rev' = [j \in Jobs |-> SweptRevision(j)] /\ UNCHANGED <<doc, phase, outbox, listing>>
  BY DEF SweepQueue, Sweep
<1>2. ASSUME NEW j \in Jobs
      PROVE  /\ rev'[j] \in RevisionRow /\ SamePlace(rev[j], rev'[j]) /\ rev'[j].key = rev[j].key
             /\ Agree(job'[j].state, rev'[j])
             /\ job'[j].state = "succeeded" <=> job[j].state = "succeeded"
             /\ job'[j].state \in {"queued", "retry_wait", "running", "succeeded"} => <<j, "queued">> \in outbox
    <2> DEFINE before == job[j].state
               after == SweptRow(job[j], j \in Usable).state
    <2>1. /\ job[j] \in JobRow /\ rev[j] \in RevisionRow /\ rev'[j] = SweptRevision(j) /\ job'[j].state = after
          /\ after \in States /\ (j \in Usable) \in BOOLEAN
      BY <1>1, IngestParts DEF JobRow
    <2>2. /\ Agreed(before, rev[j])
          /\ before \in {"queued", "retry_wait", "running", "succeeded"} => <<j, "queued">> \in outbox
          /\ rev[j].key = "object" => <<j, "queued">> \in outbox
      BY IngestParts, AgreedNow
    <2>3. CASE after = before
      <3>1. rev'[j] = rev[j]
        BY <2>1, <2>3 DEF SweptRevision
      <3> QED BY <2>1, <2>2, <2>3, <3>1, AgreeIsAgreed DEF SamePlace
    <2>4. CASE after # before /\ after = "queued" /\ before \in {"failed", "cancelled"} /\ j \in Usable
      <3> DEFINE s == [rev[j] EXCEPT !.status = "pending"]
      <3>1. rev'[j] = s
        BY <2>1, <2>4 DEF SweptRevision
      <3>2. /\ s \in RevisionRow /\ s.status = "pending" /\ s.key = rev[j].key
            /\ s.chunks = rev[j].chunks /\ s.live = rev[j].live /\ s.document = rev[j].document
            /\ s.version = rev[j].version
        BY <2>1 DEF RevisionRow, RevisionStatus, Unsettled
      <3>3. rev[j].key = "object" /\ ~rev[j].chunks /\ rev[j].status \notin {"none", "active"}
        BY <2>2, <2>4 DEF Usable, Agreed
      <3>4. Agreed("queued", s)
        BY <3>2, <3>3 DEF Agreed
      <3> HIDE DEF s
      <3>5. Agree(after, s)
        BY <2>1, <2>4, <3>4, AgreeIsAgreed
      <3> QED BY <2>1, <2>2, <2>4, <3>1, <3>2, <3>3, <3>5 DEF SamePlace
    <2>5. CASE after # before /\ after \in {"failed", "cancelled"} /\ before \in {"queued", "retry_wait", "running"}
      <3> DEFINE s == Settled(rev[j], after)
      <3>1. rev'[j] = s
        BY <2>1, <2>5 DEF SweptRevision
      <3>2. rev[j].status \in {"pending", "processing"} /\ ~rev[j].chunks
        BY <2>2, <2>5 DEF Agreed
      <3>3. after \in RevisionStatus
        BY <2>5 DEF RevisionStatus
      <3>4. /\ s \in RevisionRow /\ s.status = after /\ s.key = rev[j].key
            /\ s.chunks = rev[j].chunks /\ s.live = rev[j].live /\ s.document = rev[j].document
            /\ s.version = rev[j].version
        BY <2>1, <3>2, <3>3, SettledRow DEF Unsettled
      <3>5. Agreed(after, s)
        BY <2>5, <3>2, <3>4 DEF Agreed
      <3> HIDE DEF s
      <3>6. Agree(after, s)
        BY <2>1, <3>5, AgreeIsAgreed
      <3> QED BY <2>1, <2>5, <3>1, <3>2, <3>4, <3>6 DEF SamePlace
    <2> QED BY <2>1, <2>3, <2>4, <2>5, SweptState
<1>3. rev' \in [Jobs -> RevisionRow]
  BY <1>1, <1>2
<1>4. SameRows /\ Lineage'
  BY <1>1, <1>2, IngestParts, LineageStays DEF SameRows
<1>5. TypeOK'
  BY <1>1, <1>3, IngestParts DEF TypeOK
<1>6. JobRevisionAgreement'
  BY <1>2 DEF JobRevisionAgreement
<1>7. OutboxMatchesOutcome' /\ ObjectAnnounced'
  BY <1>1, <1>2, IngestParts, AgreedNow DEF OutboxMatchesOutcome, ObjectAnnounced, Waiting
<1> QED BY <1>4, <1>5, <1>6, <1>7 DEF Tables, IngestInvariant

LEMMA TakeStep ==
  ASSUME IngestInvariant, QueueInvariant', NEW w \in Workers, NEW j \in Jobs, TakeJob(w, j)
  PROVE  IngestInvariant' /\ SameRows
<1>1. /\ job' = [job EXCEPT ![j] = ClaimedRow(job[j])] /\ job[j].state \in {"queued", "retry_wait", "running"}
      /\ phase' = [phase EXCEPT ![w] = "mark"] /\ UNCHANGED <<doc, rev, outbox, listing>>
  BY DEF TakeJob, Take, Claimable, Expired, Waiting
<1>2. job'[j].state = "running" /\ \A i \in Jobs \ {j} : job'[i] = job[i]
  BY <1>1, IngestParts, ClaimedRowEffect
<1>3. Agreed("running", rev[j]) /\ rev[j].key = "object" /\ rev[j] \in RevisionRow
  BY <1>1, IngestParts, AgreedNow DEF Agreed
<1>4. phase' \in [Workers -> Phases] /\ listing' \in SUBSET Jobs /\ rev' = [rev EXCEPT ![j] = rev[j]]
  BY <1>1, IngestParts DEF Phases
<1>5. job'[j].state = "succeeded" <=> job[j].state = "succeeded"
  BY <1>1, <1>2
<1>6. SamePlace(rev[j], rev[j])
  BY DEF SamePlace
<1>7. \A i \in Jobs \ {j} : job'[i].state = job[i].state
  BY <1>2
<1>8. Agreed(job'[j].state, rev[j])
  BY <1>2, <1>3
<1> QED BY <1>1, <1>3, <1>4, <1>5, <1>6, <1>7, <1>8, MovesTogether

LEMMA MarkStep ==
  ASSUME IngestInvariant, QueueInvariant, QueueInvariant', NEW w \in Workers, MarkProcessing(w)
  PROVE  IngestInvariant' /\ SameRows
<1> DEFINE j == claim[w].job
           s == [rev[j] EXCEPT !.status = "processing"]
<1>1. j \in Jobs /\ job[j].state = "running"
  BY OwnedRuns DEF MarkProcessing, SetProgress, MayWrite
<1>2. /\ rev' = [rev EXCEPT ![j] = s] /\ UNCHANGED <<job, doc, outbox, listing>>
      /\ phase' = [phase EXCEPT ![w] = "cp5"]
      /\ rev[j].status \in {"pending", "processing"} /\ rev[j].key = "object"
  BY DEF MarkProcessing, SetProgress, queueVars
<1>3. rev[j] \in RevisionRow
  BY <1>1, IngestParts
<1>4. /\ s \in RevisionRow /\ s.status = "processing" /\ s.key = rev[j].key
      /\ s.chunks = rev[j].chunks /\ s.live = rev[j].live /\ s.document = rev[j].document
      /\ s.version = rev[j].version
  BY <1>3 DEF RevisionRow, RevisionStatus, Unsettled
<1>5. ~rev[j].chunks
  BY <1>1, IngestParts, AgreedNow DEF Agreed
<1>6. phase' \in [Workers -> Phases] /\ listing' \in SUBSET Jobs
  BY <1>2, IngestParts DEF Phases, Checkpoints
<1> HIDE DEF j, s
<1>7. Agreed(job'[j].state, s) /\ SamePlace(rev[j], s)
  BY <1>1, <1>2, <1>4, <1>5 DEF Agreed, SamePlace
<1> QED BY <1>1, <1>2, <1>4, <1>6, <1>7, MovesTogether

LEMMA StopStep ==
  ASSUME IngestInvariant, QueueInvariant, QueueInvariant', NEW w \in Workers, StopAtCheckpoint(w)
  PROVE  IngestInvariant' /\ SameRows
<1> DEFINE j == claim[w].job
           s == Settled(rev[j], "cancelled")
           r == Leave(job[j], "cancelled")
<1>1. j \in Jobs /\ job[j].state = "running"
  BY OwnedRuns DEF StopAtCheckpoint, AcknowledgeCancellation
<1>2. /\ rev' = [rev EXCEPT ![j] = s] /\ UNCHANGED <<doc, outbox, listing>>
      /\ phase' = [phase EXCEPT ![w] = "none"] /\ job' = [job EXCEPT ![j] = r]
  BY DEF StopAtCheckpoint, AcknowledgeCancellation
<1>3. rev[j] \in RevisionRow /\ job[j] \in JobRow
  BY <1>1, IngestParts
<1>4. rev[j].key = "object" /\ rev[j].status \in {"pending", "processing"} /\ ~rev[j].chunks
  BY <1>1, IngestParts, AgreedNow DEF Agreed
<1>5. r.state = "cancelled"
  BY <1>3, LeaveRow, StateNames
<1>6. /\ s \in RevisionRow /\ s.status = "cancelled" /\ s.key = rev[j].key
      /\ s.chunks = rev[j].chunks /\ s.live = rev[j].live /\ s.document = rev[j].document
      /\ s.version = rev[j].version
  BY <1>3, <1>4, SettledRow DEF RevisionStatus, Unsettled
<1>7. phase' \in [Workers -> Phases] /\ listing' \in SUBSET Jobs
  BY <1>2, IngestParts DEF Phases
<1> HIDE DEF j, s, r
<1>8. job'[j].state = "cancelled" /\ \A i \in Jobs \ {j} : job'[i] = job[i]
  BY <1>1, <1>2, <1>5, IngestParts
<1>9. Agreed(job'[j].state, s) /\ SamePlace(rev[j], s)
  BY <1>4, <1>6, <1>8 DEF Agreed, SamePlace
<1> QED BY <1>1, <1>2, <1>4, <1>6, <1>7, <1>8, <1>9, MovesTogether

LEMMA FailureStep ==
  ASSUME IngestInvariant, QueueInvariant, QueueInvariant', NEW w \in Workers, RecordFailure(w)
  PROVE  IngestInvariant' /\ SameRows
<1> DEFINE j == claim[w].job
           retry == phase[w] = "fail_retry"
           q == phase[w] = "fail_quarantine"
           r == FailedRow(job[j], retry)
           t == FailureStatus(r.state, q)
           s == Settled(rev[j], t)
<1>1. j \in Jobs /\ job[j].state = "running"
  BY OwnedRuns DEF RecordFailure, Fail
<1>2. /\ rev' = [rev EXCEPT ![j] = s] /\ UNCHANGED <<doc, outbox, listing>>
      /\ phase' = [phase EXCEPT ![w] = "none"] /\ job' = [job EXCEPT ![j] = r]
  BY DEF RecordFailure, Fail
<1>3. rev[j] \in RevisionRow /\ job[j] \in JobRow /\ retry \in BOOLEAN /\ q \in BOOLEAN
  BY <1>1, IngestParts
<1>4. rev[j].key = "object" /\ rev[j].status \in {"pending", "processing"} /\ ~rev[j].chunks
  BY <1>1, IngestParts, AgreedNow DEF Agreed
<1> HIDE DEF retry, q
<1>5. \/ r.state = "retry_wait" /\ t = "pending"
      \/ r.state = "cancelled" /\ t = "cancelled"
      \/ r.state = "failed" /\ t \in {"failed", "quarantined"}
  BY <1>3, FailureState
<1> HIDE DEF r, t
<1>6. /\ s \in RevisionRow /\ s.status = t /\ s.key = rev[j].key
      /\ s.chunks = rev[j].chunks /\ s.live = rev[j].live /\ s.document = rev[j].document
      /\ s.version = rev[j].version
  <2>1. t \in RevisionStatus
    BY <1>5 DEF RevisionStatus, Unsettled
  <2> QED BY <1>3, <1>4, <2>1, SettledRow DEF Unsettled
<1>7. phase' \in [Workers -> Phases] /\ listing' \in SUBSET Jobs
  BY <1>2, IngestParts DEF Phases
<1> HIDE DEF j, s
<1>8. job'[j] = r /\ \A i \in Jobs \ {j} : job'[i] = job[i]
  BY <1>1, <1>2, IngestParts
<1>9. Agreed(job'[j].state, s) /\ SamePlace(rev[j], s) /\ job'[j].state # "succeeded"
  BY <1>4, <1>5, <1>6, <1>8 DEF Agreed, SamePlace
<1> QED BY <1>1, <1>2, <1>4, <1>6, <1>7, <1>8, <1>9, MovesTogether

\* The old revision steps down, the new one takes its place: that it is the
\* newest is what VersionOrder is for.
LEMMA ActivateStep ==
  ASSUME IngestInvariant, QueueInvariant, QueueInvariant', NEW w \in Workers, Activate(w)
  PROVE  /\ IngestInvariant'
         /\ LET j == claim[w].job
                d == rev[j].document IN
            /\ j \in Jobs /\ d \in Documents
            /\ \A i \in Jobs : /\ rev'[i].document = rev[i].document /\ rev'[i].version = rev[i].version
                               /\ rev'[i].chunks <=> (i = j \/ rev[i].chunks)
                               /\ rev'[i].live <=> (i = j \/ (rev[i].live /\ rev[i].document # d))
            /\ rev[j].version > 0 /\ ~rev[j].chunks
            /\ \A e \in Documents : doc'[e].archived = doc[e].archived
<1> DEFINE j == claim[w].job
           d == rev[j].document
           old == doc[d].current
           s == [rev[j] EXCEPT !.status = "active", !.chunks = TRUE, !.live = TRUE]
           t == [rev[old] EXCEPT !.live = FALSE, !.status = IF @ = "active" THEN "ready" ELSE @]
           r == Leave(job[j], "succeeded")
<1>1. j \in Jobs /\ job[j].state = "running"
  BY OwnedRuns DEF Activate, Complete, MayWrite
<1>2. rev[j] \in RevisionRow /\ job[j] \in JobRow /\ d \in Documents /\ old \in Jobs \cup {NoJob}
  BY <1>1, IngestParts, IngestTypes
<1>3. /\ rev[j].key = "object" /\ rev[j].status \in {"pending", "processing"} /\ ~rev[j].chunks
      /\ rev[j].version > 0 /\ <<j, "queued">> \in outbox
  <2>1. rev[j].key = "object" /\ rev[j].status \in {"pending", "processing"} /\ ~rev[j].chunks
        /\ <<j, "queued">> \in outbox
    BY <1>1, IngestParts, AgreedNow DEF Agreed
  <2> QED BY <1>1, <2>1, IngestParts DEF Lineage, RowsVersioned
<1>4. old # j
  BY <1>1, <1>3, IngestParts DEF Lineage, OneSearchable
<1>5. old # NoJob => old \in Jobs /\ rev[old].document = d /\ rev[old].status = "active"
  <2>1. old # NoJob => old \in Jobs /\ rev[old].document = d
    BY <1>2, IngestParts DEF Lineage, CurrentIsOwn
  <2> QED BY <2>1, IngestParts DEF Lineage, OneSearchable
<1>6. \A i \in Jobs : rev[i].live /\ rev[i].document = d => i = old
  BY <1>2, IngestParts DEF Lineage, OneSearchable
<1>7. /\ s \in RevisionRow /\ s.status = "active" /\ s.chunks /\ s.live /\ s.key = rev[j].key
      /\ s.document = d /\ s.version = rev[j].version
  <2> HIDE DEF d
  <2>1. s \in RevisionRow
    BY <1>2 DEF RevisionRow, RevisionStatus, Unsettled
  <2>2. s.status = "active" /\ s.chunks /\ s.live /\ s.key = rev[j].key
        /\ s.document = rev[j].document /\ s.version = rev[j].version
    BY <1>2 DEF RevisionRow
  <2> QED BY <2>1, <2>2 DEF d
<1>8. old # NoJob => /\ t \in RevisionRow /\ t.status = "ready" /\ ~t.live /\ t.key = rev[old].key
                     /\ t.document = rev[old].document /\ t.version = rev[old].version
                     /\ t.chunks = rev[old].chunks
  <2> SUFFICES ASSUME old # NoJob PROVE /\ t \in RevisionRow /\ t.status = "ready" /\ ~t.live /\ t.key = rev[old].key
                     /\ t.document = rev[old].document /\ t.version = rev[old].version
                     /\ t.chunks = rev[old].chunks
    OBVIOUS
  <2>1. rev[old] \in RevisionRow /\ rev[old].status = "active"
    BY <1>5, IngestParts
  <2> HIDE DEF old
  <2>2. t = [rev[old] EXCEPT !.live = FALSE, !.status = "ready"]
    BY <2>1 DEF RevisionRow
  <2> HIDE DEF t
  <2>3. [rev[old] EXCEPT !.live = FALSE, !.status = "ready"] \in RevisionRow
    BY <2>1 DEF RevisionRow, RevisionStatus, Unsettled
  <2> QED BY <2>1, <2>2, <2>3 DEF RevisionRow
<1>9. /\ job' = [job EXCEPT ![j] = r] /\ doc' = [doc EXCEPT ![d].current = j]
      /\ outbox' = outbox \cup {<<j, "succeeded">>}
      /\ phase' = [phase EXCEPT ![w] = "none"] /\ UNCHANGED listing
  BY DEF Activate, Complete
<1>10. r.state = "succeeded"
  BY <1>2, LeaveRow, StateNames
<1>11. /\ rev' \in [Jobs -> RevisionRow]
       /\ rev'[j] = s
       /\ old # NoJob => rev'[old] = t
       /\ \A i \in Jobs \ {j, old} : rev'[i] = rev[i]
  <2>1. CASE old = NoJob
    <3>1. rev' = [rev EXCEPT ![j] = s]
      BY <2>1 DEF Activate
    <3> HIDE DEF s, t, d, old, j
    <3> QED BY <1>1, <1>7, <2>1, <3>1, IngestParts
  <2>2. CASE old # NoJob
    <3> DEFINE mid == [rev EXCEPT ![old] = t]
    <3>1. [rev EXCEPT ![old].live = FALSE, ![old].status = IF @ = "active" THEN "ready" ELSE @] = mid
      BY <1>5, <2>2, IngestParts
    <3>2. rev' = [mid EXCEPT ![j].status = "active", ![j].chunks = TRUE, ![j].live = TRUE]
      BY <2>2, <3>1 DEF Activate
    <3>3. mid \in [Jobs -> RevisionRow] /\ mid[j] = rev[j] /\ mid[old] = t
          /\ \A i \in Jobs \ {j, old} : mid[i] = rev[i]
      BY <1>1, <1>4, <1>5, <1>8, <2>2, IngestParts
    <3> HIDE DEF mid
    <3>4. rev' = [mid EXCEPT ![j] = s]
      BY <1>1, <3>2, <3>3
    <3> HIDE DEF s, t, d, old, j
    <3> QED BY <1>1, <1>4, <1>5, <1>7, <2>2, <3>3, <3>4
  <2> QED BY <2>1, <2>2
<1>12. job'[j].state = "succeeded" /\ \A i \in Jobs \ {j} : job'[i] = job[i]
  BY <1>1, <1>9, <1>10, IngestParts
<1>13. /\ doc' \in [Documents -> DocumentRow] /\ doc'[d].current = j
       /\ \A e \in Documents \ {d} : doc'[e] = doc[e]
       /\ \A e \in Documents : doc'[e].archived = doc[e].archived /\ doc'[e].exists = doc[e].exists
  <2> DEFINE q == [doc[d] EXCEPT !.current = j]
  <2>1. doc[d] \in DocumentRow /\ j \in Jobs
    BY <1>1, <1>2, IngestParts
  <2>2. doc' = [doc EXCEPT ![d] = q]
    BY <1>9
  <2> HIDE DEF j
  <2>3. q \in DocumentRow /\ q.current = j /\ q.archived = doc[d].archived /\ q.exists = doc[d].exists
    BY <2>1 DEF DocumentRow
  <2> HIDE DEF q, d
  <2> QED BY <1>2, <2>2, <2>3, IngestParts
<1>14. phase' \in [Workers -> Phases] /\ listing' \in SUBSET Jobs
  BY <1>9, IngestParts DEF Phases
<1>15. /\ outbox \subseteq outbox' /\ outbox' \subseteq Jobs \X {"queued", "succeeded", "integrity"}
       /\ <<j, "succeeded">> \in outbox' /\ <<j, "queued">> \in outbox'
       /\ \A i \in Jobs \ {j}, e \in {"succeeded"} : <<i, e>> \in outbox' => <<i, e>> \in outbox
       /\ \A i \in Jobs : <<i, "queued">> \in outbox' <=> <<i, "queued">> \in outbox
  <2>1. outbox \subseteq Jobs \X {"queued", "succeeded", "integrity"} /\ j \in Jobs /\ <<j, "queued">> \in outbox
    BY <1>1, <1>3, IngestParts
  <2>2. outbox' = outbox \cup {<<j, "succeeded">>}
    BY <1>9
  <2> HIDE DEF j
  <2>3. outbox \subseteq outbox' /\ outbox' \subseteq Jobs \X {"queued", "succeeded", "integrity"}
    BY <2>1, <2>2
  <2>4. \A i, e : e = "queued" \/ i # j => (<<i, e>> \in outbox' <=> <<i, e>> \in outbox)
    BY <2>2
  <2> QED BY <2>1, <2>2, <2>3, <2>4
<1>16. \A i \in Jobs : i = j \/ (i = old /\ old # NoJob) \/ i \in Jobs \ {j, old}
  BY QueueAssumption
<1>17. old # NoJob => job[old].state = "succeeded"
  <2>1. old # NoJob => Agreed(job[old].state, rev[old]) /\ job[old].state \in States
    BY <1>5, IngestParts, AgreedNow, IngestTypes
  <2> QED BY <1>5, <2>1 DEF Agreed, States, Waiting, Terminal
<1> HIDE DEF s, t, r, old, j
<1>20. \A i \in Jobs : Agreed(job'[i].state, rev'[i])
  <2> SUFFICES ASSUME NEW i \in Jobs PROVE Agreed(job'[i].state, rev'[i])
    OBVIOUS
  <2>1. CASE i = j
    BY <1>7, <1>11, <1>12, <2>1 DEF Agreed
  <2>2. CASE i = old /\ old # NoJob
    <3>1. rev[old].chunks
      BY <1>5, <1>17, <2>2, IngestParts, AgreedNow DEF Agreed
    <3> QED BY <1>4, <1>8, <1>11, <1>12, <1>17, <2>2, <3>1 DEF Agreed
  <2>3. CASE i \in Jobs \ {j, old}
    BY <1>11, <1>12, <2>3, IngestParts, AgreedNow
  <2> QED BY <1>16, <2>1, <2>2, <2>3
<1>21. JobRevisionAgreement'
  BY <1>20, IngestParts, AgreeIsAgreed DEF JobRevisionAgreement, JobRow
<1>22. TypeOK'
  BY <1>11, <1>13, <1>14, <1>15, IngestParts DEF TypeOK
<1>23. OutboxMatchesOutcome'
  BY <1>12, <1>15, IngestParts, AgreedNow DEF OutboxMatchesOutcome, Waiting
<1>24. ObjectAnnounced'
  <2> SUFFICES ASSUME NEW i \in Jobs, rev'[i].key = "object" PROVE <<i, "queued">> \in outbox'
    BY DEF ObjectAnnounced
  <2>1. rev[i].key = "object"
    BY <1>3, <1>8, <1>11, <1>16
  <2> QED BY <1>15, <2>1, IngestParts, AgreedNow
<1>25. \A i \in Jobs : /\ rev'[i].document = rev[i].document /\ rev'[i].version = rev[i].version
                       /\ rev'[i].chunks <=> (i = j \/ rev[i].chunks)
                       /\ rev'[i].live <=> (i = j \/ (rev[i].live /\ rev[i].document # d))
                       /\ rev'[i].status = "active" <=> (i = j \/ (rev[i].status = "active" /\ i # old))
                       /\ rev'[i].status = "none" <=> rev[i].status = "none"
  <2> SUFFICES ASSUME NEW i \in Jobs
               PROVE  /\ rev'[i].document = rev[i].document /\ rev'[i].version = rev[i].version
                      /\ rev'[i].chunks <=> (i = j \/ rev[i].chunks)
                      /\ rev'[i].live <=> (i = j \/ (rev[i].live /\ rev[i].document # d))
                      /\ rev'[i].status = "active" <=> (i = j \/ (rev[i].status = "active" /\ i # old))
                      /\ rev'[i].status = "none" <=> rev[i].status = "none"
    OBVIOUS
  <2>1. CASE i = j
    BY <1>3, <1>7, <1>11, <2>1 DEF d
  <2>2. CASE i = old /\ old # NoJob
    BY <1>4, <1>5, <1>8, <1>11, <2>2
  <2>3. CASE i \in Jobs \ {j, old}
    BY <1>6, <1>11, <2>3
  <2> QED BY <1>16, <2>1, <2>2, <2>3
<1>26. \A i \in Jobs : rev[i].document = d /\ rev[i].version > 0 /\ i # j
                          => rev[i].chunks /\ rev[i].version < rev[j].version
  BY <1>1, <1>3, IngestParts DEF Lineage, VersionOrder, d
<1>27. \A i \in Jobs : /\ rev[i].live => rev[i].status = "active"
                       /\ rev[i].status = "active" <=> doc[rev[i].document].current = i
                       /\ rev[i].document \in Documents /\ rev[i].version \in Nat
  BY IngestParts, IngestTypes DEF Lineage, OneSearchable
<1>28. OneSearchable'
  <2> SUFFICES ASSUME NEW i \in Jobs
               PROVE  /\ rev'[i].live => rev'[i].status = "active"
                      /\ rev'[i].status = "active" <=> doc'[rev'[i].document].current = i
    BY DEF OneSearchable
  <2>1. CASE i = j
    BY <1>13, <1>25, <2>1 DEF d
  <2>2. CASE i # j /\ rev[i].document = d
    BY <1>6, <1>13, <1>25, <1>27, <2>2 DEF old
  <2>3. CASE i # j /\ rev[i].document # d
    <3>1. i # old \/ old = NoJob
      BY <1>5, <2>3
    <3> QED BY <1>13, <1>25, <1>27, <2>3, <3>1, QueueAssumption
  <2> QED BY <2>1, <2>2, <2>3
<1>29. VersionOrder'
  <2> SUFFICES ASSUME NEW i \in Jobs, NEW k \in Jobs, i # k, rev'[i].document = rev'[k].document,
                      rev'[i].version > 0, rev'[k].version > 0, ~rev'[k].chunks
               PROVE  rev'[i].chunks /\ rev'[i].version < rev'[k].version
    BY DEF VersionOrder
  <2>1. k # j /\ ~rev[k].chunks /\ rev[k].document # d
    BY <1>25, <1>26
  <2> QED BY <1>25, <2>1, IngestParts DEF Lineage, VersionOrder
<1>30. RowsVersioned'
  BY <1>3, <1>13, <1>25, <1>27, IngestParts DEF Lineage, RowsVersioned
<1>31. CurrentIsOwn'
  <2> SUFFICES ASSUME NEW e \in Documents, doc'[e].current # NoJob
               PROVE  rev'[doc'[e].current].document = e
    BY DEF CurrentIsOwn
  <2>1. CASE e = d
    BY <1>1, <1>13, <1>25, <2>1 DEF d
  <2>2. CASE e # d
    <3>1. doc'[e] = doc[e] /\ doc[e].current \in Jobs /\ rev[doc[e].current].document = e
      BY <1>13, <2>2, IngestParts, IngestTypes DEF Lineage, CurrentIsOwn
    <3> QED BY <1>25, <3>1
  <2> QED BY <2>1, <2>2
<1>32. NextInLine'
  <2> SUFFICES ASSUME NEW e \in Documents, NEW i \in Jobs, doc'[e].current # NoJob, rev'[i].document = e,
                      rev'[i].version > 0
               PROVE  IF rev'[i].chunks THEN rev'[i].version <= rev'[doc'[e].current].version
                                        ELSE rev'[i].version = rev'[doc'[e].current].version + 1
    BY DEF NextInLine
  <2>1. CASE e = d
    <3>1. rev'[i].chunks /\ rev'[i].version <= rev[j].version
      BY <1>1, <1>25, <1>26, <1>27, <2>1
    <3>2. rev'[doc'[e].current].version = rev[j].version
      BY <1>1, <1>13, <1>25, <2>1
    <3> QED BY <3>1, <3>2
  <2>2. CASE e # d
    <3>1. doc'[e] = doc[e] /\ doc[e].current \in Jobs /\ i # j
      BY <1>13, <1>25, <2>2, IngestParts, IngestTypes DEF d
    <3>2. rev'[doc[e].current].version = rev[doc[e].current].version
      BY <1>25, <3>1
    <3> QED BY <1>25, <3>1, <3>2, IngestParts DEF Lineage, NextInLine
  <2> QED BY <2>1, <2>2
<1>33. IngestInvariant'
  BY <1>21, <1>22, <1>23, <1>24, <1>28, <1>29, <1>30, <1>31, <1>32 DEF Tables, Lineage, IngestInvariant
<1> QED BY <1>1, <1>2, <1>3, <1>13, <1>25, <1>33 DEF j, d

-----------------------------------------------------------------------------
(* The management API and storage maintenance.                              *)

LEMMA ArchiveStep ==
  ASSUME IngestInvariant, QueueInvariant', NEW d \in Documents, Archive(d)
  PROVE  IngestInvariant'
<1>1. /\ doc' = [doc EXCEPT ![d].archived = TRUE]
      /\ rev' = [i \in Jobs |-> IF rev[i].document = d THEN [rev[i] EXCEPT !.live = FALSE] ELSE rev[i]]
      /\ UNCHANGED <<job, claim, phase, outbox, listing>>
  BY DEF Archive
<1>2. ASSUME NEW i \in Jobs
      PROVE  /\ rev'[i] \in RevisionRow
             /\ rev'[i].live => rev[i].live
             /\ rev'[i].document = rev[i].document /\ rev'[i].version = rev[i].version
             /\ rev'[i].chunks = rev[i].chunks /\ rev'[i].status = rev[i].status /\ rev'[i].key = rev[i].key
  <2> DEFINE s == [rev[i] EXCEPT !.live = FALSE]
  <2>1. rev[i] \in RevisionRow /\ (rev'[i] = s \/ rev'[i] = rev[i])
    BY <1>1, IngestParts
  <2>2. /\ s \in RevisionRow /\ ~s.live /\ s.document = rev[i].document /\ s.version = rev[i].version
        /\ s.chunks = rev[i].chunks /\ s.status = rev[i].status /\ s.key = rev[i].key
    BY <2>1 DEF RevisionRow
  <2> HIDE DEF s
  <2> QED BY <2>1, <2>2
<1>3. /\ doc' \in [Documents -> DocumentRow]
      /\ \A e \in Documents : doc'[e].current = doc[e].current /\ doc'[e].exists = doc[e].exists
  BY <1>1, IngestParts DEF DocumentRow
<1>4. rev' \in [Jobs -> RevisionRow]
  <2>1. rev' = [i \in Jobs |-> rev'[i]]
    BY <1>1
  <2> QED BY <1>2, <2>1
<1>5. TypeOK'
  BY <1>1, <1>3, <1>4, IngestParts DEF TypeOK
<1>6. ASSUME NEW i \in Jobs PROVE Agreed(job'[i].state, rev'[i])
  <2>1. Agreed(job[i].state, rev[i])
    BY IngestParts, AgreedNow
  <2>2. /\ job'[i] = job[i] /\ rev'[i].status = rev[i].status
        /\ rev'[i].key = rev[i].key /\ rev'[i].chunks = rev[i].chunks
    BY <1>1, <1>2
  <2> QED BY <2>1, <2>2 DEF Agreed
<1>7. JobRevisionAgreement'
  BY <1>6, IngestParts, AgreeIsAgreed DEF JobRevisionAgreement, JobRow
<1>8. OutboxMatchesOutcome' /\ ObjectAnnounced'
  BY <1>1, <1>2, IngestParts DEF Tables, OutboxMatchesOutcome, ObjectAnnounced
<1>9. \A i \in Jobs : /\ rev'[i].live => rev[i].live
                      /\ rev'[i].document = rev[i].document /\ rev'[i].version = rev[i].version
                      /\ rev'[i].chunks = rev[i].chunks /\ rev'[i].status = rev[i].status
                      /\ rev[i].document \in Documents
  BY <1>2, IngestParts, IngestTypes
<1>10. OneSearchable'
  BY <1>3, <1>9, IngestParts DEF Lineage, OneSearchable
<1>11. VersionOrder'
  BY <1>9, IngestParts DEF Lineage, VersionOrder
<1>12. RowsVersioned'
  BY <1>3, <1>9, IngestParts DEF Lineage, RowsVersioned
<1>13. \A e \in Documents : doc[e].current \in Jobs \cup {NoJob}
  BY IngestParts, IngestTypes
<1>14. CurrentIsOwn'
  BY <1>3, <1>9, <1>13, IngestParts DEF Lineage, CurrentIsOwn
<1>15. NextInLine'
  BY <1>3, <1>9, <1>13, IngestParts DEF Lineage, NextInLine
<1> QED BY <1>5, <1>7, <1>8, <1>10, <1>11, <1>12, <1>14, <1>15 DEF Tables, Lineage, IngestInvariant

\* A job failed from outside: what may become of a revision that was not published.
LEMMA OutsideFailure ==
  ASSUME IngestInvariant, QueueInvariant', NEW j \in Jobs, FailUnlessTerminal(j)
  PROVE  /\ \A i \in Jobs \ {j} : job'[i].state = job[i].state
         /\ \/ job[j].state \in {"succeeded", "failed", "cancelled"} /\ job'[j].state = job[j].state
            \/ job[j].state \in {"preparing", "queued", "retry_wait", "running"} /\ job'[j].state = "failed"
<1>1. job[j] \in JobRow
  BY IngestParts
<1>2. CASE job[j].state \in Terminal
  BY <1>2 DEF FailUnlessTerminal, queueVars, Terminal
<1>3. CASE job[j].state \notin Terminal
  <2>1. job' = [job EXCEPT ![j] = Leave(job[j], "failed")] /\ job[j].state \notin Terminal \cup {"absent"}
    BY <1>3 DEF FailUnlessTerminal, ForceFail
  <2>2. Leave(job[j], "failed").state = "failed"
    BY <1>1, LeaveRow, StateNames
  <2> QED BY <1>1, <2>1, <2>2, IngestParts DEF JobRow, States, Terminal, Waiting
<1> QED BY <1>2, <1>3

LEMMA ExpiredStagingStep ==
  ASSUME IngestInvariant, QueueInvariant', NEW j \in Jobs, FailExpiredStaging(j)
  PROVE  IngestInvariant' /\ SameRows
<1> DEFINE fails == rev[j].key # "object" /\ rev[j].status \in {"pending", "processing"}
           s == IF fails THEN [rev[j] EXCEPT !.key = "none", !.status = "failed"] ELSE rev[j]
<1>1. /\ rev' = [rev EXCEPT ![j] = s] /\ UNCHANGED <<doc, phase, outbox>> /\ listing' = listing \ {j}
      /\ FailUnlessTerminal(j)
  BY DEF FailExpiredStaging
<1>2. /\ \A i \in Jobs \ {j} : job'[i].state = job[i].state
      /\ \/ job[j].state \in {"succeeded", "failed", "cancelled"} /\ job'[j].state = job[j].state
         \/ job[j].state \in {"preparing", "queued", "retry_wait", "running"} /\ job'[j].state = "failed"
  BY <1>1, OutsideFailure
<1>3. rev[j] \in RevisionRow
  BY IngestParts
<1>4. /\ s \in RevisionRow /\ SamePlace(rev[j], s) /\ s.chunks = rev[j].chunks
      /\ fails => s.key = "none" /\ s.status = "failed"
      /\ ~fails => s = rev[j]
  <2>1. CASE fails
    <3> DEFINE q == [rev[j] EXCEPT !.key = "none", !.status = "failed"]
    <3>1. /\ q \in RevisionRow /\ q.key = "none" /\ q.status = "failed" /\ q.document = rev[j].document
          /\ q.version = rev[j].version /\ q.chunks = rev[j].chunks /\ q.live = rev[j].live
      BY <1>3 DEF RevisionRow, RevisionStatus, Unsettled
    <3>2. s = q
      BY <2>1
    <3> HIDE DEF q, s
    <3> QED BY <2>1, <3>1, <3>2 DEF SamePlace
  <2>2. CASE ~fails
    BY <1>3, <2>2 DEF SamePlace
  <2> QED BY <2>1, <2>2
<1> HIDE DEF s
<1>5. rev'[j] = s /\ (\A i \in Jobs \ {j} : rev'[i] = rev[i]) /\ rev' \in [Jobs -> RevisionRow]
  BY <1>1, <1>4, IngestParts
<1>6. SameRows /\ Lineage'
  <2>1. \A i \in Jobs : SamePlace(rev[i], rev'[i])
    BY <1>4, <1>5 DEF SamePlace
  <2> QED BY <1>1, <2>1, IngestParts, LineageStays DEF SameRows
<1>7. Agreed(job'[j].state, s)
  BY <1>2, <1>4, IngestParts, AgreedNow DEF Agreed
<1>8. s.key = "object" => <<j, "queued">> \in outbox
  BY <1>4, IngestParts, AgreedNow
<1>9. job'[j].state = "succeeded" <=> job[j].state = "succeeded"
  BY <1>2
<1>10. job'[j].state \in {"queued", "retry_wait", "running", "succeeded"} => <<j, "queued">> \in outbox
  BY <1>2, IngestParts, AgreedNow
<1>11. /\ doc' \in [Documents -> DocumentRow] /\ phase' \in [Workers -> Phases]
       /\ listing' \in SUBSET Jobs /\ outbox' = outbox
  BY <1>1, IngestParts
<1>12. Tables'
  BY <1>2, <1>5, <1>7, <1>8, <1>9, <1>10, <1>11, IngestParts, AgreedNow, TablesOfOne
<1> QED BY <1>6, <1>12 DEF IngestInvariant

LEMMA QuarantineStep ==
  ASSUME IngestInvariant, QueueInvariant', NEW j \in Jobs, Quarantine(j)
  PROVE  IngestInvariant'
<1> DEFINE s == [rev[j] EXCEPT !.status = "quarantined", !.live = FALSE]
<1>1. /\ rev[j].key = "object" /\ FailUnlessTerminal(j)
      /\ rev' = [rev EXCEPT ![j] = s]
      /\ doc' = [d \in Documents |-> IF doc[d].current = j THEN [doc[d] EXCEPT !.current = NoJob] ELSE doc[d]]
      /\ outbox' = outbox \cup {<<j, "integrity">>} /\ UNCHANGED <<phase, listing>>
  BY DEF Quarantine
<1>2. /\ \A i \in Jobs \ {j} : job'[i].state = job[i].state
      /\ \/ job[j].state \in {"succeeded", "failed", "cancelled"} /\ job'[j].state = job[j].state
         \/ job[j].state \in {"preparing", "queued", "retry_wait", "running"} /\ job'[j].state = "failed"
  BY <1>1, OutsideFailure
<1>3. /\ s \in RevisionRow /\ s.status = "quarantined" /\ ~s.live /\ s.key = rev[j].key
      /\ s.document = rev[j].document /\ s.version = rev[j].version /\ s.chunks = rev[j].chunks
  <2>1. rev[j] \in RevisionRow
    BY IngestParts
  <2> QED BY <2>1 DEF RevisionRow, RevisionStatus, Unsettled
<1> HIDE DEF s
<1>4. rev'[j] = s /\ (\A i \in Jobs \ {j} : rev'[i] = rev[i]) /\ rev' \in [Jobs -> RevisionRow]
  BY <1>1, <1>3, IngestParts
<1>5. /\ doc' \in [Documents -> DocumentRow]
      /\ \A d \in Documents : /\ doc'[d].current = IF doc[d].current = j THEN NoJob ELSE doc[d].current
                              /\ doc'[d].exists = doc[d].exists /\ doc'[d].archived = doc[d].archived
  <2>1. ASSUME NEW d \in Documents
        PROVE  /\ doc'[d] \in DocumentRow
               /\ doc'[d].current = IF doc[d].current = j THEN NoJob ELSE doc[d].current
               /\ doc'[d].exists = doc[d].exists /\ doc'[d].archived = doc[d].archived
    <3> DEFINE q == [doc[d] EXCEPT !.current = NoJob]
    <3>1. doc[d] \in DocumentRow /\ doc'[d] = IF doc[d].current = j THEN q ELSE doc[d]
      BY <1>1, IngestParts
    <3>2. q \in DocumentRow /\ q.current = NoJob /\ q.exists = doc[d].exists /\ q.archived = doc[d].archived
      BY <3>1 DEF DocumentRow
    <3> HIDE DEF q
    <3> QED BY <3>1, <3>2
  <2> QED BY <1>1, <2>1
<1>6. rev[j].status # "none" /\ <<j, "queued">> \in outbox
  BY <1>1, <1>2, IngestParts, AgreedNow DEF Agreed
<1>7. Agreed(job'[j].state, s)
  BY <1>1, <1>2, <1>3, IngestParts, AgreedNow DEF Agreed
<1>8. /\ outbox \subseteq outbox' /\ outbox' \subseteq Jobs \X {"queued", "succeeded", "integrity"}
      /\ \A i \in Jobs, e \in {"succeeded", "queued"} : <<i, e>> \in outbox' <=> <<i, e>> \in outbox
  BY <1>1, IngestParts
<1>9. <<j, "succeeded">> \in outbox <=> job'[j].state = "succeeded"
  BY <1>2, IngestParts, AgreedNow
<1>10. phase' \in [Workers -> Phases] /\ listing' \in SUBSET Jobs
  BY <1>1, IngestParts
<1>11. Tables'
  BY <1>2, <1>4, <1>5, <1>6, <1>7, <1>8, <1>9, <1>10, IngestParts, TablesOfOne
<1>12. \A i \in Jobs : /\ rev'[i].document = rev[i].document /\ rev'[i].version = rev[i].version
                       /\ rev'[i].chunks = rev[i].chunks
                       /\ rev'[i].status = "none" <=> rev[i].status = "none"
                       /\ rev'[i].status = "active" <=> (rev[i].status = "active" /\ i # j)
                       /\ rev'[i].live <=> (rev[i].live /\ i # j)
  BY <1>3, <1>4, <1>6
<1>13. OneSearchable'
  <2> SUFFICES ASSUME NEW i \in Jobs
               PROVE  /\ rev'[i].live => rev'[i].status = "active"
                      /\ rev'[i].status = "active" <=> doc'[rev'[i].document].current = i
    BY DEF OneSearchable
  <2>1. /\ rev[i].live => rev[i].status = "active"
        /\ rev[i].status = "active" <=> doc[rev[i].document].current = i
        /\ rev[i].document \in Documents /\ NoJob # i
    BY IngestParts, IngestTypes, QueueAssumption DEF Lineage, OneSearchable
  <2>2. doc'[rev[i].document].current = IF doc[rev[i].document].current = j THEN NoJob ELSE doc[rev[i].document].current
    BY <1>5, <2>1
  <2> QED BY <1>12, <2>1, <2>2
<1>14. VersionOrder'
  BY <1>12, IngestParts DEF Lineage, VersionOrder
<1>15. RowsVersioned'
  BY <1>5, <1>12, IngestParts, IngestTypes DEF Lineage, RowsVersioned
<1>16. CurrentIsOwn' /\ NextInLine'
  <2>1. \A d \in Documents : doc'[d].current # NoJob => doc'[d].current = doc[d].current /\ doc[d].current \in Jobs
    BY <1>5, IngestParts, IngestTypes
  <2> QED BY <1>12, <2>1, IngestParts DEF Lineage, CurrentIsOwn, NextInLine
<1> QED BY <1>11, <1>13, <1>14, <1>15, <1>16 DEF Lineage, IngestInvariant

LEMMA StateKept ==
  ASSUME IngestInvariant, QueueInvariant', NEW j \in Jobs, NEW r, r.state = job[j].state,
         job' = [job EXCEPT ![j] = r]
  PROVE  \A i \in Jobs : job'[i].state = job[i].state
  BY IngestParts

\* Steps of the queue, or of a worker between two transactions, that no table shows.
LEMMA PrivateStep ==
  ASSUME IngestInvariant, QueueInvariant, QueueInvariant',
         \/ \E w \in Workers : FindNothing(w) \/ RenewLease(w) \/ PassCheckpoint(w) \/ DropClaim(w) \/ CrashWorker(w)
         \/ \E w \in Workers, f \in Failures : Raise(w, f)
         \/ \E j \in Jobs : CancelJob(j) \/ RetryJob(j) \/ LeaseRunsDown(j) \/ RetryFallsDue(j)
         \/ Snapshot \/ UNCHANGED vars
  PROVE  IngestInvariant' /\ SameRows
<1>1. \A j \in Jobs : job[j] \in JobRow
  BY IngestParts
<1>2. UNCHANGED <<doc, rev, outbox>>
  BY DEF FindNothing, RenewLease, PassCheckpoint, DropClaim, CrashWorker, Raise, CancelJob, RetryJob,
         LeaseRunsDown, RetryFallsDue, Snapshot, ingestVars, vars
<1>3. phase' \in [Workers -> Phases] /\ listing' \in SUBSET Jobs
  <2>1. CASE UNCHANGED <<phase, listing>> \/ (Snapshot /\ phase' = phase)
    BY <2>1, IngestParts DEF Snapshot
  <2>2. ASSUME NEW w \in Workers, PassCheckpoint(w) \/ DropClaim(w) \/ CrashWorker(w)
        PROVE  phase' \in [Workers -> Phases] /\ listing' = listing
    <3>1. \A p \in Checkpoints : NextPhase[p] \in Phases
      BY DEF Checkpoints, NextPhase, Phases
    <3> QED BY <2>2, <3>1, IngestParts DEF PassCheckpoint, DropClaim, CrashWorker, Phases
  <2>3. ASSUME NEW w \in Workers, NEW f \in Failures, Raise(w, f)
        PROVE  phase' \in [Workers -> Phases] /\ listing' = listing
    BY <2>3, IngestParts DEF Raise, Phases
  <2> QED BY <2>1, <2>2, <2>3, IngestParts DEF FindNothing, RenewLease, CancelJob, RetryJob, LeaseRunsDown,
             RetryFallsDue, Snapshot, ingestVars, vars
<1>4. \A j \in Jobs : job'[j].state = job[j].state
  <2>1. CASE UNCHANGED job
    BY <2>1
  <2>2. ASSUME NEW w \in Workers, RenewLease(w) PROVE \A j \in Jobs : job'[j].state = job[j].state
    <3>1. claim[w].job \in Jobs
      BY <2>2, OwnedRuns DEF RenewLease, Heartbeat, MayWrite
    <3>2. job' = [job EXCEPT ![claim[w].job] = [job[claim[w].job] EXCEPT !.lease = LeaseTicks]]
      BY <2>2 DEF RenewLease, Heartbeat
    <3>3. [job[claim[w].job] EXCEPT !.lease = LeaseTicks].state = job[claim[w].job].state
      BY <1>1, <3>1 DEF JobRow
    <3> QED BY <3>1, <3>2, <3>3, StateKept
  <2>3. ASSUME NEW j \in Jobs, CancelJob(j) PROVE \A i \in Jobs : job'[i].state = job[i].state
    <3>1. job' = [job EXCEPT ![j] = [job[j] EXCEPT !.cancel = TRUE, !.retry = FALSE]]
      BY <2>3 DEF CancelJob, RequestCancellation
    <3>2. [job[j] EXCEPT !.cancel = TRUE, !.retry = FALSE].state = job[j].state
      BY <1>1 DEF JobRow
    <3> QED BY <3>1, <3>2, StateKept
  <2>4. ASSUME NEW j \in Jobs, RetryJob(j) PROVE \A i \in Jobs : job'[i].state = job[i].state
    <3>1. job' = [job EXCEPT ![j] = [job[j] EXCEPT !.retry = TRUE, !.cancel = FALSE]]
      BY <2>4 DEF RetryJob, RequestRetry
    <3>2. [job[j] EXCEPT !.retry = TRUE, !.cancel = FALSE].state = job[j].state
      BY <1>1 DEF JobRow
    <3> QED BY <3>1, <3>2, StateKept
  <2>5. ASSUME NEW j \in Jobs, LeaseRunsDown(j) PROVE \A i \in Jobs : job'[i].state = job[i].state
    <3> DEFINE r == [job[j] EXCEPT !.lease = @ - 1]
    <3>1. job' = [job EXCEPT ![j] = r]
      BY <2>5 DEF LeaseRunsDown, LeaseTick
    <3>2. r.state = job[j].state
      BY <1>1 DEF JobRow
    <3> HIDE DEF r
    <3> QED BY <3>1, <3>2, StateKept
  <2>6. ASSUME NEW j \in Jobs, RetryFallsDue(j) PROVE \A i \in Jobs : job'[i].state = job[i].state
    <3>1. job' = [job EXCEPT ![j] = [job[j] EXCEPT !.due = TRUE]]
      BY <2>6 DEF RetryFallsDue, BecomeDue
    <3>2. [job[j] EXCEPT !.due = TRUE].state = job[j].state
      BY <1>1 DEF JobRow
    <3> QED BY <3>1, <3>2, StateKept
  <2>7. ASSUME NEW w \in Workers, FindNothing(w) \/ PassCheckpoint(w) \/ DropClaim(w) \/ CrashWorker(w)
        PROVE  UNCHANGED job
    BY <2>7 DEF FindNothing, TakeNothing, PassCheckpoint, SetProgress, DropClaim, LoseLease, CrashWorker, Crash, queueVars
  <2>8. ASSUME (\E w \in Workers, f \in Failures : Raise(w, f)) \/ Snapshot \/ UNCHANGED vars
        PROVE  UNCHANGED job
    BY <2>8 DEF Raise, Snapshot, vars
  <2> QED BY <2>1, <2>2, <2>3, <2>4, <2>5, <2>6, <2>7, <2>8
<1>5. SameRows
  BY <1>2 DEF SameRows, SamePlace
<1> QED BY <1>2, <1>3, <1>4, <1>5, QueueOnly

-----------------------------------------------------------------------------
(* The theorems.                                                            *)

\* Every step but these leaves the rows in their place.
Visible == \/ \E w \in Workers : Activate(w)
           \/ \E d \in Documents : Archive(d)
           \/ \E j \in Jobs : Quarantine(j) \/ \E d \in Documents : UploadNew(d, j) \/ UploadRevision(d, j)

LEMMA IngestStepKeeps ==
  ASSUME IngestInvariant, QueueInvariant, QueueInvariant', [Next]_vars
  PROVE  IngestInvariant' /\ (Visible \/ SameRows)
<1>1. ASSUME NEW w \in Workers, IngestStep(w) PROVE IngestInvariant' /\ (Visible \/ SameRows)
  <2>1. CASE FindNothing(w) \/ RenewLease(w) \/ PassCheckpoint(w) \/ DropClaim(w) \/ CrashWorker(w)
    BY <2>1, PrivateStep
  <2>2. CASE \E f \in Failures : Raise(w, f)
    BY <2>2, PrivateStep
  <2>3. CASE \E j \in Jobs : TakeJob(w, j)
    BY <2>3, TakeStep
  <2>4. CASE Activate(w)
    BY <2>4, ActivateStep DEF Visible
  <2> QED BY <1>1, <2>1, <2>2, <2>3, <2>4, SweepStep, MarkStep, StopStep, FailureStep DEF IngestStep, Process
<1>2. ASSUME NEW j \in Jobs, SourceStep(j) PROVE IngestInvariant' /\ (Visible \/ SameRows)
  <2>1. CASE CancelJob(j) \/ RetryJob(j) \/ LeaseRunsDown(j) \/ RetryFallsDue(j)
    BY <2>1, PrivateStep
  <2>2. ASSUME NEW d \in Documents, UploadNew(d, j) \/ UploadRevision(d, j) PROVE IngestInvariant' /\ Visible
    BY <2>2, UploadStep DEF Visible
  <2>3. CASE Quarantine(j)
    BY <2>3, QuarantineStep DEF Visible
  <2> QED BY <1>2, <2>1, <2>2, <2>3, FinalizeStep, ExpiredStagingStep DEF SourceStep
<1>3. ASSUME NEW d \in Documents, Archive(d) PROVE IngestInvariant' /\ Visible
  BY <1>3, ArchiveStep DEF Visible
<1>4. CASE Snapshot \/ UNCHANGED vars
  BY <1>4, PrivateStep
<1> QED BY <1>1, <1>2, <1>3, <1>4 DEF Next

LEMMA IngestStart == Init => IngestInvariant
<1> SUFFICES ASSUME Init PROVE IngestInvariant
  OBVIOUS
<1>1. \A d \in Documents : /\ NoRevision(d) \in RevisionRow /\ NoRevision(d).status = "none"
                           /\ NoRevision(d).version = 0 /\ NoRevision(d).key = "none"
                           /\ ~NoRevision(d).chunks /\ ~NoRevision(d).live
  BY DEF NoRevision, RevisionRow, RevisionStatus, Unsettled
<1>2. \A j \in Jobs : /\ rev[j] \in RevisionRow /\ rev[j].status = "none" /\ rev[j].version = 0
                      /\ rev[j].key = "none" /\ ~rev[j].chunks /\ ~rev[j].live
  BY <1>1 DEF Init
<1>3. rev \in [Jobs -> RevisionRow]
  <2>1. rev = [j \in Jobs |-> rev[j]]
    BY DEF Init
  <2> QED BY <1>2, <2>1
<1>4. /\ doc \in [Documents -> DocumentRow] /\ \A d \in Documents : doc[d].current = NoJob
  BY DEF Init, DocumentRow
<1>5. /\ QueueTypeOK /\ \A j \in Jobs : job[j].state = "absent"
  BY Bounds, StateNames DEF Init, QueueInit, QueueTypeOK, NoRow, Idle, JobRow, JobClaim
<1>6. phase \in [Workers -> Phases] /\ outbox = {} /\ listing = {}
  BY DEF Init, Phases
<1>7. TypeOK
  BY <1>3, <1>4, <1>5, <1>6 DEF TypeOK
<1>8. JobRevisionAgreement
  BY <1>2, <1>5, AgreeIsAgreed, StateNames DEF JobRevisionAgreement, Agreed
<1>9. OutboxMatchesOutcome /\ ObjectAnnounced
  BY <1>2, <1>5, <1>6 DEF OutboxMatchesOutcome, ObjectAnnounced, Waiting
<1>10. OneSearchable
  BY <1>2, <1>3, <1>4, QueueAssumption DEF OneSearchable, RevisionRow
<1> QED BY <1>2, <1>4, <1>7, <1>8, <1>9, <1>10
        DEF IngestInvariant, Tables, Lineage, VersionOrder, RowsVersioned, CurrentIsOwn, NextInLine

THEOREM IngestionInductive == Spec => []IngestInvariant
<1>1. IngestInvariant /\ QueueInvariant /\ QueueInvariant' /\ [Next]_vars => IngestInvariant'
  BY IngestStepKeeps
<1> QED BY <1>1, IngestStart, IngestionKeepsQueue, PTL DEF Spec

\* Activation, quarantine and archiving, by any number of workers, some of them
\* late, never leave more than the current revision of a document searchable.
THEOREM IngestionOneSearchable == Spec => []OneSearchable
<1>1. IngestInvariant => OneSearchable
  BY DEF IngestInvariant, Lineage
<1> QED BY <1>1, IngestionInductive, PTL

\* Jobs, revisions, documents and the outbox tell the same story, whoever writes.
THEOREM IngestionTablesAgree == Spec => []TablesAgree
<1>1. IngestInvariant => TablesAgree
  BY DEF IngestInvariant, Lineage, Tables, TablesAgree
<1> QED BY <1>1, IngestionInductive, PTL

-----------------------------------------------------------------------------
(* The catalog.                                                             *)

\* What was published of a source has a newest version.
Bounded == \A d \in Documents : \E v \in Published(d) \cup {0} : \A u \in Published(d) : u <= v

LEMMA Greatest ==
  ASSUME NEW S \in SUBSET Nat, NEW v \in S \cup {0}, \A u \in S : u <= v
  PROVE  (CHOOSE x \in S \cup {0} : \A u \in S : u <= x) = v
<1> DEFINE Top(x) == x \in S \cup {0} /\ \A u \in S : u <= x
           c == CHOOSE x \in S \cup {0} : \A u \in S : u <= x
<1>1. \E x \in S \cup {0} : \A u \in S : u <= x
  OBVIOUS
<1>2. c \in S \cup {0} /\ \A u \in S : u <= c
  BY <1>1
<1> HIDE DEF c
<1>3. c \in Nat /\ v \in Nat
  BY <1>2
<1>4. c <= v /\ v <= c
  BY <1>2, <1>3
<1>5. c = v
  BY <1>3, <1>4
<1> QED BY <1>5 DEF c

\* The rows a source was published in are the same, and so is what was published.
LEMMA PublishedSame ==
  ASSUME NEW d \in Documents,
         \A i \in Jobs : rev'[i].chunks <=> rev[i].chunks,
         \A i \in Jobs : rev[i].chunks => /\ rev'[i].document = rev[i].document
                                          /\ rev'[i].version = rev[i].version
  PROVE  Published(d)' = Published(d) /\ TopVersion(d)' = TopVersion(d)
<1>1. Published(d)' = Published(d)
  BY DEF Published
<1> QED BY <1>1 DEF TopVersion

LEMMA SearchableSame ==
  ASSUME NEW d \in Documents, doc'[d].archived = doc[d].archived,
         \A i \in Jobs : rev'[i].live /\ rev'[i].document = d <=> rev[i].live /\ rev[i].document = d,
         \A i \in Jobs : rev[i].live => rev'[i].version = rev[i].version
  PROVE  Searchable(d)' = Searchable(d)
<1>1. {rev'[j].version : j \in {i \in Jobs : rev'[i].document = d /\ rev'[i].live}}
        = {rev[j].version : j \in {i \in Jobs : rev[i].document = d /\ rev[i].live}}
  OBVIOUS
<1> QED BY <1>1 DEF Searchable

LEMMA TopFacts ==
  ASSUME TypeOK, Bounded, NEW d \in Documents
  PROVE  /\ Published(d) \subseteq Nat
         /\ TopVersion(d) \in Published(d) \cup {0} /\ \A u \in Published(d) : u <= TopVersion(d)
<1>1. Published(d) \subseteq Nat
  BY IngestTypes DEF Published
<1> QED BY <1>1 DEF Bounded, TopVersion

\* Nothing a search or a newer version depends on changes.
LEMMA CatalogStutters ==
  ASSUME Bounded,
         \A i \in Jobs : (rev'[i].chunks <=> rev[i].chunks) /\ (rev'[i].live <=> rev[i].live),
         \A i \in Jobs : rev[i].chunks \/ rev[i].live => /\ rev'[i].document = rev[i].document
                                                         /\ rev'[i].version = rev[i].version,
         \A d \in Documents : doc'[d].archived = doc[d].archived
  PROVE  Bounded' /\ UNCHANGED Catalog!vars
<1>1. ASSUME NEW d \in Documents
      PROVE  Published(d)' = Published(d) /\ TopVersion(d)' = TopVersion(d) /\ Searchable(d)' = Searchable(d)
  BY PublishedSame, SearchableSame
<1>2. Bounded'
  BY <1>1 DEF Bounded
<1>3. /\ [d \in Documents |-> Searchable(d)]' = [d \in Documents |-> Searchable(d)]
      /\ [d \in Documents |-> TopVersion(d)]' = [d \in Documents |-> TopVersion(d)]
      /\ {d \in Documents : doc[d].archived}' = {d \in Documents : doc[d].archived}
  BY <1>1
<1> QED BY <1>2, <1>3 DEF Catalog!vars

LEMMA ActivatePublishes ==
  ASSUME IngestInvariant, QueueInvariant, QueueInvariant', Bounded, NEW w \in Workers, Activate(w)
  PROVE  Bounded' /\ Catalog!Next
<1>. PICK j \in Jobs, d \in Documents, v \in Nat :
       j = claim[w].job /\ d = rev[j].document /\ v = rev[j].version
  <2>1. claim[w].job \in Jobs
    BY ActivateStep
  <2> QED BY <2>1, IngestParts, IngestTypes
<1>1. /\ j \in Jobs /\ d \in Documents /\ rev[j].document = d /\ rev[j].version = v
      /\ \A i \in Jobs : /\ rev'[i].document = rev[i].document /\ rev'[i].version = rev[i].version
                         /\ rev'[i].chunks <=> (i = j \/ rev[i].chunks)
                         /\ rev'[i].live <=> (i = j \/ (rev[i].live /\ rev[i].document # d))
      /\ v > 0 /\ ~rev[j].chunks
      /\ \A e \in Documents : doc'[e].archived = doc[e].archived
  BY ActivateStep
<1>2. v \in Nat /\ rev' \in [Jobs -> RevisionRow] /\ IngestInvariant'
  BY <1>1, ActivateStep, IngestParts, IngestTypes DEF IngestInvariant, Tables, TypeOK
<1>3. \A u \in Published(d) : u \in Nat /\ u < v
  <2> SUFFICES ASSUME NEW i \in Jobs, rev[i].document = d, rev[i].chunks
               PROVE  rev[i].version \in Nat /\ rev[i].version < v
    BY DEF Published
  <2>1. rev[i].version \in Nat /\ rev[i].version > 0
    BY IngestParts, IngestTypes DEF Lineage, RowsVersioned
  <2>2. i # j
    BY <1>1
  <2> QED BY <1>1, <2>1, <2>2, IngestParts DEF Lineage, VersionOrder
<1>4. Published(d)' = Published(d) \cup {v}
  BY <1>1 DEF Published
<1>5. \A u \in Published(d)' : u <= v
  BY <1>2, <1>3, <1>4
<1>6. TopVersion(d)' = v
  <2>1. Published(d)' \in SUBSET Nat /\ v \in Published(d)' \cup {0}
    BY <1>2, <1>3, <1>4
  <2> QED BY <1>5, <2>1, Greatest DEF TopVersion
<1>7. Searchable(d)' = IF doc[d].archived THEN {} ELSE {v}
  <2>1. {rev'[i].version : i \in {k \in Jobs : rev'[k].document = d /\ rev'[k].live}} = {v}
    BY <1>1
  <2> QED BY <1>1, <2>1 DEF Searchable
<1>8. ASSUME NEW e \in Documents, e # d
      PROVE  /\ Published(e)' = Published(e) /\ TopVersion(e)' = TopVersion(e)
             /\ Searchable(e)' = Searchable(e)
  <2>1. Published(e)' = Published(e)
    BY <1>1, <1>8 DEF Published
  <2>2. TopVersion(e)' = TopVersion(e)
    BY <2>1 DEF TopVersion
  <2>3. {rev'[i].version : i \in {k \in Jobs : rev'[k].document = e /\ rev'[k].live}}
          = {rev[i].version : i \in {k \in Jobs : rev[k].document = e /\ rev[k].live}}
    BY <1>1, <1>8
  <2> QED BY <1>1, <2>1, <2>2, <2>3 DEF Searchable
<1>9. TopVersion(d) \in Nat /\ TopVersion(d) < v
  <2>1. TopVersion(d) \in Published(d) \cup {0}
    BY <1>1, IngestParts, TopFacts
  <2> QED BY <1>1, <1>2, <1>3, <2>1
<1>10. Bounded'
  BY <1>4, <1>5, <1>8 DEF Bounded
<1>11. \A e \in Documents : TopVersion(e) \in Nat
  BY IngestParts, TopFacts
<1>12. Catalog!Publish(d)
  <2>1. [e \in Documents |-> TopVersion(e)]' \in [Documents -> Nat]
    BY <1>2, <1>6, <1>8, <1>11
  <2>2. [e \in Documents |-> TopVersion(e)]'
          = [[e \in Documents |-> TopVersion(e)] EXCEPT ![d] = v]
    BY <1>6, <1>8
  <2>3. [e \in Documents |-> Searchable(e)]'
          = [[e \in Documents |-> Searchable(e)] EXCEPT ![d] = IF doc[d].archived THEN {} ELSE {v}]
    BY <1>7, <1>8
  <2>4. {e \in Documents : doc[e].archived}' = {e \in Documents : doc[e].archived}
    BY <1>1
  <2>5. [e \in Documents |-> TopVersion(e)]'[d] = v /\ [e \in Documents |-> TopVersion(e)][d] = TopVersion(d)
    BY <1>1, <1>6
  <2>6. d \in {e \in Documents : doc[e].archived} <=> doc[d].archived
    BY <1>1
  <2> QED BY <1>2, <1>9, <2>1, <2>2, <2>3, <2>4, <2>5, <2>6 DEF Catalog!Publish
<1> QED BY <1>1, <1>10, <1>12 DEF Catalog!Next

LEMMA ArchiveRetires ==
  ASSUME IngestInvariant, QueueInvariant', Bounded, NEW d \in Documents, Archive(d)
  PROVE  Bounded' /\ Catalog!Next
<1>1. \A i \in Jobs : /\ rev'[i].document = rev[i].document /\ rev'[i].version = rev[i].version
                      /\ rev'[i].chunks = rev[i].chunks
                      /\ rev[i].document # d => rev'[i].live = rev[i].live
  <2> SUFFICES ASSUME NEW i \in Jobs
               PROVE  /\ rev'[i].document = rev[i].document /\ rev'[i].version = rev[i].version
                      /\ rev'[i].chunks = rev[i].chunks
                      /\ rev[i].document # d => rev'[i].live = rev[i].live
    OBVIOUS
  <2>1. rev'[i] = IF rev[i].document = d THEN [rev[i] EXCEPT !.live = FALSE] ELSE rev[i]
    BY DEF Archive
  <2>2. rev[i] \in RevisionRow
    BY IngestParts
  <2> QED BY <2>1, <2>2 DEF RevisionRow
<1>2. \A e \in Documents : doc'[e].archived <=> (e = d \/ doc[e].archived)
  BY IngestParts DEF Archive, DocumentRow
<1>3. \A e \in Documents : Published(e)' = Published(e) /\ TopVersion(e)' = TopVersion(e)
  BY <1>1, PublishedSame
<1>4. Searchable(d)' = {}
  BY <1>2 DEF Searchable
<1>5. ASSUME NEW e \in Documents, e # d PROVE Searchable(e)' = Searchable(e)
  <2>1. \A i \in Jobs : rev'[i].live /\ rev'[i].document = e <=> rev[i].live /\ rev[i].document = e
    BY <1>1, <1>5
  <2>2. {rev'[j].version : j \in {i \in Jobs : rev'[i].document = e /\ rev'[i].live}}
          = {rev[j].version : j \in {i \in Jobs : rev[i].document = e /\ rev[i].live}}
    BY <1>1, <2>1
  <2> QED BY <1>2, <1>5, <2>2 DEF Searchable
<1>6. Bounded'
  BY <1>3 DEF Bounded
<1>7. Catalog!Retire(d)
  <2>1. [e \in Documents |-> TopVersion(e)]' = [e \in Documents |-> TopVersion(e)]
    BY <1>3
  <2>2. [e \in Documents |-> Searchable(e)]' = [[e \in Documents |-> Searchable(e)] EXCEPT ![d] = {}]
    BY <1>4, <1>5
  <2>3. {e \in Documents : doc[e].archived}' = {e \in Documents : doc[e].archived} \cup {d}
    BY <1>2
  <2> QED BY <2>1, <2>2, <2>3 DEF Catalog!Retire
<1> QED BY <1>6, <1>7 DEF Catalog!Next

LEMMA QuarantineWithdraws ==
  ASSUME IngestInvariant, QueueInvariant', Bounded, NEW j \in Jobs, Quarantine(j)
  PROVE  Bounded' /\ (Catalog!Next \/ UNCHANGED Catalog!vars)
<1>. PICK d \in Documents : d = rev[j].document
  BY IngestParts, IngestTypes
<1>1. \A i \in Jobs : /\ rev'[i].document = rev[i].document /\ rev'[i].version = rev[i].version
                      /\ rev'[i].chunks = rev[i].chunks
                      /\ rev'[i].live <=> (rev[i].live /\ i # j)
  <2>1. rev' = [rev EXCEPT ![j] = [rev[j] EXCEPT !.status = "quarantined", !.live = FALSE]]
    BY DEF Quarantine
  <2>2. rev[j] \in RevisionRow /\ rev \in [Jobs -> RevisionRow]
    BY IngestParts
  <2>3. /\ rev'[j].document = rev[j].document /\ rev'[j].version = rev[j].version
        /\ rev'[j].chunks = rev[j].chunks /\ ~rev'[j].live
    BY <2>1, <2>2 DEF RevisionRow
  <2>4. \A i \in Jobs : i # j => rev'[i] = rev[i]
    BY <2>1, <2>2
  <2> QED BY <2>3, <2>4
<1>2. \A e \in Documents : doc'[e].archived = doc[e].archived
  <2> SUFFICES ASSUME NEW e \in Documents PROVE doc'[e].archived = doc[e].archived
    OBVIOUS
  <2>1. doc'[e] = IF doc[e].current = j THEN [doc[e] EXCEPT !.current = NoJob] ELSE doc[e]
    BY DEF Quarantine
  <2> QED BY <2>1, IngestParts DEF DocumentRow
<1>3. CASE ~rev[j].live
  <2>1. \A i \in Jobs : (rev'[i].chunks <=> rev[i].chunks) /\ (rev'[i].live <=> rev[i].live)
    BY <1>1, <1>3
  <2> QED BY <1>1, <1>2, <2>1, CatalogStutters
<1>4. CASE rev[j].live
  <2>1. d \in Documents /\ \A i \in Jobs : rev[i].live /\ rev[i].document = d => i = j
    BY <1>4, IngestParts, IngestTypes DEF Lineage, OneSearchable
  <2>2. \A e \in Documents : Published(e)' = Published(e) /\ TopVersion(e)' = TopVersion(e)
    BY <1>1, PublishedSame
  <2>3. Searchable(d)' = {}
    BY <1>1, <2>1 DEF Searchable
  <2>4. ASSUME NEW e \in Documents, e # d PROVE Searchable(e)' = Searchable(e)
    <3>1. \A i \in Jobs : rev'[i].live /\ rev'[i].document = e <=> rev[i].live /\ rev[i].document = e
      BY <1>1, <2>4
    <3>2. \A i \in Jobs : rev[i].live => rev'[i].version = rev[i].version
      BY <1>1
    <3> QED BY <1>2, <3>1, <3>2, SearchableSame
  <2>5. Bounded'
    BY <2>2 DEF Bounded
  <2>6. [e \in Documents |-> TopVersion(e)]' = [e \in Documents |-> TopVersion(e)]
    BY <2>2
  <2>7. [e \in Documents |-> Searchable(e)]' = [[e \in Documents |-> Searchable(e)] EXCEPT ![d] = {}]
    BY <2>3, <2>4
  <2>8. {e \in Documents : doc[e].archived}' = {e \in Documents : doc[e].archived}
    BY <1>2
  <2>9. Catalog!Withdraw(d)
    BY <2>6, <2>7, <2>8 DEF Catalog!Withdraw
  <2> QED BY <2>1, <2>5, <2>9 DEF Catalog!Next
<1> QED BY <1>3, <1>4

LEMMA CatalogStep ==
  ASSUME IngestInvariant, QueueInvariant, QueueInvariant', Bounded, [Next]_vars
  PROVE  Bounded' /\ [Catalog!Next]_(Catalog!vars)
<1>1. CASE SameRows
  <2>1. \A i \in Jobs : /\ rev'[i].document = rev[i].document /\ rev'[i].version = rev[i].version
                        /\ rev'[i].chunks = rev[i].chunks /\ rev'[i].live = rev[i].live
    BY <1>1 DEF SameRows, SamePlace
  <2>2. doc' = doc
    BY <1>1 DEF SameRows
  <2> QED BY <2>1, <2>2, CatalogStutters
<1>2. ASSUME NEW w \in Workers, Activate(w) PROVE Bounded' /\ Catalog!Next
  BY <1>2, ActivatePublishes
<1>3. ASSUME NEW d \in Documents, Archive(d) PROVE Bounded' /\ Catalog!Next
  BY <1>3, ArchiveRetires
<1>4. ASSUME NEW j \in Jobs, Quarantine(j) PROVE Bounded' /\ (Catalog!Next \/ UNCHANGED Catalog!vars)
  BY <1>4, QuarantineWithdraws
<1>5. ASSUME NEW j \in Jobs, NEW d \in Documents, UploadNew(d, j) \/ UploadRevision(d, j)
      PROVE  Bounded' /\ UNCHANGED Catalog!vars
  <2>1. /\ ~rev[j].chunks /\ ~rev[j].live /\ ~rev'[j].chunks /\ ~rev'[j].live
        /\ \A i \in Jobs \ {j} : rev'[i] = rev[i]
        /\ \A e \in Documents : doc'[e].archived = doc[e].archived
    BY <1>5, UploadStep
  <2>2. \A i \in Jobs : i = j \/ i \in Jobs \ {j}
    OBVIOUS
  <2>3. \A i \in Jobs : (rev'[i].chunks <=> rev[i].chunks) /\ (rev'[i].live <=> rev[i].live)
    BY <2>1, <2>2
  <2>4. \A i \in Jobs : rev[i].chunks \/ rev[i].live => /\ rev'[i].document = rev[i].document
                                                        /\ rev'[i].version = rev[i].version
    BY <2>1, <2>2
  <2> QED BY <2>1, <2>3, <2>4, CatalogStutters
<1> QED BY <1>1, <1>2, <1>3, <1>4, <1>5, IngestStepKeeps DEF Visible

LEMMA CatalogStart == Init => Bounded /\ Catalog!Init
<1> SUFFICES ASSUME Init PROVE Bounded /\ Catalog!Init
  OBVIOUS
<1>1. \A i \in Jobs : ~rev[i].chunks /\ ~rev[i].live
  BY DEF Init, NoRevision
<1>2. \A d \in Documents : ~doc[d].archived
  BY DEF Init
<1>3. \A d \in Documents : Published(d) = {} /\ Searchable(d) = {}
  BY <1>1 DEF Published, Searchable
<1>4. \A d \in Documents : TopVersion(d) = 0
  BY <1>3, Greatest DEF TopVersion
<1> QED BY <1>2, <1>3, <1>4 DEF Bounded, Catalog!Init

\* What a search sees of the sources is what DocumentCatalog promises: a newer
\* version replaces the one shown in a single step, an older one never comes
\* back, and an archived source shows nothing, whatever the workers do late.
THEOREM IngestionImplementsCatalog == Spec => ImplementsCatalog
<1>1. IngestInvariant /\ QueueInvariant /\ QueueInvariant' /\ Bounded /\ [Next]_vars
        => Bounded' /\ [Catalog!Next]_(Catalog!vars)
  BY CatalogStep
<1> QED BY <1>1, CatalogStart, IngestionInductive, IngestionKeepsQueue, PTL DEF Spec, ImplementsCatalog, Catalog!Spec
=============================================================================

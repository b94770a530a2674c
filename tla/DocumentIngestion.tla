------------------------- MODULE DocumentIngestion --------------------------
(***************************************************************************)
(* Uploaded sources, their revisions, and the workers that turn a stored   *)
(* file into searchable units:                                             *)
(*   application/services/document_upload_service.py                       *)
(*   application/services/document_ingestion_worker.py                     *)
(*   application/services/document_activation_service.py                   *)
(*   application/services/storage_consistency_service.py (its writes)      *)
(* on top of the job queue.  Every revision has exactly one job, so both    *)
(* are indexed by the job.                                                 *)
(***************************************************************************)
EXTENDS JobQueue

CONSTANT Documents

VARIABLES doc,     \* doc[d]: the documents row
          rev,     \* rev[j]: the document_revisions row of job j
          phase,   \* phase[w]: where worker w is in _process_claim
          outbox,  \* deduplication keys in job_outbox
          listing  \* revisions whose staging key reconcile() read in its snapshot

ingestVars == <<doc, rev, phase, outbox, listing>>
vars == <<job, claim, doc, rev, phase, outbox, listing>>

Unsettled == {"pending", "processing", "ready"}
RevisionStatus == Unsettled \cup {"none", "active", "failed", "cancelled", "quarantined"}

\* The pipeline: mark the revision, then a checkpoint before and after each of
\* reading the object, parsing, and embedding, then activation.
Checkpoints == {"cp5", "cp20", "cp45", "cp80"}
Failures == {"fail_retry", "fail_final", "fail_quarantine"}
Phases == {"none", "mark", "activate"} \cup Checkpoints \cup Failures

DocumentRow == [exists : BOOLEAN, archived : BOOLEAN, current : Jobs \cup {NoJob}]
RevisionRow == [document : Documents, version : Nat, status : RevisionStatus,
                key : {"none", "staging", "object"}, chunks : BOOLEAN, live : BOOLEAN]

TypeOK == /\ QueueTypeOK
          /\ doc \in [Documents -> DocumentRow]
          /\ rev \in [Jobs -> RevisionRow]
          /\ phase \in [Workers -> Phases]
          /\ outbox \subseteq Jobs \X {"queued", "succeeded", "integrity"}
          /\ listing \subseteq Jobs

NoRevision(d) == [document |-> d, version |-> 0, status |-> "none", key |-> "none",
                  chunks |-> FALSE, live |-> FALSE]

Init == /\ QueueInit
        /\ doc = [d \in Documents |-> [exists |-> FALSE, archived |-> FALSE, current |-> NoJob]]
        /\ rev \in [Jobs -> {NoRevision(d) : d \in Documents}]
        /\ phase = [w \in Workers |-> "none"]
        /\ outbox = {}
        /\ listing = {}

-----------------------------------------------------------------------------
(* Upload.                                                                  *)

\* The rows an upload inserts before its staged file is finalized.
InsertRevision(j, d, v) ==
  /\ Insert(j, "preparing")
  /\ rev' = [rev EXCEPT ![j] = [NoRevision(d) EXCEPT !.version = v, !.status = "pending",
                                                     !.key = "staging"]]
  /\ UNCHANGED <<phase, outbox, listing>>

UploadNew(d, j) ==
  /\ ~doc[d].exists
  /\ InsertRevision(j, d, 1)
  /\ doc' = [doc EXCEPT ![d].exists = TRUE]

\* uq_document_revisions_document_version
VersionTaken(d, v) == \E j \in Jobs : rev[j].document = d /\ rev[j].version = v

UploadRevision(d, j) ==
  /\ doc[d].exists /\ ~doc[d].archived
  /\ doc[d].current # NoJob
  /\ rev[doc[d].current].status = "active"
  /\ ~VersionTaken(d, rev[doc[d].current].version + 1)
  /\ InsertRevision(j, d, rev[doc[d].current].version + 1)
  /\ UNCHANGED doc

\* Seeded fault: the queued event is not recorded.
Finalize_NoEvent(j) ==
  /\ rev[j].status = "pending" /\ rev[j].key = "staging"
  /\ Enqueue(j)
  /\ rev' = [rev EXCEPT ![j].key = "object"]
  /\ UNCHANGED <<doc, phase, outbox, listing>>

\* _finalize: the staged file is linked to its object key, then the rows follow.
\* A client that lost the answer may call it again: the second call finds the
\* job no longer preparing and changes nothing.
Finalize(j) ==
  /\ rev[j].status = "pending" /\ rev[j].key = "staging"
  /\ Enqueue(j)
  /\ rev' = [rev EXCEPT ![j].key = "object"]
  /\ outbox' = outbox \cup {<<j, "queued">>}
  /\ UNCHANGED <<doc, phase, listing>>

-----------------------------------------------------------------------------
(* Workers.                                                                 *)

Usable == {j \in Jobs : rev[j].status # "quarantined" /\ rev[j].key = "object"}

\* UPDATE document_revisions ... WHERE status IN (pending, processing, ready).
Settled(r, s) == IF r.status \in Unsettled THEN [r EXCEPT !.status = s] ELSE r

\* The revision follows what the sweep did to its job.
SweptRevision(j) ==
  LET before == job[j].state
      after == SweptRow(job[j], j \in Usable).state
  IN IF after = before THEN rev[j]
     ELSE IF after = "queued" THEN [rev[j] EXCEPT !.status = "pending"]
     ELSE Settled(rev[j], after)

SweepQueue(w) ==
  /\ Sweep(w, Usable)
  /\ rev' = [j \in Jobs |-> SweptRevision(j)]
  /\ UNCHANGED <<doc, phase, outbox, listing>>

TakeJob(w, j) ==
  /\ Take(w, j)
  /\ phase' = [phase EXCEPT ![w] = "mark"]
  /\ UNCHANGED <<doc, rev, outbox, listing>>

FindNothing(w) == TakeNothing(w) /\ UNCHANGED ingestVars

RenewLease(w) == Heartbeat(w) /\ UNCHANGED ingestVars

\* _mark_processing
MarkProcessing(w) ==
  LET j == claim[w].job IN
  /\ phase[w] = "mark"
  /\ SetProgress(w)
  /\ rev[j].status \in {"pending", "processing"} /\ rev[j].key = "object"
  /\ rev' = [rev EXCEPT ![j].status = "processing"]
  /\ phase' = [phase EXCEPT ![w] = "cp5"]
  /\ UNCHANGED <<doc, outbox, listing>>

NextPhase == [cp5 |-> "cp20", cp20 |-> "cp45", cp45 |-> "cp80", cp80 |-> "activate"]

\* _checkpoint, when no cancellation was requested
PassCheckpoint(w) ==
  /\ phase[w] \in Checkpoints
  /\ SetProgress(w)
  /\ phase' = [phase EXCEPT ![w] = NextPhase[phase[w]]]
  /\ UNCHANGED <<doc, rev, outbox, listing>>

\* _checkpoint, when one was
StopAtCheckpoint(w) ==
  /\ phase[w] \in Checkpoints
  /\ AcknowledgeCancellation(w)
  /\ rev' = [rev EXCEPT ![claim[w].job] = Settled(@, "cancelled")]
  /\ phase' = [phase EXCEPT ![w] = "none"]
  /\ UNCHANGED <<doc, outbox, listing>>

\* What the work after a checkpoint, or activation itself, can raise.
Raises == [mark |-> {"fail_retry"},
           cp5 |-> {"fail_retry"},
           cp20 |-> {"fail_retry", "fail_quarantine"},
           cp45 |-> {"fail_retry", "fail_final"},
           cp80 |-> {"fail_retry", "fail_final"},
           activate |-> {"fail_retry", "fail_final"}]

\* An exception between two transactions; nothing is written yet.
Raise(w, f) ==
  /\ phase[w] \in DOMAIN Raises
  /\ f \in Raises[phase[w]]
  /\ phase' = [phase EXCEPT ![w] = f]
  /\ UNCHANGED <<job, claim, doc, rev, outbox, listing>>

\* Seeded fault: the revision of a job that will be retried is failed for good.
FailureStatus_NoRetry(s, quarantine) ==
  IF s = "cancelled" THEN "cancelled" ELSE IF quarantine THEN "quarantined" ELSE "failed"

\* _record_failure: the revision follows the state the job ended in.
FailureStatus(s, quarantine) ==
  CASE s = "retry_wait" -> "pending"
    [] s = "cancelled" -> "cancelled"
    [] OTHER -> IF quarantine THEN "quarantined" ELSE "failed"

RecordFailure(w) ==
  LET j == claim[w].job IN
  /\ phase[w] \in Failures
  /\ Fail(w, phase[w] = "fail_retry")
  /\ rev' = [rev EXCEPT ![j] =
               Settled(@, FailureStatus(FailedRow(job[j], phase[w] = "fail_retry").state,
                                        phase[w] = "fail_quarantine"))]
  /\ phase' = [phase EXCEPT ![w] = "none"]
  /\ UNCHANGED <<doc, outbox, listing>>

\* Seeded fault: the units of the superseded revision stay active.
Activate_KeepOldUnits(w) ==
  LET j == claim[w].job
      d == rev[j].document
      old == doc[d].current
  IN
  /\ phase[w] = "activate"
  /\ Complete(w)
  /\ rev[j].key = "object" /\ rev[j].status \in Unsettled /\ ~rev[j].chunks
  /\ rev' = [i \in Jobs |->
               IF i = j THEN [rev[i] EXCEPT !.status = "active", !.chunks = TRUE, !.live = TRUE]
               ELSE IF i = old THEN [rev[i] EXCEPT !.status = "ready"] ELSE rev[i]]
  /\ doc' = [doc EXCEPT ![d].current = j]
  /\ outbox' = outbox \cup {<<j, "succeeded">>}
  /\ phase' = [phase EXCEPT ![w] = "none"]
  /\ UNCHANGED listing

\* activate: the old revision steps down, the new one goes live, the document
\* points at it, the job completes and the event is recorded, in one transaction.
Activate(w) ==
  LET j == claim[w].job
      d == rev[j].document
      old == doc[d].current
      steppedDown == [rev EXCEPT ![old].live = FALSE,
                                 ![old].status = IF @ = "active" THEN "ready" ELSE @]
  IN
  /\ phase[w] = "activate"
  /\ Complete(w)
  /\ rev[j].key = "object" /\ rev[j].status \in Unsettled /\ ~rev[j].chunks
  /\ rev' = [(IF old = NoJob THEN rev ELSE steppedDown) EXCEPT
               ![j].status = "active", ![j].chunks = TRUE, ![j].live = TRUE]
  /\ doc' = [doc EXCEPT ![d].current = j]
  /\ outbox' = outbox \cup {<<j, "succeeded">>}
  /\ phase' = [phase EXCEPT ![w] = "none"]
  /\ UNCHANGED listing

\* The worker finds its lease lost, or dies.
DropClaim(w) ==
  /\ LoseLease(w)
  /\ phase' = [phase EXCEPT ![w] = "none"]
  /\ UNCHANGED <<doc, rev, outbox, listing>>

CrashWorker(w) ==
  /\ Crash(w)
  /\ phase' = [phase EXCEPT ![w] = "none"]
  /\ UNCHANGED <<doc, rev, outbox, listing>>

-----------------------------------------------------------------------------
(* The management API.                                                      *)

CancelJob(j) == RequestCancellation(j) /\ UNCHANGED ingestVars

RetryJob(j) ==
  /\ RequestRetry(j)
  /\ j \in Usable
  /\ UNCHANGED ingestVars

\* archive_source
Archive(d) ==
  /\ doc[d].exists /\ ~doc[d].archived
  /\ doc' = [doc EXCEPT ![d].archived = TRUE]
  /\ rev' = [j \in Jobs |-> IF rev[j].document = d THEN [rev[j] EXCEPT !.live = FALSE] ELSE rev[j]]
  /\ UNCHANGED <<job, claim, phase, outbox, listing>>

-----------------------------------------------------------------------------
(* Storage maintenance.                                                     *)

\* reconcile() reads the keys of every revision once, before it lists any file.
Snapshot ==
  /\ listing' = {j \in Jobs : rev[j].key = "staging"}
  /\ UNCHANGED <<job, claim, doc, rev, phase, outbox>>

\* The job's part of storage maintenance: a job that has ended is left alone.
FailUnlessTerminal(j) ==
  IF job[j].state \in Terminal THEN UNCHANGED queueVars ELSE ForceFail(j)

\* _fail_expired_staging, for a staging file found old after the snapshot.  The
\* revision is left alone when it was finalized meanwhile; the job is not.
FailExpiredStaging(j) ==
  /\ j \in listing
  /\ listing' = listing \ {j}
  /\ rev' = [rev EXCEPT ![j] = IF @.key # "object" /\ @.status \in {"pending", "processing"}
                               THEN [@ EXCEPT !.key = "none", !.status = "failed"] ELSE @]
  /\ FailUnlessTerminal(j)
  /\ UNCHANGED <<doc, phase, outbox>>

\* Seeded fault: the document keeps pointing at the quarantined revision.
Quarantine_KeepsPointer(j) ==
  /\ rev[j].key = "object"
  /\ rev' = [rev EXCEPT ![j].status = "quarantined", ![j].live = FALSE]
  /\ FailUnlessTerminal(j)
  /\ outbox' = outbox \cup {<<j, "integrity">>}
  /\ UNCHANGED <<doc, phase, listing>>

\* _quarantine: the object of a revision is missing or damaged.
Quarantine(j) ==
  /\ rev[j].key = "object"
  /\ rev' = [rev EXCEPT ![j].status = "quarantined", ![j].live = FALSE]
  /\ doc' = [d \in Documents |-> IF doc[d].current = j THEN [doc[d] EXCEPT !.current = NoJob]
                                 ELSE doc[d]]
  /\ FailUnlessTerminal(j)
  /\ outbox' = outbox \cup {<<j, "integrity">>}
  /\ UNCHANGED <<phase, listing>>

-----------------------------------------------------------------------------
LeaseRunsDown(j) == LeaseTick(j) /\ UNCHANGED ingestVars
RetryFallsDue(j) == BecomeDue(j) /\ UNCHANGED ingestVars

\* The next transaction of the attempt a worker is making.
Process(w) == \/ MarkProcessing(w) \/ PassCheckpoint(w) \/ StopAtCheckpoint(w)
              \/ RecordFailure(w) \/ Activate(w) \/ DropClaim(w)

IngestStep(w) == \/ SweepQueue(w) \/ FindNothing(w) \/ RenewLease(w)
                 \/ Process(w) \/ CrashWorker(w)
                 \/ \E j \in Jobs : TakeJob(w, j)
                 \/ \E f \in Failures : Raise(w, f)

SourceStep(j) == \/ \E d \in Documents : UploadNew(d, j) \/ UploadRevision(d, j)
                 \/ Finalize(j) \/ CancelJob(j) \/ RetryJob(j)
                 \/ FailExpiredStaging(j) \/ Quarantine(j)
                 \/ LeaseRunsDown(j) \/ RetryFallsDue(j)

Next == \/ \E w \in Workers : IngestStep(w)
        \/ \E j \in Jobs : SourceStep(j)
        \/ \E d \in Documents : Archive(d)
        \/ Snapshot

Spec == Init /\ [][Next]_vars

\* As in JobQueue: polling workers, no job passed over for ever, time passes.
\* Failures, crashes, heartbeats and API calls are not promised.
Fairness ==
  /\ \A w \in Workers : /\ WF_vars(SweepQueue(w))
                        /\ WF_vars(FindNothing(w))
                        /\ WF_vars(Process(w))
  /\ \A j \in Jobs : /\ SF_vars(\E w \in Workers : TakeJob(w, j))
                     /\ WF_vars(LeaseRunsDown(j))
                     /\ WF_vars(RetryFallsDue(j))

FairSpec == Spec /\ Fairness

-----------------------------------------------------------------------------
(* Properties.                                                              *)

\* Only the revision a document points at has searchable units, and it is the
\* document's one active revision: activation, quarantine and archiving never
\* leave a superseded, quarantined or abandoned revision searchable.
OneSearchable ==
  \A j \in Jobs :
    /\ rev[j].live => rev[j].status = "active"
    /\ (rev[j].status = "active") <=> (doc[rev[j].document].current = j)

\* The job and the revision it works on agree, whatever the order in which the
\* worker, a second worker that reclaimed the job, the sweeps, the API and
\* storage maintenance wrote to the two tables.  In particular the conflict
\* branches of _mark_processing and activate are never taken, and a job that
\* may be retried has left no chunks behind.
Agree(s, r) ==
  CASE s = "absent"     -> r.status = "none"
    [] s = "preparing"  -> r.status = "pending" /\ r.key = "staging" /\ ~r.chunks
    [] s \in Waiting    -> r.status = "pending" /\ r.key = "object" /\ ~r.chunks
    [] s = "running"    -> r.status \in {"pending", "processing"} /\ r.key = "object" /\ ~r.chunks
    [] s = "succeeded"  -> r.status \in {"active", "ready", "quarantined"} /\ r.chunks
    [] s = "cancelled"  -> r.status \in {"cancelled", "quarantined"} /\ ~r.chunks
    [] s = "failed"     -> r.status \notin {"none", "active", "ready"} /\ ~r.chunks

JobRevisionAgreement == \A j \in Jobs : Agree(job[j].state, rev[j])

\* The transactional outbox: success is announced exactly for the jobs that
\* succeeded, and every job a worker could have seen was announced as queued.
OutboxMatchesOutcome ==
  \A j \in Jobs : /\ <<j, "succeeded">> \in outbox <=> job[j].state = "succeeded"
                  /\ job[j].state \in Waiting \cup {"running", "succeeded"} => <<j, "queued">> \in outbox

\* A document has at most one revision that was never activated, and it is
\* newer than every revision that was: two uploads cannot race to be next, and
\* a late activation cannot bring an older file back.
VersionOrder ==
  \A i, k \in Jobs :
    (i # k /\ rev[i].document = rev[k].document /\ rev[i].version > 0 /\ rev[k].version > 0
       /\ ~rev[k].chunks) => rev[i].chunks /\ rev[i].version < rev[k].version

\* Jobs, revisions, documents and the outbox tell the same story after every
\* transaction of the upload, the workers, the API and storage maintenance.
TablesAgree == TypeOK /\ JobRevisionAgreement /\ OutboxMatchesOutcome /\ VersionOrder

\* Every job the pipeline accepted ends, through crashes, lost leases, damaged
\* files and cancellations: no claim gets stuck in front of a revision that its
\* worker can neither process nor fail.
EverySourceSettles ==
  \A j \in Jobs : job[j].state \in Waiting \cup {"running"} ~> job[j].state \in Terminal

-----------------------------------------------------------------------------
(* What a search sees of the sources is what DocumentCatalog promises.  The *)
(* search query joins documents and keeps rows with archived_at IS NULL.     *)
Published(d) == {rev[j].version : j \in {i \in Jobs : rev[i].document = d /\ rev[i].chunks}}
TopVersion(d) == CHOOSE v \in Published(d) \cup {0} : \A u \in Published(d) : u <= v
Searchable(d) == IF doc[d].archived THEN {}
                 ELSE {rev[j].version : j \in {i \in Jobs : rev[i].document = d /\ rev[i].live}}

Catalog == INSTANCE DocumentCatalog WITH
             Sources <- Documents,
             shown <- [d \in Documents |-> Searchable(d)],
             top <- [d \in Documents |-> TopVersion(d)],
             retired <- {d \in Documents : doc[d].archived}

\* Ingestion implements DocumentCatalog: at most one version is ever searchable,
\* replacement is one step, versions only go up, archived sources show nothing.
ImplementsCatalog == Catalog!Spec
=============================================================================

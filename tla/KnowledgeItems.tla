--------------------------- MODULE KnowledgeItems ---------------------------
(***************************************************************************)
(* Knowledge items, their revisions, and the jobs that enrich a revision   *)
(* after it was saved:                                                     *)
(*   application/services/knowledge_management_service.py (management API) *)
(*   infrastructure/persistence/knowledge_repository.py (agents' tools)    *)
(*   application/services/knowledge_enrichment_service.py                  *)
(* on top of the job queue.  Jobs name the revisions: job[r] is the        *)
(* enrichment job of revision r and stays "absent" when the revision was   *)
(* projected at once.  An embedding generation is active throughout.       *)
(***************************************************************************)
EXTENDS JobQueue, Sequences, Functions

CONSTANT Items

ASSUME KnowledgeAssumption == IsFiniteSet(Jobs)

VARIABLES item,    \* item[i]: the knowledge_items row
          rev,     \* rev[r]: the knowledge_revisions row
          live,    \* revisions with an active retrieval unit
          phase    \* phase[w]: where worker w is in _process_enrichment_claim

knowledgeVars == <<item, rev, live, phase>>
vars == <<job, claim, item, rev, live, phase>>

Lifecycle == {"observation", "candidate", "accepted", "superseded"}
Failures == {"fail_retry", "fail_final"}
Phases == {"none", "cp10", "enrich", "embed", "cp90", "complete"} \cup Failures

ItemRow == [exists : BOOLEAN, deleted : BOOLEAN, status : Lifecycle, current : Jobs \cup {NoJob}]
KnowledgeRevision == [item : Items, version : Nat]

KnowledgeTypeOK == /\ QueueTypeOK
                   /\ item \in [Items -> ItemRow]
                   /\ rev \in [Jobs -> KnowledgeRevision]
                   /\ live \subseteq Jobs
                   /\ phase \in [Workers -> Phases]

NoItem == [exists |-> FALSE, deleted |-> FALSE, status |-> "accepted", current |-> NoJob]

Init == /\ QueueInit
        /\ item = [i \in Items |-> NoItem]
        /\ rev \in [Jobs -> [item : Items, version : {0}]]
        /\ live = {}
        /\ phase = [w \in Workers |-> "none"]

Readable(i) == item[i].exists /\ ~item[i].deleted
RevisionsOf(i) == {r \in Jobs : rev[r].item = i /\ rev[r].version > 0}

-----------------------------------------------------------------------------
(* Writers.  Each is one transaction that locks the item, or compares        *)
(* current_revision_id when it writes; a writer that lost the race is told   *)
(* of the conflict and changes nothing.                                      *)

\* _activate_projection: every unit of the item goes, the revision gets one.
Projected(i, r) == (live \ RevisionsOf(i)) \cup {r}

\* A new revision, projected at once or through an enrichment job.
AddRevision(i, r, v, async) ==
  /\ rev[r].version = 0
  /\ rev' = [rev EXCEPT ![r] = [item |-> i, version |-> v]]
  /\ IF async THEN Insert(r, "queued") /\ UNCHANGED live
     ELSE live' = Projected(i, r) /\ UNCHANGED queueVars
  /\ UNCHANGED phase

\* create
Create(i, r, status, async) ==
  /\ ~item[i].exists
  /\ status \in Lifecycle \ {"superseded"}
  /\ AddRevision(i, r, 1, async)
  /\ item' = [item EXCEPT ![i] = [NoItem EXCEPT !.exists = TRUE, !.status = status,
                                                !.current = r]]

\* create_item, an agent's knowledge_save
CreateItem(i, r) == Create(i, r, "accepted", FALSE)

\* update; expected_version is the current one, any other is refused.
Update(i, r, async) ==
  /\ Readable(i)
  /\ AddRevision(i, r, rev[item[i].current].version + 1, async)
  /\ item' = [item EXCEPT ![i].current = r]

\* update_item_occ, an agent's knowledge_update.  It reads without a lock; the
\* unique version and the comparison of current_revision_id decide the race.
UpdateItemOcc(i, r) == Update(i, r, FALSE)

\* import_space of another deployment's export: an item that is here, also a
\* deleted one, is skipped.  Its revisions come at once, the last is current and
\* gets a unit, without a vector, whatever the status.
ImportItem(i, order, status) ==
  /\ ~item[i].exists
  /\ \A n \in DOMAIN order : rev[order[n]].version = 0
  /\ rev' = [r \in Jobs |-> IF \E n \in DOMAIN order : order[n] = r
                            THEN [item |-> i, version |-> CHOOSE n \in DOMAIN order : order[n] = r]
                            ELSE rev[r]]
  /\ item' = [item EXCEPT ![i] = [NoItem EXCEPT !.exists = TRUE, !.status = status,
                                                !.current = order[Len(order)]]]
  /\ live' = live \cup {order[Len(order)]}
  /\ UNCHANGED <<job, claim, phase>>

Transitions == [observation |-> {"candidate", "accepted"},
                candidate |-> {"accepted", "observation"},
                accepted |-> {"superseded"},
                superseded |-> {"accepted"}]

Transition(i, to) ==
  /\ Readable(i)
  /\ to \in Transitions[item[i].status]
  /\ item' = [item EXCEPT ![i].status = to]
  /\ live' = IF to = "superseded" THEN live \ RevisionsOf(i) ELSE Projected(i, item[i].current)
  /\ UNCHANGED <<job, claim, rev, phase>>

\* Seeded fault: the job row is not locked while the embedding is computed.
Locked_Never(r) == FALSE

\* enrich_claim selects its job FOR UPDATE and keeps it until it commits.
Locked(r) == \E w \in Workers : phase[w] = "embed" /\ claim[w].job = r

\* delete: also asks the item's jobs to stop, and waits for those rows.
Stoppable(i) == {r \in RevisionsOf(i) : job[r].state \in Waiting \cup {"running"} /\ ~job[r].cancel}

Delete(i) ==
  /\ Readable(i)
  /\ \A r \in Stoppable(i) : ~Locked(r)
  /\ item' = [item EXCEPT ![i].deleted = TRUE]
  /\ job' = [r \in Jobs |-> IF r \in Stoppable(i) THEN [job[r] EXCEPT !.cancel = TRUE] ELSE job[r]]
  /\ live' = live \ {item[i].current}
  /\ UNCHANGED <<claim, rev, phase>>

\* soft_delete_item, an agent's knowledge_delete, leaves the jobs alone.
SoftDelete(i) ==
  /\ Readable(i)
  /\ item' = [item EXCEPT ![i].deleted = TRUE]
  /\ live' = live \ {item[i].current}
  /\ UNCHANGED <<job, claim, rev, phase>>

-----------------------------------------------------------------------------
(* The queue, as seen by enrichment jobs.                                    *)

Usable == {r \in Jobs : Readable(rev[r].item)}

\* The sweeps wait for a row that is locked, the claim skips it.
SweepQueue(w) ==
  /\ \A r \in Jobs : Locked(r) => SweptRow(job[r], r \in Usable) = job[r]
  /\ Sweep(w, Usable)
  /\ UNCHANGED knowledgeVars

TakeJob(w, r) ==
  /\ ~Locked(r)
  /\ Take(w, r)
  /\ phase' = [phase EXCEPT ![w] = "cp10"]
  /\ UNCHANGED <<item, rev, live>>

FindNothing(w) ==
  /\ claim[w].pc = "claiming"
  /\ \A r \in Jobs : Claimable(job[r]) => Locked(r)
  /\ Forget(w)
  /\ UNCHANGED <<job, knowledgeVars>>

\* The heartbeat is a session of its own and waits for the lock too.
RenewLease(w) == phase[w] # "embed" /\ Heartbeat(w) /\ UNCHANGED knowledgeVars

CancelJob(r) == ~Locked(r) /\ RequestCancellation(r) /\ UNCHANGED knowledgeVars

RetryJob(r) == r \in Usable /\ RequestRetry(r) /\ UNCHANGED knowledgeVars

-----------------------------------------------------------------------------
(* _process_enrichment_claim *)

\* Seeded fault: the job is completed without waiting for the projection.
AfterCheckpoint_Skips == [cp10 |-> "complete", cp90 |-> "complete"]

AfterCheckpoint == [cp10 |-> "enrich", cp90 |-> "complete"]

Goto(w, p) == phase' = [phase EXCEPT ![w] = p]

PassCheckpoint(w) ==
  /\ phase[w] \in {"cp10", "cp90"}
  /\ SetProgress(w)
  /\ Goto(w, AfterCheckpoint[phase[w]])
  /\ UNCHANGED <<item, rev, live>>

StopAtCheckpoint(w) ==
  /\ phase[w] \in {"cp10", "cp90"}
  /\ AcknowledgeCancellation(w)
  /\ Goto(w, "none")
  /\ UNCHANGED <<item, rev, live>>

\* enrich_claim up to the embedding call.
EnrichRead(w) ==
  /\ phase[w] = "enrich"
  /\ SetProgress(w)
  /\ Goto(w, IF Readable(rev[claim[w].job].item) THEN "embed" ELSE "fail_final")
  /\ UNCHANGED <<item, rev, live>>

\* The rest of it: the item is read again, then the revision's unit is written.
EnrichWrite(w) ==
  LET r == claim[w].job IN
  /\ phase[w] = "embed"
  /\ IF Readable(rev[r].item) /\ ~job[r].cancel
     THEN live' = live \cup {r} /\ Goto(w, "cp90")
     ELSE live' = live /\ Goto(w, "fail_final")
  /\ UNCHANGED <<job, claim, item, rev>>

\* The embedding backend or the database raises; the transaction is undone.
Raise(w) ==
  /\ phase[w] \in {"cp10", "enrich", "embed", "cp90", "complete"}
  /\ Goto(w, "fail_retry")
  /\ UNCHANGED <<job, claim, item, rev, live>>

CompleteJob(w) ==
  /\ phase[w] = "complete"
  /\ Complete(w)
  /\ Goto(w, "none")
  /\ UNCHANGED <<item, rev, live>>

\* _record_failure
RecordFailure(w) ==
  /\ phase[w] \in Failures
  /\ Fail(w, phase[w] = "fail_retry")
  /\ Goto(w, "none")
  /\ UNCHANGED <<item, rev, live>>

DropClaim(w) ==
  /\ LoseLease(w)
  /\ Goto(w, "none")
  /\ UNCHANGED <<item, rev, live>>

CrashWorker(w) ==
  /\ Crash(w)
  /\ Goto(w, "none")
  /\ UNCHANGED <<item, rev, live>>

-----------------------------------------------------------------------------
LeaseRunsDown(r) == LeaseTick(r) /\ UNCHANGED knowledgeVars
RetryFallsDue(r) == BecomeDue(r) /\ UNCHANGED knowledgeVars

Process(w) == \/ PassCheckpoint(w) \/ StopAtCheckpoint(w) \/ EnrichRead(w) \/ EnrichWrite(w)
              \/ Raise(w) \/ CompleteJob(w) \/ RecordFailure(w) \/ DropClaim(w)

EnrichStep(w) == \/ SweepQueue(w) \/ FindNothing(w) \/ RenewLease(w)
                 \/ Process(w) \/ CrashWorker(w)
                 \/ \E r \in Jobs : TakeJob(w, r)

ItemStep(i) == \/ \E r \in Jobs, async \in BOOLEAN :
                    \/ \E status \in Lifecycle : Create(i, r, status, async)
                    \/ Update(i, r, async)
               \/ \E r \in Jobs : CreateItem(i, r) \/ UpdateItemOcc(i, r)
               \/ \E to \in Lifecycle : Transition(i, to)
               \/ \E n \in 1 .. Cardinality(Jobs), status \in Lifecycle :
                    \E order \in Injection(1 .. n, Jobs) : ImportItem(i, order, status)
               \/ Delete(i) \/ SoftDelete(i)

Next == \/ \E i \in Items : ItemStep(i)
        \/ \E w \in Workers : EnrichStep(w)
        \/ \E r \in Jobs : CancelJob(r) \/ RetryJob(r) \/ LeaseRunsDown(r) \/ RetryFallsDue(r)

Spec == Init /\ [][Next]_vars

-----------------------------------------------------------------------------
(* Properties.                                                              *)

\* A unit is written only under the claim that is current: from the moment
\* enrich_claim has read its job until it commits, no sweep, claim, deletion or
\* API call ends the claim, although the lease may run out meanwhile.
EnrichmentFenced ==
  \A w \in Workers : phase[w] = "embed" =>
    LET r == job[claim[w].job] IN r.state = "running" /\ r.token = claim[w].token /\ ~r.cancel

\* Rows are well typed and every write of an enrichment is fenced.
KnowledgeInvariant == KnowledgeTypeOK /\ EnrichmentFenced

\* What the API reports is so: when the current revision of an item is reported
\* enriched, or was projected when it was saved, a search finds it, unless the
\* item is superseded; whatever enrichments of older revisions did meanwhile.
EnrichedIsSearchable ==
  \A i \in Items :
    LET r == item[i].current IN
    Readable(i) /\ item[i].status # "superseded" /\ job[r].state \in {"absent", "succeeded"}
      => r \in live

\* "superseded excluded from search": no revision of a superseded item can be
\* found by a search.
SupersededExcluded ==
  \A i \in Items : item[i].status = "superseded" => live \cap RevisionsOf(i) = {}
=============================================================================

--------------------------- MODULE UploadStorage ----------------------------
(***************************************************************************)
(* Files against rows: the two stores an upload writes to without a common *)
(* transaction, and the reconciler that cleans up behind it.               *)
(*   application/services/document_upload_service.py                       *)
(*   application/services/storage_consistency_service.py                   *)
(*   infrastructure/storage/versioned_local_storage.py, s3_storage.py      *)
(* One action is one storage call or one database transaction.  "young" and *)
(* "old" compare modified_at with the staging TTL and the orphan grace,     *)
(* which have the same default.  What workers make of a queued upload is    *)
(* in DocumentIngestion; here it stays "queued".                            *)
(***************************************************************************)
EXTENDS Naturals, FiniteSets

CONSTANTS Uploads,      \* staged files, each with the revision it becomes
          Clients,      \* requests of upload_new / upload_revision under way
          NoUpload,
          MaxAborts     \* bound: reconciliations that end with an exception

ASSUME StorageAssumption == NoUpload \notin Uploads /\ MaxAborts \in Nat

VARIABLES backend,  \* the configured storage backend
          staging,  \* staging[u]: the file under staging/
          object,   \* object[u]: the file under objects/
          row,      \* row[u]: storage columns of the revision, and its job's state
          client,   \* client[c]: where request c is
          sweep,    \* the reconciliation under way
          used,     \* upload ids that were drawn
          slow,     \* uploads whose file grew old before they were finalized
          damaged,  \* objects lost or altered from outside
          aborts    \* reconciliations that raised

files == <<staging, object>>
history == <<used, slow, damaged>>
vars == <<backend, staging, object, row, client, sweep, used, slow, damaged, aborts>>

File == {"none", "young", "old"}

Row(key, status, job) == [key |-> key, status |-> status, job |-> job]
NoRow == Row("none", "none", "none")
Preparing == Row("staging", "pending", "preparing")
Queued == Row("object", "pending", "queued")
Expired == Row("cleared", "failed", "failed")
Stranded == Row("object", "pending", "failed")
Quarantined == Row("object", "quarantined", "failed")

NoClient == [pc |-> "idle", upload |-> NoUpload]
NoSweep == [pc |-> "idle", objects |-> {}, staging |-> {}, oldObjects |-> {}, oldStaging |-> {},
            todo |-> {}, failing |-> NoUpload]

Init == /\ backend \in {"local", "s3"}
        /\ staging = [u \in Uploads |-> "none"]
        /\ object = [u \in Uploads |-> "none"]
        /\ row = [u \in Uploads |-> NoRow]
        /\ client = [c \in Clients |-> NoClient]
        /\ sweep = NoSweep
        /\ used = {} /\ slow = {} /\ damaged = {}
        /\ aborts = 0

-----------------------------------------------------------------------------
(* An upload request.                                                       *)

Goto(c, pc) == client' = [client EXCEPT ![c].pc = pc]
Return(c) == client' = [client EXCEPT ![c] = NoClient]

\* stage: the body is written under a fresh upload id.
Stage(c, u) ==
  /\ client[c].pc = "idle"
  /\ u \notin used
  /\ used' = used \cup {u}
  /\ staging' = [staging EXCEPT ![u] = "young"]
  /\ client' = [client EXCEPT ![c] = [pc |-> "insert", upload |-> u]]
  /\ UNCHANGED <<backend, object, row, sweep, slow, damaged, aborts>>

\* The first transaction: document, revision and job.
InsertRows(c) ==
  /\ client[c].pc = "insert"
  /\ row' = [row EXCEPT ![client[c].upload] = Preparing]
  /\ Goto(c, "finalize")
  /\ UNCHANGED <<backend, files, sweep, history, aborts>>

\* It raised: the staged file is deleted and the error returned.
InsertRaises(c) ==
  /\ client[c].pc = "insert"
  /\ staging' = [staging EXCEPT ![client[c].upload] = "none"]
  /\ Return(c)
  /\ UNCHANGED <<backend, object, row, sweep, history, aborts>>

\* A second request with the same idempotency key finds the job preparing.  (It
\* deletes the copy it staged, which is a Stage followed by InsertRaises.)
Resume(c, u) ==
  /\ client[c].pc = "idle"
  /\ row[u].job = "preparing" /\ row[u].key = "staging"
  /\ client' = [client EXCEPT ![c] = [pc |-> "finalize", upload |-> u]]
  /\ UNCHANGED <<backend, files, row, sweep, history, aborts>>

\* storage.finalize, the object is there: an earlier call got that far.  The
\* local backend removes the staged file, S3 leaves it.
AlreadyFinal(c) ==
  LET u == client[c].upload IN
  /\ client[c].pc = "finalize"
  /\ object[u] # "none"
  /\ staging' = IF backend = "local" THEN [staging EXCEPT ![u] = "none"] ELSE staging
  /\ Goto(c, "record")
  /\ UNCHANGED <<backend, object, row, sweep, history, aborts>>

\* A hard link keeps the modification time of the staged file, an S3 copy is new.
CopyObject(c) ==
  LET u == client[c].upload IN
  /\ client[c].pc = "finalize"
  /\ object[u] = "none" /\ staging[u] # "none"
  /\ object' = [object EXCEPT ![u] = IF backend = "local" THEN staging[u] ELSE "young"]
  /\ Goto(c, "unlink")
  /\ UNCHANGED <<backend, staging, row, sweep, history, aborts>>

\* ItemNotFoundException
NothingStaged(c) ==
  LET u == client[c].upload IN
  /\ client[c].pc = "finalize"
  /\ object[u] = "none" /\ staging[u] = "none"
  /\ Return(c)
  /\ UNCHANGED <<backend, files, row, sweep, history, aborts>>

\* Unlinking a file that is gone fails on the local backend only.
RemoveStaged(c) ==
  LET u == client[c].upload IN
  /\ client[c].pc = "unlink"
  /\ staging' = [staging EXCEPT ![u] = "none"]
  /\ IF staging[u] = "none" /\ backend = "local" THEN Return(c) ELSE Goto(c, "record")
  /\ UNCHANGED <<backend, object, row, sweep, history, aborts>>

\* The local backend cannot unlink a staged file that is there: the link is undone.
UndoLink(c) ==
  LET u == client[c].upload IN
  /\ client[c].pc = "unlink" /\ backend = "local"
  /\ staging[u] # "none"
  /\ object' = [object EXCEPT ![u] = "none"]
  /\ Return(c)
  /\ UNCHANGED <<backend, staging, row, sweep, history, aborts>>

\* The second transaction of _finalize.  A row that moved on is left alone.
Record(c) ==
  LET u == client[c].upload IN
  /\ client[c].pc = "record"
  /\ row' = [row EXCEPT ![u] = IF @ = Preparing THEN Queued ELSE @]
  /\ Return(c)
  /\ UNCHANGED <<backend, files, sweep, history, aborts>>

\* The process dies, or the connection is lost between two steps.
Vanish(c) ==
  /\ client[c].pc # "idle"
  /\ Return(c)
  /\ UNCHANGED <<backend, files, row, sweep, history, aborts>>

-----------------------------------------------------------------------------
(* reconcile.  An advisory lock keeps it to one at a time.  now was read     *)
(* before it started, so what is old was old then.                          *)

Snapshot ==
  /\ sweep.pc = "idle"
  /\ sweep' = [NoSweep EXCEPT
       !.pc = "staging",
       !.objects = {u \in Uploads : row[u].key = "object"},
       !.staging = {u \in Uploads : row[u].key = "staging"},
       !.oldStaging = {u \in Uploads : staging[u] = "old"},
       !.oldObjects = {u \in Uploads : \/ object[u] = "old"
                                       \/ backend = "local" /\ staging[u] = "old"}]
  /\ UNCHANGED <<backend, files, row, client, history, aborts>>

\* Seeded fault: only files a revision refers to are expired.
ExpiredStaging_Referenced == {u \in sweep.oldStaging : staging[u] # "none" /\ u \in sweep.staging}

ExpiredStaging == {u \in sweep.oldStaging : staging[u] # "none"}

ListStaging ==
  /\ sweep.pc = "staging"
  /\ sweep' = [sweep EXCEPT !.pc = "expire", !.todo = ExpiredStaging]
  /\ UNCHANGED <<backend, files, row, client, history, aborts>>

ExpireStaging(u) ==
  /\ sweep.pc = "expire" /\ sweep.failing = NoUpload
  /\ u \in sweep.todo
  /\ staging' = [staging EXCEPT ![u] = "none"]
  /\ sweep' = [sweep EXCEPT !.todo = @ \ {u},
                            !.failing = IF u \in sweep.staging THEN u ELSE NoUpload]
  /\ UNCHANGED <<backend, object, row, client, history, aborts>>

\* Seeded fault: the revision is failed even when it was finalized meanwhile.
FailedRow_Always(r) == [r EXCEPT !.key = IF @ = "staging" THEN "cleared" ELSE @,
                                 !.status = "failed", !.job = "failed"]

\* The revision is left alone once it has its storage key, the job is not.
FailedRow(r) == CASE r = Preparing -> Expired
                  [] r = Queued -> Stranded
                  [] OTHER -> r

FailExpiredStaging ==
  /\ sweep.failing # NoUpload
  /\ row' = [row EXCEPT ![sweep.failing] = FailedRow(@)]
  /\ sweep' = [sweep EXCEPT !.failing = NoUpload]
  /\ UNCHANGED <<backend, files, client, history, aborts>>

\* Seeded fault: the grace period is not looked at.
Orphans_NoGrace == {u \in Uploads : object[u] # "none" /\ u \notin sweep.objects}

Orphans == {u \in sweep.oldObjects : object[u] # "none" /\ u \notin sweep.objects}

ListObjects ==
  /\ sweep.pc = "expire" /\ sweep.todo = {} /\ sweep.failing = NoUpload
  /\ sweep' = [sweep EXCEPT !.pc = "orphans", !.todo = Orphans]
  /\ UNCHANGED <<backend, files, row, client, history, aborts>>

DeleteOrphan(u) ==
  /\ sweep.pc = "orphans"
  /\ u \in sweep.todo
  /\ object' = [object EXCEPT ![u] = "none"]
  /\ sweep' = [sweep EXCEPT !.todo = @ \ {u}]
  /\ UNCHANGED <<backend, staging, row, client, history, aborts>>

\* Seeded fault: an object that is missing is passed over.
Broken_PresentOnly == {u \in sweep.objects : u \in damaged /\ object[u] # "none"}

\* Missing, or of the wrong size or checksum.
Broken == {u \in sweep.objects : u \in damaged \/ object[u] = "none"}

Verify ==
  /\ sweep.pc = "orphans" /\ sweep.todo = {}
  /\ sweep' = [sweep EXCEPT !.pc = "quarantine", !.todo = Broken]
  /\ UNCHANGED <<backend, files, row, client, history, aborts>>

Quarantine(u) ==
  /\ sweep.pc = "quarantine"
  /\ u \in sweep.todo
  /\ row' = [row EXCEPT ![u] = Quarantined]
  /\ sweep' = [sweep EXCEPT !.todo = @ \ {u}]
  /\ UNCHANGED <<backend, files, client, history, aborts>>

Done ==
  /\ sweep.pc = "quarantine" /\ sweep.todo = {}
  /\ sweep' = NoSweep
  /\ UNCHANGED <<backend, files, row, client, history, aborts>>

\* A storage or database call raises, or the worker restarts; the loop goes on.
Abort ==
  /\ sweep.pc # "idle"
  /\ aborts < MaxAborts
  /\ aborts' = aborts + 1
  /\ sweep' = NoSweep
  /\ UNCHANGED <<backend, files, row, client, history>>

-----------------------------------------------------------------------------
(* Time and the outside world.                                              *)

Older(f) == IF f = "none" THEN "none" ELSE "old"

\* A staged file and its hard link are one file; an S3 copy is younger.
GrowOld(u) ==
  /\ staging[u] = "young" \/ object[u] = "young"
  /\ staging' = [staging EXCEPT ![u] = Older(@)]
  /\ \/ object' = [object EXCEPT ![u] = Older(@)]
     \/ backend = "s3" /\ staging[u] = "young" /\ object' = object
  /\ slow' = IF row[u].key = "object" THEN slow ELSE slow \cup {u}
  /\ UNCHANGED <<backend, row, client, sweep, used, damaged, aborts>>

\* A stored object is lost or altered by something else than the gateway.
Damage(u) ==
  /\ row[u].key = "object" /\ object[u] # "none"
  /\ damaged' = damaged \cup {u}
  /\ object' \in {object, [object EXCEPT ![u] = "none"]}
  /\ UNCHANGED <<backend, staging, row, client, sweep, used, slow, aborts>>

-----------------------------------------------------------------------------
Request(c) == \/ \E u \in Uploads : Stage(c, u) \/ Resume(c, u)
              \/ InsertRows(c) \/ InsertRaises(c)
              \/ AlreadyFinal(c) \/ CopyObject(c) \/ NothingStaged(c) \/ RemoveStaged(c)
              \/ UndoLink(c)
              \/ Record(c) \/ Vanish(c)

Reconcile == \/ Snapshot \/ ListStaging \/ FailExpiredStaging \/ ListObjects \/ Verify \/ Done
             \/ \E u \in Uploads : ExpireStaging(u) \/ DeleteOrphan(u) \/ Quarantine(u)

Next == \/ \E c \in Clients : Request(c)
        \/ Reconcile \/ Abort
        \/ \E u \in Uploads : GrowOld(u) \/ Damage(u)

\* The maintenance loop runs for ever and files grow old; clients promise nothing.
Spec == /\ Init /\ [][Next]_vars
        /\ WF_vars(Reconcile)
        /\ \A u \in Uploads : WF_vars(GrowOld(u))

-----------------------------------------------------------------------------
(* Properties.                                                              *)

\* The revision and its job are always in one of six combinations, whatever
\* order the requests, their retries and the reconciler wrote in.
RowsAgree ==
  /\ row \in [Uploads -> {NoRow, Preparing, Queued, Expired, Stranded, Quarantined}]
  /\ staging \in [Uploads -> File] /\ object \in [Uploads -> File]

\* An upload that was finalized before its file reached the age limit is safe
\* from the reconciler, although the reconciler works from an old snapshot:
\* its object stays and its job is not failed.
PromptUploadSafe ==
  \A u \in Uploads : row[u].key = "object" /\ u \notin slow \cup damaged =>
                       object[u] # "none" /\ row[u] = Queued

\* Rows and files agree throughout, and a prompt upload keeps its object.
StoresAgree == RowsAgree /\ PromptUploadSafe

\* No file is leaked: what a failed or abandoned upload left behind is removed,
\* or becomes the object of a revision after all.
Abandoned(u) == staging[u] # "none" \/ (object[u] # "none" /\ row[u].key # "object")
AbandonedFilesGo == \A u \in Uploads : Abandoned(u) ~> ~Abandoned(u)

\* A revision whose object is gone or altered is quarantined in the end.
BrokenObjectQuarantined ==
  \A u \in Uploads : row[u].key = "object" /\ (object[u] = "none" \/ u \in damaged)
                       ~> row[u].status = "quarantined"
=============================================================================

----------------------------- MODULE Retention ------------------------------
(***************************************************************************)
(* application/services/retention_service.py and the database function      *)
(* gateway_run_retention with its provenance trigger (alembic/versions/     *)
(* 018_retention_executor.py).  A batch is one transaction under an         *)
(* advisory lock: it takes at most MaxRows rows of each kind away from one  *)
(* knowledge revision and one document revision, so a large tree goes over  *)
(* many batches, and it deletes files only after its commit.  A root is an  *)
(* item or a document; time is whether a retention period has passed.       *)
(***************************************************************************)
EXTENDS Naturals

CONSTANTS Items, Papers,     \* the roots: items and documents
          RevisionsOf,       \* RevisionsOf[r]: the revisions of root r
          Parents,           \* session families, API keys, expiring records
          MaxRows,           \* the batch size
          Width,             \* bound on the rows of a kind per revision
          NoRevision

ASSUME RetentionAssumption ==
  /\ Items \cap Papers = {} /\ MaxRows \in Nat \ {0} /\ Width \in Nat
  /\ \A r \in Items \cup Papers : RevisionsOf[r] # {} /\ NoRevision \notin RevisionsOf[r]
  /\ \A r, q \in Items \cup Papers : r # q => RevisionsOf[r] \cap RevisionsOf[q] = {}

VARIABLES db,        \* the rows, as the function finds them
          archived,  \* archived[r]: "live", "archived", or "aged" past the period
          old,       \* revisions past the revision period; expired parents
          kept,      \* document revisions whose object is in storage
          doomed     \* objects the committed batch has left to delete

retentionVars == <<db, archived, old, kept, doomed>>

Roots == Items \cup Papers
Owned(kind) == IF kind = "item" THEN Items ELSE Papers
ItemRevisions == UNION {RevisionsOf[k] : k \in Items}
DocumentRevisions == UNION {RevisionsOf[d] : d \in Papers}
RootOf(v) == CHOOSE r \in Roots : v \in RevisionsOf[r]

\* The rows under a revision, by kind; a knowledge revision has only units.
Full(v) == IF v \in ItemRevisions THEN [unit |-> Width, outbox |-> 0, job |-> 0, chunk |-> 0]
           ELSE [unit |-> Width, outbox |-> Width, job |-> Width, chunk |-> Width]
Empty == [unit |-> 0, outbox |-> 0, job |-> 0, chunk |-> 0]

RetentionInit ==
  /\ db = [roots |-> Roots, revs |-> ItemRevisions \cup DocumentRevisions,
           rows |-> [v \in ItemRevisions \cup DocumentRevisions |-> Full(v)],
           cites |-> [v \in ItemRevisions |-> NoRevision],
           current |-> [r \in Roots |-> CHOOSE v \in RevisionsOf[r] : TRUE],
           jobs |-> {}, parents |-> Parents, parts |-> [p \in Parents |-> Width]]
  /\ archived = [r \in Roots |-> "live"]
  /\ old = {}
  /\ kept = DocumentRevisions
  /\ doomed = {}

CitationsOf(base, v) == {k \in ItemRevisions : base.cites[k] = v}

-----------------------------------------------------------------------------
\* At most MaxRows go, and only those nothing hangs on: a job after its outbox
\* rows, a chunk after its units.
Fewer(n) == IF n <= MaxRows THEN 0 ELSE n - MaxRows
Freed(n, held) == held + Fewer(n - held)
Stripped(rows) ==
  LET outbox == Fewer(rows.outbox)
      unit == Fewer(rows.unit)
  IN [outbox |-> outbox, unit |-> unit,
      job |-> Freed(rows.job, outbox), chunk |-> Freed(rows.chunk, unit)]

\* One archived root past its period becomes a purge job; a document only when
\* nothing cites any of its revisions.
QueuePurge(base, kind) ==
  LET due == {r \in (Owned(kind) \cap base.roots) \ base.jobs :
                /\ archived[r] = "aged"
                /\ kind = "document" => \A v \in RevisionsOf[r] : CitationsOf(base, v) = {}}
  IN IF due = {} THEN {base} ELSE {[base EXCEPT !.jobs = @ \cup {r}] : r \in due}

Uncited_Ignored(base, v) == TRUE

\* NOT EXISTS a provenance link to the revision or to one of its chunks.
Uncited(base, v) == v \in DocumentRevisions => CitationsOf(base, v) = {}

EligibleRevisions_OldOnly(base, kind, target) ==
  {v \in base.revs : /\ RootOf(v) \in Owned(kind) /\ Uncited(base, v)
                     /\ v \in old /\ v # base.current[RootOf(v)]}

\* The target's revisions first, then superseded ones past their period.
EligibleRevisions(base, kind, target) ==
  LET mine == {v \in base.revs : target # {} /\ v \in RevisionsOf[CHOOSE r \in target : TRUE]
                                 /\ Uncited(base, v)}
  IN IF mine # {} THEN mine
     ELSE {v \in base.revs : /\ RootOf(v) \in Owned(kind) /\ Uncited(base, v)
                             /\ v \in old /\ v # base.current[RootOf(v)]}

\* The target's pointer is cleared, one revision loses rows, and goes when it
\* has none left; the target goes with its last revision, and its job.
Purge(base, target, victim) ==
  LET rows == [v \in DOMAIN base.rows |-> IF v \in victim THEN Stripped(base.rows[v]) ELSE base.rows[v]]
      cites == [k \in ItemRevisions |-> IF k \in victim THEN NoRevision ELSE base.cites[k]]
      revs == base.revs \ {v \in victim : rows[v] = Empty}
      ended == {r \in target : RevisionsOf[r] \cap revs = {}}
  IN [base EXCEPT !.rows = rows, !.cites = cites, !.revs = revs,
                  !.roots = @ \ ended, !.jobs = @ \ ended]

Cleared(base, target) ==
  [base EXCEPT !.current = [r \in Roots |-> IF r \in target THEN NoRevision ELSE @[r]]]

Somewhere(S) == IF S = {} THEN {{}} ELSE {{x} : x \in S}

Purged(base, kind) ==
  UNION {{Purge(Cleared(base, target), target, victim) :
            victim \in Somewhere(EligibleRevisions(Cleared(base, target), kind, target))} :
         target \in Somewhere(base.jobs \cap Owned(kind))}

\* A family or a key loses parts, and goes when it has none; a bare record is
\* one without parts.
PurgedRecords(base) ==
  {LET parts == [x \in Parents |-> IF x \in p THEN Fewer(base.parts[x]) ELSE base.parts[x]]
   IN [base EXCEPT !.parts = parts, !.parents = @ \ {x \in p : parts[x] = 0}] :
   p \in Somewhere(base.parents \cap old)}

\* purge: one batch commits; what lost its row is then deleted from storage.
RunBatch ==
  /\ doomed = {}
  /\ \E i \in QueuePurge(db, "item") : \E d \in QueuePurge(i, "document") :
     \E a \in Purged(d, "item") : \E b \in Purged(a, "document") : \E c \in PurgedRecords(b) :
       /\ c # db /\ db' = c
       /\ doomed' = (db.revs \ c.revs) \cap DocumentRevisions
  /\ UNCHANGED <<archived, old, kept>>

\* storage.delete; or it fails, or the worker stops, and the reconciler is
\* left with an unreferenced object.
DeleteFile(v) ==
  /\ v \in doomed /\ doomed' = doomed \ {v}
  /\ kept' \in {kept, kept \ {v}}
  /\ UNCHANGED <<db, archived, old>>

-----------------------------------------------------------------------------
\* A member archives a root; its period passes; other rows grow old.
Archive(r) == /\ archived[r] = "live"
              /\ archived' = [archived EXCEPT ![r] = "archived"]
              /\ UNCHANGED <<db, old, kept, doomed>>

PeriodPasses(r) == /\ archived[r] = "archived"
                   /\ archived' = [archived EXCEPT ![r] = "aged"]
                   /\ UNCHANGED <<db, old, kept, doomed>>

Age(x) == /\ x \in (db.revs \cup db.parents) \ old
              /\ old' = old \cup {x}
              /\ UNCHANGED <<db, archived, kept, doomed>>

\* A knowledge revision is written with a source: the trigger refuses one
\* whose document is archived.
Cite(k, v) ==
  /\ k \in db.revs \cap ItemRevisions /\ archived[RootOf(k)] = "live"
  /\ v \in db.revs \cap DocumentRevisions /\ archived[RootOf(v)] = "live"
  /\ db.cites[k] = NoRevision /\ db.rows[k] = Full(k)
  /\ db' = [db EXCEPT !.cites[k] = v]
  /\ UNCHANGED <<archived, old, kept, doomed>>

RetentionNext ==
  \/ RunBatch
  \/ \E v \in DocumentRevisions : DeleteFile(v)
  \/ \E r \in Roots : Archive(r) \/ PeriodPasses(r)
  \/ \E x \in ItemRevisions \cup DocumentRevisions \cup Parents : Age(x)
  \/ \E k \in ItemRevisions, v \in DocumentRevisions : Cite(k, v)

RetentionSpec == RetentionInit /\ [][RetentionNext]_retentionVars

-----------------------------------------------------------------------------
Protected == {v \in db.revs : \/ CitationsOf(db, v) # {}
                              \/ archived[RootOf(v)] # "aged" /\ v = db.current[RootOf(v)]}

\* No batch takes anything from what is still in use after it: the current
\* revision of a root that is not past its period, a document revision that
\* knowledge cites.  No citation dangles and no revision loses its file.
RetainedIsWhole ==
  [][/\ \A v \in Protected' : db'.rows[v] = db.rows[v]
     /\ \A r \in Roots : archived[r] # "aged" => db'.current[r] \in db'.revs
     /\ \A k \in db'.revs \cap ItemRevisions : db'.cites[k] \in db'.revs \cup {NoRevision}
     /\ db'.revs \cap DocumentRevisions \subseteq kept']_retentionVars

\* An archived item past its period is removed in the end, however many
\* batches its revisions take, and so is a document nothing cites.
AgedIsPurged ==
  \A r \in Roots : (archived[r] = "aged" /\ \A v \in RevisionsOf[r] : CitationsOf(db, v) = {})
                     ~> r \notin db.roots
=============================================================================

---------------------------- MODULE GitConnector ----------------------------
(***************************************************************************)
(* application/services/git_connector_service.py and git_command.py: one    *)
(* registered repository whose changed files become documents.  A sync      *)
(* reads the connector, then the branch's head, then works path by path,    *)
(* each in transactions of its own, and last records the commit.  It may    *)
(* stop anywhere, and two syncs may run at once.  A commit is its position  *)
(* in the branch's history; the ingestion worker settles documents.         *)
(***************************************************************************)
EXTENDS Naturals, Sequences

CONSTANTS Paths, Contents, Nothing,   \* Nothing: no such file, no such mapping
          MaxCommits, MaxDocuments,   \* bounds
          Syncs                       \* syncs that may run at once

ASSUME GitAssumption == Nothing \notin Contents \cup [doc : Nat, checksum : Contents]

VARIABLES history,    \* the branch: trees, oldest first (external)
          connector,  \* the source_connectors row; last = 0 before the first sync
          mapping,    \* source_connector_files: path -> document and checksum
          documents,  \* documents[d]: state and content of its latest revision
          receipts,   \* the ingestion jobs the uploads' idempotency keys find
          sync,       \* sync[s]: the request's step and what it has read
          torn        \* history: two syncs have run at once, or one stopped between
                      \* a revision's upload and the record of its checksum

gitVars == <<history, connector, mapping, documents, receipts, sync, torn>>

Trees == [Paths -> Contents \cup {Nothing}]
Newest == Len(history)
Ready == [pc |-> "idle", base |-> 0, head |-> 0, todo |-> {}, skipped |-> {},
          path |-> Nothing, doc |-> 0]

GitInit == /\ history \in {<<t>> : t \in Trees}
           /\ connector = [status |-> "none", last |-> 0]
           /\ mapping = [p \in Paths |-> Nothing]
           /\ documents = <<>>
           /\ receipts = {}
           /\ sync = [s \in Syncs |-> Ready]
           /\ torn = FALSE

\* git_changed_paths: every path of the tree at first, then the difference.
ChangedPaths(base, head) ==
  {p \in Paths : IF base = 0 THEN history[head][p] # Nothing
                 ELSE history[head][p] # history[base][p]}

-----------------------------------------------------------------------------
\* Outside the service: commits, ingestion outcomes, a member's archiving.
CommitTree(t) == /\ Newest < MaxCommits /\ t # history[Newest]
                 /\ history' = Append(history, t)
                 /\ UNCHANGED <<connector, mapping, documents, receipts, sync, torn>>

DocumentSettles(d, state) ==
  /\ documents[d].state \in {"processing", "ready"}
  /\ state \in IF documents[d].state = "ready" THEN {"archived"} ELSE {"ready", "failed"}
  /\ documents' = [documents EXCEPT ![d].state = state]
  /\ UNCHANGED <<history, connector, mapping, receipts, sync, torn>>

\* register: a second registration finds the row there is; a deleted one is
\* found too, and the route refuses it.
Register == /\ connector.status = "none"
            /\ connector' = [connector EXCEPT !.status = "active"]
            /\ UNCHANGED <<history, mapping, documents, receipts, sync, torn>>

Unregister == /\ connector.status = "active"
              /\ connector' = [connector EXCEPT !.status = "deleted"]
              /\ UNCHANGED <<history, mapping, documents, receipts, sync, torn>>

-----------------------------------------------------------------------------
ReadConnector(s) ==
  /\ sync[s].pc = "idle" /\ connector.status = "active"
  /\ sync' = [sync EXCEPT ![s].pc = "based", ![s].base = connector.last]
  /\ torn' = (torn \/ \E o \in Syncs \ {s} : sync[o].pc # "idle")
  /\ UNCHANGED <<history, connector, mapping, documents, receipts>>

\* Nothing new: the sync answers at once.
ReadHead(s) ==
  /\ sync[s].pc = "based"
  /\ sync' = IF sync[s].base = Newest
             THEN [sync EXCEPT ![s] = Ready]
             ELSE [sync EXCEPT ![s].pc = "paths", ![s].head = Newest,
                               ![s].todo = ChangedPaths(sync[s].base, Newest)]
  /\ UNCHANGED <<history, connector, mapping, documents, receipts, torn>>

At(s, p) == history[sync[s].head][p]
Doing(s, p) == sync[s].pc = "paths" /\ p \in sync[s].todo
Unchanged(s, p) == mapping[p] # Nothing /\ mapping[p].checksum = At(s, p)
Through(s, p) == [sync EXCEPT ![s].todo = @ \ {p}]

\* A secret or unsupported file, a git error, a rejected upload, a document
\* still being ingested: reported as skipped.
SkipPath(s, p) ==
  /\ Doing(s, p) /\ At(s, p) # Nothing
  /\ sync' = [sync EXCEPT ![s].todo = @ \ {p}, ![s].skipped = @ \cup {p}]
  /\ UNCHANGED <<history, connector, mapping, documents, receipts, torn>>

SkipUnchanged(s, p) ==
  /\ Doing(s, p) /\ At(s, p) # Nothing /\ Unchanged(s, p)
  /\ sync' = Through(s, p)
  /\ UNCHANGED <<history, connector, mapping, documents, receipts, torn>>

\* _archive_connector_document
ArchivePath(s, p) ==
  /\ Doing(s, p) /\ At(s, p) = Nothing
  /\ mapping' = [mapping EXCEPT ![p] = Nothing]
  /\ documents' = IF mapping[p] = Nothing THEN documents
                  ELSE [documents EXCEPT ![mapping[p].doc].state = "archived"]
  /\ sync' = Through(s, p)
  /\ UNCHANGED <<history, connector, receipts, torn>>

Receipt(s, p, op, d) == [head |-> sync[s].head, content |-> At(s, p), op |-> op,
                         path |-> p, doc |-> d]
\* The key names the commit and the content, not the path.
SameKey(s, p) == {r \in receipts : r.head = sync[s].head /\ r.content = At(s, p)}

NeedsDocument(p) == mapping[p] # Nothing => documents[mapping[p].doc].state \in {"failed", "archived"}

\* upload_new: a key that was used for the same path is replayed; for another
\* path it is a conflict, and the sync stops (AbortSync).
UploadNew(s, p) ==
  /\ Doing(s, p) /\ At(s, p) # Nothing /\ ~Unchanged(s, p) /\ NeedsDocument(p)
  /\ \/ /\ SameKey(s, p) = {} /\ Len(documents) < MaxDocuments
        /\ documents' = Append(documents, [state |-> "processing", latest |-> At(s, p)])
        /\ receipts' = receipts \cup {Receipt(s, p, "create", Len(documents'))}
        /\ sync' = [sync EXCEPT ![s].pc = "created", ![s].path = p, ![s].doc = Len(documents')]
     \/ \E r \in SameKey(s, p) :
          /\ r.op = "create" /\ r.path = p
          /\ sync' = [sync EXCEPT ![s].pc = "created", ![s].path = p, ![s].doc = r.doc]
          /\ UNCHANGED <<documents, receipts>>
  /\ UNCHANGED <<history, connector, mapping, torn>>

UploadRevision(s, p) ==
  LET d == mapping[p].doc IN
  /\ Doing(s, p) /\ At(s, p) # Nothing /\ ~Unchanged(s, p)
  /\ mapping[p] # Nothing /\ documents[d].state = "ready"
  /\ \/ /\ SameKey(s, p) = {}
        /\ documents' = [documents EXCEPT ![d].latest = At(s, p)]
        /\ receipts' = receipts \cup {Receipt(s, p, "revise", d)}
     \/ /\ Receipt(s, p, "revise", d) \in SameKey(s, p)
        /\ UNCHANGED <<documents, receipts>>
  /\ sync' = [sync EXCEPT ![s].pc = "revised", ![s].path = p, ![s].doc = d]
  /\ UNCHANGED <<history, connector, mapping, torn>>

\* _record_mapping after a new document, _update_mapping_checksum after a
\* revision (which finds no row when another sync archived the path).
RecordMapping(s) ==
  LET p == sync[s].path IN
  /\ sync[s].pc \in {"created", "revised"}
  /\ mapping' = IF sync[s].pc = "created"
                THEN [mapping EXCEPT ![p] = [doc |-> sync[s].doc, checksum |-> At(s, p)]]
                ELSE IF mapping[p] = Nothing THEN mapping
                ELSE [mapping EXCEPT ![p].checksum = At(s, p)]
  /\ sync' = [sync EXCEPT ![s].pc = "paths", ![s].todo = @ \ {p}, ![s].path = Nothing]
  /\ UNCHANGED <<history, connector, documents, receipts, torn>>

SyncedCommit_Fresh(s) == Newest

\* The commit the loop worked from.
SyncedCommit(s) == sync[s].head

FinishSync(s) ==
  /\ sync[s].pc = "paths" /\ sync[s].todo = {}
  /\ connector.status = "active"
  /\ connector' = [connector EXCEPT !.last = SyncedCommit(s)]
  /\ sync' = [sync EXCEPT ![s] = Ready]
  /\ UNCHANGED <<history, mapping, documents, receipts, torn>>

\* An exception other than a rejected file, a lost worker, an unregistered
\* connector: what the paths did stays.
AbortSync(s) ==
  /\ sync[s].pc # "idle"
  /\ sync' = [sync EXCEPT ![s] = Ready]
  /\ torn' = (torn \/ sync[s].pc = "revised")
  /\ UNCHANGED <<history, connector, mapping, documents, receipts>>

GitNext ==
  \/ \E t \in Trees : CommitTree(t)
  \/ \E d \in DOMAIN documents, state \in {"ready", "failed", "archived"} : DocumentSettles(d, state)
  \/ Register \/ Unregister
  \/ \E s \in Syncs :
       \/ ReadConnector(s) \/ ReadHead(s) \/ RecordMapping(s) \/ FinishSync(s) \/ AbortSync(s)
       \/ \E p \in Paths : \/ SkipPath(s, p) \/ SkipUnchanged(s, p) \/ ArchivePath(s, p)
                           \/ UploadNew(s, p) \/ UploadRevision(s, p)

GitSpec == GitInit /\ [][GitNext]_gitVars

-----------------------------------------------------------------------------
Holds(p, content) ==
  IF content = Nothing THEN mapping[p] = Nothing
  ELSE /\ mapping[p] # Nothing /\ mapping[p].checksum = content
       /\ documents[mapping[p].doc].latest = content

\* A sync that records a commit has carried over every path that commit
\* changed or reported it as skipped, whatever syncs stopped part-way before,
\* as long as no two ran at once and none stopped between a revision's upload
\* and its checksum (a revert would then pass for unchanged).
SyncedOrReported ==
  [][\A s \in Syncs : FinishSync(s) /\ ~torn =>
       \A p \in ChangedPaths(sync[s].base, connector'.last) \ sync[s].skipped :
         Holds(p, history[connector'.last][p])]_gitVars
=============================================================================

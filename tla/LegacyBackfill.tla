--------------------------- MODULE LegacyBackfill ---------------------------
(***************************************************************************)
(* application/services/legacy_backfill_service.py: legacy documents become *)
(* documents with one revision, and legacy knowledge revisions get a        *)
(* provenance link.  Each of the two is a keyset walk up to a high water    *)
(* mark, in batches that may stop anywhere and may overlap.  A row is       *)
(* stamped when its writer builds it and becomes visible when the writer    *)
(* commits; row numbers are the (created_at, id) order.                     *)
(***************************************************************************)
EXTENDS FiniteSets, Naturals

CONSTANTS MaxLegacy,   \* bound: rows the legacy writers ever stamp
          BatchSize,
          Runners      \* commands that may run at once

ASSUME BackfillAssumption ==
  MaxLegacy \in Nat /\ BatchSize \in Nat \ {0} /\ IsFiniteSet(Runners)

Rows == 1..MaxLegacy

VARIABLES name,      \* which of the two walks this is
          legacy,    \* legacy[r]: how far its writer has come
          walk,      \* the migration_backfill_runs row
          target,    \* target[r]: what has been migrated of it
          objects,   \* final objects in versioned storage
          runner,    \* runner[w]: a batch command's step and its page
          owed       \* history: rows a mark was taken over while they were visible

backfillVars == <<name, legacy, walk, target, objects, runner, owed>>

Documents == name = "legacy_documents"
Stored == {r \in Rows : legacy[r] \in {"stored", "chunked"}}
Latest == IF Stored = {} THEN 0 ELSE CHOOSE r \in Stored : \A s \in Stored : s <= r
AtRest == [pc |-> "rest", entry |-> "snapshot", page |-> {}, inserted |-> 0]

\* The walk starts over the rows there are; 0 stands for a null mark or cursor.
BackfillInit ==
  /\ name \in {"legacy_documents", "legacy_knowledge_provenance"}
  /\ \E n \in 0..MaxLegacy :
       legacy = [r \in Rows |-> IF r <= n THEN "chunked" ELSE "unborn"]
  /\ walk = [phase |-> "none", high |-> 0, delta |-> 0, cursor |-> 0, migrated |-> 0]
  /\ target = [r \in Rows |-> {}]
  /\ objects = {}
  /\ runner = [w \in Runners |-> AtRest]
  /\ owed = {}

-----------------------------------------------------------------------------
(* ingest_file and the document repository: the row is stamped, saved in one *)
(* transaction, and its chunks in the next.  A knowledge revision is one.    *)
Stamp(r) == /\ legacy[r] = "unborn" /\ \A s \in 1..(r - 1) : legacy[s] # "unborn"
            /\ legacy' = [legacy EXCEPT ![r] = "building"]
            /\ UNCHANGED <<name, walk, target, objects, runner, owed>>

SaveLegacy(r) ==
  /\ \/ legacy[r] = "building" /\ legacy' = [legacy EXCEPT ![r] = "stored"]
     \/ Documents /\ legacy[r] = "stored" /\ legacy' = [legacy EXCEPT ![r] = "chunked"]
  /\ UNCHANGED <<name, walk, target, objects, runner, owed>>

\* The storage maintenance run collects an object no revision refers to.
CollectOrphan(r) == /\ r \in objects /\ target[r] = {}
                    /\ objects' = objects \ {r}
                    /\ UNCHANGED <<name, legacy, walk, target, runner, owed>>

-----------------------------------------------------------------------------
\* start_document_snapshot, _start_knowledge_snapshot.
StartSnapshot(w) ==
  /\ runner[w].pc = "rest" /\ walk.phase = "none"
  /\ walk' = [walk EXCEPT !.phase = "snapshot", !.high = Latest]
  /\ owed' = Stored
  /\ UNCHANGED <<name, legacy, target, objects, runner>>

\* _bounds and _document_batch: the first rows after the cursor, up to the mark.
Batch(cursor, mark) ==
  LET within == {r \in Stored : cursor < r /\ r <= mark}
  IN {r \in within : Cardinality({s \in within : s <= r}) <= BatchSize}

\* run_document_snapshot_batch, run_document_delta_batch and
\* run_knowledge_provenance_batch: the page is read in a transaction of its own.
ReadBatch(w) ==
  LET mark == IF walk.phase = "delta" THEN walk.delta ELSE walk.high
      page == Batch(walk.cursor, mark)
  IN /\ runner[w].pc = "rest" /\ walk.phase \in {"snapshot", "delta"}
     /\ runner' = [runner EXCEPT ![w] =
          [AtRest EXCEPT !.pc = IF page = {} THEN "empty" ELSE "row",
                         !.entry = walk.phase, !.page = page]]
     /\ UNCHANGED <<name, legacy, walk, target, objects, owed>>

\* The rows of a page are taken in their order.
NextRow(w) == CHOOSE r \in runner[w].page : \A s \in runner[w].page : r <= s

\* Mutant: the delta walk begins at the newest row there is.
DeltaCursor_Latest == Latest

DeltaCursor == walk.high

\* _start_delta, under the lock of the run.
StartDelta(w) ==
  /\ runner[w].pc = "empty" /\ Documents /\ runner[w].entry = "snapshot"
  /\ runner' = [runner EXCEPT ![w] = AtRest]
  /\ IF walk.phase = "snapshot"
     THEN /\ walk' = [walk EXCEPT !.phase = "delta", !.delta = Latest,
                                !.cursor = DeltaCursor]
          /\ owed' = owed \cup {r \in Stored : r > walk.high}
     ELSE UNCHANGED <<walk, owed>>
  /\ UNCHANGED <<name, legacy, target, objects>>

\* _complete
CompleteWalk(w) ==
  /\ runner[w].pc = "empty" /\ (Documents => runner[w].entry = "delta")
  /\ runner' = [runner EXCEPT ![w] = AtRest]
  /\ walk' = [walk EXCEPT !.phase = "complete"]
  /\ UNCHANGED <<name, legacy, target, objects, owed>>

\* _migrate_document's first part: nothing to do for a document that is there,
\* otherwise its object is staged and finalized under its deterministic key, or
\* found there from an attempt that stopped.
PrepareObject(w) ==
  LET r == NextRow(w)
  IN /\ runner[w].pc = "row" /\ Documents
     /\ IF target[r] # {}
        THEN /\ runner' = [runner EXCEPT ![w].pc = "advance", ![w].inserted = 0]
             /\ UNCHANGED objects
        ELSE /\ runner' = [runner EXCEPT ![w].pc = "insert"]
             /\ objects' = objects \cup {r}
     /\ UNCHANGED <<name, legacy, walk, target, owed>>

\* Its second: document, revision, chunks and units in one transaction.  Units
\* are written only when the chunks are there with vectors of the active width.
InsertDocument(w) ==
  LET r == NextRow(w)
  IN /\ runner[w].pc = "insert" /\ Documents
     /\ runner' = [runner EXCEPT ![w].pc = "advance",
                                 ![w].inserted = IF target[r] = {} THEN 1 ELSE 0]
     /\ IF target[r] # {} THEN UNCHANGED target
        ELSE \E units \in IF legacy[r] = "chunked" THEN {{}, {"units"}} ELSE {{}} :
               target' = [target EXCEPT ![r] = {"document"} \cup units]
     /\ UNCHANGED <<name, legacy, walk, objects, owed>>

\* The provenance walk counts the links, then adds one; no constraint refuses
\* a second.
CountLinks(w) ==
  LET r == NextRow(w)
  IN /\ runner[w].pc = "row" /\ ~Documents
     /\ runner' = [runner EXCEPT ![w].pc = IF target[r] = {} THEN "insert" ELSE "advance",
                                 ![w].inserted = IF target[r] = {} THEN 1 ELSE 0]
     /\ UNCHANGED <<name, legacy, walk, target, objects, owed>>

AddLink(w) ==
  /\ runner[w].pc = "insert" /\ ~Documents
  /\ runner' = [runner EXCEPT ![w].pc = "advance"]
  /\ target' = [target EXCEPT ![NextRow(w)] = @ \cup {w}]
  /\ UNCHANGED <<name, legacy, walk, objects, owed>>

\* _advance: the cursor becomes this row, wherever it was.
Advance(w) ==
  /\ runner[w].pc = "advance"
  /\ walk' = [walk EXCEPT !.cursor = NextRow(w), !.migrated = @ + runner[w].inserted]
  /\ runner' = [runner EXCEPT ![w] =
       [AtRest EXCEPT !.page = runner[w].page \ {NextRow(w)}, !.entry = runner[w].entry,
                      !.pc = IF runner[w].page = {NextRow(w)} THEN "rest" ELSE "row"]]
  /\ UNCHANGED <<name, legacy, target, objects, owed>>

\* The command is killed, or a file that cannot be read stops it.
Interrupt(w) == /\ runner[w].pc # "rest"
                /\ runner' = [runner EXCEPT ![w] = AtRest]
                /\ UNCHANGED <<name, legacy, walk, target, objects, owed>>

BackfillNext ==
  \/ \E r \in Rows : Stamp(r) \/ SaveLegacy(r) \/ CollectOrphan(r)
  \/ \E w \in Runners :
       \/ StartSnapshot(w) \/ ReadBatch(w) \/ StartDelta(w) \/ CompleteWalk(w)
       \/ PrepareObject(w) \/ InsertDocument(w) \/ CountLinks(w) \/ AddLink(w)
       \/ Advance(w) \/ Interrupt(w)

BackfillSpec == BackfillInit /\ [][BackfillNext]_backfillVars

-----------------------------------------------------------------------------
\* However the batches stop, overlap and move the cursor back, a finished walk
\* has migrated every row that was visible when its mark was taken (for the
\* delta: every such row stamped after the first mark), and rows_migrated never
\* counts a document twice.  A row stamped before a mark and committed after it
\* is not owed, and the code does not migrate it.
FinishedWalkIsComplete ==
  /\ walk.phase = "complete" => \A r \in owed : target[r] # {}
  /\ Documents => walk.migrated <= Cardinality({r \in Rows : target[r] # {}})
=============================================================================

---------------------------- MODULE StoresProofs -----------------------------
(***************************************************************************)
(* Theorems about what the gateway stores: the files and rows of an upload *)
(* under the reconciler, the batches of retention, the generations of      *)
(* embeddings and the walks over the legacy tables, for any number of      *)
(* uploads, requests, revisions, operators, drains, units, rows and        *)
(* commands at once.                                                       *)
(***************************************************************************)
EXTENDS UploadStorage, Retention, EmbeddingGenerations, LegacyBackfill,
        FiniteSetTheorems, WellFoundedInduction, TLAPS

-----------------------------------------------------------------------------
(* Files and rows.                                                          *)

Clienting == [pc : {"idle", "insert", "finalize", "unlink", "record"},
              upload : Uploads \cup {NoUpload}]
Sweeps == [pc : {"idle", "staging", "expire", "orphans", "quarantine"},
           objects : SUBSET Uploads, staging : SUBSET Uploads,
           oldObjects : SUBSET Uploads, oldStaging : SUBSET Uploads,
           todo : SUBSET Uploads, failing : Uploads \cup {NoUpload}]

UploadTypes ==
  /\ backend \in {"local", "s3"}
  /\ client \in [Clients -> Clienting]
  /\ \A c \in Clients : client[c].pc # "idle" => client[c].upload \in Uploads
  /\ \A c \in Clients : client[c].pc = "idle" => client[c].upload = NoUpload
  /\ sweep \in Sweeps
  /\ RowsAgree

Prompt(u) == u \notin slow \cup damaged

\* An upload id is drawn once, so nobody else knows one that is not yet in a row.
Unused ==
  /\ \A u \in Uploads : u \notin used =>
       row[u] = NoRow /\ staging[u] = "none" /\ object[u] = "none"
  /\ \A u \in Uploads : u \notin used => \A c \in Clients : client[c].upload # u

Inserting ==
  /\ \A c \in Clients : client[c].pc = "insert" => row[client[c].upload] = NoRow
  /\ \A c, d \in Clients : client[c].pc = "insert" /\ client[d].upload = client[c].upload => d = c

\* A request past the copy of a prompt upload still has its object.
Linked == \A c \in Clients : client[c].pc \in {"unlink", "record"} /\ Prompt(client[c].upload)
                               => object[client[c].upload] # "none"

\* On the local backend one request at a time is between the link and the
\* unlink, and no staged file is left when the object may be recorded: undoing
\* the link takes no object from another request.
Sole ==
  backend = "local" =>
    \A c, d \in Clients :
      (/\ client[c].pc = "unlink" /\ client[d].pc = "unlink"
       /\ client[c].upload = client[d].upload /\ Prompt(client[c].upload)) => c = d
Unstaged ==
  backend = "local" =>
    /\ \A u \in Uploads : row[u].key = "object" => staging[u] = "none"
    /\ \A c \in Clients : client[c].pc = "record" => staging[client[c].upload] = "none"

\* A file grows old only on a recorded or a slow upload.
Young == \A u \in Uploads : row[u].key # "object" /\ u \notin slow =>
                              staging[u] # "old" /\ object[u] # "old"

\* Whatever has changed since the snapshot, what it found old was recorded
\* then or slow, and what was recorded stays so.
Sweeping ==
  /\ \A u \in sweep.objects : row[u].key = "object"
  /\ sweep.oldStaging \cup sweep.oldObjects \subseteq slow \cup sweep.objects
  /\ sweep.staging \cap sweep.objects = {}
  /\ sweep.pc = "expire" => sweep.todo \subseteq sweep.oldStaging
  /\ sweep.pc = "orphans" => sweep.todo \subseteq slow
  /\ sweep.pc = "quarantine" => sweep.todo \subseteq sweep.objects \cap (slow \cup damaged)
  /\ sweep.failing # NoUpload => sweep.failing \in slow

StoresInvariant == /\ UploadTypes /\ Unused /\ Inserting /\ Linked /\ Sole /\ Unstaged
                   /\ Young /\ Sweeping /\ PromptUploadSafe

RowStates == {NoRow, Preparing, Queued, Expired, Stranded, Quarantined}

\* What tells the six combinations apart.
LEMMA RowKinds ==
  /\ NoRow # Preparing /\ NoRow # Queued /\ Preparing # Queued
  /\ NoRow.key = "none" /\ Preparing.key = "staging" /\ Queued.key = "object"
  /\ Expired.key = "cleared" /\ Stranded.key = "object" /\ Quarantined.key = "object"
  /\ Preparing.job = "preparing"
  /\ \A r \in RowStates : r.key = "staging" => r = Preparing
BY DEF RowStates, NoRow, Preparing, Queued, Expired, Stranded, Quarantined, Row

LEMMA StoresInit == Init => StoresInvariant
<1> SUFFICES ASSUME Init PROVE StoresInvariant
  OBVIOUS
<1>1. /\ \A u \in Uploads : row[u] = NoRow /\ staging[u] = "none" /\ object[u] = "none"
      /\ \A c \in Clients : client[c].pc = "idle" /\ client[c].upload = NoUpload
      /\ sweep.pc = "idle" /\ sweep.objects = {} /\ sweep.staging = {} /\ sweep.todo = {}
      /\ sweep.oldObjects = {} /\ sweep.oldStaging = {} /\ sweep.failing = NoUpload
  BY DEF Init, NoClient, NoSweep
<1>2. UploadTypes
  <2>1. NoClient \in Clienting /\ NoSweep \in Sweeps
    BY DEF NoClient, NoSweep, Clienting, Sweeps
  <2>2. RowsAgree
    BY DEF Init, RowsAgree, File
  <2> QED BY <1>1, <2>1, <2>2 DEF Init, UploadTypes
<1>3. Unused /\ Inserting /\ Linked /\ Sole
  BY <1>1, StorageAssumption DEF Unused, Inserting, Linked, Sole
<1>5. Sweeping
  BY <1>1 DEF Sweeping
<1>4. Unstaged /\ Young /\ PromptUploadSafe
  BY <1>1, RowKinds DEF Unstaged, Young, PromptUploadSafe
<1> QED BY <1>2, <1>3, <1>4, <1>5 DEF StoresInvariant

LEMMA StageKeeps ==
  ASSUME StoresInvariant, NEW c \in Clients, NEW u \in Uploads, Stage(c, u)
  PROVE  StoresInvariant'
<1> USE StorageAssumption DEF StoresInvariant, Stage, Prompt
<1>1. UploadTypes'
  BY DEF UploadTypes, Clienting, RowsAgree, File
<1>2. Unused'
  BY DEF UploadTypes, Clienting, Unused, RowsAgree
<1>3. Inserting'
  BY DEF UploadTypes, Clienting, Unused, Inserting
<1>4. Linked' /\ Sole'
  BY DEF UploadTypes, Clienting, Unused, Linked, Sole
<1>5. Unstaged'
  BY DEF UploadTypes, Clienting, Unused, Unstaged, RowsAgree, NoRow, Row
<1>6. Young'
  BY DEF UploadTypes, Clienting, Unused, Young, RowsAgree
<1>7. Sweeping' /\ PromptUploadSafe'
  BY DEF UploadTypes, Sweeping, PromptUploadSafe
<1> QED BY <1>1, <1>2, <1>3, <1>4, <1>5, <1>6, <1>7

LEMMA ResumeKeeps ==
  ASSUME StoresInvariant, NEW c \in Clients, NEW u \in Uploads, Resume(c, u)
  PROVE  StoresInvariant'
<1> USE StorageAssumption, RowKinds DEF StoresInvariant, Resume, files, history, Prompt
<1>1. UploadTypes'
  BY DEF UploadTypes, Clienting, RowsAgree, File
<1>2. Unused'
  BY DEF UploadTypes, Clienting, Unused, RowsAgree
<1>3. Inserting'
  BY DEF UploadTypes, Clienting, Unused, Inserting
<1>4. Linked'
  BY DEF UploadTypes, Clienting, Unused, Linked
<1>5. Sole'
  BY DEF UploadTypes, Clienting, Unused, Linked, Sole
<1>6. Unstaged'
  BY DEF UploadTypes, Clienting, Unused, Unstaged, RowsAgree
<1>7. Young'
  BY DEF UploadTypes, Clienting, Unused, Young, RowsAgree
<1>8. Sweeping'
  BY DEF UploadTypes, Sweeping
<1>9. PromptUploadSafe'
  BY DEF UploadTypes, PromptUploadSafe
<1> QED BY <1>1, <1>2, <1>3, <1>4, <1>5, <1>6, <1>7, <1>8, <1>9

LEMMA InsertRowsKeeps ==
  ASSUME StoresInvariant, NEW c \in Clients, InsertRows(c)
  PROVE  StoresInvariant'
<1> USE StorageAssumption, RowKinds DEF StoresInvariant, InsertRows, Goto, files, history, Prompt
<1>1. UploadTypes'
  BY DEF UploadTypes, Clienting, RowsAgree, File
<1>2. Unused'
  BY DEF UploadTypes, Clienting, Unused, RowsAgree
<1>3. Inserting'
  BY DEF UploadTypes, Clienting, Unused, Inserting
<1>4. Linked'
  BY DEF UploadTypes, Clienting, Unused, Linked
<1>5. Sole'
  BY DEF UploadTypes, Clienting, Unused, Linked, Sole
<1>6. Unstaged'
  BY DEF UploadTypes, Clienting, Unused, Unstaged, RowsAgree
<1>7. Young'
  BY DEF UploadTypes, Clienting, Unused, Inserting, Young, RowsAgree
<1>8. Sweeping'
  BY DEF UploadTypes, Clienting, RowsAgree, Inserting, Sweeping
<1>9. PromptUploadSafe'
  BY DEF UploadTypes, PromptUploadSafe
<1> QED BY <1>1, <1>2, <1>3, <1>4, <1>5, <1>6, <1>7, <1>8, <1>9

LEMMA InsertRaisesKeeps ==
  ASSUME StoresInvariant, NEW c \in Clients, InsertRaises(c)
  PROVE  StoresInvariant'
<1> USE StorageAssumption, RowKinds DEF StoresInvariant, InsertRaises, Return, NoClient, files, history, Prompt
<1>1. UploadTypes'
  BY DEF UploadTypes, Clienting, RowsAgree, File
<1>2. Unused'
  BY DEF UploadTypes, Clienting, Unused, RowsAgree
<1>3. Inserting'
  BY DEF UploadTypes, Clienting, Unused, Inserting
<1>4. Linked'
  BY DEF UploadTypes, Clienting, Unused, Linked
<1>5. Sole'
  BY DEF UploadTypes, Clienting, Unused, Linked, Sole
<1>6. Unstaged'
  BY DEF UploadTypes, Clienting, Unused, Unstaged, RowsAgree
<1>7. Young'
  BY DEF UploadTypes, Clienting, Unused, Young, RowsAgree
<1>8. Sweeping'
  BY DEF UploadTypes, Sweeping
<1>9. PromptUploadSafe'
  BY DEF UploadTypes, PromptUploadSafe
<1> QED BY <1>1, <1>2, <1>3, <1>4, <1>5, <1>6, <1>7, <1>8, <1>9

LEMMA AlreadyFinalKeeps ==
  ASSUME StoresInvariant, NEW c \in Clients, AlreadyFinal(c)
  PROVE  StoresInvariant'
<1> USE StorageAssumption, RowKinds DEF StoresInvariant, AlreadyFinal, Goto, files, history, Prompt
<1>1. UploadTypes'
  BY DEF UploadTypes, Clienting, RowsAgree, File
<1>2. Unused'
  BY DEF UploadTypes, Clienting, Unused, RowsAgree
<1>3. Inserting'
  BY DEF UploadTypes, Clienting, Unused, Inserting
<1>4. Linked'
  BY DEF UploadTypes, Clienting, Unused, Linked
<1>5. Sole'
  BY DEF UploadTypes, Clienting, Unused, Linked, Sole
<1>6. Unstaged'
  BY DEF UploadTypes, Clienting, Unused, Unstaged, RowsAgree
<1>7. Young'
  BY DEF UploadTypes, Clienting, Unused, Young, RowsAgree
<1>8. Sweeping'
  BY DEF UploadTypes, Sweeping
<1>9. PromptUploadSafe'
  BY DEF UploadTypes, PromptUploadSafe
<1> QED BY <1>1, <1>2, <1>3, <1>4, <1>5, <1>6, <1>7, <1>8, <1>9

LEMMA CopyObjectKeeps ==
  ASSUME StoresInvariant, NEW c \in Clients, CopyObject(c)
  PROVE  StoresInvariant'
<1> USE StorageAssumption, RowKinds DEF StoresInvariant, CopyObject, Goto, files, history, Prompt
<1>1. UploadTypes'
  BY DEF UploadTypes, Clienting, RowsAgree, File
<1>2. Unused'
  BY DEF UploadTypes, Clienting, Unused, RowsAgree
<1>3. Inserting'
  BY DEF UploadTypes, Clienting, Unused, Inserting
<1>4. Linked'
  <2>1. \A u \in Uploads : object'[u] = object[u] \/ (u = client[c].upload /\ object'[u] # "none")
    BY DEF UploadTypes, RowsAgree, File
  <2>2. \A d \in Clients : d # c => client'[d] = client[d]
    BY DEF UploadTypes
  <2>3. client'[c].upload = client[c].upload /\ client[c].upload \in Uploads
    BY DEF UploadTypes, Clienting
  <2>4. ASSUME NEW d \in Clients, client'[d].pc \in {"unlink", "record"}, Prompt(client'[d].upload)
        PROVE  object'[client'[d].upload] # "none"
    <3>1. CASE d = c
      BY <2>1, <2>3, <3>1 DEF UploadTypes, RowsAgree
    <3>2. CASE d # c
      BY <2>1, <2>2, <2>4, <3>2 DEF UploadTypes, Linked
    <3> QED BY <3>1, <3>2
  <2> QED BY <2>4 DEF Linked
<1>5. Sole'
  BY DEF UploadTypes, Clienting, Unused, Linked, Sole
<1>6. Unstaged'
  BY DEF UploadTypes, Clienting, Unused, Unstaged, RowsAgree
<1>7. Young'
  BY DEF UploadTypes, Clienting, Unused, Young, RowsAgree
<1>8. Sweeping'
  BY DEF UploadTypes, Sweeping
<1>9. PromptUploadSafe'
  BY DEF UploadTypes, PromptUploadSafe
<1> QED BY <1>1, <1>2, <1>3, <1>4, <1>5, <1>6, <1>7, <1>8, <1>9

LEMMA NothingStagedKeeps ==
  ASSUME StoresInvariant, NEW c \in Clients, NothingStaged(c)
  PROVE  StoresInvariant'
<1> USE StorageAssumption, RowKinds DEF StoresInvariant, NothingStaged, Return, NoClient, files, history, Prompt
<1>1. UploadTypes'
  BY DEF UploadTypes, Clienting, RowsAgree, File
<1>2. Unused'
  BY DEF UploadTypes, Clienting, Unused, RowsAgree
<1>3. Inserting'
  BY DEF UploadTypes, Clienting, Unused, Inserting
<1>4. Linked'
  BY DEF UploadTypes, Clienting, Unused, Linked
<1>5. Sole'
  BY DEF UploadTypes, Clienting, Unused, Linked, Sole
<1>6. Unstaged'
  BY DEF UploadTypes, Clienting, Unused, Unstaged, RowsAgree
<1>7. Young'
  BY DEF UploadTypes, Clienting, Unused, Young, RowsAgree
<1>8. Sweeping'
  BY DEF UploadTypes, Sweeping
<1>9. PromptUploadSafe'
  BY DEF UploadTypes, PromptUploadSafe
<1> QED BY <1>1, <1>2, <1>3, <1>4, <1>5, <1>6, <1>7, <1>8, <1>9

LEMMA RemoveStagedKeeps ==
  ASSUME StoresInvariant, NEW c \in Clients, RemoveStaged(c)
  PROVE  StoresInvariant'
<1> USE StorageAssumption, RowKinds DEF StoresInvariant, RemoveStaged, Goto, Return, NoClient, files, history, Prompt
<1>1. UploadTypes'
  BY DEF UploadTypes, Clienting, RowsAgree, File
<1>2. Unused'
  BY DEF UploadTypes, Clienting, Unused, RowsAgree
<1>3. Inserting'
  BY DEF UploadTypes, Clienting, Unused, Inserting
<1>4. Linked'
  BY DEF UploadTypes, Clienting, Unused, Linked
<1>5. Sole'
  <2>1. client'[c].pc # "unlink" /\ \A d \in Clients : d # c => client'[d] = client[d]
    BY DEF UploadTypes, Clienting
  <2> QED BY <2>1 DEF Sole
<1>6. Unstaged'
  BY DEF UploadTypes, Clienting, Unused, Unstaged, RowsAgree
<1>7. Young'
  BY DEF UploadTypes, Clienting, Unused, Young, RowsAgree
<1>8. Sweeping'
  BY DEF UploadTypes, Sweeping
<1>9. PromptUploadSafe'
  BY DEF UploadTypes, PromptUploadSafe
<1> QED BY <1>1, <1>2, <1>3, <1>4, <1>5, <1>6, <1>7, <1>8, <1>9

LEMMA UndoLinkKeeps ==
  ASSUME StoresInvariant, NEW c \in Clients, UndoLink(c)
  PROVE  StoresInvariant'
<1> USE StorageAssumption, RowKinds DEF StoresInvariant, UndoLink, Return, NoClient, files, history, Prompt
<1>0. /\ client'[c].pc = "idle" /\ client'[c].upload = NoUpload
      /\ \A d \in Clients : d # c => client'[d] = client[d]
  BY DEF UploadTypes
<1>1. UploadTypes'
  BY DEF UploadTypes, Clienting, RowsAgree, File
<1>2. Unused'
  BY DEF UploadTypes, Clienting, Unused, RowsAgree
<1>3. Inserting'
  BY DEF UploadTypes, Clienting, Unused, Inserting
<1>4. Linked'
  <2>1. ASSUME NEW d \in Clients, d # c, client[d].pc \in {"unlink", "record"},
               Prompt(client[d].upload)
        PROVE  client[d].upload # client[c].upload
    BY <2>1 DEF UploadTypes, Sole, Unstaged
  <2> QED BY <1>0, <2>1 DEF UploadTypes, RowsAgree, Linked
<1>5. Sole'
  BY <1>0 DEF UploadTypes, Sole
<1>6. Unstaged'
  BY DEF UploadTypes, Clienting, Unused, Unstaged, RowsAgree
<1>7. Young'
  BY DEF UploadTypes, Clienting, Unused, Young, RowsAgree
<1>8. Sweeping'
  BY DEF UploadTypes, Sweeping
<1>9. PromptUploadSafe'
  BY DEF UploadTypes, RowsAgree, Unstaged, PromptUploadSafe
<1> QED BY <1>1, <1>2, <1>3, <1>4, <1>5, <1>6, <1>7, <1>8, <1>9

LEMMA RecordKeeps ==
  ASSUME StoresInvariant, NEW c \in Clients, Record(c)
  PROVE  StoresInvariant'
<1> USE StorageAssumption, RowKinds DEF StoresInvariant, Record, Return, NoClient, files, history, Prompt
<1>0. /\ client'[c].pc = "idle" /\ client'[c].upload = NoUpload
      /\ \A d \in Clients : d # c => client'[d] = client[d]
  BY DEF UploadTypes
<1>1. UploadTypes'
  BY DEF UploadTypes, Clienting, RowsAgree, File
<1>2. Unused'
  BY DEF UploadTypes, Clienting, Unused, RowsAgree
<1>3. Inserting'
  BY DEF UploadTypes, Clienting, Unused, Inserting
<1>4. Linked'
  BY DEF UploadTypes, Clienting, Unused, Linked
<1>5. Sole'
  BY <1>0 DEF UploadTypes, Sole
<1>6. Unstaged'
  BY DEF UploadTypes, Clienting, Unused, Unstaged, RowsAgree
<1>7. Young'
  BY DEF UploadTypes, Clienting, Unused, Young, RowsAgree
<1>8. Sweeping'
  BY DEF UploadTypes, Sweeping
<1>9. PromptUploadSafe'
  BY DEF UploadTypes, RowsAgree, Linked, PromptUploadSafe
<1> QED BY <1>1, <1>2, <1>3, <1>4, <1>5, <1>6, <1>7, <1>8, <1>9

LEMMA VanishKeeps ==
  ASSUME StoresInvariant, NEW c \in Clients, Vanish(c)
  PROVE  StoresInvariant'
<1> USE StorageAssumption, RowKinds DEF StoresInvariant, Vanish, Return, NoClient, files, history, Prompt
<1>0. /\ client'[c].pc = "idle" /\ client'[c].upload = NoUpload
      /\ \A d \in Clients : d # c => client'[d] = client[d]
  BY DEF UploadTypes
<1>1. UploadTypes'
  BY DEF UploadTypes, Clienting, RowsAgree, File
<1>2. Unused'
  BY DEF UploadTypes, Clienting, Unused, RowsAgree
<1>3. Inserting'
  BY DEF UploadTypes, Clienting, Unused, Inserting
<1>4. Linked'
  BY DEF UploadTypes, Clienting, Unused, Linked
<1>5. Sole'
  BY <1>0 DEF UploadTypes, Sole
<1>6. Unstaged'
  BY DEF UploadTypes, Clienting, Unused, Unstaged, RowsAgree
<1>7. Young'
  BY DEF UploadTypes, Clienting, Unused, Young, RowsAgree
<1>8. Sweeping'
  BY DEF UploadTypes, Sweeping
<1>9. PromptUploadSafe'
  BY DEF UploadTypes, PromptUploadSafe
<1> QED BY <1>1, <1>2, <1>3, <1>4, <1>5, <1>6, <1>7, <1>8, <1>9

LEMMA GrowOldKeeps ==
  ASSUME StoresInvariant, NEW u \in Uploads, GrowOld(u)
  PROVE  StoresInvariant'
<1> USE StorageAssumption, RowKinds DEF StoresInvariant, GrowOld, Older, Prompt
<1>1. UploadTypes'
  BY DEF UploadTypes, Sweeps, RowsAgree, File
<1>2. Unused'
  BY DEF UploadTypes, Unused, Sweeping, RowsAgree
<1>3. Inserting'
  BY DEF UploadTypes, Inserting, Sweeping, RowsAgree
<1>4. Linked'
  BY DEF UploadTypes, Linked, Sweeping, RowsAgree
<1>5. Sole'
  BY DEF UploadTypes, Sole
<1>6. Unstaged'
  BY DEF UploadTypes, Unstaged, Sweeping, RowsAgree
<1>7. Young'
  BY DEF UploadTypes, Young, RowsAgree
<1>8. Sweeping'
  BY DEF UploadTypes, Sweeps, RowsAgree, Young, Sweeping
<1>9. PromptUploadSafe'
  BY DEF UploadTypes, RowsAgree, Sweeping, PromptUploadSafe
<1> QED BY <1>1, <1>2, <1>3, <1>4, <1>5, <1>6, <1>7, <1>8, <1>9

LEMMA DamageKeeps ==
  ASSUME StoresInvariant, NEW u \in Uploads, Damage(u)
  PROVE  StoresInvariant'
<1> USE StorageAssumption, RowKinds DEF StoresInvariant, Damage, Prompt
<1>1. UploadTypes'
  BY DEF UploadTypes, Sweeps, RowsAgree, File
<1>2. Unused'
  BY DEF UploadTypes, Unused, Sweeping, RowsAgree
<1>3. Inserting'
  BY DEF UploadTypes, Inserting, Sweeping, RowsAgree
<1>4. Linked'
  BY DEF UploadTypes, Linked, Sweeping, RowsAgree
<1>5. Sole'
  BY DEF UploadTypes, Sole
<1>6. Unstaged'
  BY DEF UploadTypes, Unstaged, Sweeping, RowsAgree
<1>7. Young'
  BY DEF UploadTypes, Young, RowsAgree
<1>8. Sweeping'
  BY DEF UploadTypes, Sweeps, RowsAgree, Young, Sweeping
<1>9. PromptUploadSafe'
  BY DEF UploadTypes, RowsAgree, Sweeping, PromptUploadSafe
<1> QED BY <1>1, <1>2, <1>3, <1>4, <1>5, <1>6, <1>7, <1>8, <1>9

LEMMA SnapshotKeeps ==
  ASSUME StoresInvariant, Snapshot
  PROVE  StoresInvariant'
<1> USE StorageAssumption, RowKinds DEF StoresInvariant, Snapshot, NoSweep, files, history, Prompt
<1>1. UploadTypes'
  BY DEF UploadTypes, Sweeps, RowsAgree, File
<1>2. Unused'
  BY DEF UploadTypes, Unused, Sweeping, RowsAgree
<1>3. Inserting'
  BY DEF UploadTypes, Inserting, Sweeping, RowsAgree
<1>4. Linked'
  BY DEF UploadTypes, Linked, Sweeping, RowsAgree
<1>5. Sole'
  BY DEF UploadTypes, Sole
<1>6. Unstaged'
  BY DEF UploadTypes, Unstaged, Sweeping, RowsAgree
<1>7. Young'
  BY DEF UploadTypes, Young, RowsAgree
<1>8. Sweeping'
  BY DEF UploadTypes, Sweeps, RowsAgree, Young, Sweeping
<1>9. PromptUploadSafe'
  BY DEF UploadTypes, RowsAgree, Sweeping, PromptUploadSafe
<1> QED BY <1>1, <1>2, <1>3, <1>4, <1>5, <1>6, <1>7, <1>8, <1>9

LEMMA ListStagingKeeps ==
  ASSUME StoresInvariant, ListStaging
  PROVE  StoresInvariant'
<1> USE StorageAssumption, RowKinds DEF StoresInvariant, ListStaging, ExpiredStaging, files, history, Prompt
<1>1. UploadTypes'
  BY DEF UploadTypes, Sweeps, RowsAgree, File
<1>2. Unused'
  BY DEF UploadTypes, Unused, Sweeping, RowsAgree
<1>3. Inserting'
  BY DEF UploadTypes, Inserting, Sweeping, RowsAgree
<1>4. Linked'
  BY DEF UploadTypes, Linked, Sweeping, RowsAgree
<1>5. Sole'
  BY DEF UploadTypes, Sole
<1>6. Unstaged'
  BY DEF UploadTypes, Unstaged, Sweeping, RowsAgree
<1>7. Young'
  BY DEF UploadTypes, Young, RowsAgree
<1>8. Sweeping'
  BY DEF UploadTypes, Sweeps, RowsAgree, Young, Sweeping
<1>9. PromptUploadSafe'
  BY DEF UploadTypes, RowsAgree, Sweeping, PromptUploadSafe
<1> QED BY <1>1, <1>2, <1>3, <1>4, <1>5, <1>6, <1>7, <1>8, <1>9

LEMMA ExpireStagingKeeps ==
  ASSUME StoresInvariant, NEW u \in Uploads, ExpireStaging(u)
  PROVE  StoresInvariant'
<1> USE StorageAssumption, RowKinds DEF StoresInvariant, ExpireStaging, files, history, Prompt
<1>1. UploadTypes'
  BY DEF UploadTypes, Sweeps, RowsAgree, File
<1>2. Unused'
  BY DEF UploadTypes, Unused, Sweeping, RowsAgree
<1>3. Inserting'
  BY DEF UploadTypes, Inserting, Sweeping, RowsAgree
<1>4. Linked'
  BY DEF UploadTypes, Linked, Sweeping, RowsAgree
<1>5. Sole'
  BY DEF UploadTypes, Sole
<1>6. Unstaged'
  BY DEF UploadTypes, Unstaged, Sweeping, RowsAgree
<1>7. Young'
  BY DEF UploadTypes, Young, RowsAgree
<1>8. Sweeping'
  BY DEF UploadTypes, Sweeps, RowsAgree, Young, Sweeping
<1>9. PromptUploadSafe'
  BY DEF UploadTypes, RowsAgree, Sweeping, PromptUploadSafe
<1> QED BY <1>1, <1>2, <1>3, <1>4, <1>5, <1>6, <1>7, <1>8, <1>9

LEMMA FailExpiredStagingKeeps ==
  ASSUME StoresInvariant, FailExpiredStaging
  PROVE  StoresInvariant'
<1> USE StorageAssumption, RowKinds DEF StoresInvariant, FailExpiredStaging, FailedRow, files, history, Prompt
<1>1. UploadTypes'
  BY DEF UploadTypes, Sweeps, RowsAgree, File
<1>2. Unused'
  BY DEF UploadTypes, Unused, Sweeping, RowsAgree
<1>3. Inserting'
  BY DEF UploadTypes, Inserting, Sweeping, RowsAgree
<1>4. Linked'
  BY DEF UploadTypes, Linked, Sweeping, RowsAgree
<1>5. Sole'
  BY DEF UploadTypes, Sole
<1>6. Unstaged'
  BY DEF UploadTypes, Unstaged, Sweeping, RowsAgree
<1>7. Young'
  BY DEF UploadTypes, Young, RowsAgree
<1>8. Sweeping'
  BY DEF UploadTypes, Sweeps, RowsAgree, Young, Sweeping
<1>9. PromptUploadSafe'
  BY DEF UploadTypes, RowsAgree, Sweeping, PromptUploadSafe
<1> QED BY <1>1, <1>2, <1>3, <1>4, <1>5, <1>6, <1>7, <1>8, <1>9

LEMMA ListObjectsKeeps ==
  ASSUME StoresInvariant, ListObjects
  PROVE  StoresInvariant'
<1> USE StorageAssumption, RowKinds DEF StoresInvariant, ListObjects, Orphans, files, history, Prompt
<1>1. UploadTypes'
  BY DEF UploadTypes, Sweeps, RowsAgree, File
<1>2. Unused'
  BY DEF UploadTypes, Unused, Sweeping, RowsAgree
<1>3. Inserting'
  BY DEF UploadTypes, Inserting, Sweeping, RowsAgree
<1>4. Linked'
  BY DEF UploadTypes, Linked, Sweeping, RowsAgree
<1>5. Sole'
  BY DEF UploadTypes, Sole
<1>6. Unstaged'
  BY DEF UploadTypes, Unstaged, Sweeping, RowsAgree
<1>7. Young'
  BY DEF UploadTypes, Young, RowsAgree
<1>8. Sweeping'
  BY DEF UploadTypes, Sweeps, RowsAgree, Young, Sweeping
<1>9. PromptUploadSafe'
  BY DEF UploadTypes, RowsAgree, Sweeping, PromptUploadSafe
<1> QED BY <1>1, <1>2, <1>3, <1>4, <1>5, <1>6, <1>7, <1>8, <1>9

LEMMA DeleteOrphanKeeps ==
  ASSUME StoresInvariant, NEW u \in Uploads, DeleteOrphan(u)
  PROVE  StoresInvariant'
<1> USE StorageAssumption, RowKinds DEF StoresInvariant, DeleteOrphan, files, history, Prompt
<1>1. UploadTypes'
  BY DEF UploadTypes, Sweeps, RowsAgree, File
<1>2. Unused'
  BY DEF UploadTypes, Unused, Sweeping, RowsAgree
<1>3. Inserting'
  BY DEF UploadTypes, Inserting, Sweeping, RowsAgree
<1>4. Linked'
  BY DEF UploadTypes, Linked, Sweeping, RowsAgree
<1>5. Sole'
  BY DEF UploadTypes, Sole
<1>6. Unstaged'
  BY DEF UploadTypes, Unstaged, Sweeping, RowsAgree
<1>7. Young'
  BY DEF UploadTypes, Young, RowsAgree
<1>8. Sweeping'
  BY DEF UploadTypes, Sweeps, RowsAgree, Young, Sweeping
<1>9. PromptUploadSafe'
  BY DEF UploadTypes, RowsAgree, Sweeping, PromptUploadSafe
<1> QED BY <1>1, <1>2, <1>3, <1>4, <1>5, <1>6, <1>7, <1>8, <1>9

LEMMA VerifyKeeps ==
  ASSUME StoresInvariant, Verify
  PROVE  StoresInvariant'
<1> USE StorageAssumption, RowKinds DEF StoresInvariant, Verify, Broken, files, history, Prompt
<1>1. UploadTypes'
  BY DEF UploadTypes, Sweeps, RowsAgree, File
<1>2. Unused'
  BY DEF UploadTypes, Unused, Sweeping, RowsAgree
<1>3. Inserting'
  BY DEF UploadTypes, Inserting, Sweeping, RowsAgree
<1>4. Linked'
  BY DEF UploadTypes, Linked, Sweeping, RowsAgree
<1>5. Sole'
  BY DEF UploadTypes, Sole
<1>6. Unstaged'
  BY DEF UploadTypes, Unstaged, Sweeping, RowsAgree
<1>7. Young'
  BY DEF UploadTypes, Young, RowsAgree
<1>8. Sweeping'
  BY DEF UploadTypes, Sweeps, RowsAgree, PromptUploadSafe, Sweeping
<1>9. PromptUploadSafe'
  BY DEF UploadTypes, RowsAgree, Sweeping, PromptUploadSafe
<1> QED BY <1>1, <1>2, <1>3, <1>4, <1>5, <1>6, <1>7, <1>8, <1>9

LEMMA QuarantineKeeps ==
  ASSUME StoresInvariant, NEW u \in Uploads, Quarantine(u)
  PROVE  StoresInvariant'
<1> USE StorageAssumption, RowKinds DEF StoresInvariant, Quarantine, files, history, Prompt
<1>1. UploadTypes'
  BY DEF UploadTypes, Sweeps, RowsAgree, File
<1>2. Unused'
  BY DEF UploadTypes, Unused, Sweeping, RowsAgree
<1>3. Inserting'
  BY DEF UploadTypes, Inserting, Sweeping, RowsAgree
<1>4. Linked'
  BY DEF UploadTypes, Linked, Sweeping, RowsAgree
<1>5. Sole'
  BY DEF UploadTypes, Sole
<1>6. Unstaged'
  BY DEF UploadTypes, Unstaged, Sweeping, RowsAgree
<1>7. Young'
  BY DEF UploadTypes, Young, RowsAgree
<1>8. Sweeping'
  BY DEF UploadTypes, Sweeps, RowsAgree, Young, Sweeping
<1>9. PromptUploadSafe'
  BY DEF UploadTypes, RowsAgree, Sweeping, PromptUploadSafe
<1> QED BY <1>1, <1>2, <1>3, <1>4, <1>5, <1>6, <1>7, <1>8, <1>9

LEMMA DoneKeeps ==
  ASSUME StoresInvariant, Done
  PROVE  StoresInvariant'
<1> USE StorageAssumption, RowKinds DEF StoresInvariant, Done, NoSweep, files, history, Prompt
<1>1. UploadTypes'
  BY DEF UploadTypes, Sweeps, RowsAgree, File
<1>2. Unused'
  BY DEF UploadTypes, Unused, Sweeping, RowsAgree
<1>3. Inserting'
  BY DEF UploadTypes, Inserting, Sweeping, RowsAgree
<1>4. Linked'
  BY DEF UploadTypes, Linked, Sweeping, RowsAgree
<1>5. Sole'
  BY DEF UploadTypes, Sole
<1>6. Unstaged'
  BY DEF UploadTypes, Unstaged, Sweeping, RowsAgree
<1>7. Young'
  BY DEF UploadTypes, Young, RowsAgree
<1>8. Sweeping'
  BY DEF UploadTypes, Sweeps, RowsAgree, Young, Sweeping
<1>9. PromptUploadSafe'
  BY DEF UploadTypes, RowsAgree, Sweeping, PromptUploadSafe
<1> QED BY <1>1, <1>2, <1>3, <1>4, <1>5, <1>6, <1>7, <1>8, <1>9

LEMMA AbortKeeps ==
  ASSUME StoresInvariant, Abort
  PROVE  StoresInvariant'
<1> USE StorageAssumption, RowKinds DEF StoresInvariant, Abort, NoSweep, files, history, Prompt
<1>1. UploadTypes'
  BY DEF UploadTypes, Sweeps, RowsAgree, File
<1>2. Unused'
  BY DEF UploadTypes, Unused, Sweeping, RowsAgree
<1>3. Inserting'
  BY DEF UploadTypes, Inserting, Sweeping, RowsAgree
<1>4. Linked'
  BY DEF UploadTypes, Linked, Sweeping, RowsAgree
<1>5. Sole'
  BY DEF UploadTypes, Sole
<1>6. Unstaged'
  BY DEF UploadTypes, Unstaged, Sweeping, RowsAgree
<1>7. Young'
  BY DEF UploadTypes, Young, RowsAgree
<1>8. Sweeping'
  BY DEF UploadTypes, Sweeps, RowsAgree, Young, Sweeping
<1>9. PromptUploadSafe'
  BY DEF UploadTypes, RowsAgree, Sweeping, PromptUploadSafe
<1> QED BY <1>1, <1>2, <1>3, <1>4, <1>5, <1>6, <1>7, <1>8, <1>9

\* RowStates and files agree, and no prompt upload loses its object or its job,
\* whatever requests, reconcilers, crashes and damage come between.
THEOREM StoresKept == Spec => []StoresAgree
<1>1. Init => StoresInvariant
  BY StoresInit
<1>2. StoresInvariant /\ [Next]_vars => StoresInvariant'
  <2> SUFFICES ASSUME StoresInvariant, [Next]_vars PROVE StoresInvariant'
    OBVIOUS
  <2>1. ASSUME NEW c \in Clients, Request(c) PROVE StoresInvariant'
    BY <2>1, StageKeeps, ResumeKeeps, InsertRowsKeeps, InsertRaisesKeeps, AlreadyFinalKeeps,
       CopyObjectKeeps, NothingStagedKeeps, RemoveStagedKeeps, UndoLinkKeeps, RecordKeeps,
       VanishKeeps DEF Request
  <2>2. CASE Reconcile
    BY <2>2, SnapshotKeeps, ListStagingKeeps, ExpireStagingKeeps, FailExpiredStagingKeeps,
       ListObjectsKeeps, DeleteOrphanKeeps, VerifyKeeps, QuarantineKeeps, DoneKeeps DEF Reconcile
  <2>3. CASE UNCHANGED vars
    BY <2>3 DEF vars, StoresInvariant, UploadTypes, RowsAgree, Unused, Inserting, Linked, Sole,
       Unstaged, Young, Sweeping, PromptUploadSafe, Prompt
  <2> QED BY <2>1, <2>2, <2>3, AbortKeeps, GrowOldKeeps, DamageKeeps DEF Next
<1>3. StoresInvariant => StoresAgree
  BY DEF StoresInvariant, UploadTypes, StoresAgree
<1> QED BY <1>1, <1>2, <1>3, PTL DEF Spec

-----------------------------------------------------------------------------
(* Generations of embeddings.                                               *)

LEMMA LeastNumber ==
  ASSUME NEW S \in SUBSET Nat, S # {}
  PROVE  \E x \in S : \A y \in S : x <= y
<1>1. IsWellFoundedOn(OpToRel(<, Nat), Nat)
  BY NatLessThanWellFounded
<1>2. PICK x \in S : \A y \in S : <<y, x>> \notin OpToRel(<, Nat)
  BY <1>1, WFMin
<1>3. \A y \in S : ~ (y < x)
  BY <1>2 DEF OpToRel
<1> QED BY <1>3

\* Two requests may name any generations: what matters is the one that is active.
GenerationRows ==
  /\ generation \in [Generations -> [status : {"none", "building", "active", "retired"}, model : Nat]]
  /\ newer \in [Generations -> Nat]
  /\ change \in [Operators -> [pc : {"idle", "read"}, kind : {"none", "promote", "rollback", "ensure"},
                               current : 0 .. MaxGenerations, target : 0 .. MaxGenerations]]
  /\ \A o \in Operators : change[o].pc = "read" => change[o].target \in Generations
  /\ configured \in {1, 2}

Reading == \E a \in Generations : ActiveGenerations = {a}

GenerationsInvariant == GenerationRows /\ Reading

\* The generation a query returns is one of those it asks for.
LEMMA QueriesAnswer ==
  ASSUME newer \in [Generations -> Nat]
  PROVE  /\ ActiveGeneration \in 0 .. MaxGenerations
         /\ NextGeneration # 0 => NextGeneration \in Generations /\ generation[NextGeneration] = Vacant
         /\ Retired # {} => LatestRetired \in Generations
<1> MaxGenerations \in Nat \ {0} /\ Generations \subseteq Nat \ {0}
  BY GenerationsAssumption DEF Generations
<1>1. ActiveGeneration \in 0 .. MaxGenerations
  <2>1. CASE ActiveGenerations = {}
    BY <2>1 DEF ActiveGeneration
  <2>2. CASE ActiveGenerations # {}
    <3>1. ActiveGeneration \in ActiveGenerations
      BY <2>2 DEF ActiveGeneration
    <3> QED BY <3>1 DEF ActiveGenerations, Generations
  <2> QED BY <2>1, <2>2
<1>2. ASSUME NextGeneration # 0
      PROVE  NextGeneration \in Generations /\ generation[NextGeneration] = Vacant
  <2> DEFINE Free == {g \in Generations : generation[g] = Vacant}
  <2>1. Free \in SUBSET Nat /\ Free # {}
    BY <1>2 DEF NextGeneration
  <2>2. PICK g \in Free : \A k \in Free : g <= k
    BY <2>1, LeastNumber
  <2>3. \A k \in 1 .. (g - 1) : generation[k] # Vacant
    BY <2>2 DEF Generations
  <2> QED BY <2>2, <2>3 DEF NextGeneration
<1>3. ASSUME Retired # {} PROVE LatestRetired \in Generations
  <2> DEFINE Ranks == {newer[g] : g \in Retired}
  <2>1. Ranks \in SUBSET Nat /\ Ranks # {}
    BY <1>3 DEF Retired
  <2>2. PICK r \in Ranks : \A k \in Ranks : r <= k
    BY <2>1, LeastNumber
  <2>3. \E g \in Retired : \A h \in Retired : newer[g] <= newer[h]
    BY <2>2
  <2>4. LatestRetired \in Retired
    BY <2>3 DEF LatestRetired
  <2> QED BY <2>4 DEF Retired
<1> QED BY <1>1, <1>2, <1>3

LEMMA GenerationsStart == GenerationsInit => GenerationsInvariant
<1> SUFFICES ASSUME GenerationsInit PROVE GenerationsInvariant
  OBVIOUS
<1>1. 1 \in Generations
  BY GenerationsAssumption DEF Generations
<1>2. GenerationRows
  BY GenerationsAssumption DEF GenerationsInit, GenerationRows, Vacant, Quiet, Generations
<1>3. ActiveGenerations = {1}
  BY <1>1 DEF GenerationsInit, ActiveGenerations, Vacant
<1> QED BY <1>1, <1>2, <1>3 DEF GenerationsInvariant, Reading

\* The unique index and the two row locks of a commit: the generation that was
\* active is the target, or the one that was read, or the commit is refused.
LEMMA CommitKeepsOne ==
  ASSUME GenerationsInvariant, NEW o \in Operators, CommitChange(o)
  PROVE  GenerationsInvariant'
<1> DEFINE t == change[o].target
           k == change[o].current
           now == [status |-> "active",
                   model |-> IF change[o].kind = "ensure" THEN configured ELSE generation[t].model]
<1>1. /\ change[o].pc = "read" /\ t \in Generations
      /\ ActiveGenerations \subseteq {k, t}
      /\ generation' = [g \in Generations |->
           IF g = t THEN now
           ELSE IF g = k THEN [generation[g] EXCEPT !.status = "retired"] ELSE generation[g]]
      /\ newer' = [g \in Generations |-> IF g = t THEN 0
                     ELSE IF newer[g] < newer[t] THEN newer[g] + 1 ELSE newer[g]]
      /\ change' = [change EXCEPT ![o] = Quiet]
      /\ configured' = configured
  BY DEF CommitChange, OnlyActive, GenerationsInvariant, GenerationRows
<1>2. generation[t] \in [status : {"none", "building", "active", "retired"}, model : Nat]
  BY <1>1 DEF GenerationsInvariant, GenerationRows
<1>3. now \in [status : {"none", "building", "active", "retired"}, model : Nat]
  BY <1>2 DEF GenerationsInvariant, GenerationRows
<1> HIDE DEF now
<1>4. GenerationRows'
  <2>1. generation' \in [Generations -> [status : {"none", "building", "active", "retired"},
                                         model : Nat]]
    BY <1>1, <1>3 DEF GenerationsInvariant, GenerationRows
  <2>2. newer' \in [Generations -> Nat]
    BY <1>1 DEF GenerationsInvariant, GenerationRows
  <2>3. Quiet \in [pc : {"idle", "read"}, kind : {"none", "promote", "rollback", "ensure"},
                   current : 0 .. MaxGenerations, target : 0 .. MaxGenerations]
        /\ Quiet.pc = "idle"
    BY GenerationsAssumption DEF Quiet
  <2> QED BY <1>1, <2>1, <2>2, <2>3 DEF GenerationsInvariant, GenerationRows
<1>5. ActiveGenerations' = {t}
  <2>1. generation'[t].status = "active"
    BY <1>1 DEF now
  <2>2. ASSUME NEW g \in Generations, g # t PROVE generation'[g].status # "active"
    <3>1. CASE g = k
      BY <1>1, <2>2, <3>1 DEF GenerationsInvariant, GenerationRows
    <3>2. CASE g # k
      BY <1>1, <2>2, <3>2 DEF ActiveGenerations
    <3> QED BY <3>1, <3>2
  <2> QED BY <1>1, <2>1, <2>2 DEF ActiveGenerations
<1> QED BY <1>1, <1>4, <1>5 DEF GenerationsInvariant, Reading

\* What is read becomes a target that exists.
LEMMA ChangeKeepsOne ==
  ASSUME GenerationsInvariant, ShadowStep \/ \E o \in Operators : ChangeStep(o)
  PROVE  GenerationsInvariant'
<1> USE DEF GenerationsInvariant
<1>0. MaxGenerations \in Nat \ {0} /\ Generations = 1 .. MaxGenerations
  BY GenerationsAssumption DEF Generations
<1>1. ASSUME NEW m \in {1, 2}, BeginShadow(m) PROVE GenerationsInvariant'
  <2>1. NextGeneration \in Generations /\ generation[NextGeneration] = Vacant
    BY <1>1, QueriesAnswer DEF BeginShadow, GenerationRows
  <2>2. GenerationRows'
    BY <1>1, <2>1 DEF BeginShadow, GenerationRows
  <2>3. ActiveGenerations' = ActiveGenerations
    BY <1>1, <2>1 DEF BeginShadow, GenerationRows, ActiveGenerations, Vacant
  <2> QED BY <2>2, <2>3 DEF Reading
<1>2. ASSUME NEW o \in Operators, NEW k \in {"promote", "rollback", "ensure"}, NEW t \in Generations,
             change' = [change EXCEPT ![o] = [pc |-> "read", kind |-> k,
                                              current |-> ActiveGeneration, target |-> t]],
             UNCHANGED <<generation, newer, configured>>
      PROVE  GenerationsInvariant'
  <2>1. [pc |-> "read", kind |-> k, current |-> ActiveGeneration, target |-> t]
          \in [pc : {"idle", "read"}, kind : {"none", "promote", "rollback", "ensure"},
               current : 0 .. MaxGenerations, target : 0 .. MaxGenerations]
    BY <1>0, QueriesAnswer DEF GenerationRows
  <2>2. GenerationRows'
    BY <1>2, <2>1 DEF GenerationRows
  <2> QED BY <1>2, <2>2 DEF Reading, ActiveGenerations
<1>3. ASSUME NEW o \in Operators, NEW g \in Generations, NEW force \in BOOLEAN,
             ReadForPromote(o, g, force)
      PROVE  GenerationsInvariant'
  BY <1>2, <1>3 DEF ReadForPromote
<1>4. ASSUME NEW o \in Operators, ReadForRollback(o) \/ ReadForEnsure(o)
      PROVE  GenerationsInvariant'
  BY <1>2, <1>4, QueriesAnswer DEF ReadForRollback, ReadForEnsure, GenerationRows
<1>5. ASSUME NEW o \in Operators, AbandonChange(o) PROVE GenerationsInvariant'
  <2>1. Quiet \in [pc : {"idle", "read"}, kind : {"none", "promote", "rollback", "ensure"},
                   current : 0 .. MaxGenerations, target : 0 .. MaxGenerations]
        /\ Quiet.pc = "idle"
    BY GenerationsAssumption DEF Quiet
  <2> QED BY <1>5, <2>1 DEF AbandonChange, GenerationRows, Reading, ActiveGenerations
<1> QED BY <1>1, <1>3, <1>4, <1>5, CommitKeepsOne DEF ShadowStep, ChangeStep

LEMMA GenerationsStep ==
  ASSUME GenerationsInvariant, [GenerationsNext]_generationVars
  PROVE  GenerationsInvariant'
<1>1. CASE ReembedStep \/ UNCHANGED generationVars
  <2>1. UNCHANGED <<generation, newer, change>> /\ configured' \in {1, 2}
    BY <1>1 DEF ReembedStep, Resize, EnqueueReembed, CompleteRun, Reindex, WritePage, DropPage,
                ReadPage, Deactivate, generationVars, GenerationsInvariant, GenerationRows
  <2> QED BY <2>1 DEF GenerationsInvariant, GenerationRows, Reading, ActiveGenerations
<1> QED BY <1>1, ChangeKeepsOne DEF GenerationsNext

\* Search always has exactly one generation to read, whatever promotions,
\* rollbacks and ensures overlap: they read without a lock, and the unique index
\* refuses the one whose reading went stale.
THEOREM GenerationsOne == GenerationsSpec => []OneGeneration
<1>1. GenerationsInit => GenerationsInvariant
  BY GenerationsStart
<1>2. GenerationsInvariant /\ [GenerationsNext]_generationVars => GenerationsInvariant'
  BY GenerationsStep
<1>3. GenerationsInvariant => OneGeneration
  BY FS_Singleton DEF GenerationsInvariant, Reading, OneGeneration
<1> QED BY <1>1, <1>2, <1>3, PTL DEF GenerationsSpec

-----------------------------------------------------------------------------
(* The run that embeds every unit again.                                    *)

Naked == {u \in UnitIds : unit[u].active /\ ~unit[u].embedded}
Reembedded == \A u \in Naked : run.cursor < u

ReembedRows ==
  /\ unit \in [UnitIds -> [active : BOOLEAN, gen : 0 .. MaxGenerations, embedded : BOOLEAN]]
  /\ run \in [phase : {"none", "snapshot", "complete"}, cursor : Nat, high : Nat, model : Nat]
  /\ drain \in [Drains -> [pc : {"idle", "embedding"}, page : SUBSET UnitIds,
                           gen : 0 .. MaxGenerations]]

\* Until the columns are resized every unit has its vector, and no run moves.
Unresized ==
  configured = 1 => /\ \A u \in UnitIds : unit[u].embedded
                    /\ \A d \in Drains : drain[d].pc = "idle"
                    /\ run.cursor = 0 /\ run.model # 2

\* A page in flight leaves out no unit without a vector below its last one,
\* whichever run it was read for.
Paged == \A d \in Drains : drain[d].pc = "embedding" =>
           /\ drain[d].page # {}
           /\ \A last \in drain[d].page : \A u \in Naked : u <= last => u \in drain[d].page

\* The cursor has passed no unit without a vector.
ReembedInvariant ==
  /\ GenerationsInvariant /\ ReembedRows /\ Unresized /\ Paged
  /\ run.phase = "snapshot" => run.high = Latent
  /\ Reembedded
  /\ CompleteRunCoversUnits

LEMMA GreatestNumber ==
  ASSUME NEW S \in SUBSET Nat, S # {}, NEW h \in Nat, \A x \in S : x <= h
  PROVE  \E x \in S : \A y \in S : y <= x
<1> DEFINE Bounds == {n \in Nat : \A y \in S : y <= n}
<1>1. PICK b \in Bounds : \A n \in Bounds : b <= n
  BY LeastNumber
<1>2. CASE b \in S
  BY <1>2
<1>3. CASE b \notin S
  <2>1. PICK x \in S : TRUE
    OBVIOUS
  <2>2. b - 1 \in Nat /\ \A y \in S : y <= b - 1
    BY <1>3, <2>1
  <2> QED BY <1>1, <2>2
<1> QED BY <1>2, <1>3

LEMMA LatentIsLast == Latent \in UnitIds /\ \A u \in UnitIds : u <= Latent
BY GenerationsAssumption DEF Latent

\* A page is the next of the pending units in the order of the cursor.
LEMMA PageIsNext ==
  ASSUME Pending # {}
  PROVE  /\ Page # {} /\ Page \subseteq Pending
         /\ \A last \in Page, u \in Pending : u <= last => u \in Page
<1>1. Pending \in SUBSET Nat /\ PageSize \in Nat \ {0}
  BY GenerationsAssumption DEF Pending
<1>2. Page \subseteq Pending
  BY DEF Page
<1>3. Page # {}
  <2>1. PICK f \in Pending : \A y \in Pending : f <= y
    BY <1>1, LeastNumber
  <2>2. \A v \in Pending : v \in Nat /\ f \in Nat /\ ~(v < f)
    BY <1>1, <2>1
  <2>3. {v \in Pending : v < f} = {}
    BY <2>2
  <2> QED BY <1>1, <2>3, FS_EmptySet DEF Page
<1>4. ASSUME NEW last \in Page, NEW u \in Pending, u <= last PROVE u \in Page
  <2> DEFINE Below(n) == {v \in Pending : v < n}
  <2>0. u \in Nat /\ last \in Nat /\ \A v \in Pending : v \in Nat
    BY <1>1, <1>2
  <2>1. Below(u) \subseteq Below(last) /\ \A v \in Below(last) : v <= last
    <3>1. \A v \in Pending : v < u => v < last
      BY <1>4, <2>0
    <3>2. \A v \in Pending : v < last => v <= last
      BY <2>0
    <3> QED BY <3>1, <3>2
  <2>2. IsFiniteSet(Below(last))
    BY <1>1, <1>2, <2>1, FS_BoundedSetOfNaturals
  <2>3. Cardinality(Below(last)) < PageSize
    BY DEF Page
  <2>4. /\ Cardinality(Below(u)) <= Cardinality(Below(last)) /\ IsFiniteSet(Below(u))
    BY <2>1, <2>2, FS_Subset
  <2>5. Cardinality(Below(u)) \in Nat /\ Cardinality(Below(last)) \in Nat
    BY <2>2, <2>4, FS_CardinalityType
  <2>6. Cardinality(Below(u)) < PageSize
    BY <1>1, <2>3, <2>4, <2>5
  <2> QED BY <2>6 DEF Page
<1> QED BY <1>2, <1>3, <1>4

\* The cursor goes to the last row of the page.
LEMMA CursorIsLast ==
  ASSUME NEW page \in SUBSET UnitIds, page # {}
  PROVE  CursorAfter(page) \in page /\ \A u \in page : u <= CursorAfter(page)
<1>1. page \in SUBSET Nat /\ Latent \in Nat /\ \A u \in page : u <= Latent
  BY LatentIsLast, GenerationsAssumption
<1>2. \E x \in page : \A y \in page : y <= x
  BY <1>1, GreatestNumber
<1> QED BY <1>2 DEF CursorAfter

LEMMA ReembedStart == GenerationsInit => ReembedInvariant
<1> SUFFICES ASSUME GenerationsInit PROVE ReembedInvariant
  OBVIOUS
<1>1. 1 \in 0 .. MaxGenerations /\ 0 \in 0 .. MaxGenerations
  BY GenerationsAssumption
<1>2. NoPage \in [pc : {"idle", "embedding"}, page : SUBSET UnitIds, gen : 0 .. MaxGenerations]
  BY <1>1 DEF NoPage
<1>3. ReembedRows
  BY <1>1, <1>2 DEF GenerationsInit, ReembedRows
<1>4. Naked = {} /\ \A d \in Drains : drain[d].pc = "idle"
  BY DEF GenerationsInit, Naked, NoPage
<1> QED BY <1>3, <1>4, GenerationsStart
        DEF GenerationsInit, ReembedInvariant, Unresized, Paged, Reembedded, CompleteRunCoversUnits

\* A step that leaves no further unit without a vector, and the run alone,
\* keeps what the run has reached.
LEMMA ShrinkKeeps ==
  ASSUME ReembedInvariant, GenerationsInvariant', ReembedRows', Naked' \subseteq Naked,
         \A u \in UnitIds : unit[u].embedded => unit'[u].embedded,
         configured' = configured, run' = run,
         \A d \in Drains : drain'[d] = drain[d] \/ drain'[d].pc = "idle"
  PROVE  ReembedInvariant'
<1>1. Unresized' /\ Paged' /\ Reembedded'
  BY DEF ReembedInvariant, Unresized, Paged, Reembedded
<1>2. CompleteRunCoversUnits'
  BY DEF ReembedInvariant, CompleteRunCoversUnits, Naked
<1> QED BY <1>1, <1>2 DEF ReembedInvariant, Reembedded

LEMMA WritePageKeeps ==
  ASSUME ReembedInvariant, NEW d \in Drains, WritePage(d), GenerationsInvariant'
  PROVE  ReembedInvariant'
<1> USE DEF ReembedInvariant
<1> DEFINE p == drain[d]
<1>1. /\ p.pc = "embedding" /\ p.page \in SUBSET UnitIds /\ p.gen \in 0 .. MaxGenerations
      /\ run' = [run EXCEPT !.cursor = CursorAfter(p.page)] /\ configured' = configured
      /\ drain' = [drain EXCEPT ![d] = NoPage] /\ configured = 2
  BY DEF WritePage, ReembedRows, Unresized, GenerationsInvariant, GenerationRows
<1>2. CursorAfter(p.page) \in Nat /\ CursorAfter(p.page) \in p.page
  BY <1>1, CursorIsLast, GenerationsAssumption DEF Paged
<1>3. NoPage \in [pc : {"idle", "embedding"}, page : SUBSET UnitIds, gen : 0 .. MaxGenerations]
      /\ NoPage.pc = "idle"
  BY GenerationsAssumption DEF NoPage
<1>4. unit' \in [UnitIds -> [active : BOOLEAN, gen : 0 .. MaxGenerations, embedded : BOOLEAN]]
  <2> DEFINE U == [active : BOOLEAN, gen : 0 .. MaxGenerations, embedded : BOOLEAN]
             New(u) == IF u \notin p.page \/ ~unit[u].active THEN unit[u]
                       ELSE IF Twin(u, p.gen) THEN [unit[u] EXCEPT !.active = FALSE]
                       ELSE [active |-> TRUE, gen |-> p.gen, embedded |-> TRUE]
  <2>1. \A u \in UnitIds : unit[u] \in U
    BY DEF ReembedRows
  <2>2. \A u \in UnitIds : [unit[u] EXCEPT !.active = FALSE] \in U
    BY <2>1
  <2>3. [active |-> TRUE, gen |-> p.gen, embedded |-> TRUE] \in U
    BY <1>1
  <2>4. \A u \in UnitIds : New(u) \in U
    BY <2>1, <2>2, <2>3
  <2> HIDE DEF U
  <2>5. unit' = [u \in UnitIds |-> New(u)]
    BY DEF WritePage
  <2>6. unit' \in [UnitIds -> U]
    BY <2>4, <2>5
  <2> QED BY <2>6 DEF U
<1>5. ReembedRows'
  BY <1>1, <1>2, <1>3, <1>4 DEF ReembedRows
<1>6. /\ Naked' \subseteq Naked /\ Naked' \cap p.page = {}
      /\ \A u \in UnitIds : unit[u].embedded => unit'[u].embedded
  BY <1>1 DEF WritePage, ReembedRows, Naked
<1>7. Paged'
  BY <1>1, <1>3, <1>6 DEF Paged, ReembedRows
<1>8. Reembedded'
  <2>1. run'.cursor = CursorAfter(p.page)
    BY <1>1 DEF ReembedRows
  <2>2. \A u \in Naked' : ~(u <= CursorAfter(p.page))
    BY <1>1, <1>2, <1>6 DEF Paged
  <2>3. \A u \in Naked' : u \in Nat
    BY GenerationsAssumption DEF Naked
  <2> QED BY <1>2, <2>1, <2>2, <2>3 DEF Reembedded
<1>9. run'.phase = run.phase /\ run'.high = run.high /\ run'.model = run.model
  BY <1>1 DEF ReembedRows
<1>10. CompleteRunCoversUnits'
  BY <1>1, <1>6, <1>9 DEF CompleteRunCoversUnits, Naked
<1> QED BY <1>1, <1>5, <1>7, <1>8, <1>9, <1>10 DEF Unresized, Reembedded

LEMMA ReembedStepKeeps ==
  ASSUME ReembedInvariant, ReembedStep, GenerationsInvariant'
  PROVE  ReembedInvariant'
<1> USE DEF ReembedInvariant
<1>0. /\ MaxGenerations \in Nat \ {0} /\ Generations = 1 .. MaxGenerations
      /\ ActiveGeneration \in 0 .. MaxGenerations
      /\ NoPage \in [pc : {"idle", "embedding"}, page : SUBSET UnitIds, gen : 0 .. MaxGenerations]
      /\ NoPage.pc = "idle"
  BY GenerationsAssumption, QueriesAnswer DEF Generations, NoPage, GenerationsInvariant, GenerationRows
<1>1. CASE Resize
  <2>1. ReembedRows'
    BY <1>0, <1>1 DEF Resize, ReembedRows
  <2>2. configured = 1 /\ configured' = 2 /\ run' = run /\ \A d \in Drains : drain'[d].pc = "idle"
    BY <1>0, <1>1 DEF Resize
  <2>3. Reembedded'
    <3>1. \A u \in UnitIds : 0 < u
      BY GenerationsAssumption
    <3> QED BY <2>2, <3>1 DEF Unresized, Reembedded, Naked
  <2> QED BY <2>1, <2>2, <2>3 DEF Unresized, Paged, CompleteRunCoversUnits, Reembedded
<1>2. CASE EnqueueReembed
  <2>1. /\ run' = [phase |-> "snapshot", cursor |-> 0, high |-> Latent, model |-> configured]
        /\ UNCHANGED <<configured, unit, drain>>
    BY <1>2 DEF EnqueueReembed
  <2>2. ReembedRows'
    BY <2>1, LatentIsLast, GenerationsAssumption DEF ReembedRows, GenerationsInvariant, GenerationRows
  <2>3. Unresized' /\ Paged' /\ CompleteRunCoversUnits'
    BY <2>1 DEF Unresized, Paged, Naked, CompleteRunCoversUnits
  <2>4. Reembedded'
    BY <2>1, GenerationsAssumption DEF Reembedded, Naked
  <2> QED BY <2>1, <2>2, <2>3, <2>4 DEF Reembedded
<1>3. CASE CompleteRun
  <2>1. /\ run.phase = "snapshot" /\ Pending = {} /\ run' = [run EXCEPT !.phase = "complete"]
        /\ UNCHANGED <<configured, unit, drain>>
    BY <1>3 DEF CompleteRun
  <2>2. ReembedRows'
    BY <2>1 DEF ReembedRows
  <2>3. Naked = {}
    BY <2>1, LatentIsLast, GenerationsAssumption DEF Pending, Naked, Reembedded, ReembedRows
  <2>4. Unresized' /\ Paged' /\ CompleteRunCoversUnits' /\ Reembedded'
    BY <2>1, <2>3 DEF Unresized, Paged, Naked, CompleteRunCoversUnits, Reembedded, ReembedRows
  <2> QED BY <2>1, <2>2, <2>4 DEF Reembedded, ReembedRows
<1>4. CASE Reindex
  <2>1. ReembedRows' /\ Naked' \subseteq Naked
        /\ \A u \in UnitIds : unit[u].embedded => unit'[u].embedded
    BY <1>0, <1>4 DEF Reindex, ReembedRows, Naked
  <2> QED BY <1>4, <2>1, ShrinkKeeps DEF Reindex
<1>5. ASSUME NEW u \in UnitIds, Deactivate(u) PROVE ReembedInvariant'
  <2>1. ReembedRows' /\ Naked' \subseteq Naked
        /\ \A v \in UnitIds : unit[v].embedded => unit'[v].embedded
    BY <1>5 DEF Deactivate, ReembedRows, Naked
  <2> QED BY <1>5, <2>1, ShrinkKeeps DEF Deactivate
<1>6. ASSUME NEW d \in Drains, DropPage(d) PROVE ReembedInvariant'
  <2>1. ReembedRows' /\ Naked' \subseteq Naked
        /\ \A e \in Drains : drain'[e] = drain[e] \/ drain'[e].pc = "idle"
    BY <1>0, <1>6 DEF DropPage, ReembedRows, Naked
  <2> QED BY <1>6, <2>1, ShrinkKeeps DEF DropPage
<1>7. ASSUME NEW d \in Drains, NEW g \in Generations, ReadPage(d, g) PROVE ReembedInvariant'
  <2>1. /\ run.phase = "snapshot" /\ Pending # {} /\ UNCHANGED <<configured, unit, run>>
        /\ drain' = [drain EXCEPT ![d] = [pc |-> "embedding", page |-> Page, gen |-> g]]
    BY <1>7 DEF ReadPage
  <2>2. Page \subseteq UnitIds
    BY DEF Page, Pending
  <2>3. ReembedRows'
    BY <1>0, <2>1, <2>2 DEF ReembedRows
  <2>4. configured # 1
    BY <2>1 DEF Pending, Unresized
  <2>5. Naked \subseteq Pending
    BY <2>1, LatentIsLast DEF Naked, Pending, Reembedded
  <2>6. Page # {} /\ \A last \in Page, u \in Naked : u <= last => u \in Page
    BY <2>1, <2>5, PageIsNext
  <2>7. Paged'
    BY <2>1, <2>6 DEF Paged, ReembedRows, Naked
  <2> QED BY <2>1, <2>3, <2>4, <2>7 DEF Unresized, Reembedded, Naked, CompleteRunCoversUnits
<1> QED BY <1>1, <1>2, <1>3, <1>4, <1>5, <1>6, <1>7, WritePageKeeps DEF ReembedStep

\* A run enqueued after the vectors were cleared reports complete only when
\* every unit in use has its vector, whatever pages failed, were written late,
\* twice or by the run before, and whatever was indexed again meanwhile.
THEOREM GenerationsCovered == GenerationsSpec => []CompleteRunCoversUnits
<1>1. GenerationsInit => ReembedInvariant
  BY ReembedStart
<1>2. ReembedInvariant /\ [GenerationsNext]_generationVars => ReembedInvariant'
  <2> SUFFICES ASSUME ReembedInvariant, [GenerationsNext]_generationVars PROVE ReembedInvariant'
    OBVIOUS
  <2>1. GenerationsInvariant'
    BY GenerationsStep DEF ReembedInvariant
  <2>2. CASE ShadowStep \/ (\E o \in Operators : ChangeStep(o)) \/ UNCHANGED generationVars
    <3>1. UNCHANGED <<configured, unit, run, drain>>
      BY <2>2 DEF ShadowStep, ChangeStep, BeginShadow, ReadForPromote, ReadForRollback, ReadForEnsure,
                  CommitChange, AbandonChange, generationVars
    <3> QED BY <2>1, <3>1 DEF ReembedInvariant, ReembedRows, Unresized, Paged, Reembedded, Naked,
                              CompleteRunCoversUnits
  <2> QED BY <2>1, <2>2, ReembedStepKeeps DEF GenerationsNext
<1>3. ReembedInvariant => CompleteRunCoversUnits
  BY DEF ReembedInvariant
<1> QED BY <1>1, <1>2, <1>3, PTL DEF GenerationsSpec

-----------------------------------------------------------------------------
(* Retention.                                                               *)

Revisions == ItemRevisions \cup DocumentRevisions
RowCounts == [unit : Nat, outbox : Nat, job : Nat, chunk : Nat]
Bases == [roots : SUBSET Roots, revs : SUBSET Revisions, rows : [Revisions -> RowCounts],
          cites : [ItemRevisions -> DocumentRevisions \cup {NoRevision}],
          current : [Roots -> Revisions \cup {NoRevision}],
          jobs : SUBSET Roots, parents : SUBSET Parents, parts : [Parents -> Nat]]

\* In use: what the retention function must not touch.
InUse(base, v) == \/ CitationsOf(base, v) # {}
                  \/ archived[RootOf(v)] # "aged" /\ v = base.current[RootOf(v)]

\* The rows as every statement of the function finds and leaves them.
Whole(base) ==
  /\ base \in Bases
  /\ \A r \in base.jobs : archived[r] = "aged"
  /\ \A r \in Roots : base.current[r] \in RevisionsOf[r] \cup {NoRevision}
  /\ \A r \in Roots : archived[r] # "aged" => base.current[r] \in base.revs
  /\ \A k \in base.revs \cap ItemRevisions : base.cites[k] \in base.revs \cup {NoRevision}

\* From one statement to a later one nothing in use loses rows, and nothing
\* comes into use.
Spares(base, later) ==
  /\ later.revs \subseteq base.revs
  /\ \A v \in later.revs : InUse(later, v) => InUse(base, v) /\ later.rows[v] = base.rows[v]

RetentionInvariant ==
  /\ archived \in [Roots -> {"live", "archived", "aged"}]
  /\ Whole(db)
  /\ db.revs \cap DocumentRevisions \subseteq kept
  /\ doomed \cap db.revs = {}

LEMMA SparesOn ==
  ASSUME NEW a, NEW b, NEW c, Spares(a, b), Spares(b, c)
  PROVE  Spares(a, c)
BY DEF Spares

LEMMA RootOfItsRevision ==
  ASSUME NEW r \in Roots, NEW v \in RevisionsOf[r]
  PROVE  RootOf(v) = r /\ v # NoRevision /\ v \in Revisions
<1>1. \A q \in Roots : v \in RevisionsOf[q] => q = r
  BY RetentionAssumption DEF Roots
<1>2. RootOf(v) = r
  BY <1>1 DEF RootOf
<1> QED BY <1>2, RetentionAssumption DEF Roots, Revisions, ItemRevisions, DocumentRevisions

LEMMA CountsStayCounts ==
  /\ \A v \in Revisions : Full(v) \in RowCounts
  /\ \A rows \in RowCounts : Stripped(rows) \in RowCounts
  /\ \A n \in Nat : Fewer(n) \in Nat
<1>1. \A n \in Int : Fewer(n) \in Nat
  BY RetentionAssumption DEF Fewer
<1>2. \A n, held \in Nat : Freed(n, held) \in Nat
  <2> TAKE n, held \in Nat
  <2>1. n - held \in Int
    OBVIOUS
  <2>2. Fewer(n - held) \in Nat
    BY <1>1, <2>1
  <2> QED BY <2>2 DEF Freed
<1>3. \A v \in Revisions : Full(v) \in RowCounts
  BY RetentionAssumption DEF Full, RowCounts
<1>4. ASSUME NEW rows \in RowCounts PROVE Stripped(rows) \in RowCounts
  <2>1. Fewer(rows.outbox) \in Nat /\ Fewer(rows.unit) \in Nat
    BY <1>1 DEF RowCounts
  <2>2. Freed(rows.job, Fewer(rows.outbox)) \in Nat /\ Freed(rows.chunk, Fewer(rows.unit)) \in Nat
    BY <1>2, <2>1 DEF RowCounts
  <2> QED BY <2>1, <2>2 DEF Stripped, RowCounts
<1> QED BY <1>1, <1>3, <1>4

\* Nothing cites a knowledge revision.
LEMMA OnlyDocumentsCited ==
  ASSUME NEW base \in Bases, NEW v \in ItemRevisions
  PROVE  CitationsOf(base, v) = {}
<1>1. v \notin DocumentRevisions \cup {NoRevision}
  BY RetentionAssumption DEF ItemRevisions, DocumentRevisions
<1> QED BY <1>1 DEF Bases, CitationsOf

LEMMA QueueSpares ==
  ASSUME NEW base, Whole(base), NEW kind, NEW next \in QueuePurge(base, kind)
  PROVE  Whole(next) /\ Spares(base, next)
<1>1. CASE next = base
  BY <1>1 DEF Spares
<1>2. ASSUME NEW r \in Roots, archived[r] = "aged", next = [base EXCEPT !.jobs = @ \cup {r}]
      PROVE  Whole(next) /\ Spares(base, next)
  <2>1. /\ next \in Bases /\ next.jobs = base.jobs \cup {r} /\ next.revs = base.revs
        /\ next.current = base.current /\ next.cites = base.cites /\ next.rows = base.rows
    BY <1>2 DEF Whole, Bases
  <2> QED BY <1>2, <2>1 DEF Whole, Spares, InUse, CitationsOf
<1>3. next = base \/ \E r \in Roots : archived[r] = "aged" /\ next = [base EXCEPT !.jobs = @ \cup {r}]
  BY DEF QueuePurge, Owned, Roots, Whole, Bases
<1> QED BY <1>1, <1>2, <1>3

\* The pointer of a root past its period is cleared.
LEMMA ClearedSpares ==
  ASSUME NEW base, Whole(base), NEW purged, purged \subseteq base.jobs
  PROVE  Whole(Cleared(base, purged)) /\ Spares(base, Cleared(base, purged))
<1> DEFINE now == [r \in Roots |-> IF r \in purged THEN NoRevision ELSE base.current[r]]
           next == Cleared(base, purged)
<1>1. /\ base \in Bases /\ now \in [Roots -> Revisions \cup {NoRevision}]
      /\ next = [base EXCEPT !.current = now]
  BY DEF Whole, Bases, Cleared
<1>2. /\ next \in Bases /\ next.current = now /\ next.revs = base.revs /\ next.cites = base.cites
      /\ next.jobs = base.jobs /\ next.rows = base.rows
  BY <1>1 DEF Bases
<1> HIDE DEF next
<1>3. Whole(next)
  BY <1>2 DEF Whole
<1>4. \A v \in base.revs : RootOf(v) \in Roots /\ v # NoRevision
  <2> TAKE v \in base.revs
  <2>1. PICK r \in Roots : v \in RevisionsOf[r]
    BY <1>1 DEF Bases, Revisions, ItemRevisions, DocumentRevisions, Roots
  <2> QED BY <2>1, RootOfItsRevision
<1>5. Spares(base, next)
  BY <1>2, <1>4 DEF Spares, InUse, CitationsOf
<1> QED BY <1>3, <1>5 DEF next

\* What is eligible is not in use: nothing cites it, and it is current in no
\* root but one past its period.
LEMMA EligibleIsIdle ==
  ASSUME NEW base, Whole(base), NEW kind, NEW purged, purged = {} \/ \E x \in base.jobs : purged = {x},
         NEW v \in EligibleRevisions(base, kind, purged)
  PROVE  v \in base.revs /\ ~InUse(base, v)
<1>1. base \in Bases /\ base.revs \subseteq Revisions
  BY DEF Whole, Bases
<1>2. v \in base.revs /\ Uncited(base, v)
  BY DEF EligibleRevisions
<1>3. CitationsOf(base, v) = {}
  <2>1. CASE v \in DocumentRevisions
    BY <1>2, <2>1 DEF Uncited
  <2>2. CASE v \in ItemRevisions
    BY <1>1, <2>2, OnlyDocumentsCited
  <2> QED BY <1>1, <1>2, <2>1, <2>2 DEF Revisions
<1>4. v # base.current[RootOf(v)] \/ archived[RootOf(v)] = "aged"
  <2>1. CASE v = base.current[RootOf(v)]
    <3>1. purged # {} /\ v \in RevisionsOf[CHOOSE r \in purged : TRUE]
      BY <2>1 DEF EligibleRevisions
    <3>2. PICK x \in base.jobs : purged = {x}
      BY <3>1
    <3>3. (CHOOSE r \in purged : TRUE) = x
      BY <3>2
    <3>4. v \in RevisionsOf[x] /\ x \in Roots
      BY <1>1, <3>1, <3>3 DEF Bases
    <3>5. RootOf(v) = x
      BY <3>4, RootOfItsRevision
    <3> QED BY <3>5 DEF Whole
  <2> QED BY <2>1
<1> QED BY <1>2, <1>3, <1>4 DEF InUse

\* A revision that is not in use loses rows, goes when it has none, and takes
\* its root and the job with it when it was the last.
LEMMA PurgeSpares ==
  ASSUME NEW base, Whole(base), NEW purged, purged \subseteq base.jobs,
         NEW victim, \A v \in victim : v \in base.revs /\ ~InUse(base, v)
  PROVE  /\ Whole(Purge(base, purged, victim))
         /\ Spares(base, Purge(base, purged, victim))
<1> DEFINE rows == [v \in DOMAIN base.rows |->
                      IF v \in victim THEN Stripped(base.rows[v]) ELSE base.rows[v]]
           cites == [k \in ItemRevisions |-> IF k \in victim THEN NoRevision ELSE base.cites[k]]
           revs == base.revs \ {v \in victim : rows[v] = Empty}
           ended == {r \in purged : RevisionsOf[r] \cap revs = {}}
           next == Purge(base, purged, victim)
<1>1. base \in Bases
  BY DEF Whole
<1>2. next = [base EXCEPT !.rows = rows, !.cites = cites, !.revs = revs,
                          !.roots = @ \ ended, !.jobs = @ \ ended]
  BY DEF Purge
<1>3. rows \in [Revisions -> RowCounts]
  BY <1>1, CountsStayCounts DEF Bases
<1>4. cites \in [ItemRevisions -> DocumentRevisions \cup {NoRevision}]
  BY <1>1 DEF Bases
<1>5. revs \subseteq base.revs
  OBVIOUS
<1>6. /\ \A v \in base.revs : v \notin victim => rows[v] = base.rows[v]
      /\ \A v \in base.revs : v \notin victim => v \in revs
      /\ \A k \in ItemRevisions : cites[k] = IF k \in victim THEN NoRevision ELSE base.cites[k]
  BY <1>1 DEF Bases
<1> HIDE DEF rows, cites, revs, ended
<1>7. /\ next \in Bases /\ next.rows = rows /\ next.cites = cites /\ next.revs = revs
      /\ next.current = base.current /\ next.jobs = base.jobs \ ended
  <2>1. base.roots \ ended \in SUBSET Roots /\ base.jobs \ ended \in SUBSET Roots /\ revs \in SUBSET Revisions
    BY <1>1, <1>5 DEF Bases
  <2>2. next \in Bases
    BY <1>1, <1>2, <1>3, <1>4, <2>1 DEF Bases
  <2>3. /\ next.rows = rows /\ next.cites = cites /\ next.revs = revs
        /\ next.current = base.current /\ next.jobs = base.jobs \ ended
    BY <1>1, <1>2 DEF Bases
  <2> QED BY <2>2, <2>3
<1> HIDE DEF next
<1>8. Whole(next)
  <2>1. ASSUME NEW r \in Roots, archived[r] # "aged" PROVE next.current[r] \in next.revs
    <3>1. base.current[r] \in base.revs /\ base.current[r] \in RevisionsOf[r] \cup {NoRevision}
      BY <2>1 DEF Whole
    <3>2. base.current[r] \in RevisionsOf[r]
      BY <1>1, <3>1, RetentionAssumption
         DEF Bases, Revisions, ItemRevisions, DocumentRevisions, Roots
    <3>3. RootOf(base.current[r]) = r
      BY <3>2, RootOfItsRevision
    <3>4. InUse(base, base.current[r])
      BY <2>1, <3>3 DEF InUse
    <3> QED BY <1>6, <1>7, <3>1, <3>4
  <2>2. ASSUME NEW k \in next.revs \cap ItemRevisions PROVE next.cites[k] \in next.revs \cup {NoRevision}
    <3>1. CASE k \in victim
      BY <1>6, <1>7, <3>1
    <3>2. CASE k \notin victim
      <4>1. next.cites[k] = base.cites[k] /\ base.cites[k] \in base.revs \cup {NoRevision}
        BY <1>5, <1>6, <1>7, <2>2, <3>2 DEF Whole
      <4>2. InUse(base, base.cites[k])
        BY <2>2 DEF InUse, CitationsOf
      <4> QED BY <1>6, <1>7, <4>1, <4>2
    <3> QED BY <3>1, <3>2
  <2> QED BY <1>7, <2>1, <2>2 DEF Whole
<1>9. Spares(base, next)
  <2>1. ASSUME NEW v \in next.revs, InUse(next, v) PROVE InUse(base, v)
    <3>1. CASE CitationsOf(next, v) # {}
      <4>1. PICK k \in ItemRevisions : cites[k] = v
        BY <1>7, <3>1 DEF CitationsOf
      <4>2. v # NoRevision
        BY <1>1, <1>5, <1>7, <2>1, RetentionAssumption
           DEF Bases, Revisions, ItemRevisions, DocumentRevisions
      <4>3. base.cites[k] = v
        BY <1>6, <4>1, <4>2
      <4> QED BY <4>3 DEF InUse, CitationsOf
    <3>2. CASE archived[RootOf(v)] # "aged" /\ v = next.current[RootOf(v)]
      BY <1>7, <3>2 DEF InUse
    <3> QED BY <2>1, <3>1, <3>2 DEF InUse
  <2>2. \A v \in next.revs : InUse(base, v) => next.rows[v] = base.rows[v]
    BY <1>5, <1>6, <1>7
  <2> QED BY <1>5, <1>7, <2>1, <2>2 DEF Spares
<1> QED BY <1>8, <1>9 DEF next

LEMMA PurgedSpares ==
  ASSUME NEW base, Whole(base), NEW kind, NEW next \in Purged(base, kind)
  PROVE  Whole(next) /\ Spares(base, next)
<1>1. PICK purged \in Somewhere(base.jobs \cap Owned(kind)) :
        \E victim \in Somewhere(EligibleRevisions(Cleared(base, purged), kind, purged)) :
          next = Purge(Cleared(base, purged), purged, victim)
  BY DEF Purged
<1> DEFINE cleared == Cleared(base, purged)
<1>2. purged = {} \/ \E x \in base.jobs : purged = {x}
  BY <1>1 DEF Somewhere
<1>3. Whole(cleared) /\ Spares(base, cleared)
  BY <1>2, ClearedSpares
<1>4. cleared.jobs = base.jobs
  BY DEF Whole, Bases, Cleared
<1> HIDE DEF cleared
<1>5. PICK victim \in Somewhere(EligibleRevisions(cleared, kind, purged)) :
        next = Purge(cleared, purged, victim)
  BY <1>1 DEF cleared
<1>6. \A v \in victim : v \in EligibleRevisions(cleared, kind, purged)
  BY <1>5 DEF Somewhere
<1>7. \A v \in victim : v \in cleared.revs /\ ~InUse(cleared, v)
  BY <1>2, <1>3, <1>4, <1>6, EligibleIsIdle
<1>8. Whole(next) /\ Spares(cleared, next)
  BY <1>2, <1>3, <1>4, <1>5, <1>7, PurgeSpares
<1> QED BY <1>3, <1>8, SparesOn

\* Session families, keys and expiring records have nothing to do with it.
LEMMA RecordsSpare ==
  ASSUME NEW base, Whole(base), NEW next \in PurgedRecords(base)
  PROVE  Whole(next) /\ Spares(base, next)
<1>1. PICK p \in Somewhere(base.parents \cap old) :
        next = LET parts == [x \in Parents |-> IF x \in p THEN Fewer(base.parts[x]) ELSE base.parts[x]]
               IN [base EXCEPT !.parts = parts, !.parents = @ \ {x \in p : parts[x] = 0}]
  BY DEF PurgedRecords
<1> DEFINE parts == [x \in Parents |-> IF x \in p THEN Fewer(base.parts[x]) ELSE base.parts[x]]
           gone == {x \in p : parts[x] = 0}
<1>2. parts \in [Parents -> Nat]
  BY CountsStayCounts DEF Whole, Bases
<1>3. next = [base EXCEPT !.parts = parts, !.parents = @ \ gone]
  BY <1>1
<1> HIDE DEF parts, gone
<1>4. /\ next \in Bases /\ next.rows = base.rows /\ next.cites = base.cites /\ next.revs = base.revs
      /\ next.current = base.current /\ next.jobs = base.jobs
  BY <1>2, <1>3 DEF Whole, Bases
<1> QED BY <1>4 DEF Whole, Spares, InUse, CitationsOf

LEMMA RetentionStart == RetentionInit => RetentionInvariant
<1> SUFFICES ASSUME RetentionInit PROVE RetentionInvariant
  OBVIOUS
<1> DEFINE base == [roots |-> Roots, revs |-> ItemRevisions \cup DocumentRevisions,
                    rows |-> [v \in ItemRevisions \cup DocumentRevisions |-> Full(v)],
                    cites |-> [v \in ItemRevisions |-> NoRevision],
                    current |-> [r \in Roots |-> CHOOSE v \in RevisionsOf[r] : TRUE],
                    jobs |-> {}, parents |-> Parents, parts |-> [p \in Parents |-> Width]]
<1>1. \A r \in Roots : base.current[r] \in RevisionsOf[r]
  BY RetentionAssumption DEF Roots
<1>2. \A r \in Roots : base.current[r] \in base.revs
  <2>1. \A r \in Roots : RevisionsOf[r] \subseteq ItemRevisions \cup DocumentRevisions
    BY DEF Roots, ItemRevisions, DocumentRevisions
  <2>2. base.revs = ItemRevisions \cup DocumentRevisions
    OBVIOUS
  <2> QED BY <1>1, <2>1, <2>2
<1>3. base.current \in [Roots -> Revisions \cup {NoRevision}]
  BY <1>2 DEF Revisions
<1>4. base.rows \in [Revisions -> RowCounts] /\ base.parts \in [Parents -> Nat]
  BY CountsStayCounts, RetentionAssumption DEF Revisions
<1>5. base \in Bases
  BY <1>3, <1>4 DEF Bases, Revisions
<1>6. Whole(base)
  BY <1>1, <1>2, <1>5 DEF Whole
<1>7. db = base
  BY DEF RetentionInit
<1> QED BY <1>6, <1>7 DEF RetentionInit, RetentionInvariant

LEMMA BatchSpares ==
  ASSUME Whole(db), RunBatch
  PROVE  Whole(db') /\ Spares(db, db')
<1>1. PICK i \in QueuePurge(db, "item") : \E d \in QueuePurge(i, "document") :
        \E a \in Purged(d, "item") : \E b \in Purged(a, "document") : db' \in PurgedRecords(b)
  BY DEF RunBatch
<1>2. PICK d \in QueuePurge(i, "document") :
        \E a \in Purged(d, "item") : \E b \in Purged(a, "document") : db' \in PurgedRecords(b)
  BY <1>1
<1>3. PICK a \in Purged(d, "item") : \E b \in Purged(a, "document") : db' \in PurgedRecords(b)
  BY <1>2
<1>4. PICK b \in Purged(a, "document") : db' \in PurgedRecords(b)
  BY <1>3
<1>5. Whole(i) /\ Spares(db, i)
  BY QueueSpares
<1>6. Whole(d) /\ Spares(db, d)
  BY <1>5, QueueSpares, SparesOn
<1>7. Whole(a) /\ Spares(db, a)
  BY <1>6, PurgedSpares, SparesOn
<1>8. Whole(b) /\ Spares(db, b)
  BY <1>7, PurgedSpares, SparesOn
<1> QED BY <1>8, <1>4, RecordsSpare, SparesOn

\* One step of RetainedIsWhole.
SparesInUse ==
  /\ \A v \in Protected' : db'.rows[v] = db.rows[v]
  /\ \A r \in Roots : archived[r] # "aged" => db'.current[r] \in db'.revs
  /\ \A k \in db'.revs \cap ItemRevisions : db'.cites[k] \in db'.revs \cup {NoRevision}
  /\ db'.revs \cap DocumentRevisions \subseteq kept'

LEMMA RetentionStep ==
  ASSUME RetentionInvariant, RetentionNext
  PROVE  RetentionInvariant' /\ SparesInUse
<1> USE DEF RetentionInvariant
<1>1. CASE RunBatch
  <2>1. Whole(db') /\ Spares(db, db') /\ archived' = archived /\ kept' = kept
        /\ doomed' = (db.revs \ db'.revs) \cap DocumentRevisions
    BY <1>1, BatchSpares DEF RunBatch
  <2>2. RetentionInvariant'
    BY <2>1 DEF Whole, Spares
  <2>3. \A v \in Protected' : v \in db'.revs /\ InUse(db', v)
    BY <2>1 DEF Protected, InUse, CitationsOf
  <2> QED BY <2>1, <2>2, <2>3 DEF Whole, Spares, SparesInUse
<1>2. ASSUME UNCHANGED <<db, archived>>,
             db.revs \cap DocumentRevisions \subseteq kept', doomed' \cap db.revs = {}
      PROVE  RetentionInvariant' /\ SparesInUse
  BY <1>2 DEF Whole, SparesInUse
<1>3. ASSUME NEW v \in DocumentRevisions, DeleteFile(v) PROVE RetentionInvariant' /\ SparesInUse
  <2>1. db.revs \cap DocumentRevisions \subseteq kept' /\ doomed' \cap db.revs = {}
    BY <1>3 DEF DeleteFile
  <2> QED BY <1>2, <1>3, <2>1 DEF DeleteFile
<1>4. ASSUME NEW r \in Roots, Archive(r) \/ PeriodPasses(r)
      PROVE  RetentionInvariant' /\ SparesInUse
  <2>1. /\ UNCHANGED <<db, kept, doomed>>
        /\ \A q \in Roots : archived[q] = "aged" => archived'[q] = "aged"
        /\ archived' \in [Roots -> {"live", "archived", "aged"}]
    BY <1>4 DEF Archive, PeriodPasses
  <2>2. db.jobs \subseteq Roots
    BY DEF Whole, Bases
  <2> QED BY <2>1, <2>2 DEF Whole, SparesInUse
<1>5. ASSUME NEW x \in ItemRevisions \cup DocumentRevisions \cup Parents, Age(x)
      PROVE  RetentionInvariant' /\ SparesInUse
  BY <1>2, <1>5 DEF Age
<1>6. ASSUME NEW k \in ItemRevisions, NEW v \in DocumentRevisions, Cite(k, v)
      PROVE  RetentionInvariant' /\ SparesInUse
  <2>1. /\ v \in db.revs /\ db' = [db EXCEPT !.cites[k] = v]
        /\ UNCHANGED <<archived, kept, doomed>> /\ db \in Bases
    BY <1>6 DEF Cite, Whole
  <2>2. [db.cites EXCEPT ![k] = v] \in [ItemRevisions -> DocumentRevisions \cup {NoRevision}]
    BY <2>1 DEF Bases
  <2>3. /\ db' \in Bases /\ db'.cites = [db.cites EXCEPT ![k] = v] /\ db'.revs = db.revs
        /\ db'.rows = db.rows /\ db'.current = db.current /\ db'.jobs = db.jobs
    BY <2>1, <2>2 DEF Bases
  <2>4. \A j \in ItemRevisions : db'.cites[j] = IF j = k THEN v ELSE db.cites[j]
    BY <2>1, <2>3 DEF Bases
  <2> QED BY <2>1, <2>3, <2>4 DEF Whole, SparesInUse
<1> QED BY <1>1, <1>3, <1>4, <1>5, <1>6 DEF RetentionNext

\* No batch of the retention function takes anything from what is in use after
\* it, leaves a citation dangling or a revision without its file, however the
\* purges of roots, superseded revisions and records fall together.
THEOREM RetentionSparesInUse == RetentionSpec => RetainedIsWhole
<1>1. RetentionInit => RetentionInvariant
  BY RetentionStart
<1>2. RetentionInvariant /\ [RetentionNext]_retentionVars => RetentionInvariant'
  <2>1. ASSUME RetentionInvariant, UNCHANGED retentionVars PROVE RetentionInvariant'
    BY <2>1 DEF retentionVars, RetentionInvariant, Whole
  <2> QED BY <2>1, RetentionStep
<1>3. RetentionInvariant /\ [RetentionNext]_retentionVars => [SparesInUse]_retentionVars
  BY RetentionStep
<1>4. RetentionSpec => [][SparesInUse]_retentionVars
  BY <1>1, <1>2, <1>3, PTL DEF RetentionSpec
<1> QED BY <1>4 DEF RetainedIsWhole, SparesInUse

-----------------------------------------------------------------------------
(* The walks over the legacy tables.                                        *)

Unmigrated == {r \in owed : target[r] = {}}
WalkRow == [phase : {"none", "snapshot", "delta", "complete"}, high : 0 .. MaxLegacy,
            delta : 0 .. MaxLegacy, cursor : 0 .. MaxLegacy, migrated : Nat]
RunnerRow == [pc : {"rest", "empty", "row", "insert", "advance"}, entry : {"snapshot", "delta"},
              page : SUBSET Rows, inserted : {0, 1}]

BackfillRows ==
  /\ legacy \in [Rows -> {"unborn", "building", "stored", "chunked"}]
  /\ walk \in WalkRow
  /\ target \in [Rows -> SUBSET ({"document", "units"} \cup Runners)]
  /\ runner \in [Runners -> RunnerRow]
  /\ owed \subseteq Stored

\* What is owed lies below the mark, and the cursor has passed nothing that is
\* owed and not migrated.
WalkSound ==
  /\ walk.phase = "none" => owed = {} /\ walk.cursor = 0
  /\ walk.phase = "snapshot" => \A r \in owed : r <= walk.high
  /\ walk.phase = "delta" => Documents /\ \A r \in owed : r <= walk.delta
  /\ walk.phase = "complete" => Unmigrated = {}
  /\ \A r \in Unmigrated : walk.cursor < r

\* A page leaves out no such row below its last one, whichever phase it was read
\* in, and one that was found empty shows that none is left below its mark.
RunnerSound(w) ==
  /\ runner[w].pc # "rest" => walk.phase # "none"
  /\ runner[w].entry = "delta" => walk.phase \in {"delta", "complete"}
  /\ runner[w].pc \in {"row", "insert", "advance"} =>
       /\ runner[w].page # {}
       /\ runner[w].entry = "snapshot" => \A r \in runner[w].page : r <= walk.high
       /\ \A last \in runner[w].page : \A r \in Unmigrated : r <= last => r \in runner[w].page
  /\ runner[w].pc = "advance" => target[NextRow(w)] # {}
  /\ runner[w].pc = "empty" =>
       \A r \in Unmigrated : runner[w].entry = "snapshot" /\ walk.high < r

\* Batches that have inserted a document and not yet counted it.
Inserted == {w \in Runners : runner[w].pc = "advance" /\ runner[w].inserted = 1}
Migrated == {r \in Rows : target[r] # {}}

CountedOnce == Documents => walk.migrated + Cardinality(Inserted) <= Cardinality(Migrated)

BackfillInvariant ==
  BackfillRows /\ WalkSound /\ CountedOnce /\ \A w \in Runners : RunnerSound(w)

LEMMA BackfillFinite ==
  /\ Rows \in SUBSET Nat /\ IsFiniteSet(Rows) /\ MaxLegacy \in Nat
  /\ \A S \in SUBSET Rows : IsFiniteSet(S) /\ Cardinality(S) \in Nat
  /\ \A S \in SUBSET Runners : IsFiniteSet(S) /\ Cardinality(S) \in Nat
<1>1. IsFiniteSet(Rows) /\ MaxLegacy \in Nat
  BY BackfillAssumption, FS_Interval DEF Rows
<1>2. Rows \in SUBSET Nat
  BY <1>1 DEF Rows
<1>3. \A S \in SUBSET Rows : IsFiniteSet(S)
  BY <1>1, FS_Subset
<1>4. \A S \in SUBSET Runners : IsFiniteSet(S)
  BY BackfillAssumption, FS_Subset
<1> QED BY <1>1, <1>2, <1>3, <1>4, FS_CardinalityType

LEMMA NextRowIsLeast ==
  ASSUME NEW w \in Runners, runner[w].page \in SUBSET Rows, runner[w].page # {}
  PROVE  NextRow(w) \in runner[w].page /\ \A s \in runner[w].page : NextRow(w) <= s
<1>1. \E r \in runner[w].page : \A s \in runner[w].page : r <= s
  BY LeastNumber, BackfillFinite
<1> QED BY <1>1 DEF NextRow

LEMMA LatestIsLast ==
  Latest \in 0 .. MaxLegacy /\ \A r \in Stored : r <= Latest
<1>1. Stored \in SUBSET Rows
  BY DEF Stored
<1>2. CASE Stored = {}
  BY <1>2, BackfillFinite DEF Latest
<1>3. CASE Stored # {}
  <2>0. Stored \in SUBSET Nat /\ MaxLegacy \in Nat /\ \A r \in Stored : r <= MaxLegacy
    BY <1>1, BackfillFinite DEF Rows
  <2>1. \E r \in Stored : \A s \in Stored : s <= r
    BY <1>3, <2>0, GreatestNumber
  <2>2. Latest \in Stored /\ \A s \in Stored : s <= Latest
    BY <1>3, <2>1 DEF Latest
  <2> QED BY <1>1, <2>2, BackfillFinite DEF Rows
<1> QED BY <1>2, <1>3

\* What a page read now contains.
LEMMA BatchIsNext ==
  ASSUME NEW c \in Nat, NEW m \in Nat, Stored \in SUBSET Rows
  PROVE  /\ Batch(c, m) \in SUBSET Rows
         /\ \A r \in Batch(c, m) : c < r /\ r <= m
         /\ \A last \in Batch(c, m) : \A r \in Stored : c < r /\ r <= last => r \in Batch(c, m)
         /\ Batch(c, m) = {} => \A r \in Stored : ~(c < r /\ r <= m)
<1> DEFINE within == {r \in Stored : c < r /\ r <= m}
           upTo(r) == {s \in within : s <= r}
<1>1. /\ \A r \in Rows : r \in Nat
      /\ \A r \in within : upTo(r) \in SUBSET Rows /\ IsFiniteSet(upTo(r)) /\ Cardinality(upTo(r)) \in Nat
  BY BackfillFinite
<1>2. Batch(c, m) = {r \in within : Cardinality(upTo(r)) <= BatchSize}
  BY DEF Batch
<1>3. ASSUME NEW last \in Batch(c, m), NEW r \in Stored, c < r, r <= last
      PROVE  r \in Batch(c, m)
  <2>0. last \in within /\ last <= m /\ c \in Nat /\ last \in Nat /\ r \in Nat
    BY <1>1, <1>2, <1>3
  <2>1. r \in within /\ last \in within /\ upTo(r) \subseteq upTo(last)
    BY <1>1, <1>2, <1>3
  <2>2. Cardinality(upTo(r)) <= Cardinality(upTo(last))
    BY <1>1, <2>1, FS_Subset
  <2>3. Cardinality(upTo(last)) <= BatchSize
    BY <1>2
  <2>4. Cardinality(upTo(r)) <= BatchSize
    BY <1>1, <2>1, <2>2, <2>3, BackfillAssumption, <2>0
  <2> QED BY <1>2, <2>1, <2>4
<1>4. ASSUME Batch(c, m) = {}, NEW r \in Stored, c < r, r <= m
      PROVE  FALSE
  <2>1. within # {} /\ within \in SUBSET Nat
    BY <1>1, <1>4
  <2>2. PICK x \in within : \A y \in within : x <= y
    BY <2>1, LeastNumber
  <2>3. upTo(x) = {x}
    BY <2>1, <2>2
  <2>4. Cardinality(upTo(x)) = 1
    BY <2>3, FS_Singleton
  <2>5. x \in Batch(c, m)
    BY <1>2, <2>2, <2>4, BackfillAssumption
  <2> QED BY <1>4, <2>5
<1> QED BY <1>1, <1>2, <1>3, <1>4

-----------------------------------------------------------------------------
LEMMA BackfillStart == BackfillInit => BackfillInvariant
<1> SUFFICES ASSUME BackfillInit PROVE BackfillInvariant
  OBVIOUS
<1>1. AtRest \in RunnerRow /\ AtRest.pc = "rest" /\ AtRest.entry = "snapshot"
  BY DEF AtRest, RunnerRow
<1>2. walk \in WalkRow /\ walk.phase = "none" /\ walk.cursor = 0 /\ walk.migrated = 0 /\ owed = {}
  BY BackfillFinite DEF BackfillInit, WalkRow
<1>3. BackfillRows
  BY <1>1, <1>2 DEF BackfillInit, BackfillRows
<1>4. Inserted = {} /\ Migrated \in SUBSET Rows
  BY <1>1 DEF BackfillInit, Inserted, Migrated
<1>5. CountedOnce
  BY <1>2, <1>4, FS_EmptySet, BackfillFinite DEF CountedOnce
<1> QED BY <1>1, <1>2, <1>3, <1>5 DEF BackfillInit, BackfillInvariant, WalkSound, RunnerSound, Unmigrated

\* The writers of the legacy tables and the collector take nothing back.
LEMMA WritersKeep ==
  ASSUME BackfillInvariant, NEW r \in Rows, Stamp(r) \/ SaveLegacy(r) \/ CollectOrphan(r)
  PROVE  BackfillInvariant'
<1>1. /\ legacy' \in [Rows -> {"unborn", "building", "stored", "chunked"}]
      /\ \A s \in Rows : legacy[s] \in {"stored", "chunked"} => legacy'[s] \in {"stored", "chunked"}
      /\ UNCHANGED <<name, walk, target, runner, owed>>
  BY DEF BackfillInvariant, BackfillRows, Stamp, SaveLegacy, CollectOrphan
<1>2. Stored \subseteq Stored'
  BY <1>1 DEF Stored
<1>3. /\ Unmigrated' = Unmigrated /\ Inserted' = Inserted /\ Migrated' = Migrated
      /\ Documents' = Documents /\ \A w \in Runners : NextRow(w)' = NextRow(w)
  BY <1>1 DEF Unmigrated, Inserted, Migrated, Documents, NextRow
<1>4. BackfillRows'
  BY <1>1, <1>2 DEF BackfillInvariant, BackfillRows
<1>5. WalkSound'
  BY <1>1, <1>3 DEF BackfillInvariant, WalkSound
<1>6. \A w \in Runners : RunnerSound(w)'
  BY <1>1, <1>3 DEF BackfillInvariant, RunnerSound
<1>7. CountedOnce'
  BY <1>1, <1>3 DEF BackfillInvariant, CountedOnce
<1> QED BY <1>4, <1>5, <1>6, <1>7 DEF BackfillInvariant

\* A step of one batch that reads or writes rows, with the run as it was.
LEMMA BatchKeeps ==
  ASSUME BackfillInvariant, NEW w \in Runners, NEW now \in RunnerRow,
         runner' = [runner EXCEPT ![w] = now], UNCHANGED <<name, legacy, walk, owed>>,
         target' \in [Rows -> SUBSET ({"document", "units"} \cup Runners)],
         \A r \in Rows : target[r] # {} => target'[r] # {},
         RunnerSound(w)', CountedOnce'
  PROVE  BackfillInvariant'
<1>1. runner' \in [Runners -> RunnerRow] /\ \A v \in Runners \ {w} : runner'[v] = runner[v]
  BY DEF BackfillInvariant, BackfillRows
<1>2. Unmigrated' \subseteq Unmigrated /\ Stored' = Stored
  BY DEF Unmigrated, BackfillInvariant, BackfillRows, Stored
<1>3. BackfillRows'
  BY <1>1, <1>2 DEF BackfillInvariant, BackfillRows
<1>4. WalkSound'
  BY <1>2 DEF BackfillInvariant, WalkSound, Documents
<1>5. ASSUME NEW v \in Runners \ {w} PROVE RunnerSound(v)'
  <2>1. RunnerSound(v) /\ runner'[v] = runner[v] /\ runner[v] \in RunnerRow
    BY <1>1 DEF BackfillInvariant, BackfillRows
  <2>2. runner[v].pc = "advance" => NextRow(v)' = NextRow(v) /\ NextRow(v) \in Rows
    BY <2>1, NextRowIsLeast DEF NextRow, RunnerSound, RunnerRow
  <2> QED BY <1>2, <2>1, <2>2 DEF RunnerSound
<1> QED BY <1>3, <1>4, <1>5 DEF BackfillInvariant

LEMMA ReadBatchKeeps ==
  ASSUME BackfillInvariant, NEW w \in Runners, ReadBatch(w)
  PROVE  BackfillInvariant'
<1> DEFINE mark == IF walk.phase = "delta" THEN walk.delta ELSE walk.high
           page == Batch(walk.cursor, mark)
           now == [AtRest EXCEPT !.pc = IF page = {} THEN "empty" ELSE "row",
                                 !.entry = walk.phase, !.page = page]
<1>1. /\ walk.phase \in {"snapshot", "delta"} /\ runner' = [runner EXCEPT ![w] = now]
      /\ UNCHANGED <<name, legacy, walk, target, objects, owed>>
      /\ runner \in [Runners -> RunnerRow] /\ walk \in WalkRow /\ runner[w].pc = "rest"
  BY DEF ReadBatch, BackfillInvariant, BackfillRows
<1>2. /\ walk.cursor \in Nat /\ mark \in Nat /\ Stored \in SUBSET Rows
  BY <1>1, BackfillFinite DEF WalkRow, Stored
<1>3. /\ page \in SUBSET Rows /\ \A r \in page : walk.cursor < r /\ r <= mark
      /\ \A last \in page : \A r \in Stored : walk.cursor < r /\ r <= last => r \in page
      /\ page = {} => \A r \in Stored : ~(walk.cursor < r /\ r <= mark)
  BY <1>2, BatchIsNext
<1>4. walk.phase = "delta" => \A r \in owed : r <= mark
  BY DEF BackfillInvariant, WalkSound
<1>5. walk.phase = "snapshot" => mark = walk.high
  OBVIOUS
<1> HIDE DEF page, mark
<1>6. /\ now \in RunnerRow /\ now.pc \in {"empty", "row"} /\ (now.pc = "empty" <=> page = {})
      /\ now.entry = walk.phase /\ now.page = page
  BY <1>1, <1>3 DEF AtRest, RunnerRow
<1> HIDE DEF now
<1>7. runner'[w] = now
  BY <1>1
<1>8. \A r \in Unmigrated : r \in Stored /\ walk.cursor < r /\ r \in owed
  BY DEF BackfillInvariant, BackfillRows, WalkSound, Unmigrated
<1>9. Unmigrated' = Unmigrated
  BY <1>1 DEF Unmigrated
<1>10. RunnerSound(w)'
  <2>1. \A r \in Unmigrated : walk.phase = "snapshot" /\ page = {} => walk.high < r
    <3>1. /\ walk.high \in Nat /\ \A r \in Rows : r \in Nat
      BY <1>1, BackfillFinite DEF WalkRow
    <3> QED BY <1>2, <1>3, <1>5, <1>8, <3>1
  <2>2. \A r \in Unmigrated : ~(walk.phase = "delta" /\ page = {})
    BY <1>3, <1>4, <1>8
  <2> QED BY <1>1, <1>3, <1>5, <1>6, <1>7, <1>8, <1>9, <2>1, <2>2 DEF RunnerSound
<1>11. Inserted' = Inserted /\ CountedOnce'
  <2>1. Inserted' = Inserted
    BY <1>1, <1>6, <1>7 DEF Inserted
  <2> QED BY <1>1, <2>1 DEF CountedOnce, Documents, Migrated, BackfillInvariant
<1> QED BY <1>1, <1>6, <1>10, <1>11, BatchKeeps DEF BackfillInvariant, BackfillRows

\* A batch that stops, or reports that there was nothing left, is at rest.
LEMMA RestKeeps ==
  ASSUME BackfillInvariant, NEW w \in Runners, runner' = [runner EXCEPT ![w] = AtRest],
         UNCHANGED <<name, legacy, walk, target, owed>>
  PROVE  BackfillInvariant'
<1>1. AtRest \in RunnerRow /\ AtRest.pc = "rest" /\ AtRest.entry = "snapshot"
  BY DEF AtRest, RunnerRow
<1>2. runner'[w] = AtRest /\ runner \in [Runners -> RunnerRow]
  BY DEF BackfillInvariant, BackfillRows
<1>3. RunnerSound(w)'
  BY <1>1, <1>2 DEF RunnerSound
<1>4. Inserted' \subseteq Inserted /\ Inserted \in SUBSET Runners /\ Migrated' = Migrated
      /\ Migrated \in SUBSET Rows
  BY <1>1, <1>2 DEF Inserted, Migrated
<1>5. CountedOnce'
  <2>1. Cardinality(Inserted') <= Cardinality(Inserted)
    BY <1>4, BackfillFinite, FS_Subset
  <2>2. Cardinality(Inserted') \in Nat /\ Cardinality(Inserted) \in Nat /\ Cardinality(Migrated) \in Nat
    BY <1>4, BackfillFinite
  <2>3. walk.migrated \in Nat
    BY DEF BackfillInvariant, BackfillRows, WalkRow
  <2> QED BY <1>4, <2>1, <2>2, <2>3 DEF CountedOnce, Documents, BackfillInvariant
<1> QED BY <1>1, <1>3, <1>5, BatchKeeps DEF BackfillInvariant, BackfillRows

\* From the row at hand to the next part of its migration.
LEMMA RowKeeps ==
  ASSUME BackfillInvariant, NEW w \in Runners, runner[w].pc \in {"row", "insert"},
         NEW pc \in {"insert", "advance"}, NEW n \in {0, 1},
         runner' = [runner EXCEPT ![w] = [runner[w] EXCEPT !.pc = pc, !.inserted = n]],
         UNCHANGED <<name, legacy, walk, owed>>,
         target' \in [Rows -> SUBSET ({"document", "units"} \cup Runners)],
         \A r \in Rows : target[r] # {} => target'[r] # {},
         pc = "advance" => target'[NextRow(w)] # {},
         Documents /\ pc = "advance" /\ n = 1 => target[NextRow(w)] = {}
  PROVE  BackfillInvariant'
<1> DEFINE now == [runner[w] EXCEPT !.pc = pc, !.inserted = n]
<1>1. /\ runner[w] \in RunnerRow /\ RunnerSound(w) /\ runner \in [Runners -> RunnerRow]
      /\ runner[w].page \in SUBSET Rows /\ runner[w].page # {}
  BY DEF BackfillInvariant, BackfillRows, RunnerRow, RunnerSound
<1>2. NextRow(w) \in Rows
  BY <1>1, NextRowIsLeast
<1>3. /\ now \in RunnerRow /\ now.pc = pc /\ now.inserted = n
      /\ now.page = runner[w].page /\ now.entry = runner[w].entry
  BY <1>1 DEF RunnerRow
<1> HIDE DEF now
<1>4. runner' = [runner EXCEPT ![w] = now]
  BY DEF now
<1>5. runner'[w] = now /\ NextRow(w)' = NextRow(w)
  BY <1>1, <1>3, <1>4 DEF NextRow
<1>6. Unmigrated' \subseteq Unmigrated
  BY DEF Unmigrated, BackfillInvariant, BackfillRows, Stored
<1>7. RunnerSound(w)'
  BY <1>1, <1>3, <1>5, <1>6 DEF RunnerSound
<1>8. /\ w \notin Inserted /\ Inserted' = (IF pc = "advance" /\ n = 1 THEN Inserted \cup {w} ELSE Inserted)
      /\ Inserted \in SUBSET Runners /\ Inserted' \in SUBSET Runners
  BY <1>1, <1>3, <1>4, <1>5 DEF Inserted
<1>9. Migrated \subseteq Migrated' /\ Migrated' \in SUBSET Rows
  BY DEF Migrated
<1>10. /\ Cardinality(Migrated) \in Nat /\ Cardinality(Migrated') \in Nat
       /\ Cardinality(Inserted) \in Nat /\ walk.migrated \in Nat
       /\ IsFiniteSet(Migrated) /\ IsFiniteSet(Migrated') /\ IsFiniteSet(Inserted)
  BY <1>8, <1>9, BackfillFinite DEF BackfillInvariant, BackfillRows, WalkRow
<1>11. Cardinality(Migrated) <= Cardinality(Migrated')
  BY <1>9, <1>10, FS_Subset
<1>12. CountedOnce'
  <2> SUFFICES ASSUME Documents PROVE walk.migrated + Cardinality(Inserted') <= Cardinality(Migrated')
    BY DEF CountedOnce, Documents
  <2>1. walk.migrated + Cardinality(Inserted) <= Cardinality(Migrated)
    BY DEF BackfillInvariant, CountedOnce
  <2>2. CASE pc = "advance" /\ n = 1
    <3>1. NextRow(w) \in Migrated' /\ NextRow(w) \notin Migrated
      BY <1>2, <2>2 DEF Migrated
    <3>2. Cardinality(Inserted') = Cardinality(Inserted) + 1
      BY <1>8, <1>10, <2>2, FS_AddElement
    <3>3. Cardinality(Migrated \cup {NextRow(w)}) = Cardinality(Migrated) + 1
      BY <1>10, <3>1, FS_AddElement
    <3>4. Cardinality(Migrated \cup {NextRow(w)}) <= Cardinality(Migrated')
      <4>1. Migrated \cup {NextRow(w)} \subseteq Migrated'
        BY <1>9, <3>1
      <4> QED BY <1>10, <4>1, FS_Subset
    <3> QED BY <1>10, <2>1, <3>2, <3>3, <3>4
  <2>3. CASE ~(pc = "advance" /\ n = 1)
    <3>1. Inserted' = Inserted
      BY <1>8, <2>3
    <3> QED BY <1>10, <1>11, <2>1, <3>1
  <2> QED BY <2>2, <2>3
<1> QED BY <1>3, <1>4, <1>7, <1>12, BatchKeeps

LEMMA RowStepKeeps ==
  ASSUME BackfillInvariant, NEW w \in Runners,
         PrepareObject(w) \/ InsertDocument(w) \/ CountLinks(w) \/ AddLink(w)
  PROVE  BackfillInvariant'
<1>1. /\ runner \in [Runners -> RunnerRow] /\ runner[w] \in RunnerRow
      /\ target \in [Rows -> SUBSET ({"document", "units"} \cup Runners)]
  BY DEF BackfillInvariant, BackfillRows
<1>2. runner[w].pc \in {"row", "insert"} => NextRow(w) \in Rows
  BY <1>1, NextRowIsLeast DEF BackfillInvariant, RunnerSound, RunnerRow
<1>3. CASE PrepareObject(w)
  <2>1. CASE target[NextRow(w)] # {}
    <3>1. /\ runner' = [runner EXCEPT ![w] = [runner[w] EXCEPT !.pc = "advance", !.inserted = 0]]
          /\ runner[w].pc = "row" /\ UNCHANGED <<name, legacy, walk, target, owed>>
      BY <1>1, <1>3, <2>1 DEF PrepareObject
    <3>2. /\ target' = target /\ target'[NextRow(w)] # {} /\ 0 \in {0, 1} /\ 0 # 1
          /\ UNCHANGED <<name, legacy, walk, owed>>
      BY <2>1, <3>1
    <3> QED BY <1>1, <3>1, <3>2, RowKeeps
  <2>2. CASE target[NextRow(w)] = {}
    <3>1. /\ runner' = [runner EXCEPT ![w] = [runner[w] EXCEPT !.pc = "insert", !.inserted = runner[w].inserted]]
          /\ runner[w].pc = "row" /\ UNCHANGED <<name, legacy, walk, target, owed>>
          /\ runner[w].inserted \in {0, 1}
      BY <1>1, <1>3, <2>2 DEF PrepareObject, RunnerRow
    <3> QED BY <1>1, <3>1, RowKeeps
  <2> QED BY <2>1, <2>2
<1>4. CASE InsertDocument(w)
  <2>1. CASE target[NextRow(w)] # {}
    <3>1. /\ runner' = [runner EXCEPT ![w] = [runner[w] EXCEPT !.pc = "advance", !.inserted = 0]]
          /\ runner[w].pc = "insert" /\ UNCHANGED <<name, legacy, walk, target, owed>>
      BY <1>1, <1>4, <2>1 DEF InsertDocument
    <3>2. /\ target' = target /\ target'[NextRow(w)] # {} /\ 0 \in {0, 1} /\ 0 # 1
          /\ UNCHANGED <<name, legacy, walk, owed>>
      BY <2>1, <3>1
    <3> QED BY <1>1, <3>1, <3>2, RowKeeps
  <2>2. CASE target[NextRow(w)] = {}
    <3>1. PICK units \in {{}, {"units"}} :
            target' = [target EXCEPT ![NextRow(w)] = {"document"} \cup units]
      BY <1>4, <2>2 DEF InsertDocument
    <3>2. /\ runner' = [runner EXCEPT ![w] = [runner[w] EXCEPT !.pc = "advance", !.inserted = 1]]
          /\ runner[w].pc = "insert" /\ UNCHANGED <<name, legacy, walk, owed>>
      BY <1>1, <1>4, <2>2 DEF InsertDocument
    <3>3. /\ target' \in [Rows -> SUBSET ({"document", "units"} \cup Runners)]
          /\ target'[NextRow(w)] # {} /\ \A r \in Rows : target[r] # {} => target'[r] # {}
      BY <1>1, <1>2, <3>1, <3>2
    <3> QED BY <1>1, <2>2, <3>2, <3>3, RowKeeps
  <2> QED BY <2>1, <2>2
<1>5. CASE CountLinks(w)
  <2> DEFINE pc == IF target[NextRow(w)] = {} THEN "insert" ELSE "advance"
             n == IF target[NextRow(w)] = {} THEN 1 ELSE 0
  <2>1. /\ runner' = [runner EXCEPT ![w] = [runner[w] EXCEPT !.pc = pc, !.inserted = n]]
        /\ runner[w].pc = "row" /\ ~Documents /\ UNCHANGED <<name, legacy, walk, target, owed>>
    BY <1>1, <1>5 DEF CountLinks
  <2>2. pc \in {"insert", "advance"} /\ n \in {0, 1} /\ (pc = "advance" => target[NextRow(w)] # {})
    OBVIOUS
  <2> HIDE DEF pc, n
  <2> QED BY <1>1, <2>1, <2>2, RowKeeps
<1>6. CASE AddLink(w)
  <2>1. /\ runner' = [runner EXCEPT ![w] = [runner[w] EXCEPT !.pc = "advance", !.inserted = runner[w].inserted]]
        /\ runner[w].pc = "insert" /\ ~Documents /\ runner[w].inserted \in {0, 1}
        /\ target' = [target EXCEPT ![NextRow(w)] = @ \cup {w}]
        /\ UNCHANGED <<name, legacy, walk, owed>>
    BY <1>1, <1>6 DEF AddLink, RunnerRow
  <2>2. /\ target' \in [Rows -> SUBSET ({"document", "units"} \cup Runners)]
        /\ target'[NextRow(w)] # {} /\ \A r \in Rows : target[r] # {} => target'[r] # {}
    BY <1>1, <1>2, <2>1
  <2> QED BY <1>1, <2>1, <2>2, RowKeeps
<1> QED BY <1>3, <1>4, <1>5, <1>6

\* The cursor moves to a row below which the batch has migrated everything owed.
LEMMA AdvanceKeeps ==
  ASSUME BackfillInvariant, NEW w \in Runners, Advance(w)
  PROVE  BackfillInvariant'
<1> DEFINE next == NextRow(w)
           rest == runner[w].page \ {next}
           now == [AtRest EXCEPT !.page = rest, !.entry = runner[w].entry,
                                 !.pc = IF runner[w].page = {next} THEN "rest" ELSE "row"]
<1>1. /\ runner[w] \in RunnerRow /\ RunnerSound(w) /\ runner \in [Runners -> RunnerRow]
      /\ runner[w].page \in SUBSET Rows /\ runner[w].page # {} /\ runner[w].pc = "advance"
      /\ walk \in WalkRow
  BY DEF BackfillInvariant, BackfillRows, RunnerRow, RunnerSound, Advance
<1>2. /\ next \in runner[w].page /\ \A s \in runner[w].page : next <= s
      /\ next \in Rows /\ next \in 0 .. MaxLegacy /\ target[next] # {}
  BY <1>1, NextRowIsLeast, BackfillFinite DEF Rows, RunnerSound
<1>3. /\ runner' = [runner EXCEPT ![w] = now]
      /\ walk' = [walk EXCEPT !.cursor = next, !.migrated = @ + runner[w].inserted]
      /\ UNCHANGED <<name, legacy, target, objects, owed>>
  BY DEF Advance
<1>4. /\ now \in RunnerRow /\ now.pc = (IF runner[w].page = {next} THEN "rest" ELSE "row")
      /\ now.page = rest /\ now.entry = runner[w].entry /\ now.inserted = 0
  BY <1>1 DEF AtRest, RunnerRow
<1> HIDE DEF now, next
<1>5. /\ walk' \in WalkRow /\ walk'.cursor = next /\ walk'.migrated = walk.migrated + runner[w].inserted
      /\ walk'.phase = walk.phase /\ walk'.high = walk.high /\ walk'.delta = walk.delta
      /\ runner[w].inserted \in {0, 1} /\ walk.migrated \in Nat
  <2>1. runner[w].inserted \in {0, 1} /\ walk.migrated \in Nat
    BY <1>1 DEF WalkRow, RunnerRow
  <2>2. walk.migrated + runner[w].inserted \in Nat
    BY <2>1
  <2> QED BY <1>1, <1>2, <1>3, <2>1, <2>2 DEF WalkRow
<1>6. /\ runner' \in [Runners -> RunnerRow] /\ runner'[w] = now
      /\ \A v \in Runners \ {w} : runner'[v] = runner[v]
  BY <1>1, <1>3, <1>4
<1>7. Unmigrated' = Unmigrated /\ Stored' = Stored /\ Migrated' = Migrated /\ Documents' = Documents
      /\ Unmigrated \subseteq Rows
  BY <1>3 DEF Unmigrated, Stored, Migrated, Documents, BackfillInvariant, BackfillRows
<1>8. \A r \in Unmigrated : next < r
  <2> SUFFICES ASSUME NEW r \in Unmigrated, ~(next < r) PROVE FALSE
    OBVIOUS
  <2>1. r \in Nat /\ next \in Nat /\ r <= next
    BY <1>2, <1>7, BackfillFinite
  <2>2. r \in runner[w].page
    BY <1>1, <1>2, <2>1 DEF RunnerSound
  <2>3. r = next
    BY <1>2, <2>1, <2>2
  <2> QED BY <1>2, <2>3 DEF Unmigrated
<1>9. WalkSound'
  BY <1>1, <1>3, <1>5, <1>7, <1>8 DEF BackfillInvariant, WalkSound, RunnerSound
<1>10. RunnerSound(w)'
  <2>1. rest \subseteq runner[w].page /\ next \notin Unmigrated
    BY <1>2 DEF Unmigrated
  <2>2. runner[w].page # {next} => rest # {}
    BY <1>1
  <2> QED BY <1>1, <1>4, <1>5, <1>6, <1>7, <2>1, <2>2 DEF RunnerSound
<1>11. \A v \in Runners \ {w} : RunnerSound(v)'
  BY <1>3, <1>5, <1>6, <1>7 DEF RunnerSound, NextRow, BackfillInvariant
<1>12. CountedOnce'
  <2>1. Inserted' = Inserted \ {w} /\ (w \in Inserted <=> runner[w].inserted = 1)
        /\ Inserted \in SUBSET Runners
    BY <1>1, <1>4, <1>6 DEF Inserted
  <2>2. Cardinality(Inserted) \in Nat /\ IsFiniteSet(Inserted)
    BY <2>1, BackfillFinite
  <2>3. Cardinality(Inserted') + runner[w].inserted = Cardinality(Inserted)
    <3>1. CASE runner[w].inserted = 1
      <4>1. Cardinality(Inserted \ {w}) = Cardinality(Inserted) - 1
        BY <2>1, <2>2, <3>1, FS_RemoveElement
      <4> QED BY <2>1, <2>2, <3>1, <4>1
    <3>2. CASE runner[w].inserted = 0
      <4>1. Inserted' = Inserted
        BY <2>1, <3>2
      <4> QED BY <2>2, <3>2, <4>1
    <3> QED BY <1>5, <3>1, <3>2
  <2>4. Cardinality(Inserted') \in Nat
    BY <2>1, BackfillFinite
  <2>5. walk'.migrated + Cardinality(Inserted') = walk.migrated + Cardinality(Inserted)
    BY <1>5, <2>2, <2>3, <2>4
  <2> QED BY <1>7, <2>5 DEF CountedOnce, BackfillInvariant
<1>13. BackfillRows'
  BY <1>3, <1>5, <1>6, <1>7 DEF BackfillInvariant, BackfillRows
<1> QED BY <1>9, <1>10, <1>11, <1>12, <1>13 DEF BackfillInvariant

LEMMA StartSnapshotKeeps ==
  ASSUME BackfillInvariant, NEW w \in Runners, StartSnapshot(w)
  PROVE  BackfillInvariant'
<1>1. /\ walk \in WalkRow /\ walk.phase = "none" /\ walk.cursor = 0
      /\ walk' = [walk EXCEPT !.phase = "snapshot", !.high = Latest] /\ owed' = Stored
      /\ UNCHANGED <<name, legacy, target, objects, runner>>
  BY DEF StartSnapshot, BackfillInvariant, BackfillRows, WalkSound
<1>2. /\ walk' \in WalkRow /\ walk'.phase = "snapshot" /\ walk'.high = Latest
      /\ walk'.cursor = 0 /\ walk'.migrated = walk.migrated
  BY <1>1, LatestIsLast DEF WalkRow
<1>3. /\ Stored' = Stored /\ Stored \in SUBSET Rows /\ Inserted' = Inserted /\ Migrated' = Migrated
      /\ Documents' = Documents
  BY <1>1 DEF Stored, Inserted, Migrated, Documents
<1>4. \A r \in Rows : 0 < r
  BY BackfillFinite DEF Rows
<1>5. WalkSound'
  BY <1>1, <1>2, <1>3, <1>4, LatestIsLast DEF WalkSound, Unmigrated
<1>6. \A v \in Runners : RunnerSound(v)'
  BY <1>1, <1>2 DEF BackfillInvariant, RunnerSound
<1> QED BY <1>1, <1>2, <1>3, <1>5, <1>6 DEF BackfillInvariant, BackfillRows, CountedOnce

\* What the delta adds to the debt lies above the first mark, where its cursor
\* begins: the pages of the snapshot that are still under way do not reach it.
LEMMA StartDeltaKeeps ==
  ASSUME BackfillInvariant, NEW w \in Runners, StartDelta(w)
  PROVE  BackfillInvariant'
<1>1. CASE walk.phase # "snapshot"
  BY <1>1, RestKeeps DEF StartDelta
<1>2. CASE walk.phase = "snapshot"
  <2> DEFINE later == {r \in Stored : r > walk.high}
             moved == [walk EXCEPT !.phase = "delta", !.delta = Latest, !.cursor = walk.high]
  <2>1. /\ walk \in WalkRow /\ walk' = moved /\ owed' = owed \cup later
        /\ runner' = [runner EXCEPT ![w] = AtRest] /\ UNCHANGED <<name, legacy, target>>
        /\ runner[w].pc = "empty" /\ Documents /\ runner \in [Runners -> RunnerRow]
    BY <1>2 DEF StartDelta, DeltaCursor, BackfillInvariant, BackfillRows
  <2>2. /\ walk' \in WalkRow /\ walk'.phase = "delta" /\ walk'.delta = Latest
        /\ walk'.high = walk.high /\ walk'.cursor = walk.high /\ walk'.migrated = walk.migrated
    BY <2>1, LatestIsLast DEF WalkRow
  <2>3. /\ Stored' = Stored /\ Stored \in SUBSET Rows /\ Migrated' = Migrated /\ Documents' = Documents
        /\ owed' \subseteq Stored
    BY <2>1 DEF Stored, Migrated, Documents, BackfillInvariant, BackfillRows
  <2>4. \A r \in Unmigrated' : r \in Unmigrated \/ r \in later
    BY <2>1 DEF Unmigrated
  <2>5. \A r \in Unmigrated' : walk.high < r
    <3>1. \A r \in Unmigrated : walk.high < r
      BY <2>1 DEF BackfillInvariant, RunnerSound
    <3>2. walk.high \in Nat /\ \A r \in Rows : r \in Nat
      BY <2>1, BackfillFinite DEF WalkRow
    <3> QED BY <2>3, <2>4, <3>1, <3>2
  <2>6. WalkSound'
    BY <2>1, <2>2, <2>3, <2>5, LatestIsLast DEF WalkSound
  <2>7. /\ AtRest \in RunnerRow /\ AtRest.pc = "rest" /\ AtRest.entry = "snapshot"
    BY DEF AtRest, RunnerRow
  <2>8. /\ runner' \in [Runners -> RunnerRow] /\ runner'[w] = AtRest
        /\ \A v \in Runners \ {w} : runner'[v] = runner[v]
    BY <2>1, <2>7
  <2>9. RunnerSound(w)'
    BY <2>2, <2>7, <2>8 DEF RunnerSound
  <2>10. ASSUME NEW v \in Runners \ {w} PROVE RunnerSound(v)'
    <3>1. runner'[v] = runner[v] /\ runner[v] \in RunnerRow /\ RunnerSound(v) /\ runner[v].entry = "snapshot"
      <4>1. runner[v] \in RunnerRow /\ RunnerSound(v)
        BY <2>1 DEF BackfillInvariant
      <4>2. runner[v].entry \in {"snapshot", "delta"} /\ runner[v].entry # "delta"
        BY <1>2, <4>1 DEF RunnerRow, RunnerSound
      <4> QED BY <2>8, <4>1, <4>2
    <3>2. NextRow(v)' = NextRow(v)
      BY <3>1 DEF NextRow
    <3>3. \A last \in runner[v].page : \A r \in Unmigrated' : last <= walk.high /\ r <= last => r \in Unmigrated
      <4>1. walk.high \in Nat /\ \A r \in Rows : r \in Nat
        BY <2>1, BackfillFinite DEF WalkRow
      <4>2. Unmigrated' \subseteq Rows /\ runner[v].page \subseteq Rows
        BY <2>3, <3>1 DEF Unmigrated, RunnerRow
      <4> QED BY <2>5, <4>1, <4>2
    <3> QED BY <2>1, <2>2, <2>5, <3>1, <3>2, <3>3 DEF RunnerSound
  <2>11. CountedOnce'
    <3>1. Inserted' = Inserted
      BY <2>1, <2>7, <2>8 DEF Inserted
    <3> QED BY <2>2, <2>3, <3>1 DEF CountedOnce, BackfillInvariant
  <2> QED BY <2>1, <2>2, <2>3, <2>6, <2>8, <2>9, <2>10, <2>11 DEF BackfillInvariant, BackfillRows
<1> QED BY <1>1, <1>2

LEMMA CompleteWalkKeeps ==
  ASSUME BackfillInvariant, NEW w \in Runners, CompleteWalk(w)
  PROVE  BackfillInvariant'
<1>1. /\ walk \in WalkRow /\ walk' = [walk EXCEPT !.phase = "complete"]
      /\ runner' = [runner EXCEPT ![w] = AtRest] /\ UNCHANGED <<name, legacy, target, owed>>
      /\ runner[w].pc = "empty" /\ RunnerSound(w) /\ runner \in [Runners -> RunnerRow]
      /\ (Documents => runner[w].entry = "delta")
  BY DEF CompleteWalk, BackfillInvariant, BackfillRows
<1>2. /\ walk' \in WalkRow /\ walk'.phase = "complete" /\ walk'.high = walk.high
      /\ walk'.cursor = walk.cursor /\ walk'.migrated = walk.migrated
      /\ walk.phase \in {"none", "snapshot", "delta", "complete"} /\ walk.high \in Nat
  BY <1>1, BackfillFinite DEF WalkRow
<1>3. Unmigrated = {}
  <2> SUFFICES ASSUME NEW r \in Unmigrated PROVE FALSE
    OBVIOUS
  <2>1. runner[w].entry = "snapshot" /\ walk.high < r /\ walk.phase # "none" /\ ~Documents
    BY <1>1 DEF RunnerSound
  <2>2. walk.phase = "snapshot" /\ r \in owed
    BY <1>2, <2>1 DEF BackfillInvariant, WalkSound, Unmigrated
  <2>3. r <= walk.high /\ r \in Nat
    BY <2>2, BackfillFinite DEF BackfillInvariant, WalkSound, BackfillRows, Stored
  <2> QED BY <1>2, <2>1, <2>3
<1>4. /\ Unmigrated' = {} /\ Stored' = Stored /\ Migrated' = Migrated /\ Documents' = Documents
  BY <1>1, <1>3 DEF Unmigrated, Stored, Migrated, Documents
<1>5. WalkSound'
  BY <1>2, <1>4 DEF WalkSound
<1>6. /\ AtRest \in RunnerRow /\ AtRest.pc = "rest" /\ AtRest.entry = "snapshot"
  BY DEF AtRest, RunnerRow
<1>7. /\ runner' \in [Runners -> RunnerRow] /\ runner'[w] = AtRest
      /\ \A v \in Runners \ {w} : runner'[v] = runner[v]
  BY <1>1, <1>6
<1>8. Inserted' = Inserted
  BY <1>1, <1>6, <1>7 DEF Inserted
<1>9. RunnerSound(w)'
  BY <1>2, <1>6, <1>7 DEF RunnerSound
<1>10. ASSUME NEW v \in Runners \ {w} PROVE RunnerSound(v)'
  <2>1. runner'[v] = runner[v] /\ RunnerSound(v) /\ NextRow(v)' = NextRow(v)
    BY <1>7 DEF NextRow, BackfillInvariant
  <2> QED BY <1>1, <1>2, <1>4, <2>1 DEF RunnerSound
<1> QED BY <1>1, <1>2, <1>4, <1>5, <1>7, <1>8, <1>9, <1>10 DEF BackfillInvariant, BackfillRows, CountedOnce

LEMMA BackfillStep == BackfillInvariant /\ [BackfillNext]_backfillVars => BackfillInvariant'
<1> SUFFICES ASSUME BackfillInvariant, [BackfillNext]_backfillVars PROVE BackfillInvariant'
  OBVIOUS
<1>1. ASSUME NEW w \in Runners, Interrupt(w) PROVE BackfillInvariant'
  BY <1>1, RestKeeps DEF Interrupt
<1>2. CASE UNCHANGED backfillVars
  <2>1. UNCHANGED <<name, legacy, walk, target, runner, owed>>
    BY <1>2 DEF backfillVars
  <2>2. /\ Unmigrated' = Unmigrated /\ Inserted' = Inserted /\ Migrated' = Migrated /\ Stored' = Stored
        /\ Documents' = Documents /\ \A w \in Runners : NextRow(w)' = NextRow(w)
    BY <2>1 DEF Unmigrated, Inserted, Migrated, Stored, Documents, NextRow
  <2>3. BackfillRows'
    BY <2>1, <2>2 DEF BackfillInvariant, BackfillRows
  <2>4. WalkSound'
    BY <2>1, <2>2 DEF BackfillInvariant, WalkSound
  <2>5. \A w \in Runners : RunnerSound(w)'
    BY <2>1, <2>2 DEF BackfillInvariant, RunnerSound
  <2>6. CountedOnce'
    BY <2>1, <2>2 DEF BackfillInvariant, CountedOnce
  <2> QED BY <2>3, <2>4, <2>5, <2>6 DEF BackfillInvariant
<1>3. CASE BackfillNext
  BY <1>1, <1>3, WritersKeep, StartSnapshotKeeps, ReadBatchKeeps, StartDeltaKeeps, CompleteWalkKeeps,
     RowStepKeeps, AdvanceKeeps DEF BackfillNext
<1> QED BY <1>2, <1>3

\* A finished walk left out nothing it owed, and counted no document twice, for
\* any number of rows, batches of any size, and commands that overlap or stop.
THEOREM BackfillIsComplete == BackfillSpec => []FinishedWalkIsComplete
<1>1. BackfillInvariant => FinishedWalkIsComplete
  <2> SUFFICES ASSUME BackfillInvariant PROVE FinishedWalkIsComplete
    OBVIOUS
  <2>1. walk.phase = "complete" => \A r \in owed : target[r] # {}
    BY DEF BackfillInvariant, WalkSound, Unmigrated
  <2>2. Documents => walk.migrated <= Cardinality(Migrated)
    <3>1. Inserted \in SUBSET Runners /\ Migrated \in SUBSET Rows
      BY DEF Inserted, Migrated
    <3>2. Cardinality(Inserted) \in Nat /\ Cardinality(Migrated) \in Nat /\ walk.migrated \in Nat
      BY <3>1, BackfillFinite DEF BackfillInvariant, BackfillRows, WalkRow
    <3> QED BY <3>2 DEF BackfillInvariant, CountedOnce
  <2> QED BY <2>1, <2>2 DEF FinishedWalkIsComplete, Migrated
<1> QED BY <1>1, BackfillStart, BackfillStep, PTL DEF BackfillSpec
=============================================================================

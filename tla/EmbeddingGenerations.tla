------------------------ MODULE EmbeddingGenerations ------------------------
(***************************************************************************)
(* application/services/embedding_generation_service.py,                    *)
(* embedding_lifecycle_service.py, embedding_reembed_service.py and         *)
(* shadow_evaluation_service.py: generations of embeddings, of which search *)
(* reads the active one, and the run that gives cleared units new vectors   *)
(* page by page.  A request that changes the active generation reads it,    *)
(* without a lock, in one step and commits in another; a page is read,      *)
(* embedded by the provider and written in steps of their own.  Recall      *)
(* scores are a choice; coverage is counted.                                *)
(***************************************************************************)
EXTENDS FiniteSets, Naturals

CONSTANTS UnitIds,        \* ids of retrieval units, in the order of the cursor
          SourceOf,       \* SourceOf[u]: the revision or chunk of unit u
          PageSize,       \* embedding_reembed_batch_size
          MaxGenerations, \* bound
          Operators, Drains

ASSUME GenerationsAssumption ==
  /\ UnitIds \subseteq Nat \ {0} /\ \E last \in UnitIds : \A u \in UnitIds : u <= last
  /\ PageSize \in Nat \ {0} /\ MaxGenerations \in Nat \ {0}

VARIABLES generation,  \* generation[g]: its status and model
          newer,       \* newer[g]: how many have a later activated_at; one without
                       \* activated_at is after all
          configured,  \* the configured model and dimension
          unit,        \* unit[u]: active, its generation, whether it has a vector
          run,         \* the migration_backfill_runs row of the units
          change,      \* change[o]: a request on generations and what it read
          drain        \* drain[d]: a page being embedded

generationVars == <<generation, newer, configured, unit, run, change, drain>>

Generations == 1 .. MaxGenerations
Vacant == [status |-> "none", model |-> 0]
Quiet == [pc |-> "idle", kind |-> "none", current |-> 0, target |-> 0]
NoPage == [pc |-> "idle", page |-> {}, gen |-> 0]

\* One active generation, indexed; the last unit's source is not yet indexed.
Latent == CHOOSE u \in UnitIds : \A v \in UnitIds : v <= u
GenerationsInit ==
  /\ generation = [g \in Generations |-> IF g = 1 THEN [status |-> "active", model |-> 1]
                                         ELSE Vacant]
  /\ newer = [g \in Generations |-> IF g = 1 THEN 0 ELSE MaxGenerations]
  /\ configured = 1
  /\ unit = [u \in UnitIds |-> [active |-> u # Latent, gen |-> 1, embedded |-> TRUE]]
  /\ run = [phase |-> "none", cursor |-> 0, high |-> 0, model |-> 0]
  /\ change = [o \in Operators |-> Quiet]
  /\ drain = [d \in Drains |-> NoPage]

ActiveGenerations == {g \in Generations : generation[g].status = "active"}
ActiveGeneration == IF ActiveGenerations = {} THEN 0 ELSE CHOOSE g \in ActiveGenerations : TRUE
NextGeneration == IF \E g \in Generations : generation[g] = Vacant
                  THEN CHOOSE g \in Generations : generation[g] = Vacant
                                                  /\ \A k \in 1 .. (g - 1) : generation[k] # Vacant
                  ELSE 0
Retired == {g \in Generations : generation[g].status = "retired"}
LatestRetired == CHOOSE g \in Retired : \A h \in Retired : newer[g] <= newer[h]

-----------------------------------------------------------------------------
\* begin_shadow_generation
BeginShadow(model) ==
  /\ NextGeneration # 0
  /\ ActiveGeneration # 0 => generation[ActiveGeneration].model # model
  /\ generation' = [generation EXCEPT ![NextGeneration] =
                      [status |-> "building", model |-> model]]
  /\ UNCHANGED <<newer, configured, unit, run, change, drain>>

\* compare_shadow_scores: coverage of the shadow against the active one.
Covering(g) == {u \in UnitIds : unit[u].active /\ unit[u].gen = g}
Covers(shadow, current) == Cardinality(Covering(shadow)) >= Cardinality(Covering(current))

\* promote, rollback and ensure_active up to the write: what they read.
ReadForPromote(o, g, force) ==
  /\ change[o].pc = "idle" /\ generation[g].status = "building"
  /\ force \/ (run.phase \in {"none", "complete"} /\
               (ActiveGeneration = 0 \/ Covers(g, ActiveGeneration)))
  /\ change' = [change EXCEPT ![o] = [pc |-> "read", kind |-> "promote",
                                      current |-> ActiveGeneration, target |-> g]]
  /\ UNCHANGED <<generation, newer, configured, unit, run, drain>>

ReadForRollback(o) ==
  /\ change[o].pc = "idle" /\ ActiveGeneration # 0 /\ Retired # {}
  /\ change' = [change EXCEPT ![o] =
       [pc |-> "read", kind |-> "rollback", current |-> ActiveGeneration,
        target |-> LatestRetired]]
  /\ UNCHANGED <<generation, newer, configured, unit, run, drain>>

ReadForEnsure(o) ==
  /\ change[o].pc = "idle" /\ NextGeneration # 0
  /\ ActiveGeneration # 0 => generation[ActiveGeneration].model # configured
  /\ change' = [change EXCEPT ![o] = [pc |-> "read", kind |-> "ensure",
                                      current |-> ActiveGeneration, target |-> NextGeneration]]
  /\ UNCHANGED <<generation, newer, configured, unit, run, drain>>

OnlyActive_NoIndex(current, target) == TRUE

\* uq_embedding_generations_active_purpose
OnlyActive(current, target) == ActiveGenerations \subseteq {current, target}

\* The one that was read is retired by its id, the target is activated.
CommitChange(o) ==
  LET c == change[o]
      now == [status |-> "active",
              model |-> IF c.kind = "ensure" THEN configured ELSE generation[c.target].model]
  IN /\ c.pc = "read" /\ OnlyActive(c.current, c.target)
     /\ c.kind = "ensure" => generation[c.target] = Vacant
     /\ generation' = [g \in Generations |->
          IF g = c.target THEN now
          ELSE IF g = c.current THEN [generation[g] EXCEPT !.status = "retired"]
          ELSE generation[g]]
     /\ newer' = [g \in Generations |-> IF g = c.target THEN 0
                     ELSE IF newer[g] < newer[c.target] THEN newer[g] + 1 ELSE newer[g]]
     /\ change' = [change EXCEPT ![o] = Quiet]
     /\ UNCHANGED <<configured, unit, run, drain>>

\* Blocked by the evaluation, refused by the index, or lost.
AbandonChange(o) == /\ change[o].pc = "read"
                    /\ change' = [change EXCEPT ![o] = Quiet]
                    /\ UNCHANGED <<generation, newer, configured, unit, run, drain>>

-----------------------------------------------------------------------------
\* set-embedding-dimension: the columns are resized and the vectors cleared;
\* a page embedded for the old size can no longer be written.
Resize == /\ configured = 1 /\ configured' = 2
          /\ unit' = [u \in UnitIds |-> [unit[u] EXCEPT !.embedded = FALSE]]
          /\ drain' = [d \in Drains |-> NoPage]
          /\ UNCHANGED <<generation, newer, run, change>>

\* enqueue, after ensure_active: a new run unless one is under way.
EnqueueReembed == /\ ActiveGeneration # 0 /\ generation[ActiveGeneration].model = configured
           /\ run.phase \in {"none", "complete"}
           /\ run' = [phase |-> "snapshot", cursor |-> 0, high |-> Latent, model |-> configured]
           /\ UNCHANGED <<generation, newer, configured, unit, change, drain>>

Pending == {u \in UnitIds : unit[u].active /\ ~unit[u].embedded /\ run.cursor < u /\ u <= run.high}
Page == {u \in Pending : Cardinality({v \in Pending : v < u}) < PageSize}

\* The page and its generation: the one named, if still building, or the active.
ReadPage(d, g) ==
  /\ drain[d].pc = "idle" /\ run.phase = "snapshot" /\ Pending # {}
  /\ g = ActiveGeneration \/ generation[g].status = "building"
  /\ drain' = [drain EXCEPT ![d] = [pc |-> "embedding", page |-> Page, gen |-> g]]
  /\ UNCHANGED <<generation, newer, configured, unit, run, change>>

CompleteRun == /\ run.phase = "snapshot" /\ Pending = {}
               /\ run' = [run EXCEPT !.phase = "complete"]
               /\ UNCHANGED <<generation, newer, configured, unit, change, drain>>

Twin(u, g) == \E v \in UnitIds \ {u} : unit[v].active /\ unit[v].gen = g /\ SourceOf[v] = SourceOf[u]

CursorAfter_High(page) == run.high

\* The last row of the page.
CursorAfter(page) == CHOOSE u \in page : \A v \in page : v <= u

\* A unit whose source has another in the generation is deactivated; one that
\* was deactivated meanwhile is left alone.
WritePage(d) ==
  LET p == drain[d] IN
  /\ p.pc = "embedding"
  /\ unit' = [u \in UnitIds |->
       IF u \notin p.page \/ ~unit[u].active THEN unit[u]
       ELSE IF Twin(u, p.gen) THEN [unit[u] EXCEPT !.active = FALSE]
       ELSE [active |-> TRUE, gen |-> p.gen, embedded |-> TRUE]]
  /\ run' = [run EXCEPT !.cursor = CursorAfter(p.page)]
  /\ drain' = [drain EXCEPT ![d] = NoPage]
  /\ UNCHANGED <<generation, newer, configured, change>>

\* The provider fails or the command is stopped: the cursor stays.
DropPage(d) == /\ drain[d].pc = "embedding"
               /\ drain' = [drain EXCEPT ![d] = NoPage]
               /\ UNCHANGED <<generation, newer, configured, unit, run, change>>

\* A source is indexed again, or its unit is replaced or archived.
Reindex == /\ ~unit[Latent].active /\ unit[Latent].gen # ActiveGeneration
           /\ unit' = [unit EXCEPT ![Latent] = [active |-> TRUE, gen |-> ActiveGeneration, embedded |-> TRUE]]
           /\ UNCHANGED <<generation, newer, configured, run, change, drain>>
Deactivate(u) == /\ unit[u].active /\ unit' = [unit EXCEPT ![u].active = FALSE]
                 /\ UNCHANGED <<generation, newer, configured, run, change, drain>>

ChangeStep(o) == \/ ReadForRollback(o) \/ ReadForEnsure(o)
                 \/ CommitChange(o) \/ AbandonChange(o)
ShadowStep == \/ \E m \in {1, 2} : BeginShadow(m)
              \/ \E o \in Operators, g \in Generations, force \in BOOLEAN : ReadForPromote(o, g, force)
ReembedStep == \/ Resize \/ EnqueueReembed \/ CompleteRun \/ Reindex
               \/ \E d \in Drains : \/ WritePage(d) \/ DropPage(d)
                                    \/ \E g \in Generations : ReadPage(d, g)
               \/ \E u \in UnitIds : Deactivate(u)

GenerationsNext == ShadowStep \/ ReembedStep \/ \E o \in Operators : ChangeStep(o)
GenerationsSpec == GenerationsInit /\ [][GenerationsNext]_generationVars

-----------------------------------------------------------------------------
\* Search always has exactly one generation to read, whatever promotions,
\* rollbacks and resizes overlap.
OneGeneration == Cardinality(ActiveGenerations) = 1

\* When a run enqueued after the vectors were cleared reports complete, every
\* unit in use has its vector, though pages failed, commands were repeated or
\* ran side by side and sources were indexed again meanwhile.
CompleteRunCoversUnits ==
  run.phase = "complete" /\ run.model = configured =>
    \A u \in UnitIds : unit[u].active => unit[u].embedded
=============================================================================

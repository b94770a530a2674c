# OpenKnowledge: a TLA+ verification project

OpenKnowledge is a knowledge gateway: people upload documents and write knowledge
items, background workers parse and embed them, and chat clients and MCP tools search
what is active. The state lives in PostgreSQL and in an object store; several API and
worker processes run at once and share nothing else. This directory models the parts
where those processes meet. TLC checks the models on small instances and TLAPS proves
the core results for every instance. Paths below are relative to `src/src/gateway`
(`services/` means `application/services/`).

## 1. The system

| Component | State | Operations | Hard because |
|---|---|---|---|
| ingestion job queue, `services/ingestion_job_service.py` | `ingestion_jobs` rows: state, claim token, lease, attempts, cancel and retry flags | claim_next (three sweeps and a claim), heartbeat, set_progress, complete, fail, acknowledge_cancellation, request_cancellation, request_retry | leases expire under running workers; sweeps, claims and API calls interleave; crashes |
| document upload, `services/document_upload_service.py` | document, revision and job rows; a staged file | upload_new, upload_revision, resume, finalize | two stores without a common transaction; client retries; two uploads of one document |
| ingestion worker, `services/document_ingestion_worker.py` | the claim it believes in, its place in the pipeline | mark, checkpoints, parse, embed, record failure | works for minutes on a claim that may be gone; cancellation is polled |
| activation, `services/document_activation_service.py` | current revision, chunks, retrieval units, job, outbox | activate | must switch what a search sees in one step |
| storage, `infrastructure/storage/*` and `services/storage_consistency_service.py` | staged files and objects | stage, finalize, list, delete; reconcile | the reconciler works from a snapshot while uploads go on |
| outbox, `services/job_outbox_dispatcher.py` | `job_outbox` rows | claim, publish, complete, fail | crash between publishing and recording |
| webhooks, `services/webhook_delivery_service.py` | `webhook_deliveries` rows, subscriptions | enqueue, revoke, claim, deliver | deliver writes without checking the claim again |
| management API, `presentation/routers/management.py` | none of its own | archive_source, cancel, retry | runs against all of the above |
| knowledge items and enrichment, `services/knowledge_*.py` | items, revisions, retrieval units | create, revise, delete, enrich | enrichment of a revision that was replaced meanwhile |
| sessions, `services/session_service.py`, `presentation/routers/management_auth.py` | session families, credentials, the browser's cookies | issue, rotate, record activity, revoke | overlapping refreshes, lost answers, reuse detection |
| members, `services/identity_service.py`, `member_administration_service.py`, `bootstrap_service.py`, `oidc_service.py` | member rows, MFA factors, memberships | bootstrap, recover, login, provision, change password, enrol, create, update, reset | objects loaded before a lock is waited for; last administrator; rollbacks |
| login throttle, `services/login_throttle_service.py` | a bucket per account, address and installation | let in, count a failure, forget on success | attempts overlap: admission and counting are two transactions |
| spaces, keys and permissions, `services/space_service.py`, `api_key_service.py`, `authorization_service.py`, `domain/authorization.py` | spaces, memberships, keys with scopes and grants | create, update, archive, set membership, transfer ownership; create, resolve, revoke keys | principals resolved before the request runs, last owner, narrowing of grants |
| chat orchestrator, `services/chat_orchestrator.py` | the locals of one request | ask the model, run tools, hand over | limits that must hold for what was really done; streams |
| upstream resilience, `infrastructure/adapters/upstream_resilience.py`, `http_llm_client.py` | breaker, probe and bulkhead per model | call, stream, retry, fall back | cancellation at any await, half-open probes, broken streams |
| protocol routers, `presentation/routers/messages.py`, `chat_completions.py`, `responses.py` | the locals of a stream | open, convert chunks, end, charge | any order of thinking, text and tool calls; exceptions and disconnects between events |
| runtime settings, `services/runtime_settings_service.py` | numbered revisions, one active | draft, activate, roll back | what READ COMMITTED shows a reader that waited |
| quotas, `services/quota_service.py`, `presentation/quotas.py` | a bucket and slots in the process, a row per minute | acquire, check, release, record usage, override | every way a request can end; an unlocked row |
| idempotency, `services/idempotency_service.py` | one row per actor, operation and key | reserve, complete, replay, expire | retries while the first request runs, other bodies, commands that commit on their own |
| AI actions, `services/ai_management_service.py`, `action_review_service.py` | pending actions | propose, review, confirm, execute | the world moves between the three |
| git connector, `services/git_connector_service.py` | connector row, file mappings | register, sync, unregister | a sync is many transactions and may stop between any two |
| retention, `services/retention_service.py`, `alembic/versions/018_retention_executor.py` | everything that ages | run a batch, delete files | bounded batches, citations, two stores |
| embedding generations, `services/embedding_*.py` | generations, a vector per unit, a cursor | begin shadow, promote, roll back, resize, enqueue, run a page | check-then-act on the active generation; a cursor over a moving set |
| legacy backfill, `services/legacy_backfill_service.py` | marks and cursor of a walk | start, batch, delta, complete | writers go on; batches overlap and stop |
| retrieval, `services/authorized_retrieval_service.py`, `context_assembly_service.py`, `evidence_service.py` | none; reads units, spaces, generations | search, assemble, show evidence | three transactions and a remote call in one answer; order of fusion, limits and budgets |
| parsers, chunker, converters | none | pure functions | file and wire formats |

How they interact: an upload stages a file, inserts rows, links the file to its object
key and queues the job. A worker claims the job, reads the object, parses, embeds and
activates; activation completes the job and records an outbox event in the same
transaction. Dispatchers publish events, couriers post webhooks. Storage maintenance
fails jobs and quarantines revisions from outside, the API cancels, retries and
archives. Nobody holds a lock across two of these steps: what keeps the rows consistent
are claim tokens, WHERE clauses and the order of the statements, and that is what the
models are about. `PROJECT.json` lists every component, also the ones not modelled, and
the hazards with the properties aimed at them.

## 2. The modules

| Module | Models |
|---|---|
| `LeasedWork` | abstract: what a leased queue promises (one holder per task, newer grants supersede, only the holder finishes, done is for ever) |
| `JobQueue` | the job queue; implements `LeasedWork` |
| `DocumentCatalog` | abstract: what a search may see of a source (at most one version, versions only go up, replacement is one step, archived sources show nothing) |
| `DocumentIngestion` | extends `JobQueue` with documents, revisions, the pipeline, the API and the writes of storage maintenance; implements `DocumentCatalog` |
| `JobOutbox` | the outbox and its dispatchers; implements `LeasedWork` |
| `WebhookDelivery` | deliveries and couriers |
| `UploadStorage` | files against rows: one action per storage call or transaction, both backends, the reconciler step by step |
| `KnowledgeItems` | extends `JobQueue` with knowledge items, their revisions and the enrichment pipeline |
| `Sessions` | one session family: rotation, reuse detection, and the browser whose requests overlap and whose answers get lost |
| `Members` | members, their open sessions and the requests that change them |
| `UpstreamResilience` | calls to the language model: bulkhead, circuit breaker, retries, fallback models, plain and streamed |
| `ChatOrchestrator` | one chat request: the tool loop and its limits |
| `ProtocolStreams` | the events of an answer in the three chat protocols, and what is charged for it |
| `LoginThrottle` | the throttle's buckets under overlapping attempts |
| `SpaceAccess` | spaces, members, API keys and the permission rules; requests act with the principal they were given |
| `Retrieval` | extends `SpaceAccess` with search, context assembly and evidence |
| `RuntimeSettings` | revisions of the settings and the requests that change them |
| `Quotas` | bucket, slots and budget of one key |
| `IdempotentCommands` | one idempotency key |
| `AIActions` | proposed, reviewed and confirmed actions |
| `GitConnector` | one repository and its documents |
| `Retention` | batches of the retention function |
| `EmbeddingGenerations` | generations and the re-embedding walk |
| `LegacyBackfill` | the two walks over the legacy tables |
| `JobQueueProofs`, `IngestionProofs`, `KnowledgeProofs` | theorems about `JobQueue`, and about `DocumentIngestion` and `KnowledgeItems`, which extend it |
| `OutboundProofs` | theorems about `JobOutbox`, `WebhookDelivery` and `ChatOrchestrator` |
| `AnswersProofs` | theorems about `UpstreamResilience`, the budgets of `ChatOrchestrator` and `ProtocolStreams` |
| `IdentityProofs` | theorems about `Sessions`, `Members` and `LoginThrottle` |
| `StoresProofs` | theorems about `UploadStorage`, `Retention`, `EmbeddingGenerations` and `LegacyBackfill` |
| `ServicesProofs` | theorems about `Quotas`, `IdempotentCommands`, `AIActions`, `RuntimeSettings`, `SpaceAccess`, `Retrieval` and `GitConnector` |
| `MCDocumentIngestion`, `MCKnowledgeItems`, `MCOutbound`, `MCIdentity`, `MCMaintenance`, `MCServices` | instances for TLC: symmetry; modules that share no variable checked in one run |

Conventions. One action is one database transaction, and its guard is the WHERE clause;
where a transaction has several statements that can see other commits in between
(READ COMMITTED), each part is an action. Operators whose names end in `_Something`
(most with the comment "Seeded fault" or "Mutant") are faulty variants of the operator whose name they
begin with. They are not part of any specification; they are kept to show that a property
notices the fault.

**JobQueue.** `job[j]` is the row, `claim[w]` the `JobClaim` a worker believes in, stale
ones included. `claim_token` is a random UUID in the code; here it is the next unused
number (`issued`), which is what "random and never repeated" gives. Time is a countdown:
`lease_expires_at > now` is `lease > 0`, `LeaseTick` lets it run down at any moment and
`Heartbeat` winds it up; `next_attempt_at <= now` is `due`. `Sweep` is the three UPDATE
passes of claim_next in their order, `Take` / `TakeNothing` its SELECT FOR UPDATE SKIP
LOCKED; they are two steps because a cancellation can commit between them. A crash
inside claim_next rolls the sweep back in the code; the model may keep it, which is also
what a claim_next does that sweeps and finds nothing to claim. Progress values, error
codes and timestamps are left out.

**DocumentIngestion.** Each revision has one job, so `rev` is indexed by the job. `live`
stands for the revision's active retrieval units, `chunks` for its chunk rows. A worker
moves through `mark`, four checkpoints and `activate`; `Raise` lets the work between two
transactions fail in each way the code maps to an error (retryable, final, quarantine),
and `RecordFailure` is the transaction that follows. The conflict branches of
`_mark_processing` and `activate` need no action: `JobRevisionAgreement` shows that a
worker that may write never meets them. `FailExpiredStaging` may meet a revision that was finalized
after the snapshot: the code then leaves the revision and still fails the job, and so
does the model.

**KnowledgeItems.** Revisions are indexed by `Jobs`; `job[r]` stays absent when revision
`r` was projected in the transaction that saved it. `live` are the revisions with an
active retrieval unit. Unlike document ingestion, `enrich_claim` selects its job FOR
UPDATE and keeps the row until it commits, the embedding call included: `Locked`. Sweeps,
the heartbeat, cancellation and deletion wait for that row, a claim skips it (SKIP
LOCKED). The management API and the agents' tools are separate actions; they differ in
the statuses a new item may have and in whether deletion stops the item's jobs. The
`ImportItem` is one item of import_portable, which keeps the status it was exported with. The
transaction that writes the units is one step, so overlapping statements of two writers
inside it are not represented, and an embedding generation is taken to be active.

**JobOutbox, WebhookDelivery.** The attempt count is never reset, so it doubles as the
claim token. The publisher is external: it returns or raises, before or after the
event went out. The subscriber answers 2xx, another 4xx, or something retryable.
`Answer` writes by primary key, as deliver does, whoever holds the row by then.
`EnqueueSubscriptionEvent` adds a delivery for each active subscription that wants the event.

**UpstreamResilience.** Models are numbered in the order in which they are tried. A
coroutine gives way only where it awaits something that is not ready, so the state lock is
not represented and `BeforeCall` takes a free slot at once. A circuit is closed, open, or
elapsed: open with its recovery time over. `Left` is what a cancelled call leaves behind:
`lease` gives slot and probe back, but a call in the queue has no lease yet. `Deadline`
cancels; for plain calls the failure is recorded in a second step (`RecordOverdue`), as in
call(); for streams `asyncio.timeout` raises and nothing is recorded.

**ChatOrchestrator.** The model's turn is any sequence of tool calls, each known by its
signature; `asked`, `ran` and `shown` record what really happened, and the budgets are
compared with these rather than with the code's own counters. What a tool does is left out.

**UploadStorage.** A file is absent, young or old, compared with the staging TTL and the
orphan grace, which have one default. The local backend hard-links, so the object has
the age of the staged file; S3 copies, so the object is new. The reconciler's snapshot,
its two listings, each deletion and each transaction are separate steps, and it may
abort between any two.

**Sessions.** Tokens are numbered by the rotation that issued them. A refresh credential
is fresh, spent within the grace window, or used. `Verdict` is the order of the checks in
rotate_refresh, which holds the family row throughout, so a call is one step. The browser
copies the CSRF cookie into a header before the refresh cookie is attached, so a request
may carry the two of different rotations; answers arrive in any order or not at all. The
console's own browser lock is not assumed. `Stranger` is a second client with any tokens
that were issued.

**Members.** A request is authenticated in one transaction and handled in another; `req`
holds what it knows: the principal, the member as loaded (`seen`), the target and the
administrators it counted. A handler's second select FOR UPDATE waits for the row but
returns the object its session already loaded, and only attributes that differ from the
loaded ones are written (`Assigned`). `LockTarget`, `CountAdmins` and `UpdateMember` are
the statements of update; the rows it locked are `Rows`. When two updates wait for each
other PostgreSQL ends one: `Abandon`. Passwords and codes are right or the request is
refused, step-up is recent or the request is refused, a session family is open or closed;
API keys are in `SpaceAccess`.

**ProtocolStreams.** The chunks of the last turn come in any order of thinking, text and tool
calls; an exception may come instead of one, and the client may leave at any time. `Blocks`
are the four locals of messages.py from which block numbers follow; an event is its type and
block. Wording and payloads are left out. Tokens are counted, because what is charged is
compared with what the provider reported.

**LoginThrottle.** Times are relative, the age of a window and the rest of a block, so there is
no clock that grows. Admission, verification and counting are separate transactions.

**SpaceAccess, Retrieval.** A principal is made once, when the request arrives (`ResolveSession`,
`ResolveKey`), and is not looked at again except where the code reads the membership row.
Step-up and restricted sessions are in `Members`. `IsAllowed`, `Admit` and `AuthorizeSpace` are the
tables and rules of the source. In `Retrieval` the scope, the generation, and each branch are
steps of their own; a branch returns some of the units its query may see then, in any
order, so nothing depends on how texts match. Scores are fractions with a common denominator
(`Scale`). `dark` records the spaces the principal could read at no moment since its queries
began: what the code can promise while access is being withdrawn.

**RuntimeSettings.** A request reads the active row FOR UPDATE and writes at its commit. Under
READ COMMITTED the one that waited finds that the row is active no longer, re-evaluates,
and sees no active revision; what then protects the settings is the partial unique index
(`ActiveTaken`).

**Quotas, IdempotentCommands.** One key each; several requests overlap. The unique index
makes a second request wait until the first commits or rolls back. Commands of the git
connector write through sessions of their own (`outside`), which is why `AppliedOnce` promises
only one application for the others.

**AIActions.** A target has a revision which every change raises; the code's version columns and
timestamps are that. Actions on ingestion jobs compare the job's state instead and are left
out of `ExecutedAsReviewed` (see below).

**GitConnector.** A commit is a position in the branch's history, a tree maps paths to contents.
A sync reads the connector, the head, and then works path by path; `AbortSync` may stop it
anywhere. The idempotency key names commit and content, not the path, as in the code.

**Retention.** The database function removes at most `MaxRows` rows of each kind per batch,
children before parents; the trigger refuses a citation of a document that is archived, which
is what keeps a purge that has begun from being cited. Rows of a kind are a count.

**EmbeddingGenerations.** Promote and rollback read, then write at commit; the partial unique
index decides between two of them (`OnlyActive`). `newer[g]` is how many generations
have a later `activated_at`, which is all that rollback asks of the column. The walk embeds a page between two
transactions and sets the cursor to the last id of that page, so a slow command moves it
back; units are replaced meanwhile.

**LegacyBackfill.** Rows are numbered in the order (created_at, id) in which the walk goes; a row
is stamped before it is visible. Migration of a document is staged file, object and rows, in
the code's steps.

## 3. The runs

| Run | Instance | States | Shows |
|---|---|---|---|
| `job_queue` | 2 jobs, 2 workers, 2 attempts, lease of 2 ticks, 3 tokens per job | 104,714 | `QueueInvariant`, `ExclusiveClaim`: a stale worker never passes the ownership check beside a new one. `CancelledNeverSucceeds`. `LiveLeaseRespected`: no sweep or claim takes a job from a live worker. `ImplementsLeasedWork`. Liveness: `EveryJobSettles`, also after a cancellation |
| `ingestion` | 2 revisions of 1 document, 2 workers, 2 attempts, 3 tokens per job | 481,967 | `OneSearchable`, `TablesAgree`: the three tables and the outbox agree whoever wrote last, retries by users included |
| `revisions` | 3 uploads to 1 document, 2 workers, 2 attempts, 2 tokens per job | 511,767 | `ImplementsCatalog`: two uploads race to replace the first one |
| `ingestion_live` | 1 revision, 2 workers, lease of 2 ticks | 113,076 | `EverySourceSettles`: no claim gets stuck in front of a revision its worker can neither process nor fail |
| `knowledge` | 1 item, 2 revisions, 2 workers, 2 attempts, 3 tokens per job | 3,498,204 | `KnowledgeInvariant`: nobody ends a claim between the read and the write of an enrichment. `EnrichedIsSearchable`: enrichment of an older revision, transitions, imports and updates never hide what the API reports as enriched |
| `outbound` | 1 event, 2 dispatchers, 1 delivery, 2 couriers, 2 attempts each; 2 calls, 2 models, 2 attempts, 1 slot, threshold 2; 3 iterations, 4 tool calls, 2 repetitions, turns of up to 3 calls; streams of 2 chunks with up to 2 tool calls and a usage of up to 1 each | 95,741 | `SentAsReported`, `OutboxImplementsLeasedWork`, `EverySendSettles`. `SlotsKept`, `NeverRestarted`, `EveryCallEnds`: bulkhead, fallback and deadlines under cancellation. `BudgetsHeld`, `OnlyFinalTurnShown`: one chat request. `StreamWellFormed`: its answer in each protocol |
| `maintenance` | 1 upload, 2 clients, both backends, 2 aborted reconciliations; 1 item and 1 document of 2 revisions, up to 2 rows of a kind, batches of 1 | 118,873 | `StoresAgree`, `StorageSettles`: uploads against the reconciler. `RetainedIsWhole`, `AgedIsPurged`: what retention takes and must take |
| `identity` | 1 family, 3 rotations, 2 requests; 2 members, 2 session places, 2 requests (1 when the identity provider is used); 1 account, 2 attempts | 1,562,671 | `IdentityInvariant`: rotation never forks a session, and a browser is never logged out for reuse by its own overlapping, late or lost requests. `AdminKept`: member administration always leaves an active administrator. `GuessesBounded` |
| `services` | 2 members, 2 spaces, 2 keys, 2 requests; 3 units; 3 settings revisions, 2 requests; 3 quota requests on 2 slots; 2 submissions, 2 bodies; 2 actions, 2 confirmations; 2 paths, 2 commits; 2 legacy rows, 2 commands; 3 generations, 3 units, 2 operators, 2 drains | 1,344,227 | one property (or two) per service, see their comments |
| `knowledge_superseded` | 1 item, 1 revision, 1 worker, 1 attempt | | violated: `SupersededExcluded` |
| `oidc_deprovision` | 2 members | | violated: `DroppedAreDisabled` |
| `circuit_probe` | 2 calls, 1 model, 1 slot, threshold 1 | | violated: `ProbeComesBack` |

What the properties of `services` say. `DelegationNarrows`: a service key never reaches
further than the key it was created with. `OwnerKept`: overlapping requests never leave a
space without an owner (a login through the identity provider may). `ShownWasReadable`: no
hit, context or evidence from a space closed to the principal all the while. `AnswerIsBest`:
hits and context are what the ranking, the limits and the budgets define, against a
reference definition. `NoLostUpdate`: settings are only replaced by what was written against them.
`SlotsAreRequests`: slots neither leak nor are given back twice. `AppliedOnce`: retries apply a
command once and are never answered for another body. `ExecutedAsReviewed`: what runs is what
was shown. `SyncedOrReported`: a recorded commit is carried over or reported, also after syncs that
stopped part-way. `FinishedWalkIsComplete`: a finished backfill left out nothing that was there
when its mark was taken. `OneGeneration`, `CompleteRunCoversUnits`: search always has one generation,
and a complete re-embedding run covers every unit in use.

The parts of a composed run share no variable: a behaviour picks one part (`part`) and the others
stay at rest, except where a module extends another (`Retrieval` on `SpaceAccess`).

Bounds. Two workers are enough for every race over one row: one that lost its lease and
one that has the row now. Two attempts give a first, a retried and a last attempt, and
two jobs an upload beside the revision that
replaces it; two uploads that race for the same version need a third, active one, hence
three jobs in `revisions`. `MaxClaims` bounds how often
users retry a job that ended: `WithinBound` stops the request, not the queue, so every
accepted job can use all its attempts and liveness is not cut off by the bound; with 3
tokens and 2 attempts a job that failed for good on its first attempt is retried once
(4 tokens in `ingestion_live`: also one that used both). `LeaseTicks`
= 2 lets a lease be live, run low and be renewed; 1 is enough where renewal is not the
question. `MaxAborts` bounds reconciliations that raise: for ever aborting ones would
clean nothing. Two calls and one slot let
a call wait while another holds the slot or the probe, and two models let it fall back;
three iterations with turns of three calls exceed each chat budget in one turn and across
turns. Two members and two requests are enough for two
administrators acting on each other; three rotations for an answer that is two rotations
late. In `services` two requests overlap wherever order matters, and everything they
act on is there twice. Two commits and two files let a sync stop between
files and the branch move on before the next; syncs run one at a time there, as overlapping
ones are outside what `SyncedOrReported` promises; one file is edited, the other comes and goes
(`TwoFiles`). Of two proposals, which are alike, one is made first (`InOrder`). Two legacy rows and two
commands let a batch overtake another and a row arrive late. Three units, two of one source,
separate the limit per source from the limit on hits, and no two of them fit the budgets
whole. Chunk pairs give every order of thinking, text and two tool calls. Batches of one row
make every revision take several. Symmetry is used only in `ingestion`, `revisions`,
`knowledge`, `identity` and `services`, which check no liveness.

Fairness. `run_until_stopped` loops poll for ever, so sweeps, empty claims and the steps
of an attempt under way are weakly fair. A claim orders rows by the time they fell due,
so a row that is claimable again and again is not passed over for ever: strong fairness
for "some worker takes this row". Time is weakly fair. Crashes, heartbeats, failures,
API calls and clients get no fairness. Calls to the model: coroutines that can go on do,
and the deadline of every attempt and stream is fair because the code sets one; answers
are not. A chat request has no liveness property: its time is the wall-clock limit. In `UploadStorage` only the maintenance loop and
the ageing of files are fair, in `Retention` only the runner's loop and the deletion of files
its batch handed over; archiving and time get none. The services have no liveness property: their
steps are requests, which nobody has to send.

### Disagreements between code, tests and documentation

`_transition` to superseded removes the item's retrieval units, and
`tests/integration/test_memory_lifecycle.py:269`,
`test_superseded_excluded_from_search_but_evidence_resolves`, expects that no search finds
it (line 326). But neither the update of an item, nor its import
(`services/knowledge_export_service.py:208`), nor the enrichment of one of its revisions
(`services/knowledge_enrichment_service.py:117`) looks at the status, so each of them makes
the superseded item searchable again. `knowledge_superseded` finds the shortest case, the
import; an enrichment that ends after the transition does the same.

When a member logs in through the identity provider and has no mapped group left,
`authenticate_with_tokens` removes its memberships, disables it and revokes its sessions;
the callback (`presentation/routers/management_auth.py:753`) then refuses the login with
an exception, and `get_db_session` rolls everything back. `docs/configuration.md:37`: "When
all mapped grants disappear, remove the mapped memberships and disable the member".
`oidc_deprovision` shows it; the tests call the service without the route.

`lease()` (`infrastructure/adapters/upstream_resilience.py:134`) takes the probe of a circuit
whose recovery time is over and then waits for a slot; only a timeout of that wait gives the
probe back (line 140). When the waiting call is cancelled, by a client that leaves or by a
stream's deadline, the probe stays taken and every later call is rejected.
`docs/architecture.md:63`: "a circuit breaker that opens after consecutive failures and probes
recovery after a cool-down". `circuit_probe` shows it.

Seen in the code and not turned into a run. `reconcile()` (`services/storage_consistency_service.py:44`) reads all storage keys once
and later deletes every old object not among them (line 67) without looking again. On the
local backend an object is a hard link and has the modification time of the staged file, so
an upload that was in preparation longer than the grace period, and is finalized after
the snapshot, loses its object although its revision refers to it (`docs/configuration.md:166`:
"Grace period before unreferenced objects are removed"). `StoresAgree` states what holds: uploads
finalized within the age limit are never affected, and `StorageSettles` that the next
reconciliation notices the loss.

The routes for a password change and for
confirming TOTP load the member first, and the later select FOR UPDATE
(`services/identity_service.py:144`) waits for an administrator who is disabling the member but
returns the object already loaded, so the member is active again when the change commits
(`docs/security.md:73`: "Revocation, expiry, member deactivation, and membership removal
propagate"; elsewhere the code asks for `populate_existing`, `services/session_service.py:182`);
change_password revokes personal API keys, which
`docs/security.md:32` says are kept; update lets one super admin activate another who is
pending and has no TOTP factor, although `docs/security.md:27` asks for enrolment first;
and a tab that lost a refresh race with an old CSRF token gets 403, not the answer for
"already rotated".

Also seen, and promised by no document: a stream that runs into its deadline does not count
as a failure of its model; the failure recorded for an overdue call clears a probe that
another call has taken meanwhile; an upload that stopped after its object was linked,
and whose object was then collected, stays "preparing" until the client retries;
pending deliveries of a revoked subscription stay pending; and since the next version is the
current one plus one, a revision that failed or was quarantined for good keeps its number
and later uploads to that document collide with it (`VersionTaken`); an exhaustion sweep waits
for the embedding call of an enrichment whose row is locked.

And in the services. Quotas: the budgets of tokens and bytes are counted per minute although
`docs/configuration.md:135` and `docs/security.md:103` speak of stored bytes per credential and space;
record_usage is a read-modify-write without a lock, so concurrent requests may be counted
once; a stream is charged for its last turn only, and an Anthropic stream that fails, or any that
the client leaves, is not charged. Streams: a Responses stream that failed still ends with
response.completed; text after tool calls opens a block while theirs are open. Spaces: a login
through the identity provider may remove the last owner. Settings: any error while the active
policy is read means the defaults. Git: a sync that stopped between a revision's upload and the
record of its checksum makes a later revert pass for unchanged, as may two overlapping syncs
(`torn`); two paths with equal content share an idempotency key, so the second is a conflict that stops
every retry; skipped files are not tried again once the commit is recorded. Embeddings: a changed
model makes an empty generation active at once; a rollback during a run splits the units over
two generations; set_embedding_dimension counts the stored vectors in one transaction and clears them
in a later one. AI actions on ingestion jobs compare only the state, so a job that failed and was
retried twice passes for unchanged. Backfill: a row stamped before a mark and committed after
it is not migrated; overlapping provenance batches may link a revision twice. Webhooks: the list of
events pages by a random id, so later events may be skipped.

## 4. The proofs

Every theorem below holds for all values of the constants that satisfy the named
assumptions of the modules, and TLC evaluates each assumption on the instances of the runs.
They say: bounds are natural numbers (positive where the configuration demands it), a "none"
value is not an element of the set it stands beside, requests, calls and revisions are finitely
many where they are counted or where an outcome is a choice among them, a last unit id
exists, and revisions belong to one root each. `ThrottleAssumption` says of the rules what `LoginThrottlePolicy`
gives: positive limits, windows and base blocks, a longest block no shorter than the window, and a base block that
30 doublings take past the window. `RetrievalAssumption` says that weights, scores and texts are measured in natural numbers and
the limits and budgets are positive, as `assemble` checks. None of them
restricts behaviour. The bounds in guards (`MaxClaims`, `MaxRotations`, ...) stay in the specifications
with any value, so the results hold for however long a run one allows.

| Theorem | States | For any number of |
|---|---|---|
| `QueueTypeCorrect`, `QueueClaimsFenced`, `QueueInductive` | `QueueTypeOK`, `ClaimsFenced`, `QueueInvariant` | jobs, workers, attempts, ticks |
| `QueueExclusiveClaim`, `QueueCancellation`, `QueueLiveLease` | `ExclusiveClaim`, `CancelledNeverSucceeds`, the action property `LiveLeaseRespected` | |
| `QueueImplementsLeasedWork` | the refinement `ImplementsLeasedWork` | |
| `IngestionKeepsQueue` | every run of the pipeline is a run of the queue, so the five properties above hold in it | documents, revisions, workers |
| `IngestionOneSearchable`, `IngestionTablesAgree` | `OneSearchable`, `TablesAgree`, from `IngestionInductive` | |
| `IngestionImplementsCatalog` | the refinement `ImplementsCatalog` | |
| `KnowledgeFenced`, `KnowledgeSearchable`, `KnowledgeKeepsClaims` | `KnowledgeInvariant`, `EnrichedIsSearchable`, `ExclusiveClaim` under row locks | items, revisions, workers |
| `OutboxIsLeasedWork` | the refinement `OutboxImplementsLeasedWork` | events, dispatchers |
| `OutboundSentAsReported` | `SentAsReported` | deliveries, couriers |
| `OutboundFinalTurnShown` | `OnlyFinalTurnShown` | iterations, tool calls |
| `ChatBudgetsHeld` | `BudgetsHeld` | the same, and any budgets |
| `UpstreamSlots`, `UpstreamNeverRestarts` | `SlotsKept`, the action property `NeverRestarted` | models, calls, attempts, slots |
| `StreamsWellFormed` | `StreamWellFormed` | chunks, tool calls in a chunk, all three protocols |
| `SessionSafety` | `OneSuccessor`, `HonestBrowserKept` | tabs, rotations |
| `MemberTypesKept`, `MembersAdminKept` | types, the action property `AdminKept` | members, sessions, requests |
| `ThrottleGuessesBounded` | `GuessesBounded` | accounts, attempts at once, any limits, windows and blocks |
| `IdentityKept` | `IdentityInvariant` of the composed instance | |
| `StoresKept` | `StoresAgree` | uploads, clients |
| `GenerationsOne`, `GenerationsCovered` | `OneGeneration`, `CompleteRunCoversUnits` | generations, units, operators, drains |
| `RetentionSparesInUse` | the action property `RetainedIsWhole` | roots, revisions, rows, batch sizes |
| `BackfillIsComplete` | `FinishedWalkIsComplete` | rows, batch sizes, commands at once |
| `QuotaSlots` | `SlotsAreRequests` | requests, slots |
| `CommandsAppliedOnce` | `AppliedOnce` | submissions, payloads |
| `ActionsExecutedAsReviewed` | `ExecutedAsReviewed` | proposals, targets, members |
| `SettingsNoLostUpdate` | the action property `NoLostUpdate` | revisions, editors |
| `AccessDelegationNarrows`, `AccessOwnerKept` | `DelegationNarrows`, the action property `OwnerKept` | users, spaces, keys, requests |
| `SearchShowsReadable` | `ShownWasReadable` | spaces, keys, requests, units, limits |
| `SearchAnswersBest` | `AnswerIsBest` | units, weights, limits and budgets |
| `GitSyncedOrReported` | the action property `SyncedOrReported` | paths, commits, documents, syncs |

Few of these properties are inductive. What each proof adds, and why:

*Job queue.* `ExclusiveClaim` speaks of workers that own a job now, and says
nothing of a stale worker whose token might be issued again. `ClaimsFenced` adds what is
needed: a row has a token exactly while it is running (the table's CHECK constraint),
the token is the newest one issued, what a worker believes in was really issued, and no
two workers, stale ones included, believe in the same token for one row. The argument:
only `Take` issues tokens, it issues `issued + 1`, which nobody can believe in yet
(`OnlyTakeGrants`), and every other step keeps tokens or clears them (`LeaveRow`,
`FailedRowEffect` and the lemmas on the effect of the three sweeps, which reduce `SweptRow` to a few
facts so that no later proof looks inside it). Cancellation rests on `MayWrite` and on
the fact that requests are refused on a job that has ended. The refinement maps a job's
state to none, open, done or dead and its token to the holder; each worker step becomes
Grant, Finish, Yield, Drop or a stutter and each sweep or API step Submit, Administer or
a stutter.

*Ingestion.* `IngestRunsQueue` shows that every step is a queue step or leaves the queue's
variables alone; what is proved of the queue then holds here without being proved again.
`IngestInvariant` is `Tables` (the job, revision, chunk and outbox rows of a revision agree, and an object key
is only written together with the queued event) and `Lineage`: a document's current revision is one of its own,
nothing published is newer, and what still waits has the next version (`NextInLine`), because an upload takes its
number from the current revision. Without that, nothing says why the second of two uploads finds its version taken. The
catalog's steps follow from the same invariant: activation replaces, archiving removes, all else
stutters.

*Knowledge.* `EnrichedIsSearchable` speaks of jobs that have succeeded, but the unit is written two steps earlier; `Found` is
the same from the moment of that write (`Promised`), and `OwnRevisions` keeps the revisions of
different items apart. `EnrichmentFenced` is kept by row locks: `LocksHold` is why no
other step of the queue touches a row in use.

*Outbox, webhooks, chat.* A token is the number of the newest attempt, and a courier that has the
newest claim and has not posted leaves room for its post (`ClaimsCounted`); this bounds the posts although `deliver`
writes without checking its claim. The proof found the column that matters: a row being delivered is due, so the sweep sees it when its attempts
run out. `OnlyFinalTurnShown` needs that nothing was shown before the turn that ends the request (`ShownSoFar`). `BudgetsHeld` speaks
of calls that were started, and the code charges a whole turn before its first call: what was started and what
waits is within what was charged, in all and for each signature (`Charged`), and each start moves one
call from the second to the first (`OneFewer`).

*Streams.* The converter of the messages protocol keeps its own count of blocks, the one that is open, and the block of each tool call.
`BlocksAgree` says that these locals agree with the events the client has seen: each block up to the count was
started once, none later, and the ones that have not stopped are the open one and the tools' (`BlocksSound`). Each event is
appended to a stream in which it fits (`Fits`), and a chunk, being a chain of such events, keeps this; the stops at the end
close the tools' blocks one after the other, so at the last event every block that was started has stopped.

*Upstream.* `SlotsKept` counts the calls that hold a slot and is inductive; each action adds
or removes its own call, so the lemmas about `Cardinality` are used once. `ShownIsStream` is what `NeverRestarted` needs.

*Sessions, members.* Rotations form one chain with one fresh end (`Chain`), what circulates was issued
(`Circulating`), and an honest browser's copies are ordered: what its requests carry is no newer than the jar, an answer under way is
newer, and there is one at most (`Ordered`), so a late answer never brings back a token that counts as reuse. The least
rotation that breaks a rule is taken with `LeastNumber`, from the library's well-foundedness of the naturals: an induction over
numbers is in reach where the property is a set. For administrators, requests hold disjoint rows, and the
administrators a request has counted stay active while it holds them (`Locks`).

*Throttle.* A block keeps new attempts out but not those under way, so failures come in batches: between two blocks at most as many
attempts are counted as can be under way at once. `Batched` says how many blocks a window has seen and that each of them let
one batch be counted, `Blocked` that each took twice the time of the one before: the jth begins no sooner than
`base * (2^(j-1) - 1)` into the window, and it ends with the window or after its own time. The number of blocks
that fit the window is then at most `Rounds`. What is under way while a block lasts still belongs to its batch,
which is why the invariant counts it.

*Stores.* `PromptUploadSafe` needs what the reconciler knows: what its old lists contain was recorded at the snapshot or slow, and what was
recorded stays so (`Sweeping`); and that undoing a link on the local backend takes no object from another request (`Sole`,
`Unstaged`). *Generations*: the index refuses a write for which the active generation is no longer the one that was read. For
coverage, a page under way leaves out no unit without a vector below its last one, whichever run it was read for
(`Paged`), so a slow page moves the cursor past none either (`Reembedded`). *Retention*: `Spares` relates two states of the tables
and composes, so each statement of the batch is treated once and the function is their chain; `Whole` is what each may
rely on. *Backfill*: the cursor has passed no row that is owed and not migrated (`WalkSound`); a batch under way leaves out
no such row below its last one, in whichever phase it was read, so another batch may move the cursor meanwhile
(`RunnerSound`); and documents inserted but not yet counted are added to the count once (`CountedOnce`).

*Services.* Quotas: the requests under way as a set. Commands: one submission at a time holds the row, and what is recorded
or reported was applied (`RowHeldFresh`, `ReportedIsApplied`). Actions: no action is ahead of its target, and one that ran has left
its revision behind, so no second one fits (`NotAhead`). Settings: who has read an active row holds
its lock (`ReadersLock`); who has read none is stopped by the index. Keys: a principal acts within what its key was given and keys within
their parents (`Derived`). Search: what the branches found was readable when it was found, and
what is readable now is taken out of the spaces that count as closed (`RowSound`), so resolving the spaces
before the embedding provider answers shows nothing that was closed all the while; the hits come from
what was found, because the loop over the ranking only ever takes candidates (`SelectedFrom`). That loop is a recursive
function, which first has to be shown to exist (`LoopExists`, by the least length for which it would not). That the hits are the best
ones is that loop's invariant: after n candidates the hits are those of the first n that are the best, each source has
as many as it could (`perSource` at most), and while there is room nothing but the sources' limit left one out (`SelectedIsBest`). The
package's loop is followed in the same way (`PackageSoFar`): what was added so far keeps both budgets, and comes from hits that
are the newest of their sources and were looked at; each hit is looked at in one of the two passes only, so no source comes
twice, and the first of them always adds something, cut to the budgets if need be. Git: a document holds the content of its latest receipt (`LatestReceipt`) and serves one path (`OwnPath`), so a replayed
upload may be taken for done although an earlier sync stopped after it; a mapping's checksum is that of its document
except between a revision and its record (`Mapped`); no receipt is of a commit later than that of the sync under way
(`SyncSound`).

TLC checked the larger inductive invariants on small instances before they were proved. The
proofs changed the models where they were wrong or could not be reasoned about: the verdicts of `SweptRevision` and
`Verdict` were CASE expressions whose guards overlap, which TLA+ leaves open and TLC resolves by order (they
are IF/ELSE now, the order of the checks in the code); a type in `SpaceAccess` was read as SUBSET of a union;
`EmbeddingGenerations` kept a sequence of activations filtered by status, where the rank `newer` is enough; a page of the
backfill is the set of its rows, worked off from the least, where it was a sequence; the hits of a search are picked by a
recursive function from any sequence in ranking order, where a fold over a sorting operator hid what is
taken, and so is its package, in two passes for the stable sort that puts superseded sources last; a block's doublings are a
recursive function up to the exponent's cap, where they were powers of two; a chunk's tool calls are worked off one by one, where they
were folded; a chat request counts the tools it has started, where the property summed over a function; `RetrievalNext`
lacked new sessions; several
assumptions on constants were missing.

Recursive functions take the place of folds wherever something is proved of a loop. Such a function is a CHOOSE, so each proof first shows that
the function exists: of the lengths for which it would not, take the least. Then the loop's invariant, a set of numbers for which it fails,
is treated in the same way. That is induction over the length without the theorems that need an operator as parameter.

Left to TLC: all liveness and `ENABLED`, and what the fairness conditions give. Every safety invariant that a run
checks is stated by a theorem.

## 5. What is not modelled

File formats, parsing and embedding results, how well a text matches a query, wire-format
conversion field by field, request signing, logging, metrics, migrations other than the change of
the embedding dimension, configuration parsing, response schemas and the web console: data and
I/O without a protocol of their own. The older search (`retrieval_service.py`, `rrf.py`), the storage
manifest, recovery codes and the MCP adapters are small and read mostly. PostgreSQL's transactions,
unique constraints and row locks are assumed to work as documented.

## 6. Plan

Every component with a protocol of its own is modelled. What is left:

1. Recovery codes beside `Members`, and the fixed chunker as a function against a reference.

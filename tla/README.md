# CodeMemory in TLA+

CodeMemory is a local-first store of a programmer's solved problems. It imports
LeetCode history in the background, keeps it in three storage tiers (DuckDB,
Markdown files, a Parquet snapshot) and derives statistics, revision queues,
learning roadmaps, AI insights and semantic search from it. The backend is Python
(`src/codememory`, `src/api`); a Streamlit app, a CLI, a FastAPI server
with a Next.js/Tauri front end, and a background thread all call the same
services in one process, or in several processes over the same data directory.

This directory models the parts of it where order, failure and concurrency decide
whether user data is right, and what is computed of that data. TLC checks small
instances, TLAPS proves safety properties for every value of the constants.

Paths below: `connectors/...`, `storage/...` and so on stand for
`src/codememory/connectors/...` of the repository. `PROJECT.json` names files from
the directory above the repository's root, so there they begin with `src/src/codememory/`.

    tlc -workers 2 -config MCScheduler.cfg MCScheduler.tla   # a run
    tlapm SchedulerProofs.tla                                # a proof module

## 1. Inventory

| Component | State | Operations | What is hard | What makes it correct |
|---|---|---|---|---|
| **Automatic sync scheduler** `connectors/leetcode/scheduler.py` | `_enabled`, preference file, `_thread`, `_stop_event`, `_sync_lock`, `_service` | `set_enabled`, `set_interval`, `persist_preference`, `start`, `stop`, `ensure_running`, `sync_now`, worker loop | UI threads against the worker; stop timeouts; start after a timed-out stop; a factory that raises under the lock | syncs exclude each other on every exit path; one worker; no service closed under a sync; the preference survives; disabling ends the worker |
| **Account connection store** `connectors/account/service.py` | `account_connections.json` | `save_connection`, `remove_connection`, `get_connection` | no lock, truncate-then-write, read-modify-write by threads minutes apart, crash in mid-write | a disconnect stays; no reader acts on half a file |
| **Public recent-window sync** `connectors/leetcode/sync.py` | watermark and coverage on the connection | `sync` | failed records, full windows, gaps, failed requests, stale connection copies | what the watermark covers, down to the first window or the last reported gap, is stored; it does not move back |
| **Authenticated full-history sync** `connectors/leetcode/auth_sync.py` | checkpoint on the connection | `sync_full_history`, `save_checkpoint`, `load_checkpoint`, `clear_checkpoint` | offsets shift while the user submits; resume after a crash; the account changes meanwhile | a pass that ends has everything it began with |
| **LeetCode account facade** `connectors/leetcode/service.py` | none of its own | `connect`, `disconnect`, `sync`, `sync_authenticated_full_history`, credentials | reads the connection several times in one call | what it reports is what happened |
| **HTTP clients** `client.py`, `authenticated_client.py` | `max_retries`, `last_error` | GraphQL requests with retry and backoff | a failure that looks like an empty answer; the reason of another call | bounded retries and waits; nothing that came of a failure passes for data |
| **Credential vault** `vault.py` | keyring entries, encrypted file, master key | store, retrieve, revoke | master key created twice; two places written and revoked in turn; refused calls are swallowed | what is stored can be read back and is the latest; what was revoked is gone |
| **Settings store** `core/settings.py` | settings file, temporary file | `update`, `reset` | unlocked read-modify-write through one temporary name | a call changes its own fields, all or none |
| **Core service** `core/service.py` | wiring, lazy singletons | problems, attempts, submissions, notes, `global_search`, `close_storage` | account-scoped views that are saved back; searches that ask twice who is connected | no operation loses what it does not own; every view shows one account the same |
| **Composite storage and its tiers** `storage/*` | DuckDB tables, problem directories, Parquet snapshot | `save`, `get`, `list_all`, upserts | three writes without a transaction; submission identity across accounts | the tiers agree after every completed operation and can be repaired after a broken one |
| **Shared database handles** `storage/duckdb_repository.py`, `app/components.py` | registry of connections, cached service | open, adopt, retire, close, "Clear All Data" | the registry is used without its lock; files are deleted under open handles | nobody goes on serving a database that was deleted |
| **Import service** `ingestion/*` | none of its own | import a file, import a directory, merge | partial failure, running it again, a sync meanwhile | importing again stores nothing twice and loses nothing |
| **Semantic memory** `memory/*` | document cache, vectors, their file | index, search, statistics | the cache belongs to whoever filled it; vectors outlive texts and processes | answers are the asking account's and current after a rebuild |
| **Analytics, search, revision queue** `analytics/`, `search/`, `revision/` | when a problem was last stored or reviewed | statistics, streaks, insights, due problems | the same figure computed in several places; cut-offs | two places agree; nothing due is missed |
| **Learning engine** `learning/*` | catalogue memo and saved copy | profile, recommendations, roadmap, collective insight | planner, selector, validator and repair each state the rules | roadmaps obey their own rules; claims cite evidence |
| **AI insight and providers** `ai/*` | analysis cache | analyse, gather evidence, fall back | a cached analysis of another version | every claim is grounded |
| **Streamlit app, CLI, HTTP API** | session state | calls into all of the above | several threads and processes over one set of files | they take the locks they rely on |
| **Desktop shell, front end, website** | presentation | | | |

How they interact: the settings page, `close_storage()` and the worker thread
meet in the scheduler's attributes; every sync (scheduled, manual, API) calls the
facade, which reads the account file, calls the client, hands records to the core
service, and saves the connection it read at the start. The API's sync routes
take no lock at all, so a public sync, a full-history sync and a connect or
disconnect do run at once and meet only in `account_connections.json`. Storage
operations are called from all of these threads. Whatever is shown is computed of
`storage.list_all()` and of who is connected at that moment; only the semantic
memory, the catalogue of candidates and the analysis cache keep anything.

`PROJECT.json` lists the components with their status, and the hazards with the
line where each bites and the property that would catch it.

## 2. Modules

| Module | Contents |
|---|---|
| `Scheduler` | `LeetCodeSyncScheduler`: preference, worker lifecycle, sync lock, dedicated service |
| `AccountStore` | the connection file, connect and disconnect, what LeetCode holds and what is stored |
| `PublicSync` | `LeetCodeSyncEngine.sync` as `LeetCodeAccountService.sync` runs it; extends `AccountStore` |
| `AuthSync` | `AuthenticatedSyncOrchestrator.sync_full_history`; extends `AccountStore` |
| `AccountSync` | composes the two syncs and the user over one file, adds `Crash`, states the properties |
| `Storage` | `CompositeStorage.save` and its three tiers, and the syncs, notes and reviews that save one problem through it |
| `Vault` | `CredentialVault` under the facade's credential operations |
| `SettingsRegister` | what the settings store promises: one record, changed by one call at a time |
| `Settings` | `SettingsStore` file by file, and the refinement of `SettingsRegister` |
| `StorageHandles` | the shared DuckDB connections, the cached service and "Clear All Data" |
| `Client` | one HTTP client's calls: attempts, waits, answers, `last_error` |
| `Importer` | `ImportService` beside the account's syncs |
| `Library` | the stored rows and the connected account, for what is computed of them |
| `AccountViews` | every account filter of the services, as a set of rows; extends `Library` |
| `MemoryEngine` | the semantic memory and `global_search`; extends `AccountViews` |
| `Analytics` | statistics, streaks, insights, revision queue; extends `AccountViews` |
| `Learning` | profile, catalogue, recommendations, roadmap; extends `Analytics` |
| `Collective` | evidence, analysis cache, collective insight; extends `Learning` |
| `MCScheduler`, `MCStorage`, `MCAccountSync` | TLC instances with symmetry |
| `MCAccountParts` | three instances of `AccountSync` in one run, told apart by `focus` |
| `Boundary` | composes `Vault`, `Settings`, `StorageHandles`, `Client`, `Importer`, told apart by `part` |
| `Derived` | composes `MemoryEngine`, `Analytics`, `Learning`, `Collective`, told apart by `part`, and states their properties |
| `MCBoundary`, `MCDerived` | TLC instances of the two compositions |
| `SchedulerProofs`, `StorageProofs`, `VaultProofs` | theorems about the module named |
| `MemoryProofs` | theorems about `MemoryEngine` and the views of `AccountViews` |
| `AccountSyncProofs` | theorems about `AccountSync`: types and disconnects, watermark and coverage, full history |
| `BoundaryProofs` | theorems about `Settings`, `StorageHandles`, `Client`, `Importer`, and about their composition |
| `DerivedProofs` | theorems about `Derived`: types, `Analytics`, `Collective` |
| `LearningProofs` | theorems about recommendations and roadmaps; extends `DerivedProofs` |

No module declares a RECURSIVE operator. An operator whose comment begins with
"Mutant" is a plausible bug in the definition beside it and is used by nothing
(section 3).

### 2.1 Scheduler

A step is the code one thread runs between two accesses to state another thread
can change; `pc[t]` names the next one. `Callers` are UI threads, `Workers`
thread objects (a finished one can be reused for a new one), `Services` the
`CodeMemoryService` instances the factory builds.

| Code | Actions |
|---|---|
| `set_enabled`, `_save_config` | `SetEnabled` (assign, build payload), `SaveConfig` (`os.replace` or a logged `OSError`), `ApplyPreference` (reads `_enabled` again) |
| `set_interval` | `SetInterval`, `SaveConfig` |
| `ensure_running`, `start` | `Render`, `EnsureEnabled`, `EnsureNotRunning`, `StartCreate` / `StartAlreadyRunning` (one step under the lifecycle lock), `StartSpawn` (`thread.start()` outside it) |
| `stop`, `_close_service` | `StopCall`, `StopReadThread`, `StopSignal`, `JoinFinished` / `JoinGaveUp`, `StopForget`, `CloseRead`, `CloseService` |
| `sync_now`, `_sync_locked`, `_service_for_sync` | `SyncNow`, `BuildService` / `BuildFails`, `ReturnService`, `FinishSync` |
| `_run`, `_tick_once` | `LoopCheck`, `TickEnabled`, `TickConnected`, `TickLock` / `TickLockBusy`, the sync steps, `AfterTick`, `WaitOver` |

Abstracted: the interval (a wait of unknown length), `status()` and the error
texts (read-only), and what a sync does (its outcome does not change scheduler
state). `stop()` called from inside the worker is left out: nothing a sync runs
calls it. `serial` and `unsaved` are history variables, read by properties only:
whether lifecycle calls have overlapped, and whether the last write of the
preference failed.

### 2.2 Account store and the two syncs

A user's submissions are numbered in the order LeetCode received them, which
orders ids and timestamps alike; a watermark, a window and a page are then
numbers and sets of numbers. `file` is the stored connection, with the fields the
syncs depend on: user, watermark, checkpoint offset and its username, and one the
properties add, `floor`, below.

* `AccountStore`: `_write_all` is two steps, `Tear` (`open(..., "w")` truncates)
  and `Write` (the dump; over a file another thread has written since, either the
  new text or garbage). `Visible` is what `get_connection()` gives: a torn file
  reads as no connection. `Connect`, `ConnectValidated`, `ConnectRefused` and
  `Disconnect` are the facade's operations; `Submit` is the user on leetcode.com.
* `PublicSync`: `SyncBegin` reads the connection; `SyncFetch` is the profile and
  the submission request. The module says the window is bounded by the server, so
  the answer is *any* number of the newest submissions from one up to the limit
  (`Served`), whatever limit was asked; a failed request gives an empty list, and
  malformed entries are dropped. `SyncPersist` is the record loop with any set of
  failed records, the watermark and the gap report (`GapDetected`); `SyncRaises` is
  an exception outside the per-record `try`; then the connection read at the start
  is saved and `SyncSummary` reads it once more and saves it with the summary.
* `AuthSync`: `AuthBegin` reads whose history to fetch, `AuthLoad` the connection
  that checkpoints are saved on, `AuthResume` the checkpoint (comparing its
  username with the account connected *now*, as the code does). `AuthPage`,
  `AuthPageFails` and `AuthRaises` are the outcomes of a page, `AuthClear` the end
  of a pass.
* `AccountSync`: everyone at once over one file, and `Crash`, which may leave the
  file truncated.

`CoverageHonest` says what the watermark stands for: every submission from the
connection's `floor` on is stored. The floor is written by no code and read by
none; it is where the window of a run without a baseline began, or of the last run
that reported a gap (`NextFloor`). A run that reports nothing may not move it. So
what lies below the first window is promised by nothing, and section 5 says that the
code does not always report it either.

History variables, read by properties only: `garbled` (an entry of this account was
malformed), `detached` (how the last disconnect was made), `alone` (threads have taken turns since all were last
idle), `mixed` (a run loaded a connection to another account than its own),
`base` (how many submissions existed when a pass began) and `answered`.

The record loop of a run is one step: another thread cannot see the loop from
the file, records are stored by independent idempotent calls, and a crash in
mid-loop leaves what a crash after a loop with failures leaves.

### 2.3 Storage

One problem and the rows of its submissions, since a save touches one problem and
rows are keyed by submission. A key is an upstream id, the same id with an
account's suffix (`resolve_submission_id`), or the id of an imported submission;
of a row only its owner and whether it has source code matter. `rows` is DuckDB,
`tree` the submissions in the problem's `metadata.json`, `parquet` those in
`submissions.parquet`.

| Code | Actions |
|---|---|
| `CompositeStorage.save` | `SaveDuck` (all upserts under the DuckDB lock), `SaveTree`, `SaveList` (`list_all`), `SaveParquet` (and what `save` returns to) |
| `LeetCodeSyncEngine.sync`, one record | `PublicRecord` (the view and the duplicate guard; a duplicate is no step) |
| `sync_full_history`, one record | `AuthRecord` (the id resolved), `AuthLook` (what is stored and what was fetched), then `AuthSkip`, `AuthEnrich` or `AuthProblem` |
| `add_problem` | `CreateProblem` |
| `add_submission` | `AddRead` (the unfiltered aggregate), `AddResolve`, `AddExisting` / `AddNew` |
| `add_note`, `add_attempt` | `Note`: they save `get_problem()`, the view without LeetCode submissions (`Scoped`) |
| `mark_reviewed` | `Review`: two saves in a row |
| an exception anywhere, a crash | `Fails`: some of the upserts, a truncated file; a crash is every thread failing before anything new begins |

`Init` is any data directory left by imports and by earlier accounts' syncs, with
tiers that agree. Abstracted: attempts (a submission's attempt decides nothing
about the rows), notes, languages and measurements, the hash as a key of its own
(a LeetCode record always has an id), and the `__<digest>` suffixes (two digests
never agree). Left out: `CompositeStorage.delete`, `save_submission` and
`save_attempt`, which nothing calls; an import while a sync runs is `Importer`'s.
`serial`, `added`, `broken` and `narrowed` are history variables: whether
operations have overlapped; what `add_submission` has answered for; whether a
save was cut short; whether a view that lacks rows was saved.

### 2.4 Files, handles and requests at the boundary

**`Vault`.** The facade builds a new vault for every operation, so a thread's step
is one call of the keyring or of the file system, any of which may be refused.
`Begin` picks the account connected at that moment; `ReadMaster`,
`GenerateMaster`, `WriteMaster` and `MasterRefused` are
`_initialize_encryption`; `Validated` / `StoreRefused`, `PutRing`, `PutRefused`
(the keyring refuses, so the file is used), `TruncateFile`, `DumpFile` are `store`;
`GetRing`, `GetNothing`, `GetRefused`, `OpenFile` are `retrieve`; `DeleteRing`,
`DeleteRefused`, `UnlinkFile` are `revoke`; `Abandon` is a refused removal or the end
of the process. Ciphertext is the key and the secret it was made from. Histories:
`kept` and `latest` (what `store` returned for), `revoked` (what a revoke whose two
removals succeeded had before it), `raced` (accounts for which two master keys were
written), `fellBack` (accounts whose keyring once refused to store).

**`Settings` and `SettingsRegister`.** A save opens the one temporary name
(`OpenTmp`), writes (`Dump`) and renames (`Replace`); `Abort` is an error or the end of
the process at any point. A thread that has the temporary file open keeps that *file*:
after another thread's rename it writes into `app_settings.json`, and after two
renames into nothing. `SettingsRegister` is the abstract promise: a call changes
exactly its fields, at once or not at all, until two calls overlap; from then on it
promises nothing. The refinement mapping takes `settings` to what `load()` returns,
`asked` to the fields of the call under way and `trusted` to `serialWrites`. So the
module's word "atomically" (settings.py:60) is shown for calls that take turns; two
overlapping calls can lose a field or the file, which is a hazard of the code.

**`StorageHandles`.** The construction of a `DuckDBStorage` step by step
(`GetService`, `Probe`, `PopDead`, `Adopt` / `AdoptFails`, `Connect` /
`ConnectFails`, `Register`), `close()` in its two steps (the look at the registry,
then `ClosePop`), collection of objects nothing refers to (`Collect`), the sync
worker's private handle, and "Clear All Data" (`ClearBegin`, `ClearRetire`,
`ClearDropCache`, `ClearDelete`). The registry is read and written without its lock,
as in the code. History `reopened`: a session was building a service, or began to,
while another was clearing.

**`Client`.** A call posts, retries after a transient failure and ends in one of the six
kinds of `Answers`; `result` says what the caller made of it. `RetryDelays` is the
server's delay, capped, or the doubled backoff with jitter, capped.

**`Importer`.** `ImportFile` parses and groups; per problem `ReadProblem`,
`CheckRecord` for one record after the other (three ways of being a duplicate), then
`SaveGroup`, `SkipGroup` or `SaveFails` (after any number of upserts; always, if another
thread has stored the slug meanwhile); `ImportEnds`. `SyncStores` and `SyncEnriches`
are the account's syncs, each as a whole. Histories: `beside` (what has run beside an
import), `reported` (the records of an import that has just ended well).

### 2.5 What is computed of the library

**`Library`** has the rows (problem, attempt, position) with owner, status, day and
version of the code, and the connected account. `Fits` is how `add_submission` groups
rows into attempts. **`AccountViews`** has every filter by account, each in the words
of its caller: a view is the set of rows that reach the caller.

**`MemoryEngine`.** `docCache`, `index` and `indexFile` are `_doc_cache`, the
`SemanticIndex` and its Parquet file. A vector is the document's id, hash and owner and
the process it was made in, because the hashing embedder uses Python's per-process
`hash()`. `MemoryIndexAll`, `SearchMemory`, `MemoryStats`, the parts of
`global_search` (`SearchProblems`, `SearchSubmissions`, `SearchKnowledge` /
`SearchNothing`, each asking anew who is connected), `LibraryMoves` (the engine is told
nothing), `Restart`. Similarity is arithmetic and left out: a search returns any subset of
what it ranks.

**`Analytics`.** One operator per statistic, streak, timeline, pattern rule and
insight; the revision score as the code's weights times 14, an integer; the queue cut at its
limit, ties in any order. Steps: rows arrive, days pass, problems are added and
reviewed, accounts change.

**`Learning`.** The profile, the merged candidates with the catalogue source (`memo` is
the process's, `saved` the file's while fresh; `ListCandidates`, `Expire`,
`RestartProcess`), scoring as integers over 120, recommendations, and the roadmap.
`rank_candidates` sorts; `Ranked` gives each candidate its place, the number of those
before it, which is the same list, since titles leave no two candidates equal. Of the
roadmap,
`Plan`, `SelectProblems`, `Milestones`, `ValidRoadmap` and `Repaired` are the planner, the
selection, the loop, the validator and the repair.

**`Collective`.** The evidence ids that are gathered, the findings with the evidence
each claims, what the evidence writer leaves of the references, and the analysis cache
(`AnalyzeSubmission`: versions in the order they were analysed; readers take the first).

## 3. What is checked

| Run | Question | Bounds | Size |
|---|---|---|---|
| `scheduler` | `TypeOK`, `SyncsNeverOverlap`, `OneWorkerIfSerial`, `ScheduledSyncKeepsService`, `PreferenceDurable` in every interleaving | 2 callers, 2 workers, 3 services | minutes |
| `scheduler_live` | `DisabledStops`, `EnabledTicks`, `SyncLockFreed` | 1 caller, 2 workers, 2 services | seconds |
| `account_sync` | `TypeOK`, `CoverageHonest`, `AuthComplete`, `IdleDisconnectSticks`, `WatermarkMonotone` | 2 accounts, 3 submissions in all with one sync thread beside the user, 1 submission of one account with both; windows of 1 and 2, pages of 1 | 990k states |
| `storage` | `TypeOK`, `ExportsFollow`, `AddedStored`, `TiersAgreeIfWhole`, `RowsOnlyImprove` | 2 threads, 1 id that an earlier account may own, 1 account, 1 imported submission | 271k states |
| `boundary` | `BoundaryTypeOK`, `PayloadDecrypts`, `RevokedGone`, `OutdatedOnlyAfterFallback`, `SettingsImplement`, `NoGhostUnlessReopened`, `CallsBounded`, `ImportedOnce` | below | 670k states |
| `derived` | `DerivedTypeOK`, `ConnectedViewsAgree`, `DisconnectedViewsExact`, `AnswersCurrent`, `VectorsUsable`, `SearchStaysInAccount`, `CountsAgree`, `StreaksAreRuns`, `NoneDueMissed`, `RevisionMonotone`, `RoadmapsSound`, `RecommendationsBest`, `InsightGrounded`, `UntriedIsNoStruggle` | below | 132k states |
| `two_workers`, `manual_sync_closed`, `disconnect_undone`, `fabricated_success`, `foreign_checkpoint`, `tiers_diverge` | one promise each that the code does not keep (section 5) | as small as shows it | violated |

`account_sync`, `boundary` and `derived` each hold several instances whose
components share nothing; a variable that never changes says which one a behaviour
belongs to, so their state spaces add up and do not multiply.

Why the bounds are enough.

*Scheduler.* Two callers and two workers give every pairwise race; the second worker is
the replacement of one that outlived a `stop()`; three services are the current one and
one per thread that may still hold another.

*Accounts.* Beside the user, a public sync has three submissions and windows of one or
two, the server's choice at every request: one that reaches past the watermark, one that
meets it, one that leaves a gap, and one smaller than the limit; two accounts let a copy
of one be saved over the other. For the full-history sync three pages let a pass be
interrupted in the middle and resume while a new submission shifts the offsets. With both
syncs at once one submission is enough, since the question is which copy of the
connection overwrites which; the user may disconnect but does not connect again, which
the other two instances cover.

*Storage.* Two threads give every overlap of two saves; one id and an earlier owner give
both keys a submission can have, and the imported submission is what makes the scoped
view differ from the aggregate.

*Boundary.* Vault: two threads, one account and the identifier without one, two secrets,
and two master keys in use at once (the race needs two); secrets are entered for the
account only, since the vault of the other identifier is one more instance of the same
steps. Settings: two writers, two
fields, three changes. Handles: two shared objects, one private one, two sessions, two
deletions (so that a handle can be one or two files behind). Client: `max_retries` asked
as -1, 2 and 9 against the limit of 5, delays of 0 and 100 against a cap of 10, two calls.
Importer: two threads, three submissions of two problems, one of which LeetCode has an id
for, a file of two problems and a file that holds one submission with and without its
id, four new ids. The `CONSTRAINT` stops following a behaviour once two imports have
overlapped, because nothing is promised from then on.

*Derived.* Two problems with four rows between them (two of one attempt) and a third that
is added by hand and never has a row, three topics, two accounts beside manual rows,
three days, two versions of a code, two processes. Days, samples, phase sizes and the
lengths at which lists are cut (7, 30 and 90 days; 6; 3, 5 and 14; queue 100, due 10,
struggles 5 to 20, timeline 14) are constants given small values, so that every boundary
is crossed within these bounds: with three problems the queue of two, the due list of
one, the struggles of one and the timeline of three are each cut in some states and whole
in others. `Within` limits each part to the share of the library it is sensitive to: the
memory to accepted rows of one problem; analytics to one account beside manual rows, and to
three rows of one owner or two rows; the learning parts to one account and two days. Code is replaced
on one row and only where a part looks at it (memory and collective insight).

`MaxRecord` bounds `Submit`; `CapOffset` stops the offset one past the last page, since
every later page is empty; `WindowLimit`, `PageSize`, `MaxSecrets`, `MaxChange`,
`MaxDeletes`, `MaxCalls`, `NewIds`, `MaxDay`, `MaxText` and `MaxStarts` are named where
they are declared. Deadlock is checked in every run but `boundary` and `derived`, whose
counters of secrets, calls and days run out.

**Fairness** (in `scheduler_live` only). `WF(CallerStep)` and `WF(WorkerStep)`:
the OS schedules every thread that can run, `join` and `wait` have timeouts, and
a sync ends because the client bounds every request (`CallsBounded`). `SF(Render)`:
somebody keeps the settings page rendering, which is where `ensure_running()` is called;
it is strong because another call of the same thread may come between two renders.
Nothing else begins a call unless a user wants it to. `DisabledStops` assumes
that lifecycle calls do not overlap from then on, `EnabledTicks` that the service
is not being retired for ever.

Every property of a passing run has a mutant in `PROJECT.json`: a plausible bug
in one definition under which TLC finds the property violated.

## 4. What is proved

The proof modules extend their specification and `TLAPS`, and use the constants'
assumptions only, which TLC evaluates in the runs: `SchedulerAssumption`,
`StoreAssumption`, `WindowAssumption`, `PageAssumption`, `StorageAssumption`,
`VaultAssumption`, `SettingsAssumption`, `HandlesAssumption`, `ClientAssumption`,
`ImporterAssumption`, `LibraryAssumption`, `ViewsAssumption`, `EngineAssumption`,
`AnalyticsAssumption`, `LearningAssumption`, `CollectiveAssumption`. They say that roles
and null values are distinct and bounds are naturals; and of data: problems, rows, topics,
patterns, ids and the published catalogue are finite sets (they are rows of a table, lines of a file, or
literals), there is at least one day, titles are ordered as numbers are and differ, the
published list has a slug and a title once (`problem_source.py` merges by them), and a
file's records are grouped by the problem of their title, an id being of one submission
and once in a group.

One theorem has a hypothesis of its own: `ImportsOnce` is about files whose records come
with their code (`CodeGiven`). Without it the property is false, and TLC finds why: a
submission imported without its code under LeetCode's id, and again with its code and
no id, is two rows with two hashes until a sync fetches the code of the first. The files
of `MCBoundary` have code too.

| Theorem | Property | Argument |
|---|---|---|
| `SchedulerProofs!TypeCorrect` | `TypeOK` | inductive as it stands |
| `SchedulerProofs!SyncMutualExclusion` | `SyncsNeverOverlap` | `LockInv`: with `SpawnerOwnsThread`, since `StartSpawn` moves another thread's `pc` and must not take it out of a sync |
| `SchedulerProofs!OneWorker` | `OneWorkerIfSerial` | `SerialInv`: at most one lifecycle call is in progress, so what it has read of `_thread` is still so, and a thread it found finished is the last one |
| `SchedulerProofs!ScheduledSyncSafe` | `ScheduledSyncKeepsService` | `ServiceInv`: the current service is open; `close` is reached only with every worker gone (`SerialInv`) |
| `SchedulerProofs!PreferenceSurvives` | `PreferenceDurable` | `PreferenceInv`: a payload about to be written is the preference in memory |
| `AccountSyncProofs!TypeCorrect` | `TypeOK` | `TypeInv`, with what a thread holds at each point (`ControlInv`, `WhoInv`) |
| `AccountSyncProofs!DisconnectStays` | `IdleDisconnectSticks` | `DisconnectInv`: after a quiet disconnect nobody holds a copy to save, and nobody can begin without a connection |
| `AccountSyncProofs!WatermarkNeverBack` | `WatermarkMonotone` | `TurnsInv`, `MarkInv`: the one thread at work knows a watermark at least as new as the file's |
| `AccountSyncProofs!CoverageIsHonest` | `CoverageHonest` | `CopiesHonest`: *every* copy of a connection is honest, not only the file's, and storage only grows (`StorageGrows`), so any stale copy may be saved at any time; `WindowHonest`: a window that dropped nothing is `Unbroken`, the newest part of some history, so a run that reports no gap joins it to what its copy promised, and one that does begins anew at its oldest record |
| `AccountSyncProofs!FullHistoryComplete` | `AuthComplete` | `PassInv` and `CheckpointsHonest`: of the submissions a pass began with, those the pages up to an offset have shown are stored; submissions pushed to higher offsets stay covered; a page that is not full is the last (`LastPage`) |
| `StorageProofs!TypeCorrect` | `TypeOK` | with `JobInv`: a thread that stores a submission does so under a key of its own account |
| `StorageProofs!ExportsAlwaysFollow` | `ExportsFollow` | `FollowInv`: what a thread is about to export (its aggregate after the upserts, the list it read) is stored, and `RowsStay`: no step takes a row away |
| `StorageProofs!RowsAlwaysImprove` | `RowsOnlyImprove` | `FreshInv`: while operations do not overlap, at most one is in progress and every row of its copy is as good as the stored one |
| `StorageProofs!AddedAlwaysStored` | `AddedStored` | `OwnInv`: a suffixed key is only ever its account's, so what `Resolve` returns is free or the account's; `AnswerInv`: at the point of answering the row is stored; `ImproveStep`: it stays |
| `StorageProofs!TiersAlwaysAgree` | `TiersAgreeIfWhole` | `ParityInv`: at each point of the one save in progress, which tiers already show its rows and which still show what was there (`Whole`); `ExistsInv`: exports show nothing of a problem that is not there |
| `VaultProofs!VaultTypeCorrect` | | with `TaskReady`: a thread that writes has a secret and a key |
| `VaultProofs!PayloadsDecrypt` | `PayloadDecrypts` | `KeysAgree`: unless the account's key was raced, every vault built for it holds the stored key, and so does every payload |
| `VaultProofs!RevokedStayGone` | `RevokedGone` | `SecretsFresh`: a secret in some thread's hand has never been kept and is nobody else's, so no later write can bring a doomed one back; `DeletedLate` |
| `VaultProofs!FoundIsLatest` | `OutdatedOnlyAfterFallback` | `OneHome`: until the keyring refuses once, nothing is or will be written to the file, and the keyring's secret is the last one kept |
| `BoundaryProofs!SettingsTypeCorrect` | | inductive as it stands |
| `BoundaryProofs!SettingsRefine` | `SettingsImplement` | `CallsAlone`: while calls take turns, the one thread at work has opened what it is about to write, and `Loaded` is as it was when it began; each step is then `Ask`, `Take`, `Fail`, a stutter, or, with the first overlap, `Overlap` |
| `MemoryProofs!EngineTypeCorrect` | | with at most one vector per document |
| `MemoryProofs!ViewsAgree` | `ConnectedViewsAgree` | from the types alone: each filter is unfolded to the account's rows |
| `MemoryProofs!DisconnectedExact` | `DisconnectedViewsExact` | from the types, by the three kinds of problem (local rows, a provider's, both); the accounts that have rows are a finite set, so that counting one of them means what it says |
| `MemoryProofs!AnswersAreCurrent` | `AnswersCurrent` | `CacheFresh`: a cache that nothing has moved under is empty or the account's documents |
| `MemoryProofs!SearchStays` | `SearchStaysInAccount` | `SearchOwn`: what a search has found so far is the account's, if the account is the one it began with |
| `MemoryProofs!VectorsStayUsable` | `VectorsUsable` | `IndexOwn`: since the forced rebuild every vector is of this process and of the account; an id whose hash is the document's therefore need not be made again |
| `BoundaryProofs!HandlesTypeCorrect` | | part of `HandlesInv` |
| `BoundaryProofs!NoGhosts` | `NoGhostUnlessReopened` | `HandlesInv`: until a session rebuilds beside a clear, the registered connection is open and on the file that is there (`RegisteredServes`), a cached service has one registered, and an object about to register holds such a connection; while clears run they retire one service, and it is no longer served once the file is deleted (`ClearsHold`, `ClearsAlone`) |
| `BoundaryProofs!ClientTypeCorrect` | | part of `ClientInv` |
| `BoundaryProofs!CallsAreBounded` | `CallsBounded` | `WithinRetries`: a call never passes the client's own `max_retries`, and each wait is at most the longer of the caps, the doubled backoff included (`DoublingExists`, `DelaysCapped`) |
| `BoundaryProofs!ImporterTypeCorrect` | | `ImportTyped`, with what is left of the file at each point |
| `BoundaryProofs!ImportsOnce` | `ImportedOnce` | `ImportInv`: no two imported rows, stored or to be added, have one hash, and the imported rows an import has read are stored unchanged; `IdsNamed`: a row under LeetCode's id is of the submission that has it; `AllKept`: of an import beside which nothing ran, the records compared are stored or in the group about to be |
| `BoundaryProofs!BoundaryImplementsAll` | | every step of the composition is a step of one component and a stutter of the others |
| `BoundaryProofs!BoundaryTypeCorrect` | `BoundaryTypeOK` | from the five type theorems |
| `DerivedProofs!DerivedImplementsParts` | | the same for the composition over the shared library |
| `DerivedProofs!DerivedTypeCorrect` | `DerivedTypeOK` | per component |
| `DerivedProofs!UntriedAreNotStruggles` | `UntriedIsNoStruggle` | every struggle, weak topic and weak pattern is traced to a row of the account (`StrugglesHaveRows`, `WeakArePractised`); in this part no problem is without a row (`NoneAddedAlone`) |
| `DerivedProofs!InsightIsGrounded` | `InsightGrounded` | per kind of finding: the references it cites are among those gathered or added, and there is one (`GroundedByKind`) |
| `DerivedProofs!NoneDueIsMissed` | `NoneDueMissed` | `NotAhead`: nothing is dated after today, so a cut-off in days is one in dates (`DueByDays`); `FirstsBounded`: a list cut at n that leaves something out has n members, none of them behind it, which is used for the queue and for the list cut from it |
| `DerivedProofs!RevisionIsMonotone` | `RevisionMonotone` | the score is a number of the rows plus one that grows with the days since the problem was kept |
| `DerivedProofs!StreaksAreFound` | `StreaksAreRuns` | `RunsFound`, `FirstMissingFound`: the loop over the sorted days ends at the least day missing below the newest, which is the run that ends today if today is active, and the runs are the maximal intervals |
| `DerivedProofs!CountsDoAgree` | `CountsAgree` | `SumOfParts`: the sum over groups of the sizes of disjoint parts is the size of their union, by which each pair of figures is one cardinality; for the lists, `FirstsBounded`, and `UnsolvedFirst`: the cut drops a solved problem before an unsolved one |
| `LearningProofs!RecommendationsAreBest` | `RecommendationsBest` | `PlacesDiffer`: places are a bijection, so the ranking lists all; `ChosenSoFar`, kept by every candidate looked at |
| `LearningProofs!RoadmapsAreSound` | `RoadmapsSound` | `PlanApart`: phases aim at disjoint patterns; `MilestonesSoFar`: the problems of a milestone are unsolved, within reach and in no earlier one; `NothingRepaired` |

A theorem about a component is Init, a step lemma with one step per action, and a QED
by temporal logic. One about what is computed of the library is a lemma about the operator
in every state of the right type, and its type theorem.

The statistics, streaks, recommendations and roadmaps are loops in the code and folds or
recursive functions in the modules. The induction they need is made over sets and
not over formulas: `Upwards` says that a set of numbers with 0 and, up to n, every
successor is all of `0..n` (a least number outside it would have a predecessor inside),
`FoldExists` and `SumExists` that a fold has the sequence of its intermediate values, and
the invariant of the loop then is the set of the steps at which it holds.

Only model-checked: the three liveness properties `DisabledStops`, `EnabledTicks` and
`SyncLockFreed` (fairness and `ENABLED` are out of the prover's reach); and the six
violated promises.

## 5. Where the code and its documentation disagree

Each of these is a run that TLC refutes; `PROJECT.json` quotes the lines.

* `two_workers`: `start()` releases the lifecycle lock before `thread.start()`,
  so a second caller finds a thread that is not alive yet and starts another. The
  module says there is only ever one. (`OneWorkerIfSerial` is what does hold.)
* `manual_sync_closed`: `stop()` without a worker closes the dedicated service
  although a manual sync is using it.
* `disconnect_undone`: a sync saves the connection it read at its start, so a
  disconnect made meanwhile is undone, and later ticks sync again.
* `fabricated_success`: a failed submission request is an empty list, which a
  sync reports as SUCCESS and an up-to-date window.
* `foreign_checkpoint`: a full-history run begun for one account resumes at the
  checkpoint of the account connected meanwhile and is reported complete.
* `tiers_diverge`: `add_note` and `add_attempt` save the view that leaves LeetCode
  submissions out, so the Markdown tree loses them although the composite storage
  says it maintains parity. No data is lost: DuckDB deletes no row, and the next
  sync's save writes the tree again (`TiersAgreeIfWhole` is what does hold).

`disconnect_undone`, `fabricated_success` and `foreign_checkpoint` are failures of
reporting and of what the user asked for, not of stored data: `CoverageHonest` and
`AuthComplete` hold beside them.

Other differences, met while modelling, are seen in the models and bound what the
properties can claim:

* `connectors/leetcode/sync.py:379-380`: without a baseline "no gap is claimed;
  `window_truncated` carries that signal". `window_truncated` compares the window with the
  limit *asked* (line 324), although the window is bounded by the server (lines 5-6, 318).
  A first run that is served fewer than it asked for reports `False`, advances the
  watermark, and what is older is neither stored nor reported then or later, against
  lines 18-19, by which submissions outside the window are detected. `CoverageHonest`
  therefore promises nothing below the first window (`NextFloor`).
* `connectors/leetcode/sync.py:374-376`: if the oldest visible record is newer than the
  newest persisted one, "records strictly between the two exist". They need not: a
  window that begins with the first submission after the watermark reports a gap as well
  (`GapDetected`). The floor is then raised although it need not be.
* `core/service.py:161-163`, `:272-273`: without an account, "LeetCode-sourced submissions
  are excluded". `get_problem` of a problem with none but those returns it whole
  (lines 291-292). And `list_problems` is to leave out problems with *only* such
  submissions (lines 191-194, 222-224), but leaves out those of both kinds as well (lines
  226-237), which `get_problem` and the memory show. `DisconnectedViewsExact` says which
  rows each read shows.
* `analytics/analytics_service.py:531`: the current streak is computed "backwards from
  'today'"; the code counts from the most recent active date (lines 573-580), so a run
  that ended long ago is still shown as current. (The front end's own sample data,
  `frontend/lib/mock/activity.ts:134`, has "the run touching today".) `StreaksAreRuns`
  asks for today's run when today is active.
* `analytics/analytics_service.py:614-618`: the timeline's docstring lists the kind
  'learned', "first note created on a problem", which the function never makes (`Events`).
* `learning/collective.py:423`: topics without exposure are "explicitly NOT weaknesses".
  Without an account and with no provider's rows stored, problems added by hand count as
  problems of their topic (`ScopedProblems`), so two that were never attempted make it a
  weakness "supported by multiple attempts" (lines 483-505). `UntriedIsNoStruggle` is about
  an account's rows, and `Learning` and `Collective` have no problem without a row.
* `core/settings.py:60` says "atomically"; two overlapping saves share one temporary
  name, so a half-written or foreign text can be renamed into place (`trusted` in
  `SettingsRegister`).
* `connectors/leetcode/vault.py:209-213`: `(None, None)` is to mean "not found". A
  keyring that refuses the read is swallowed, and without a file the answer is the same
  although credentials exist (`GetRefused`, then `OpenFile`).
* `storage/duckdb_repository.py:197-207`: `close()` is to keep a later instance off a
  deleted file. A session that builds its service between retirement and deletion still
  holds one (`reopened` in `NoGhostUnlessReopened`).
* `connectors/leetcode/client.py:24`: "On any failure `execute_query` returns `None`".
  Errors of `http.client` that are no `OSError` pass through (`Broken`). And `last_error` is
  never cleared, so a page answered without data names the failure of an older call
  (`authenticated_client.py:179`; `Answered`).
* `memory/service.py:92-96` and `:157-158`: without an account, LeetCode documents are to
  be left out. The cache may have been filled for an account, and a retriever without an
  account filters nothing (`Retrieved`); `AnswersCurrent` says when this cannot be.
* `learning/roadmap.py:643-644`: "every problem is a real, verified problem that you have
  not solved yet". A problem LeetCode lists under another slug comes back although it is
  solved, since titles are compared only with unsolved candidates (`Pool`); `RoadmapsSound`
  therefore speaks of keys.
* `learning/collective.py:751`: "supported by multiple independent submissions". One failed
  submission is counted for its status and again for the text of its analysis
  (`Mistakes`).
* `ingestion/importer.py`: a record whose id belongs to a row of another owner replaces
  the row and its owner (lines 166-175), where `add_submission` gives it a key of its own;
  a record without a timestamp gets the current time and is stored again by every import; a
  failed import run again finds duplicates and does not write the exports anew; an imported
  submission joins an accepted attempt, where `add_submission` begins a new one. TLC also
  shows that a sync which fetches a code after an import has read the problem can be undone
  by the import's save: the record is skipped by its hash and the stale row is saved. None
  of these is contradicted by a sentence of the documentation.

## 6. What is not modelled, and why

* **Mapper, parser, provider texts**: conversions of single fields, source heuristics,
  prompts and narrative texts are functions without state, which unit tests enumerate.
  Their outcomes enter the models as data (malformed entries in `SyncFetch`, `MistakesInText`).
* **External models and embeddings**: what a language model answers is arbitrary, and
  `Cited` is what the code does with it; similarity is floating-point arithmetic. The
  fallback from one provider to another and the evolution summary keep no state.
* **Statement-level DuckDB**: a save's upserts are one step under the DuckDB lock, with any
  prefix of them after a failure. Notes, languages, code files and the repair of empty
  hashes at opening have no properties beyond what they assign. `delete`,
  `save_submission` and `save_attempt` have no caller.
* **Two scheduler objects**: `autosync` is built lazily without a lock, so two threads can
  make two (a hazard in `PROJECT.json`). `Scheduler` is one object; what it shows holds of
  each, and what two concurrent syncs do to the data is `AccountSync` and `Storage`.
* **The stored gap summary**: a crash between the engine's save and the facade's loses the
  report of a gap, not data.
* **Overlapping saves beyond the exports**: `RowsOnlyImprove`, `AddedStored` and
  `TiersAgreeIfWhole` speak of operations that take turns. With overlaps the later upsert
  decides, and the code promises nothing else.
* **Problems without a row in `Learning` and `Collective`**: there a problem comes with its
  first row. One added by hand and never tried appears in figures without an account only;
  `Analytics` and the revision queue have it, and section 5 names the difference it makes.
* **Liveness of the account syncs**: that a pass ends needs LeetCode to answer and every
  record to be storable some day, which nothing in the code justifies. A record that fails
  every time does hold the checkpoint on its page for ever, as the code intends.
* **Command line, Streamlit layout, HTTP routing, desktop shell, front end, website,
  exporter**: callers and presentation of what is modelled, without state of their own.

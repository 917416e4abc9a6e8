# A TLA+ verification of ta-platform

ta-platform runs technical interviews: a candidate works in a browser
workspace, everything that happens is recorded as a numbered event of the
interview, and companies watch it live, replay it, search it, get it scored and
are billed for it. This directory holds TLA+ models of the parts of the Go and
TypeScript code that are hard to test (transactions that race, consumers that
crash, streams that reconnect), TLC configurations that check them on small
instances, and TLAPS proofs of the most important properties for every size.
`PROJECT.json` lists the components, the runs, the source lines behind every
definition and the hazards the properties are for.

## Inventory

Paths are below `src/`, and below `src/internal/` where they do not start with
`cmd`, `web`, `docs` or `api`.

| Component | State it keeps | Operations | Correct when |
| --- | --- | --- | --- |
| Event store (`store/postgres/{events,sessions,diffs,scores}.go`) | `interviews.last_sequence_number`, `purged_at`; invites, sessions, scores | `StartSession`, `RecordEvents`, `RecordDiff`, `SaveScore`, each one transaction that changes a row and records an event | every event has a number of its own, state and event commit together, nothing happens to a purged interview |
| Outbox (`outbox/`, `store/postgres/outbox.go`) | rows of `event_outbox` | `insertOutbox`, `Drain`, `Relay.Run` | every committed event reaches Kafka, each session's in order |
| Candidate workspace (`candidateworkspace/`, `cmd/candidate-api`) | none in memory; the Redis run lock; snapshots | start, prompt, diff, run | a prompt's completion keeps its number; one run per session at a time |
| AI gateway (`aigateway/`) | a cache of customers' keys (`byok/`), else none | `Complete`, `ResolveKey`, `Invalidate`, `Sweep` | a completion is emitted whatever its outcome; a rotated key is not used |
| Execution sandbox (`sandbox/`) | run slots, containers | `Execute`, `Reap` | slots are given back; containers do not outlive their run |
| Event log writer (`eventlogwriter/`) | batch, Kafka offset, ClickHouse rows | `Run` | nothing below the committed offset is missing |
| Event indexer (`eventindexer/`) | batch, Kafka offset, Typesense documents | `Run`, `upsert` | the same |
| Scoring (`scoring/`) | offset, attempt counter | `Consumer.Run`, `Service.Score` | an ended session is scored once, from all of its events |
| Live monitor (`livemonitor/`, `web/packages/api-client/src/company.ts`) | ring and channel in Redis; a handler per viewer; the client's last id | `Ingester.Run`, `Publish`, `Recent`, `Live`, `watchLive` | events are shown once, in order, with no avoidable gap |
| Housekeeper (`housekeeper/`, `store/postgres/housekeeper.go`) | `purged_at`, `purge_log` | `Candidates`, `Purge` | nothing is deleted before it is due or on legal hold, what is due is purged, and a purge is final |
| Admin API (`adminapi/`, `rbac/`, `store/postgres/admin.go`) | users, roles, interviews, invites, tasks, keys | CRUD with role checks | no request reads or changes another company's rows; only owners make owners |
| Billing (`billing/`, `store/postgres/billing.go`, `cmd/billing-close`) | drafts, invoices, credits | `Close`, `WriteDraft`, `IssueInvoice` | no credit is spent twice; an issued invoice does not change |
| Analytics (`analytics/`, `scoring/metrics/`, `dashboard/`) | materialized views in ClickHouse | `Migrate`, `EnsureViews`, `Compute`, the query views | a view counts every event once, also those before it was made; views and `Compute` agree |
| Replay, search (`replay/`, `search/`) | none | read-only queries | an interview is shown to its company only |
| Candidate web app (`web/`) | editor state, debounced diffs, the queue of posts | `DiffDebouncer`, `run`, `replayState` | replay shows what was written, by whom, and what ran |

How they interact: the candidate workspace calls the event store, which writes
Postgres; the relay in each candidate-api process moves outbox rows to the
`session-events` topic, keyed by session; the AI gateway writes a prompt's
completion to the same topic without the outbox. Four consumer groups read the
topic: the event log writer, the indexer, the scoring service and the live
monitor. Scoring reads ClickHouse, which the event log writer fills, and writes
Postgres. The Housekeeper deletes from Postgres, Typesense and ClickHouse while
all of the others run.

What is hard: numbers are allocated by concurrent transactions and one of them
is used only after a minute-long stream; outbox ids are drawn before the commit
that shows them; the relay's advisory lock goes away with its connection while
Kafka writes go on; transactions lock rows in opposite orders; every consumer is
at-least-once; scoring waits for another consumer; live viewers combine a lossy
channel, a bounded ring and a lagging history; a request acts on a role and on
rows read some statements ago; a backfill overlaps the inserts it must not
count twice; two chained streams can break at either end. The list, line by line, is
`hazards` in `PROJECT.json`.

## Modules

| Module | Models |
| --- | --- |
| `WorkspaceStore` | the event store, the outbox and its relays, the completion of a prompt, the Postgres part of a purge |
| `SessionStream` | the abstract promise of `WorkspaceStore` to a consumer |
| `WorkspaceStoreProofs` | the TLAPS proofs about `WorkspaceStore` |
| `SessionLog` | the Kafka topic as consumers see it; extended by the two below |
| `LiveMonitor` | ingester, ring, publish/subscribe, handler and client of each viewer |
| `EventPipeline` | event log writer, event indexer, scoring service, the external deletes of a purge |
| `KeyResolver` | the AI gateway's cache of one company's provider key |
| `KeyResolverProofs` | the TLAPS proofs about `KeyResolver` |
| `RunFlow` | a run of code: the session's lock in Redis, the two events, the execution sandbox and its containers |
| `RunFlowProofs` | the TLAPS proofs about `RunFlow` |
| `AdminApi` | the Admin API's requests, access control, the routes that show events, and the Housekeeper's runs |
| `Analytics` | the event log's views, their migration, the dashboard's view, and `metrics.Compute` |
| `Billing` | `billing-close`: pricing, credits, draft and issued invoices |
| `PromptStream` | a prompt streamed from the browser through the workspace and the AI gateway to the model and back |
| `WorkspaceEditor` | the candidate's editor, its debounced diffs, the diff endpoint and replay |
| `EventPipelineProofs`, `AdminApiProofs`, `LiveMonitorProofs` | the TLAPS proofs about the module each is named after |
| `CandidateProofs` | the TLAPS proofs about `PromptStream` and `WorkspaceEditor` |
| `UsageProofs` | the TLAPS proofs about `Analytics` and `Billing` |
| `MCWorkspaceStore`, `MCLiveMonitor`, `MCEventPipeline`, `MCKeyResolver`, `MCRunFlow`, `MCAdminApi`, `MCAnalytics`, `MCBilling`, `MCPromptStream`, `MCWorkspaceEditor` | constants and symmetries for TLC |

A definition `X_Y` is a faulty variant of `X` that stands before it (a dropped
guard, a missing lock, an early commit). No specification uses it; it records
which bug of the code would break a property. Each module's `TypeOK`
(`AnalyticsTypeOK`, `EditorTypeOK`) documents
its state and is what the proofs start from; the runs spend their properties
on more than types. The modules meet at these seams: `WorkspaceStore` provides the
stream `SessionLog` describes; `WorkspaceEditor`, `PromptStream` and `RunFlow`
record in one step what it does in a transaction; `Billing` reads the usage
`Analytics` counts.

### WorkspaceStore

Each action is one SQL statement under READ COMMITTED. `tx[t]` is the open
transaction of worker `t`: its program counter, the row locks it holds, the
numbers it was given and the id of its outbox row. Its writes become visible at
`Commit`, because nothing else can read them before. A blocked statement is an
action whose lock is not free; `NoRows` is a statement that finds no row, and the
`ErrNoRows` path of its caller; `Abort` is any other error before the commit;
`DeadlockAbort` is Postgres breaking a cycle.

| Code | Actions |
| --- | --- |
| `StartSession` | `ConsumeInvite`, `AllocateSequence`, `InsertOutbox`, `Commit` |
| `RecordEvents` (one event; a prompt with `promptEventCount` = 2) | `AllocateSequence`, `InsertOutbox`, `Commit` |
| `RecordDiff` | `AdvanceDiff`, `AllocateSequence`, `InsertOutbox`, `Commit` |
| `SaveScore` | `InsertScore`, `CheckForeignKeys`, `AllocateSequence`, `InsertOutbox`, `Commit` |
| `PromptService.Submit`, `Gateway.Complete` | `EmitCompletion`, `LoseCompletion` |
| `Purge` | `PurgeLock`, `DeleteExternal`, `PurgeRow`, `PurgeCommit` |
| `Drain`, `publish`, `Relay.Run` | `DrainBegin`, `Publish`, `DrainCommit`, `DrainFail`, `LockLost`, `DrainAbandon` |

A session is named by its invite. The lock tokens are those that matter between
these transactions: the rows of an interview, an invite and a session, the slot
of a score in its unique index, and the key-share locks of the foreign keys.
Assumed, not modelled: kafka-go writes the messages of one key in the order of the
batch (its splitting of batches by byte size included). Invites are there from the
start; the Admin API's `createInvite` is an action of `AdminApi`.

### LiveMonitor and SessionLog

`SessionLog` is the interface that `WorkspaceStore` provides: outbox events of a
session appear in order (theorem `LogsProvided`), completions at any time or
never, anything again. `LiveMonitor` consumes it. `Ingest` and `CommitOffset` are
the two halves of `Ingester.Run`; `Publish` is the Lua script; `Connect`,
`ReadOldest`, `ReadRecent`, `ReadHistory` are `Handler.Live` up to its loop, which
`Forward` is; `Receive` is `watchLive`. `Recent` is two actions because its two
commands are pipelined, not a transaction. An error of `Recent` ends the stream
(`Disconnect`), an error of the history does not (`HistoryFails`). Messages that
cannot be decoded are skipped by the code and are not produced here.

### EventPipeline

`Fetch`, `Flush`, `CommitOffsets` are the loop of either batching consumer, and
`ConsumerFails` every error return and crash, with what a failed write may have
left in the store. `rows` counts copies because ClickHouse keeps duplicates until
a merge. The scorer of a session is `Consumer.Run` and `Service.Score`: fetch,
does a score exist, progress, timeline, save, acknowledge, with the retry counter
of `ErrBehind`. A purge deletes in Typesense, then ClickHouse, then commits.
Each session has a scorer of its own here, while one process handles several
partitions in turn: this only adds interleavings. No code under `src/` emits
`session.submitted` or `session.expired` yet, so triggers are inputs. A payload
that cannot be parsed makes `Compute` give up on the trigger for good; events
are well formed here.

### KeyResolver

Each action is one critical section of `Resolver.mu` or one call of the secret
store; what a caller read in one and uses in the next is in its record
`call[c]`. A load, the entry made from it and the key both point to are one
element of `loads`, since the code compares entries by pointer. `Call`, `Lookup`,
`CheckVersion`, `Mark`, `EvictGone`, `EvictRotated` are `ResolveKey`; `Copy` is
`copyIfCurrent`; `Load`, `WaitEnds`, `Install`, `LoadFails` are `load`; `Fetch` and
`NoSecret` are `fetch`. The waiters' channel is closed with `Install` or
`LoadFails`: a waiter may in any case take its next step much later. `CallFails`
is an error of AWS or the end of the caller's context; when that caller makes the
load, its waiters get the error too. `Close` at shutdown does what `Invalidate`
does; a load in flight may still store its key, but the process exits.
`wants` and `alone` are history variables: the oldest version that counts as
current for the call, and whether it began while no load was under way.

### RunFlow

Each action is one call that leaves a process; a run, its lock token, its request
in the sandbox and its container share one name, the execution id.

| Code | Actions |
| --- | --- |
| `Locker.Acquire` and the release it returns | `Acquire`, `Refuse`, `AcquireFails`, `Release`, `LockExpires` |
| `RunService.Run` | `PutSnapshot`, `RecordRequested`, `Send`, `SendFails`, `CallReturns`, `CallBreaks`, `RecordCompleted`, `Deadline`, `RunDies` |
| `Service.Execute` | `TakeSlot`, `LoadSnapshot`, `LoadFails`, `Return` |
| `ContainerRunner.Run` | `Created`, `CreateFails`, `Start`, `AttachEnds`, `TimedOut`, `Kill`, `KillFails`, `Stopped`, `Inspect`, `Remove` |
| `Reap`, the process | `SandboxDies`, `ReapList`, `ReapRemove` |
| the container engine (external) | `EngineCreates`, `Exit` |

`expired` and `late` of a run say that the lock's TTL and the context of the same
length have ended; the context begins after the lock was set, so it ends later.
After it every call of the run fails, the release included. `lost` says that
recording an event returned an error, before or after the commit. The engine
outlives the sandbox: a container whose client is gone is still created, and goes
on running until it is removed. `strays` are containers whose `rm --force` failed;
nothing but the next `Reap` looks for them. The
statuses succeeded, failed and oom_killed are one, `"ended"`: the code reads them
from the exited container. Events are recorded here in one step each: their
transactions are those of `WorkspaceStore`.

### AdminApi

A request is `Resolve`, which reads the member's role once, and then its handler:
one action for each statement that reads what a later one uses (`UpdateUserReads`,
`UpdateUser`; `DeleteUserReads`, `DeleteUser`; `ListScoresReads`, `ListScores`), one
action for a handler with a single statement. `May` is `rbac.Require` and `policy`,
`InCompany` the `company_id = $1` of every query. `BadRequest` and `StoreError` are
the early returns. `Live`, `Timeline`, `Dashboard` and `ReplayTimeline` are the four
ways to an interview's events, with the policy each of them consults. `leaked`
collects rows that a request of another company was shown. A Housekeeper lists
(`Candidates`, oldest first, at most `BatchSize`), locks and checks again
(`LockCandidate`), deletes in Typesense and ClickHouse (`DeleteExternal`), leaves
the skeleton (`Purge`), or fails anywhere (`PurgeFails`). The interviews of `Failing`
are those whose delete Typesense refuses every time (`DeleteRefused`): a failure that
no retry cures. Nothing in the repository sets a legal hold or proposes a score; both
are inputs.

### Analytics

The events of one interview. `Insert` is an insert of the Event Log Writer into
`events`, which every existing view copies; the insert and its copies are one step,
though ClickHouse writes them one after the other. `TableExists`, `CreateView`,
`BackfillSelect`, `BackfillInsert`, `SkipView` are `Migrate` view by view, beside
another replica that goes on inserting; `MigrateFails` is an error or a crash.
`EnsureViews` makes the dashboard's view, which is not backfilled. `PurgeEvents`,
`PurgeRows`, `PurgeActivity` are the Housekeeper's three deletes. A row is present in
as many copies as were inserted, because both table engines deduplicate only when
they merge: `Final` is what a `FINAL` read makes of it. `Compute` translates
`metrics.Compute` over a timeline in any order; `SessionMetrics`, `BillingUsage`,
`TaskDaily`, `Funnel` and `Summary` are what the query views and the dashboard
return. `lost` and `filled` are history: what a purge took before a view copied
it, and which views were backfilled.

### Billing

A `billing-close` job reads the usage of a month (`ReadUsage`), lists the companies
and writes each draft in a transaction: `LockCredits`, `InsertInvoice`,
`LockInvoice`, `ComputeCredits`, `WriteLines`. A company whose price table is broken
fails alone. `Price`, `perMillionCeil`, `ApplyCredits`, `sortCredits` and `Total` are
the pure part, computed and not abstracted. `IssueInvoice`, the granting of credits,
the voiding of invoices and the growth of usage happen at any time.

### PromptStream

`ws[p]` is `submitPrompt` with `PromptService.Submit` and `HTTPGateway.Complete`,
`gw[p]` the gateway's `complete` with `Gateway.Complete`; `up` is the event stream
between them. A cancelled request context ends what waits for it: `Return` closes
the call to the gateway, `StreamEnds` then yields `cancelled`, and `Emit` runs on a
context of its own. `EmitFails` is the write that fails after its timeout; the
candidate is told `done` all the same. `StreamBreaks` is the connection between
workspace and gateway that breaks while both live: some of what was sent still
arrives, and either end sees its stream fail.

### WorkspaceEditor

`ed` is the page's `DiffDebouncer`: posted and current text per file, timers and the
promise chain `queue`. `Edit`, `ApplyAI`, `SwitchLanguage`, `RunClicked`, `Reload` are
what a candidate does; `TimerFires`, `Post`, `Posted`, `RunCode` what the page does by
itself; `SubmitDiff`, `SubmitFails` the endpoint, with validation, the order check and
`RecordDiff`. A post leaves the page and reaches the workspace in separate steps:
`wire` holds the requests that the workspace has not handled, `answer` what the page
knows of the one it waits for. `PostFails` is a fetch that is rejected while its request
is still on its way. The page then sends the next one, and the workspace handles both in
either order (`GivenUp` are the requests nobody waits for): the older one is recorded
late, fails, or is overtaken and dropped (`OutOfOrder`). Texts are short sequences of
lines: `structuredPatch`, which `makePatch` calls, and `applyPatch` stand for the jsdiff
library on texts whose changes fit in one hunk with its three lines of context, and say
nothing of how it splits longer ones.
`Replayed` is `replayState`. `strayed` is history: files of which an edit was lost
(a post that failed, was refused or was overtaken, a reset when the language is switched
back, a reload). A run is `unsettled` when its file has strayed, or when a post of the
file that was given up was still on the wire as the run was recorded.

## Runs

All runs pass; each takes less than three minutes with two workers.

| Run | Bounds | Shows |
| --- | --- | --- |
| `store` | 3 workers, 2 sessions, 5 transactions, 1 failure | numbers are unique, rows match events, an invite and a score happen once, diffs are in order, a purge is final |
| `relay` | 2 workers, 2 relays, 1 session, 3 transactions, batches of 2, 1 failure | nothing is lost, order per session, refinement of `SessionStream`; transactions end, events reach Kafka |
| `live` | 3 events of a session, one a completion, ring and buffer of 2, 2 faults, 1 loss, 1 expiry | what a handler sends is in order and above all its client was shown, over reconnections too; what is skipped was gone from the ring, what stays in the ring is shown |
| `pipeline` | writer, indexer and scorer, 2 events, one a completion, batches of 2, 2 attempts, 1 fault, a purge | no offset is committed ahead of the store, events are stored, a complete score saw the whole session, ended sessions are scored |
| `key_cache` | 2 callers, 3 calls, 2 versions, TTL of 1 and time up to 1, 1 fault | no caller gets a zeroed key, only the entry is live, a call that began alone gets a current version, calls return, expired keys are zeroed |
| `run` | 2 runs of a session, 1 slot, 1 fault | a run keeps its lock until it expires, slots are given back, no program is orphaned, programs end, a requested execution is completed |
| `tenants` | 2 companies, one with an owner, an admin, a member to come and an interview, the other with a recruiter and a task; 2 requests at a time, roles owner and admin, a policy | no request reads or changes another company's rows, references stay within a company, only an owner's request makes an owner |
| `interviews` | 3 interviews in 2 companies, 1 request at a time, 1 Housekeeper with batches of 2, retention of 1, time up to 2, 2 interviews whose delete always fails, 1 other fault or hold | only what is due and not on hold is deleted; what stays due is purged although others always fail, unless a whole batch of those was due before it |
| `views` | 3 events (a failed managed completion, a run, an applied suggestion) in 2 months, 4 views and the dashboard's, 1 redelivery, 1 failed migration, a purge | the metrics view equals `Compute`, the dashboard shows no less, usage, tasks and funnel count each event once |
| `billing` | 2 closes, 2 months, 2 companies, one with a broken plan, 2 credits, usage that grows once, 1 fault | no credit is overspent, an issued invoice does not change, closes end |
| `prompt` | 1 prompt, 3 deltas, 3 faults | who is told how an answer ended was shown what is recorded, calls are recorded, candidates are answered |
| `editor` | 2 files, 3 texts, 4 inputs, 1 post that fails, early or late, or 1 reload | diffs have their true origin, a run's code is in the log, replay ends up with the editor's text |

Why the bounds are enough: two workers (three with a purge) are needed for every
race between two transactions and for a cycle of locks; two relays with batches
of two make a batch that is half sent, resent after newer events and sent by two
relays at once; a ring and a buffer of two are full after one event too many; two
sessions are needed for numbers that interleave (`store`). Two callers with
three calls are one that found an entry and one that replaces it, or one that loads
and one that waits (the proofs cover any number); two versions are an old and a new key.
Two runs and one slot are one that holds the lock or the slot and one that wants it,
and a lock that is released late meets the lock of the other run. Two requests are
the least for a role or a row that changes between a handler's two statements; in
`tenants` an admin meets owners, another admin and a free user id in every handler that
writes a role. Of three interviews two are always refused: when they were due after the
third, batches of two must list it first; when one was due before it, it must have the
other place; when both were, nothing is left for it (`Starved`).
Of a session, `views` needs an event of each kind of sum: counts that a status
divides, tokens, and lines; one is in another month, and one carries an earlier time
than the event before it. Prompts are independent of each other, so one is enough. Four
inputs are a burst of typing, a suggestion, a run and typing while it waits; one failed
post is enough for two on the wire, in either order. Failures are counted,
not timed, so a bound of one or two places one failure anywhere. Deadlock
checking is off because every model stops when its requests, events and faults
are used up; that waiting is always resolved is `TransactionsEnd` and `ClosesEnd`.
Workers are interchangeable in `store`, requests in `tenants`; runs with liveness use
no symmetry. `SkippedIsGone` and
`PublishedIsShown` say nothing once the ring has expired: a resent event can then
re-enter it behind the viewer. They also leave out an event that is `Late`, which
the handler drops (see the observations), and speak of interviews with one session.

Fairness. `WorkspaceStore`: strong fairness of a transaction's statements, since
Postgres grants a lock to a waiter when it is released (a lock can be taken and
released again and again in between), weak fairness of deadlock detection
(`deadlock_timeout`) and of the relay's polling loop. `LiveMonitor`: the ingester
is restarted, the client reconnects for ever, a handler serves. `EventPipeline`:
consumers are restarted by Kubernetes, and a purge that has begun goes on.
`KeyResolver`: a caller goes on, and `Run` sweeps for ever. `RunFlow`: calls
return, with success or because their context ended (weak fairness of the steps
that need no fault), time passes, the engine creates what it was asked to, the
sandbox is restarted and reaps; a program need not end by itself. `AdminApi`: the
Housekeeper is a CronJob that runs again and again, and its calls return; members
need do nothing. `Billing`: a job's statements return. `PromptStream`: calls return and
the provider's stream ends, if only by a timeout; deltas need not come.
`WorkspaceEditor`: timers fire, and a request is sent and answered. No
fairness makes a request arrive, an event happen or a failure occur, and failures
are finitely many, but for the deletes of `Failing` in `interviews`, which never
succeed.

## Observations

Where the code does less than a comment, a document or a reader may expect. No
run states what follows; the properties say what does hold instead.

* The live handler skips an event at or below the last one it sent, so a completion
  that reaches Kafka after a later event is never shown to that viewer
  (`livemonitor/http.go:201`), although `company.ts:201-202` promises every event
  exactly once. `SkippedIsGone` and `PublishedIsShown` exclude it by `Late`.
* The writer and the indexer do not know of purges: one that lags writes an
  interview's events after `purged_at`, and nothing deletes them, although
  `admin.go:99-100` says that a purged interview has nothing left to watch or
  replay. The Admin API's own routes refuse a purged interview.
* A completion that begins after a key's rotation may wait for a load that read the
  secret before it (`resolver.go:160`), although `resolver.go:39-40` says that with
  `VersionCheck` zero the very next completion picks a rotation up.
  `CurrentWhenAlone` is what holds.
* When `start` fails before the engine starts the container, the runner inspects a
  container that never ran, whose exit code is 0, and reports `succeeded`
  (`container.go:165`), although `session-events.yaml:142` says that `exit_code` is -1
  when the program never ran.
* "One interview's failure does not stop the others; it is reported and retried on the
  next run" (`housekeeper.go:112-113`) holds within a batch only: every run lists the
  oldest `BatchSize` candidates (`store/postgres/housekeeper.go:34`), failed ones included
  and without backoff, so as many lasting failures as a batch holds keep every later
  interview from being purged. `DueIsPurged` excludes it by `Starved`.
* Two owners who demote or remove each other at the same time both succeed and leave
  a company without anyone who may manage members, although `http.go:251-252` says
  that a company is never left without the member who is managing it. An admin's
  change can also meet a member who has just become an owner, since the target's role
  is read by an earlier statement. `OwnersFromOwners` is what holds.
* Any interview status may follow any other; `terminal_at` keeps the first end. A
  name changed, or a candidate invited, after a purge puts personal data back. Tasks
  survive a purge. A purge that failed after its external deletes leaves an interview
  that may then be put on hold with its events gone.
* The analytics service's timeline (`cmd/analytics-service/main.go:45`) asks only for
  a member's session: it consults neither the `replay` policy nor a role.
* A `Migrate` that dies between creating a view and its backfill is never made up
  for: the next one finds the view. A backfill that has read the log before a purge
  and inserts after it brings the interview's metric rows back.
* The first credit of a company that is granted while two closes run can be spent by
  both, since there was no row to lock (`billing.go:51-54`). A close that read its
  usage earlier may overwrite the draft of one that read it later.
* The page goes on after a rejected fetch, whatever became of the request
  (`diffs.ts:120-124`): the next post can be recorded before it, and the late one is then
  dropped (`candidateworkspace/diff.go:81`), although `diffs.ts:40-41` says that the
  workspace never has to drop one of the page's as out of order. A run can also be
  recorded before such a late post, and its code is not in the log by then. `strayed`
  marks the file in the first case, `unsettled` the run in the second.
* A page reload starts `clientSeq` at 1 again, so the posts of the new page are
  dropped as out of order until they pass the old count. Switching back to a language
  tracks the starter text again although the log has edits of that file. A post that
  fails is not repeated, so later patches of the file may not apply and the run that
  follows is not "the code that ran" (`Workspace.tsx:53`). `strayed` marks these files.
* The publish script trims before it publishes, so an event older than a full ring is
  fanned out though the ring does not hold it, which its comment
  (`redisbus.go:41-43`) excludes.
* A purge that fails between its ClickHouse delete and its commit leaves an interview
  that can still be scored from what is left, and a score read across it is marked
  complete (`CompleteIsWhole` excludes it by name). A lost completion leaves a hole for
  ever, so every later session of that interview is scored at the last attempt only
  and is marked incomplete.
* A run whose connection to the sandbox breaks is completed and gives up its lock
  before the sandbox has killed its program, so two programs of a session may run for
  a moment. A container whose creation was cut off may appear after its removal and
  after `Reap`; it stays, but never runs.

## Proofs

`WorkspaceStoreProofs` proves, for any interviews, invites, workers, relays,
batch size and bounds, from the `ASSUME`s of `WorkspaceStore` alone:

| Theorem | States |
| --- | --- |
| `Invariant` | `IInv` always holds |
| `TypeCorrect` | `TypeOK` |
| `NumbersUnique` | `SequenceUnique` |
| `NothingLost` | `SequenceAccounted` |
| `DeliveryOrder` | `DeliveredInOrder` |
| `PurgeFinal` | `NothingAfterPurge` |
| `RowsMatchEvents` | `StateMatchesEvents` |
| `Refinement` | the store implements `SessionStream` |
| `LogsProvided` | every step lets the session logs grow as `SessionLog` does (`FeedsLogs`) |

The argument. Uniqueness and order are not inductive: a commit adds an event with
a number that was read two statements earlier. `LockInv` says that a transaction
between its allocation and its commit is alone on the interview's row, so
(`TxInv`) its number still follows the last committed one and its outbox id still
exceeds every recorded id of the interview. Hence (`EventInv`) ids and numbers
order the events of an interview in the same way, and a reserved number belongs
to its completion alone. A relay's batch is the first rows by id; by `EventInv`
it is closed downwards within each session, up to what Kafka already has
(`RelayInv`), so publishing in id order keeps `DeliveredInOrder`, whether or not
the relay still has its lock. `SequenceAccounted` follows since rows leave the
outbox only after they were sent. There is one lemma per action, most of them
instances of frame lemmas for steps that leave the recorded events alone. The
refinement maps a commit to `Record`, the first copy of an event to `Deliver` or
`Complete`, and every other step to a stutter.

`StateMatchesEvents` compares rows with events and needs the row locks as well
(`StateInv`): what a transaction's first statement found (an open invite, an older
diff, no score yet) is still so when it commits (`GuardOK`), because no other worker
can hold that row, and no score's foreign key points into a purge (`RowLockInv`).

`LogsProvided` is what the proofs about `LiveMonitor` and `EventPipeline` take from the
store. `SessionLog` fixes the events of an interview in advance and lets an outbox event
be appended once its predecessors in the session are there. The store invents its
events as it goes, so the theorem has two halves: an event is appended after all of its
recorded predecessors, and none is recorded later, since a new event is numbered after
every event of its interview.

`KeyResolverProofs` proves, for any number of callers, any TTL and any bounds:

| Theorem | States |
| --- | --- |
| `CacheCorrect` | `CacheInv` always holds |
| `TypeCorrect` | `TypeOK` |
| `KeysUsable` | `NoEmptyKey` |
| `EvictedIsZeroed` | `OnlyEntryIsLive` |
| `SingleFlight` | `OneFetch` |
| `FreshKeys` | `CurrentWhenAlone`, if `VersionCheck` = 0 |

`OneFetch` and `OnlyEntryIsLive` need `LoadInv`: the running load is the pending
one and belongs to whoever fetches, so an entry is never a load that is still
running. `FreshKeys` needs two more parts. `TimeInv`: no recorded time lies in the
future, and the secret is never older than what a call in progress wants.
`AloneInv`: whatever a call that began alone may still come to copy (the pending
load, the entry that replaced the one it found, the load it waits for, an entry
that another caller is about to mark as checked) is fresh for it. The lemmas
`Passive`, `OthersKeep` and `LoadersKeep` carry it over the steps of other callers.

`RunFlowProofs` proves, for any sessions, any finite set of runs and any number of
slots and faults:

| Theorem | States |
| --- | --- |
| `RunFlowCorrect` | `RunInv` always holds |
| `TypeCorrect` | `TypeOK`, and so `used` is at most `Slots` |
| `LockHeld` | `OneRunPerSession` |
| `MutualExclusion` | two active runs of a session whose locks have not expired are the same run |
| `SlotsBalanced` | `SlotsExact` |
| `OrphanFree` | `NoOrphans` |
| `RecordsAreTrue` | `RecordsTrue` |

`RunInv` is `TypeOK`, `OneRunPerSession`, `SlotsExact` and `BoxInv`. A returned slot
leaves `used` at 0 or more only because `used` counts the handlers, of which the
returning one is one. `NoOrphans` says nothing of a sandbox that is down and is not
inductive: `BoxInv` adds that a running container has a handler that has yet to
remove it, or is a stray, or awaits `Reap`, in whose list it already is once that
was made; and that a run which has not yet called the sandbox has neither request nor
container, so no second request meets the first one's container. `ApiFrame` carries
the invariant over the steps of the candidate API. `RecordsTrue` needs `RecordsInv`
besides: which events are recorded follows from where a run is, and once the sandbox has
answered with an end its request has left the sandbox, so nothing starts that container
again; that it does not run any more is `BoxInv`. A kill that fails and then an inspect
that fails make the sandbox call a program timed out that still runs; the removal before
the answer ends it. That takes two faults, which the `run` run leaves out and the proof
covers.

`CandidateProofs` proves about `PromptStream`, for any prompts, deltas and faults:

| Theorem | States |
| --- | --- |
| `PromptInvariant` | `TypeOK` and `PromptInv` of every prompt always hold |
| `TypeCorrect` | `TypeOK` |
| `Agreement` | `ToldIsRecorded` |

What a candidate is told crosses two streams, and each can break at either end.
`PromptInv` follows the text along them: a prompt that has not reached the gateway
has no answer; a record is the gateway's final answer; a status stands only at the
end of the stream and only after the write was tried; what is shown and what is on
its way together are a part of the text, and all of it as long as the candidate is there
and the stream is unbroken or already carries its end. A connection that breaks cuts off
the tail of what is on its way, the status with it (`CutStream`). When the status arrives
nothing is on its way, so what is shown is the text.

About `WorkspaceEditor` it proves, for any files, texts, inputs and losses:

| Theorem | States |
| --- | --- |
| `EditorTyped` | `EditorTypeOK` |
| `OriginsHold` | `OriginsTrue` |
| `RunsAreShown` | `RunsShown` |
| `EditorFollows` | the log and then all that is on the wire or queued give the editor's text, and the log alone does once nothing is on its way (`LogCatchesUp`), the safety half of `EditorIsLogged` |

The patch of two texts is one hunk: what they begin with as context, then the rest of the
old lines, removed, then the rest of the new ones, added. Its old side reads as the first
text and its new side as the second (`HunkReads`, `PatchReads`), so it applies to the text
it was made from (`PatchesApply`): a lemma about the two stand-ins for jsdiff, on which the
theorems rest, and no result about the library. `RunsShown` speaks of what replay shows now of
a run in the past; it follows from an invariant over all that is between the editor and the
log (`EInv`). What was typed since the last diff waits for the one timer of the open file
(`EdInv`), so an applied suggestion, which flushes first, carries no keystrokes. All that
the workspace has still to handle (`Pend`) is what the page has given up, then what it
waits for, then the queue; numbers rise along it, and only a request that was given up may
be at or below the last one recorded, that is, overtaken (`WireInv`). Files of which no edit is
lost and no request was overtaken are `Intact`. For these the log and then all that is
pending replay to the posted text (`TextInv`): a late request of an intact file is recorded
before every newer one, or it would have been overtaken. The code of a
run that waits for the queue is in the log, or a text that replay will reach when the
requests queued before the run are in (`RunInv`); once the queue is through, only what was
given up can still be pending, and a run with such a request of its file is `unsettled`.
`NoTextAssumption` says that the value which stands for a patch that does not apply is not
a text.

`EventPipelineProofs` proves, for any sessions and events, any batch size, attempts and
faults, and with or without the indexer:

| Theorem | States |
| --- | --- |
| `PipelineInvariant` | its `IInv` always holds |
| `TypeCorrect` | `TypeOK` |
| `NothingLost` | `CommittedIsStored` |
| `ScoresWhole` | `CompleteIsWhole` |
| `TriggersKept` | `AckedIsScored` |

`BatchHeld` closes the gap between a flush and the commit of its offsets: once a batch
is written all that was read is in the store. `ScoreInv` does the same for the three
queries of a score: a complete progress was read from a log that held every number up
to the trigger, and rows leave the log only by a purge, which `erased` remembers;
`LogKeyed` says that the trigger is an event of the session being scored. `AckInv` is the
last step before an acknowledgement: the session has its score, or its interview is gone.

`AdminApiProofs` proves, for any companies, members, interviews, tasks, requests at a
time and Housekeepers:

| Theorem | States |
| --- | --- |
| `ApiInvariant` | its `IInv` always holds |
| `TypeCorrect` | `TypeOK` |
| `TenantsIsolated` | `TenantIsolation` |
| `OwnersOnlyFromOwners` | `OwnersFromOwners` |
| `PurgesAreDue` | `PurgeIsDue` |

Each action of a request is shown to move no other request, to change no row of another
company, to make an owner only for an owner, and to delete nothing of an interview; the
theorems combine these. The second statement of a handler relies on what
`RequestInv` keeps from the first: only a request that was resolved with the role of an
owner is about to make one, and the row it has read and goes on to use is its own
company's (`InCompany`). A purge deletes some statements after its check, so
`RunInv` says that the interview it holds stays eligible and is held by no other
Housekeeper; `Unborn` says that a row which is not there yet has nothing to delete.

`UsageProofs` proves about `Billing`, for any companies, months, credits, price tables and
jobs at a time:

| Theorem | States |
| --- | --- |
| `OneCloseAtATime` | `InvoiceHeld` always holds |
| `IssuedStands` | `IssuedUnchanged` |
| `BillingTyped` | `TypeOK` |
| `CreditsSuffice` | `CreditsNotOverspent` |

and about `Analytics`, for any finite set of events with distinct numbers, any order of
views, redeliveries and restarts:

| Theorem | States |
| --- | --- |
| `AnalyticsTyped` | `AnalyticsTypeOK` |
| `CountedOnce` | `EventsCountedOnce` |
| `MetricsAgree` | `MetricsMirror` |

A close looks at the status of an invoice and writes it two statements later.
`InvoiceHeld` says that the row is its own in between, so the draft it found is still a
draft. Amounts need more (`CInv`): a job at work on a company holds the rows of the credits
the company had from the start, and no two jobs hold a row in common (`Locking`), so two
jobs of such a company never overlap (`LockedAlone`); hence what a job computed of a credit
and what the other months have taken of it fit into its amount until the lines are written
(`Fitting`). `CreditsPay` says what the loop of `ApplyCredits` pays: no more than a credit
has left, and in total no more than the charges.

A view and its backfill overlap with inserts and with a purge. `ViewInv` and `MigInv` follow
an event: before a view is created the log has it, in between it is in the view or still to
be copied, once the view is filled it is there, but for what a purge took first. For
`MetricsMirror` both sides are shown to equal one tally of a set of events: the view because
`FINAL` counts an event once, `Compute` because its loop adds each event of the timeline
once in whatever order it comes (`LoopCounts`, `ComputeTallies`), and its sort makes first,
last and latest the least and the greatest of a set.

Induction. The library's induction theorems take an operator and cannot be used; these
proofs use sets instead. A set of naturals has a least member (from `WFMin`), so a set that
holds 0 and every successor holds all (`Induction`); a recursive function exists because
the bounds up to which one exists form such a set (`Recursion`, `KeptExists`,
`TextsExist`). A sum over a set is the number of its units (`SumIsUnits`), pairs of a
summand and a count, so that facts about sums become facts about cardinalities.

`LiveMonitorProofs` proves, for any sessions and events, any viewers, capacity of the
ring and of a channel, and any losses, expiries and faults:

| Theorem | States |
| --- | --- |
| `TypeCorrect` | `TypeOK` |
| `OrderKept` | `ShownInOrder` and `OrderInv` |
| `NothingAvoidablySkipped` | `SkippedIsGone`, in an interview with one session |

Order: a handler sends only what is above `lastSent`, and a client that reconnects asks
from the last event it has shown, so (`OrderInv`) client and wire are in order and
`lastSent` is their greatest number. Catch-up and repair send a set in ascending order;
that `Ascending` lists a set completely and in order is proved from ranks and the
pigeonhole theorem. Gaps: an event that is not late precedes the later ones in the log,
so the ingester published it before any later event that could overtake it
(`SourceInv`). What was published is in the ring, or is older than all of a full ring
and so can never enter it again (`RingInv`). Hence what a handler has passed over, or
will pass over once it sends the catch-up it has read, is gone (`SkipInv`). With two
sessions the last step fails: sessions are ingested independently, so a number of one
may enter the ring after a later number of the other.

Every invariant and action property of the runs is a theorem, `CurrentWhenAlone` and
`SkippedIsGone` under the hypothesis their tables name. Only model-checked is
liveness, since fairness and `ENABLED` are outside the prover's reach: `TransactionsEnd`,
`EventsReachKafka`, `PublishedIsShown`, `EventsReachStores`, `TriggersAreScored`,
`CallsReturn`, `ExpiredIsZeroed`, `ProgramsEnd`, `RequestedIsCompleted`, `DueIsPurged`,
`ClosesEnd`, `CallsRecorded`, `PromptsAnswered` and `EditorIsLogged`. Of several the part
that is safety is proved, as an invariant of a run or, for the last three, as a theorem
alone: an event that is not in Kafka is in the outbox (`SequenceAccounted`), one that is
not in a store is not committed (`CommittedIsStored`), a trigger without a score is not
acknowledged (`AckedIsScored`), a run that returned has recorded its end (`RecordsTrue`),
the log and what is on its way give the editor's text (`EditorFollows`).

## Plan

What is left: the migration runner, `migrations.go` (replicas that start together, a file
that fails, an advisory lock that goes with its connection).

## Not modelled, and why

Generated API code, configuration, telemetry, HTTP plumbing and the stub services
keep no state. Search is a read-only query. Encryption of customers' keys is
cryptography. Authentication is modelled only as "the session was found, perhaps some
time ago". The migration runner is in the plan; the constraints its files install are
in the modules that rely on them. The AI recommendation of a score never fails the
score. Messages that cannot be decoded are skipped by every consumer, and nothing in
the repository writes one. `MemoryBus` serves tests. The job and candidate events of
the catalogue have no producer. The demo data are fixed inserts.

# Verification of the travel-agent backend

This directory holds TLA+ models of the backend, TLC configurations that check
them on small instances, and TLAPS proofs of the properties that matter most
for every value of the constants. All definitions are translated from the code
under `src/`; `PROJECT.json` maps each of them to its source lines.

## 1. The system

The backend plans trips for a web client. A request becomes a *task* in a
database queue; *workers* claim tasks under a lease and run the
*orchestrator*, a deterministic loop that calls map, weather and LLM tools,
repairs and optimises the plan, and checkpoints an *AgentState* after every
step. Clients follow a task by polling or by a server-sent event stream, may
cancel it, delete the session, edit a draft of the finished plan, and publish
it to a shared, searchable collection.

| Component | State it keeps | Operations | Interacts with | Module |
|---|---|---|---|---|
| Task queue store (`task_runtime/store.py`, `persistence/mysql_trip_task_store.py`) | `trip_planning_tasks`, `trip_task_events` | create, claim, heartbeat, record_progress, request_cancel, mark_* | workers and clients through row-locked transactions | `TripTaskStore`, `TaskLifecycle` |
| Task worker and context (`task_runtime/worker.py`, `context.py`) | the execution thread, its heartbeat thread | claim loop, checks, settle | store, orchestrator, notification bus | `TripTaskWorker` |
| AgentState stores (`mysql_agent_state_store.py`, `memory/sqlite_store.py`) | one row per session, the latest checkpoint | save, load, delete (with tasks and events) | orchestrator, worker, HTTP API | `TripTaskWorker` |
| Orchestrator (`agent_runtime/orchestrator.py`, `state.py`, `convergence.py`) | the AgentState: plan, routes, reports, baselines, fingerprints, budgets | decide, one action per turn, local batches, checkpoint, resume | tools, optimizers, validator, stores | `PlanningLoop` |
| Circuit breaker (`execution_policy.py`, `tools/registry.py`) | one entry per tool, shared by all sessions | before_call, record_result, retry | orchestrator, provider tools | `ToolCircuitBreaker` |
| Evaluators and optimizers (`routing/`, `scheduling/`, `constraints/`, `commute/`, `plan_content/`) | none (pure), the pool of attractions | evaluate, propose, verify, refill, rebuild | orchestrator | `DayTimeline`, `PlanOptimizers` |
| Validation and acceptance (`validation/`, `acceptance.py`) | the verdict about a plan | normalize, validate, accept | orchestrator, language model | `PlanValidation` |
| Notifications, SSE, snapshot cache (`notifying_store.py`, `infrastructure/notifications`, `redis/task_notifications.py`, `cache/read_models.py`, `main.py`) | revisions, cancel signals, cached snapshots, stream cursors | publish, wait, stream, cache | store, Redis, HTTP clients | `TaskNotifications` |
| Redis client, rate limiter (`infrastructure/redis/`) | the client, its cooldown, quota windows | get_client, command, health check, consume | Redis, provider calls | `RedisGuard` |
| Provider caches (`providers/amap/layered_cache.py`, `business_cache.py`, stores) | entries in Redis and in the database | lookup, evict, back-fill, call, store | Redis, database, map provider | `ProviderCache` |
| Sharing (`sharing/`) | shares, index jobs, likes; an external vector index | publish, update, unpublish, index, retry, reconcile | MySQL, Qdrant, embedding service | `SharedGuideStore`, `ShareIndexWorker` |
| Maintenance of the index (`scripts/`) | none | reindex, reconcile | shares, Qdrant | `IndexMaintenance` |
| RAG runtime (`rag/`) | settings, health, adapters | build, probe, retrieve | Qdrant, embedding service, shares | `GuideRetrieval` |
| Drafts and versions (`services/trip_draft_service.py`, version stores) | drafts, plan versions, the session's plan | create, edit, evaluate, confirm | AgentState store | `TripDraftVersions` |
| Data migration (`persistence/sqlite_mysql_migration.py`) | batches, records per row | execute, resume, verify, roll back | both databases | `DataMigration` |

The loop in more detail. `decide_next_action` looks only at the AgentState. It
collects data with tools, lets the model write a plan, estimates its routes, and
then five optimizers in turn propose a candidate from straight-line estimates,
keep the old plan as a baseline, fetch the candidate's real routes and accept or
revert it. Every report carries a fingerprint of what it was made from; a report
whose fingerprint does not match is made again. At the end meals and texts are
rebuilt, the plan is validated, and it is delivered, sent back to the model for a
repair, or given up.

Sharing in more detail. Publishing, updating or unpublishing a guide stages one
transaction that writes the share row (a new `index_version` for a publication)
and an index job for it. The request thread then claims that job under a lease
and makes the embedding and Qdrant calls itself; `ShareIndexWorker` threads claim
what is left undone, retry with backoff up to `max_attempts`, and reconcile what
late writers did. Qdrant holds a single point per share, which an upsert
overwrites whatever its version and a delete removes only when it carries the
given version, and it takes no part in any transaction. Leases are never
renewed.

What is hard about it, with the lines where it bites, is the `hazards` list of
`PROJECT.json`. The classes are: a lease checked in one transaction and relied
on in another; workers that stall longer than their lease, or die between two
steps; cancellation and deletion at any moment of an execution; calls whose
commit succeeds but whose answer is lost; double submissions; signals that are
lost or come before the reader waits; results recorded in a state their call
never saw; version numbers taken by two requests; reports and caches that are
stale when they are used; long sequences of optimizer steps that each look at
one measure; boundaries of time windows, quotas and lists that are cut off.

What makes each component correct:

- store: at most one owner, old owners fenced, one final outcome, a log that
  agrees with the row, no duplicate creation;
- worker and checkpoints: executions do not overlap while leases hold, a
  recovery continues from the checkpoint, the session agrees with the outcome,
  every task is settled, cancellation takes effect;
- orchestrator: a plan is delivered only after validation of what it contains,
  a revert restores what was verified, sessions without faults do not repeat
  themselves, and a budget that covers its own limits lasts to a verdict;
- optimizers: no attraction identity twice, no route lost, lunch in its window, the
  minutes add up, an open restaurant is open;
- validation: a delivered plan fits its request, repairs are asked for only
  where they can help;
- breaker, Redis client: closed again once the other side works; quotas hold;
- notifications: nobody sleeps through a signal, every event reaches the
  client, a cancellation signal is true, a stale snapshot goes and does not come back;
- caches: nothing much older than its lifetime is served, failures are not kept as
  answers where they must not be;
- sharing: a waiting share has a job somebody may still take, every job is
  concluded, a late result neither brings a share back nor hides it, at rest a
  public share has the point of its version, likes are counted once, a command
  that reports success has left the index complete;
- retrieval: what is shown was public, and a guide that did not change is found;
- drafts: one confirmed version, shown by the session, kept by its number;
- migration: completed means complete, verified means equal, a rollback restores
  the target and never removes what the service wrote.

## 2. Plan

Done: the queue and its workers (`TripTaskStore`, `TaskLifecycle`,
`TripTaskWorker`); sharing, the maintenance commands and retrieval
(`SharedGuideStore`, `ShareIndexWorker`, `IndexMaintenance`, `GuideRetrieval`);
the planning loop (`PlanningLoop`) and what it calls (`DayTimeline`,
`PlanOptimizers`, `PlanValidation`, `ToolCircuitBreaker`); the infrastructure
(`TaskNotifications`, `RedisGuard`, `ProviderCache`); drafts and the data
migration (`TripDraftVersions`, `DataMigration`). Proved: the queue's store and
its workers (`TripTaskWorkerProofs`); the sharing tables, what runs on them and the
commands (`ShareIndexWorkerProofs`); the loop (`PlanningLoopProofs`); the breaker,
notifications, Redis client and provider cache (`ServicesProofs`); drafts and the
migration (`PersistenceProofs`); retrieval and validation (`ContentProofs`); and the
optimizers (`PlanOptimizersProofs`). `DataInduction` has what the last two need of
induction.

Open: `PlanningLoop` as the loop inside `TripTaskWorker`, by a refinement of its
abstract loop.

## 3. Modules

### TripTaskStore

`tasks[t]` is the row of task `t` (the columns and the JSON document are always
written together, so one record stands for both), `events[t]` its log in order
of event ids. One action is one committed transaction; row locks make
transactions on one row serial. Time is abstracted to whether a lease is valid.
`Backend` selects the two implementations where they differ: the scope of
idempotency lookups, whether `heartbeat` and `_mark_terminal` look at the lease
expiry, and the strictness of the claim order. The module lets every worker call
every operation at any time, so its properties hold for every caller.

### TaskLifecycle

What a client is promised about a task: submitted once, begun and begun again
but never after a cancellation was asked for, progress that only grows and
reaches 100 only with success, one outcome, cancelled only on request.

### TripTaskWorker

Extends the store with the workers and the checkpoint table. `wk[w].pc` is the
point of `_execute_task` / `_run_state` where worker `w` is. Every
`check_cancelled` is two steps (the ownership read, the flag read), and the
write it guards is a third, so anything may happen in between. Planning actions
are abstracted to their number (`Goal` successful actions, then FINISH), each
may succeed, fail and be retried, fail for good, or hit a budget, and local
actions may be absorbed into a step. `faults` counts the injected faults: stalls
(a lease lapses under a live holder), crashes, database errors (the call raises;
its commit may have happened).

### SharedGuideStore

One share: `share` is its row, `jobs[op][v]` the index job of operation `op` for
version `v` (status `"NONE"` when there is no such row), `likes` the users with a
like row. The index version also stands for the content: every staging counts it
on, so the content hash comparisons of the code are version comparisons here.
A lease is valid, expired or absent; a retry time is `backoff`, which may pass
at any claim. Any owner may call any transaction at any time. `AllowActive` is
`allow_active_upsert_supersede`: the service passes True, the store's default is
False. The order in which a worker picks among due jobs is left open: rows locked
by another transaction are skipped, so any due job can be the first one.

### ShareIndexWorker

Extends the store with the threads and the point. `proc[p].pc` is where thread
`p` is in `_execute_upsert`, `_execute_delete`, `_reconcile_stale_upsert` or the
service's `_publish_unobserved` and `_unpublish`; each call of the database or of
Qdrant is a step of its own. The embedding changes nothing shared and is joined
to the read that follows. A Qdrant or store call that raises may still have been
carried out. The record `expected` that the code passes along is dropped: it was
read earlier and versions never go back, so it is the job's version whenever the
comparison with it matters. `used` counts failed calls, crashes and leases that
lapse under a live owner.

### IndexMaintenance

`reindex_shared_guides` and `reconcile_shared_guide_index` with `--apply` and
`--delete-extra`, beside everything `ShareIndexWorker` does. `tool.pc` is where
the command is; each listing, scroll, re-read, embedding, write and conditional
delete is a step. `Drift` is the reason to run a command: the index was restored
from a backup or lost. `tool.touched` records whether the row left READY since
the command listed it, `tool.failed` whether the report counts a failure.

### PlanningLoop

One AgentState `s`, its last checkpoint `saved`, the call of `_run_state` that
works on it (`run`: position, local actions left in the step, attempts of each
tool) and the failures still to come (`spare`). `Decide` is
`decide_next_action`, branch by branch; `Perform` the local handlers, `Apply` the
results of tools. A plan is a number plus what the evaluators think of it, and a
report carries the number it was made for, which is what fingerprints stand for.
`CallsAllowed` adds up how many physical calls the limits of a budget allow one
session. What an evaluator finds is chosen freely: the module asks whether the control of
the loop is right for every verdict.

### DayTimeline and PlanOptimizers

The evaluators as operators (legs of a day, timeline with lunch, cost of routes,
schedule and commute, constraint issues, meals and texts), and the optimizers as
actions that propose the best of a bounded list of candidates by straight-line
estimates and keep it or put the old plan back by road tables. Places lie on a
line, which keeps the triangle inequality the estimates rely on; minutes are in
units. A `place` is an `attraction_identity`: `"id:"` with the `poi_id`, or
`"name:"` with the name where there is none. Two places may have the same name:
the model writes its plan from a prompt without ids, so one attraction can be in
the plan under its name and in the pool under its id. A rebuild that would change
a day's transport mode is refused, as the orchestrator refuses it with a
ValueError. These modules compute the verdicts that `PlanningLoop` leaves open.

### PlanValidation

The normalizer, every rule of `TripPlanValidator` (the rules' codes are kept, the
texts are not) and the acceptance policy, in the order of the loop: write,
normalize, evaluate, validate, then deliver in full, in part, repair or fail.
Between the normalizer and the validator the plan changes: `ChangeWritten` removes,
moves, replaces or adds an attraction, as an accepted candidate of any optimizer
does, and `RebuiltContent` writes the texts, meals and the budget anew.

### ToolCircuitBreaker

One `_CircuitEntry` and the sessions that share it. `before_call`, the call and
`record_result` are separate steps, since the lock is held inside the first and
the last only; a call may also leave by an exception and never record a result.

### TaskNotifications

One task with an API process and a worker process. A write of the store commits, then
updates the snapshot key, then signals local Conditions and Redis: `api.pc` and
`worker.pc` are the points in between. `wire` holds messages under way, which may be
lost; `stream` is the SSE generator with its cursor, `got` the client's
`Last-Event-ID` over reconnections. A write of the snapshot key may fail, which leaves
the old value (`read_models` swallows the error). A waiter records whether the
revision moved since its cursor was taken, which is all the code uses revisions for.

### RedisGuard

The shared client with its cooldown and degraded flag, pools that are closed when
replaced, and the fixed-window quotas that `ProviderQuotaController` checks one
after the other through it. A command may end after somebody else has degraded
the manager or replaced the client, and its answer and `_mark_healthy` are two
steps. `failOpen` says whether a request is let through when Redis does not answer;
both values are checked.

### ProviderCache

One key of one of the cached reads. Time passes in ticks; entries carry the age of
their answer and the ticks they have left. A requested lifetime is raised to `MinTtl`
and cut to `MaxTtl`, as `CacheTTLPolicy.resolve` does. Lookup in Redis, eviction of
what cannot be decoded, lookup in the database, back-fill, provider call and the two
writes are steps of their own. Routes and restaurants have both layers, the other
domains Redis only.

### TripDraftVersions

`TripDraftService` over either version store, for one session. The service reads,
computes and writes in several transactions; two requests interleave between
them and a process may die there. MySQL's `confirm_version` is one transaction;
SQLite's is two steps, because the SELECT of the confirmed rows runs before the
first UPDATE opens one. A plan is the content a request brought and the request
whose evaluation rebuilt it last. `raced` records what went wrong between
requests: a version number taken twice, a candidate written over after it was
confirmed, two confirmations that overlap; `behind` that a request died after
`confirm_version` and before it saved the session.

### DataMigration

`SQLiteToMySQLMigrator`: execute and resume, verify, roll back, row by row, with
the named lock that keeps writers apart and the service writing beside them. A row
of the target is absent, equal to its source row or something else.

### GuideRetrieval

`RagRuntime.from_settings`, its health probe and one retrieval: four widening
searches of Qdrant, then the re-read of the rows in MySQL, the ranking and the cut
to the prompt's length, while authors publish, update and unpublish. The read of
the rows may fail, and a row may have no usable reference.

### How the modules are put together

`TripTaskWorker` extends `TripTaskStore`, and is shown to implement
`TaskLifecycle`. `ShareIndexWorker` extends `SharedGuideStore`, and
`IndexMaintenance` extends it in turn. `PlanOptimizers` extends `DayTimeline`. The
other modules share no variables: their interaction is through results, which each
of them takes as chosen by the other side. `MCServices` and `MCComponents`
therefore put several of them into one run with a variable `focus`: the one it
names moves, the others stay in an initial state, so that the state spaces add up
instead of multiplying.

Mutants, marked as such, stand before the definitions they change.

## 4. Runs

| Run | Question | Instance |
|---|---|---|
| `store` | ownership, fencing, final outcome, monotone progress, no duplicates | MySQL; 2 tasks, 2 workers, 2 users, keys and requests, marks 10 and 100, logs up to 6 events, 2 attempts |
| `worker_live` | no overlap, checkpoint agrees with outcome, every task is settled, cancellation takes effect | MySQL; 2 workers, 1 crash, 1 database error, no stall |
| `worker_stall` | the runtime implements `TaskLifecycle` | SQLite; 2 workers, 1 stall, 1 crash |
| `worker_cancel_lost` | violated: a crash after the request strands the task | 1 crash |
| `worker_stale_write` | violated: an old worker's checkpoint lands on the new one's | 1 stall |
| `index` | row, jobs, likes and point agree; every job is concluded; commands report truly | 2 versions, 2 attempts, 1 worker, 1 request thread, 1 liker; 1 failed call, 1 crash, 1 lapsed lease, or a command |
| `index_overwritten` | violated: an old writer cleans up the point of a version about to be completed | 2 workers, 1 request thread, no fault |
| `planning_loop` | what is delivered was validated, reverts restore, budgets that cover their limits suffice | 10 sessions with different optimizers, up to 2 searches, 2 repairs and 2 tries, a failure or a restart; steps, tool and model calls exactly as many as these limits allow, 8 local actions |
| `planning_stale_pool` | violated: constraints are not evaluated again after a search | the same |
| `services` | breaker, notifications, Redis client and quotas | 2 sessions, threshold 2; 1 progress event, pages of 2 events, 1 lost message; 2 requesters, 2 quotas of 1, 1 outage, failing open or closed |
| `components` | drafts, caches, migration, retrieval, optimizers, validation | below |
| `draft_number_taken` | violated: a confirmed version is overwritten | MySQL, 2 threads, 5 requests |

`components`: 1 draft, 2 threads, 5 requests, 1 death on either backend; 2 readers of
a key with lifetimes of 3 (answers) and 1 (unavailable) ticks, raised to 2 and cut to
3; 2 rows, 2 batches, 1 stop, 1 write of the service, 2 commands; 3 guides with 2
edits and 1 failure, a candidate limit of 1 and 2 results; 14 first plans of up to 3
attractions in 2 days, two pools, one of them longer than a search may leave it and
one without a planned attraction, 2 candidates nearby, 2 road tables, 1 search; 17
written plans, 4 requests, 2 catalogs, 5 evaluations, 1 change of a plan, 2 repairs.

Bounds. A log of 6 events holds a claim, a recovery, progress of both workers
and an outcome. One stall and one crash are enough for every pair of executions
of a task to overlap at every pair of locations, with two workers. `MaxSteps`
bounds the turns of the loop as the code's execution budget does. The runs of
`MCTripTaskWorker` drop the event log from the fingerprint (`VIEW LogFree`): no
action reads it and none of their properties mentions it.

For sharing, two versions give an old and a new writer of the point, and two
attempts a retried and a last one. Crashes and failed calls have separate budgets.
Beside a command the threads meet no fault: what the command must stand is that
rows and points change between its reads and writes, which the author and the
worker see to.

In `planning_loop` a plan has one objection at a time, so that each optimizer's turn
is entered from a plan the others accept as well as after their own; the ten sessions
are the combinations in which one optimizer's result is another one's input. Each has
just the steps and calls that `CallsAllowed` grants, so one call too many would end
it, which is what `ReachesVerdict` excludes. With one objection per plan, all
optimizers of a session still run one after the other, because every candidate brings
a new judgement.

Five requests let a draft be created, evaluated, confirmed and then evaluated and
confirmed again from its old base, or overlap anywhere on the way; two drafts are
taken in `draft_number_taken`.

In `services` the threshold of 2 lets a late result fall on a breaker that is
closed with one failure, open and half open; two quotas let the second refuse what
the first has counted. In `components` the bounds
lengthen the lifetime of a failure and of a copy that has one tick left, and a delay of
one tick lets an entry expire between lookup and back-fill; two
batches let a rollback meet rows of an earlier batch; a candidate limit of 1 lets a
stale point crowd a public guide out of a stage. The plans have attractions that
open late or are closed on one day, ways that do not exist, and a hotel on some
days; one attraction is in the pool with its id and in a plan without, and a search
finds one more than the pool may hold. The written plans have the defects the rules
look for, one or two at a time.

All runs allow deadlock: once all tasks are settled, the session has ended or
the requests are used up, the system rests.

The runs check one joined invariant per component, whose parts are named in its
module: `RuntimeInv`, `IndexInv`, `LoopInv`, `BreakerInv`, `NotifyInv`, `GuardInv`,
`DraftInv`, `CacheInv`, `MigrationInv`, `RetrievalInv`, `PlanInv`, `ValidationInv`
(each with its type invariant); and joined action and temporal properties where
the parts make one promise: `NothingConfirmedIsLost`, `OptimizersLoseNothing`,
`ReachesVerdict`, `RedisComesBack`. The properties named below and in
`PROJECT.json` are these or their parts.

Fairness. `FairSpec` of `TripTaskWorker`: each live worker thread takes its next
step, claims when it can, its heartbeat thread runs, and the clock runs past a
lease nobody renews. Clients are not assumed to do anything. Database errors and
crashes are bounded, not unfair: the code retries at the next poll without limit.
`WorkerFairness` of `ShareIndexWorker` assumes the same of worker and request
threads and of abandoned leases, and nothing of authors or operators. In
`MCServices`: for the breaker, that time passes, calls end (every client has a
timeout) and sessions keep asking for the tool, without which an open breaker has
nobody to probe with; for notifications, that threads run, waits time out, keys
expire and `EventSource` reconnects, while nobody has to cancel and no message has
to arrive; for Redis, that commands end by their socket timeout, cooldown and
windows end, the server is restarted by its operators and the metrics endpoint
asks for the health again.

## 5. Findings

Five runs show places where the code disagrees with its own documentation,
comments or tests (`findings` in `PROJECT.json`):

- `worker_cancel_lost`: a task whose worker dies after the cancellation flag is
  set is claimed by nobody and never settled;
- `worker_stale_write`: the lease check and the checkpoint write are two
  transactions, so an old worker can overwrite the new one's checkpoint;
- `index_overwritten`: the worker of an old version writes the share's point
  between the index write and the completion of the new version and then cleans
  it up; the share is public, without a point and without a job;
- `planning_stale_pool`: a search for more attractions removes the constraint
  report's input fingerprint, and the check falls back to the plan's, so the report
  of the smaller pool counts as current up to delivery;
- `draft_number_taken`: two evaluations take the same version number, and the
  second one's insert overwrites the version confirmed meanwhile.

The passing properties name what they depend on. `DeletedStaysDeleted` is checked
without stalls: with one, the write described above re-creates a session that was
deleted after the new worker had saved it. `IndexedWithoutTool` speaks of
behaviours in which no update was staged over a leased upsert (the store's
default refuses it, the service switches that off) and no lease lapsed under its
owner: with one, `_publish_unobserved` deletes the point of its version after
another worker has completed it. `KeptUnlessNumberTaken` holds where
`draft_number_taken` does not apply. `DraftInv` does not promise that the session
shows the confirmed plan once two confirmations have overlapped: the version store
and the session are written in two transactions, so the confirmation that came
first in the store may come last in the session, which then shows the older plan.
Nor does it promise one confirmed version when two confirmations overlapped in
SQLite: neither sees the other's row when it reads which ones to supersede, and both
stay confirmed; in MySQL they are serial. After a death between `confirm_version` and
`save_state` the session shows an earlier confirmed version until the next
confirmation, never a candidate.

`ServedInTime` bounds the age of a served answer by its lifetime, the delays of its
writer and its copier, and `MinTtl - 1`: a back-filled copy with less than the minimum
left is raised to it. `docs/redis-infrastructure.md` says of the back-fill that it does
not lengthen the life of stale data, and of the TTL policy that it has a minimum; with
the shipped minimum of one second the two agree, with a larger one the copy lives
longer, once.

`ReachesVerdict` is about budgets that cover what their own limits allow. The defaults
do not: with the defaults of `core/config.py` (two repairs, refills, commute
replacements and searches, one try of each other optimizer) `CallsAllowed` is 26, above
`AGENT_MAX_STEPS` = 24, so a session in which every optimizer, search and repair is used
up can end in `AgentMaxStepsError` although nothing failed; the 30 tool calls suffice.
`.env.example` and `docs/project-capabilities.md` set 40 steps, which cover it. Nothing
in the code relates the numbers.

`NoneTwice` is about `attraction_identity`, by which the optimizers, the normalizer and
the validator compare. One attraction that is planned under its name and is in the pool
under its id has two identities: a refill or a replacement can plan it a second time, and
neither normalizer nor validator notices, although the docstring of
`plan_content/optimizer.py` promises unused candidates. The first plans of `components`
have such a pair. `LunchInWindow` is about days that start early enough for lunch to
end in its window; the constructor of the evaluator does not demand it. `PoolKeepsOld`
is about the first `PoolMax` candidates: the two settings for the first search and for
the merged pool are independent, and `merge` cuts older candidates beyond the latter.
Where rebuilding the texts would change a day's mode (a day without routes whose text
named no mode) the orchestrator raises a ValueError, although a comment
(`trip_draft_service.py:82`) says that the rebuild does not change the inputs of routes;
the model then keeps the plan.

`CreationIdempotent` takes the creation under `GET_LOCK` as one step, which is what
the lock is for. `BreakerCloses` assumes that no probe is abandoned by an exception:
one that is leaves the entry half open until the process restarts. No property says that a
deleted share has no point: the deletion is filtered by the current version, and
after an update that was never indexed the point still has the old one. Retrieval
reads shares back from MySQL and does not show it (`ShownWasPublic`). `StableIsFound`
and `ValidationInv` have a condition each, on the number of guides and on the list of
tolerated errors (section 6).

## 6. Proofs

The theorems hold for every value of the constants that satisfies the named
assumptions of the modules, and are checked to the last leaf. Each invariant is
shown as `Init => IInv`, `IInv /\ [Next]_vars => IInv'`, `IInv => Inv`, with one
lemma per action or per kind of step.

**`TripTaskWorkerProofs`, first part**, proves `Spec => []StoreInv` of `TripTaskStore`
for any sets of tasks (finite), workers, users, keys and requests, any marks up to 100
and both backends, and from it the named invariants, and `TerminalFinal`. `StoreInv`
is inductive: `TerminalLogged` needs `UnbornEmpty` (a created task starts with an
empty log), `WritesFenced` needs `LastClaimantOwns` (the row's owner is the last
claimant in the log), which needs `OwnedIffRunning`. The argument reduces every step
to three kinds (a lease change, a deletion, one *sound* write of a row with one event;
lemma `StepKinds`), so each invariant is shown against three cases instead of eight
actions. The theorems cover both backends, lapsing leases included, so they say of the
SQLite store under stalls what `store` checks of MySQL's.

Its **second part** proves, for any number of workers, crashes, stalls and
database errors, that the runtime implements the store (`RuntimeImplementsStore`:
every step is a transaction of `TripTaskStore` or leaves the tables alone), keeps
`RuntimeInv`, and implements `TaskLifecycle` (`RuntimeImplementsLife`). The
invariant `RuntimeIInv` adds to the store's what a thread knows of its row: while
the row names the worker its attempt is the thread's, and a cancellation the thread
acts on as owner was asked for. Without the second, a worker could cancel a task
nobody cancelled, and the refinement would fail at `mark_cancelled`. Under the
hypothesis `MaxStalls = 0` (no lease lapses under a worker that renews it; crashes
and database errors are still unbounded) it proves `SingleExecutor`,
`OutcomeMatchesSession`, `CheckpointsAdvance` and, for MySQL, `DeletedStaysDeleted`.
The hypothesis is needed: `worker_stale_write` is the counterexample without it; and
SQLite's upsert writes a deleted session again. `QuietIInv` relates three copies of
the truth at every location of the execution: the row, the checkpoint and the
AgentState in memory (`Owns`, `Memory`, `Checkpoint`); the delicate case is a
terminal write whose answer was lost, after which the worker is in `failing` over a
row that is settled.

**`ShareIndexWorkerProofs`, first part**, proves `Spec => []StoreInv` of
`SharedGuideStore` for one share with any number of versions, attempts, owners and
finitely many likers, and from it `WorkHasJob`, `LikesCounted` and the action property
`AuthorDecides`. `WorkHasJob` (a waiting share has its job, a public one has its
upsert done) is not inductive: it needs `LeasedIffRunning` (a conclusion finds its job
running), `NoFutureJobs` (a staged version has no job yet) and `StatusesAgree`. The
argument sorts the transactions into those that touch one job and leave the share
alone (`JobOnlyStep`), those that conclude the current job and move the share with it
(`ConcludingStep`), the stagings, and the likes.

Its **second part** carries this over to the index workers, the request
threads and the maintenance commands: both implement the store, keep `IndexInv`,
`WorkHasJob` and `AuthorDecides`, with any number of failed calls, crashes and
lapsed leases. `IndexIInv` needs that a thread which reconciles a job under its
own lease has been overtaken (`RetiredIsOvertaken`): otherwise the supersession at
the end would take away the job a share waits for. Two theorems are about the
external index: `IndexedWithoutTool` and `CleanReportIsTrue`. Their invariant
`FoundIInv` says of an undisturbed history that a thread at work holds its lease,
that only the upsert of the current version is open, that clean-up runs for
unpublished shares only, and that between the write of a point and the completion
the point is the current version's; and of a command, that the share it watches is
still the one it listed and that it is to report a write that was stale by then.
What these two properties exempt (overtaken upserts, lapsed leases; no fault beside
a command) is stated in sections 4 and 5.

**`PlanningLoopProofs`** proves, for every budget, every verdict of the evaluators
and any failures and restarts, `LoopInv` (a report that counts as current was made
for the plan at hand; at most one candidate waits), `DeliveredIsVerified` and the
action property `RevertIsLocal`. `LoopIInv` holds of the session and of its
checkpoint alike, because a restart continues from the latter. Its parts: numbers of
plans are only issued upwards; a report's fingerprint and number agree or the report
is not current (`ReportsOK`); a baseline holds routes and reports of one plan, as
far as its optimizer restores them (`BaselinesOK`); texts are of the current plan
only once no candidate waits (`ContentOK`); the route optimizer has its turn first
(`RouteFirst`); and a verdict exists only in a state in which nothing was left to
do before it (`VerdictOK`). The last is why delivery is safe: the loop does not
look at the reports again when it delivers. Handlers are compositions of a few
updates (a report is made, analyses are cleared, a candidate is adopted, restored
or settled), each shown to keep `CoreOK` once.

**`ServicesProofs`** has four parts. *Breaker*, any sessions and threshold: a half-open
entry has its probe, a closed one is below the threshold; the invariant adds that a
running call holds its permit. *Redis client and quotas*, any requesters and outages:
only the current client's pool is open, and the admissions of a window, heard of or
not, are within its counter and its limit (`AdmissionsCounted`; without those not
heard of yet the limit is not inductive). *Notifications*, any events, page sizes and
losses: `NotifyIInv` says that every copy of the row is behind it, that a
cancellation under way is committed, and that a stream or worker which has *begun to
look*, not only one that sleeps, has been signalled or will be. *Provider cache*: age
plus remaining lifetime is bounded at each location of a reader, by the delay it has
used, plus once what the minimum lifetime adds to a copy; that a copy is not copied
on is what makes it once. It holds for any lifetimes and any bounds that
`CacheTTLPolicy` accepts.

**`PersistenceProofs`** has two parts. *Drafts*: it proves `DraftInv` and
`NothingConfirmedIsLost` for any drafts, threads, requests and deaths, on both stores.
`DraftIInv` follows the row a request has read through the writes of others until it
is written back (`Tracks`), keeps the names of requests apart, and says that the
number computed for a new version is free while numbers are not raced. On SQLite it
says that one version is confirmed as long as no confirmation wrote after what it had
read as confirmed was out of date (`SingleOK`). That the least and the greatest number
exist is shown from the well-foundedness of the naturals (`LeastElement`,
`GreatestElement`).

*Migration*: it proves `MigrationInv` and `ServiceRowsAreKept` for any rows,
batches, stops and commands. `MigrationIInv` adds the loop invariants of the three
scans (the rows an execution, a verification or a rollback has passed are as it left
them, unless it counted a difference or somebody wrote) and that a row which differs
from the first target is recorded by a batch not rolled back (`OnlyRecordedDiffer`),
from which the rollback of all batches restores the target.

**`DataInduction`** is a toolkit for the two modules that follow, whose operators are
folds over days, legs and lists. The library's induction theorems take an operator as
parameter, which the provers cannot instantiate, so the principles are stated over
sets and functions: a set of numbers that has 0 and is closed under successor has all
numbers up to n (`InductionUpTo`); a step function from a value and a number has a run
up to n (`RecursionUpTo`), and a recursive definition is such a run (`RunValues`); a
finite set has a list in the order of a key (`SortedListing`). It also has what a list
without an element, or with one more, consists of (`ElementRemoved`,
`ElementInserted`).

**`ContentProofs`**, *retrieval*: `RetrievalInv` for any guides, contents and limits,
and any edits, failures and health probes. What it says is about a retrieval that is
done, while rows and points changed under it, so `RIInv` says what the stages so far have
kept (`MergedSound`): a merged version was written and passed the stage that found
it, it is the version of the point where the guide was left alone, and as long as a
fitting guide is missing every stage has returned its full number. The last is what
`StableIsFound` follows from, by counting, and why it has the condition
`RoomForAll` (the guides fit into what four stages can return): with more guides than
that, points whose rows have changed can fill every stage, and a guide that fits
is not found.

*Validation*: `ValidationInv` for any request, any plan the model writes, any reports
and any catalog. The argument goes from the absence of a code to what the code was
about: a plan without a count, date, city, content or source error `FitsRequest`;
`VIInv` says that of a plan from acceptance on, and that the plan has no identity
twice from the normalizer on, which every change of an optimizer keeps (a candidate is
inserted only if the plan has not its identity), and no empty text once it is rebuilt.
The theorem has the hypothesis `ToleratesNoMismatch`: the codes that partial
acceptance tolerates contain none that contradicts the request. It holds for the
shipped list (`DEFAULT_ALLOWED_PARTIAL_ERROR_CODES`,
`app/agent_runtime/acceptance.py`); the list can be changed by
`AGENT_PARTIAL_ACCEPTANCE_ALLOWED_ERROR_CODES`, which the code does not check.

**`PlanOptimizersProofs`** proves `PlanInv` and `OptimizersLoseNothing` for any number
of days, attractions, restaurants and candidates, any road tables, and any settings
that the constructors accept (`SettingsAccepted`, `CandidatesAccepted`: a lunch of no
length, a day that starts after lunch and a pool of any length are among them). Its
first part is about `DayTimeline`: a timeline is built item by item (`Sound`), from
which its items join, lunch lies in its window and the minutes add up. The second is
about the searches: `PlansLike(w, n, K)` are the plans that differ from w in their
attractions only, which are among K and never repeated, and the candidates of each
optimizer (swaps, moves, removals, replacements, refills) lie in such a set. The third
is about the steps. The inductive invariant `PIInv` says that the plan is sound
(`PlanIsSound`) and repeats no identity, that the pool repeats none (`Pools`; the
plan's attractions need not be in it), and that the report is what the evaluators
compute for this plan by these roads; without the last, nothing would follow about the
legs a kept candidate has lost. The assumptions on constants are those of
`TimelineAssumption` and `OptimizerAssumption`: the first pool names no place twice
(`_dedupe_sort_crop`, `app/providers/amap/normalizers.py`), the first plans repeat no
identity (the normalizer removes repetitions before any optimizer runs) and contain no
meal already marked open (the default in `app/schemas/trip_schema.py`); a day ends by
midnight, as its clock time is parsed, and minutes, limits and ratings are numbers.

Only model-checked:

- all liveness properties (the prover has no support for fairness):
  `EventuallySettled`, `CancellationSettlesFaultless`, `JobsClose`, `BreakerCloses`,
  `EventsArrive`, `SnapshotSettles`, `RedisComesBack`;
- `ReachesVerdict`: that the limits add up to `CallsAllowed` is a count over whole
  sessions.

## 7. Not modelled

- The same session resumed synchronously through `POST .../resume` while a
  worker executes its task (the synchronous path has no task context).
- A heartbeat thread that outlives its `join` timeout: it renews only while the
  row still names its worker.
- `start` and `stop` of worker threads, of the notification bus and of the Redis
  client (`RedisClientManager.close`); failure reports, log texts and metrics.
- `purge_expired` of the cache store, which nothing calls.
- In the maintenance commands: points under foreign ids, malformed payloads, and a
  content hash that changed under the same version.
- In drafts and migration: the edit operations on a plan's content (each is a new
  plan) and the mapping of columns.
- In the optimizers: two coordinates (places lie on a line), rounding of scores
  and percentages, the parsing of opening hours, one length for every meal, budgets
  of rebuilt plans. The refill and the commute optimizer share `MaxSources`.
- In retrieval: the numbers of the score, the text of documents and references.
- Clients of map, weather and model providers: HTTP, prompts and the parsing of
  answers. Their failures are inputs of `ProviderCache` and `ToolCircuitBreaker`.
- Authentication, the evaluation harness, schemas and prompts: cryptography, plain
  table access, offline scripts and declarations.

# Verification of the MCN agent backend

The repository is a multi-tenant application in which an agent, driven by a
language model, calls paid external tools (MCP servers) and publishes
artifacts. Every external call costs ten points of the tenant's wallet. This
directory holds TLA+ models of the parts of the code that move points, that
decide who may do what next, and that have to survive crashes, lost requests and
racing actors; their model-checking configurations; and their proofs.

All paths below are relative to the repository; `app/` stands for
`backend/app/`.

## 1. Inventory

### 1.1 Components

| component | code | state it keeps | operations | modules |
|---|---|---|---|---|
| Tenant points ledger | `app/pi_gateway/accounting.py` | wallet (balance, reserved), monthly usage rows and quota policies per user, append-only transaction rows | reserve, settle, fail (release or mark unknown), welcome grant, admin adjustment, set quota; reconcile (reads) | `TenantLedger` |
| Durable tool call (runtime "current") | `app/agent_runtime/tools/mcp.py`, `recovery.py` | one `agent_tool_calls` row per logical call, evidence item | prepare, five finalize transactions, stuck migration, probe | `DurableToolCall`, `ToolCallContract` |
| Admin reconciliation | `app/admin/service.py` | reconciliation rows | confirm success, confirm failure, keep unknown | `DurableToolCall`, `PiToolCall` |
| MCP transport and circuit breaker | `app/mcp_gateway/datatap.py`, `app/agent_runtime/circuit_breaker.py` | places of a service, its queue, abandoned dispatches; failures, opened-at and probe per key | call, wait, dispatch under a wall clock, abandon; allow, record | `ToolChannel`, outcomes in `DurableToolCall` |
| MCP accounting hooks of the Pi Gateway | `pi-gateway/src/mcp-accounting-extension.ts` | pending permits in memory | tool_call hook, tool_result hook | `PiToolCall` |
| Pi control plane | `app/pi_gateway/service.py`, `completion.py`, `router.py` | call rows, run, attempt, lease, receipts | preflight, finalize, fail; terminal, clarification, recovery; ingest | `PiToolCall`, `PiRuns`, `SourceEvents` |
| Pi run scheduler | `app/pi_gateway/scheduler.py` | tenant counters, lease hashes, order of service | look, claim, release, requeue, expire, cancel | `PiRuns` |
| Pi Gateway process | `pi-gateway/src/gateway.ts`, `worker-pool.ts`, `main.ts`, `worker-entry.ts` | places, leases and their timers, children, event pumps | claim, start, heartbeat, abort, hand over, report, stop | `GatewayProcess` |
| Source events and event stream | `pi-gateway/src/event-delivery.ts`, `app/pi_gateway/service.py`, `events.py`, `app/agent_runtime/events.py` | receipts, sequence of the run's events, broker | send, resend, ingest, merge, publish, replay, follow | `SourceEvents` |
| Run life cycle | `app/agent_runtime/repository.py`, `heartbeat.py`, `events.py`, `executor.py`, `engine.py` | run status, lease, attempts, session slot, terminal event; a cached copy of the row in every database session | claim, take over, renew, pause, ask, resume, cancel, complete, fail, settle orphans | `RunLifecycle` |
| Sessions, messages, questions | `app/agent_runtime/router.py` | messages, pending questions, slot, idempotency keys | message, retry, answer, resume, cancel, archive | `Conversations` |
| Artifact drafts and publication | `app/agent_artifacts/service.py`, `publishing.py` | working heads, revisions, versions, artifact events, publication attempts | create or get, update, review, publish, abandon | `Publication` |
| Artifact export cache | `app/agent_artifacts/export_cache.py` | one row and files per version | look, claim, render, write, mark, undo | `ExportCache` |
| KOL detail | `app/agent_runtime/kol_detail.py` | working head, cache, run of a creator | create or reuse, drive, release | `KolDetail` |
| Loop guard | `app/pi_gateway/loop_guard.py`, `tools/builders.py` | streaks of equal failures and results | record, trip | `LoopGuard` |
| Tool catalog | `app/mcp_gateway/registry.py`, `tools/registry.py` | signatures and approval of remote tools; what runs are shown or frozen with | list, quarantine, assemble, freeze, check before a call | `ToolCatalog` |
| Tenants, licenses, runtime configuration | `app/admin/gateway_service.py`, `app/runtime_config`, `app/licensing`, `app/tenancy` | tenant row, licenses, configuration versions, idempotency records | create version, activate, switch backend, (de)activate, start a run | `TenantControl` |
| Marketing skills | `app/marketing_skills` | revisions, activations per scope | create, activate for a percentage, roll back, choose for a run | `SkillRollout` |

Not modelled, and why: section 7.

### 1.2 How they interact

* A run executes in one of two runtimes. In "current" the decision loop is a
  task of the backend and calls the MCP server itself (`AgentMcpTool.execute`).
  In "pi" a Gateway process claims the run over HTTP, a worker process under it
  executes the model and the tools, hooks in the worker ask the backend for a
  permit before a tool and report the outcome after it, and a pump sends the
  worker's events on.
* Both write the same two places, always in one transaction: the call row
  (`agent_tool_calls`) and the tenant's ledger. The wallet row is locked by
  every ledger operation; the call row is locked by every finalize.
* The recovery loop, the admin and the user's requests write the same rows, with
  no knowledge of whether a worker is still waiting for an answer.
* Every request authenticates first. Under REPEATABLE READ its plain SELECTs
  answer from that moment; only `SELECT ... FOR UPDATE` reads what is there. Most
  of the races below come from this.
* The ledger knows a dispatch by its permit: the idempotency key is a function
  of the call and its dispatch count.

### 1.3 What is hard

* The upstream call lies between two transactions. A worker may die there, time
  out and leave a task behind that still sends, or be answered after someone
  else resolved the row.
* The two runtimes retry: a call known not to have been sent once more; a lost
  attempt of a run once more; any HTTP request to the backend may be carried out
  without its answer arriving.
* Points held in one month and resolved in the next touch another counter.
* Scans are bounded; rows that stay in a scan may keep others out of it.
* Checks on views and copies: a lease on a copy that the heartbeat never
  refreshes, the owner of a working head asked from a snapshot, counts of running
  runs before the lock, an Idempotency-Key looked up in the view of
  authentication.
* A Gateway and its children: a worker that is ready after its lease was lost, a
  child that does not obey, a heartbeat that is answered late, a report whose
  answer is lost.
* A stream that is replayed from the table and followed from a broker of the
  process: an event committed in between must be neither lost nor repeated.

`PROJECT.json` lists the hazards with their lines and the properties that speak
of them.

### 1.4 What makes each component correct

* Ledger: points are conserved; columns agree with the rows; a quota is not
  overrun; nothing is refunded twice.
* A tool call, in either runtime: held before it is sent; received at most once;
  charged or returned exactly once; charged only if received, called "not sent"
  only if it never is; never left running; unknown reservations kept and
  reported.
* Run life cycle: an ended run has its terminal event, and one; a running run has
  one open attempt; the session is taken exactly while the run is queued or
  running; a worker that was taken over completes nothing; no run is left behind.
* Queue of Pi runs: a tenant's counter is the number of its claims; a lost run is
  retried once; a session has one active main run; cancellation wins; no expired
  run stays claimed.
* Gateway: no child outlives its hold of the run; a completion is reported only
  for a child that ended well, under a lease that was not lost, with every event
  received; places come back.
* Event stream: each source event stored once, in order; the terminal event is
  the last; every reader gets events in order, and the end.
* Publication: a head has one owner; what is published is the revision its own
  run wrote; a plain completion in the current runtime has made good every
  publication that failed; a formal analysis by Pi ends well only with a version
  of its own.
* Sessions: one run under way, named by the slot (but for what section 6 says of
  stale copies); a repeated message starts nothing new; a question is answered
  once.
* Administration: one active configuration; a key acts once; a run starts with
  what its tenant has; a rollback returns to what was active before.
* Tools and services: a tool found changed, or missing although reviewed, is
  usable by nobody; places and probes of a service are given back once.

## 2. Plan

Done in this order: `TenantLedger`, `ToolCallContract`, `DurableToolCall`,
`PiToolCall` and their proofs; `RunLifecycle` with its proofs; `PiRuns`,
`SourceEvents`; `Publication`, `ToolCatalog` with proofs; the smaller components
of section 3.3; `GatewayProcess`; then the invariants of all of them as theorems,
so that every safety and action property of a run is proved (section 5). What
would come next: a composition of `GatewayProcess` with `PiRuns` (each has the
other as an environment now); a second executor in `RunLifecycle`.

## 3. The modules

### 3.1 Points and tool calls

**TenantLedger.** State: the columns of the wallet (`balance`, `reserved`), of the
usage rows per user and month (`spent`, `held`), the policy's limit, the month
the clock is in, and the transaction rows as the sets of keys that carry them.
`credited` sums the deltas of the grant and adjustment rows. A permit
`<<call, dispatch>>` stands for its idempotency key. A missing usage row and a row
of zeros are the same. Each action is one method of `TenantAccountingService`,
which is one transaction under the wallet's row lock: `ReservePermit`
(`reserve_mcp_call`), `SettlePermit`, `ReleasePermit` and `MarkUnknown` (the two
branches of `fail_mcp_call`), `GrantWelcome`, `AdminAdjust`, `SetQuota`,
`AdvanceMonth` (the clock behind `_month_window`). A method that raises is rolled
back, so it is a disabled action; a repeated call that returns the existing row
is a stuttering step.

**ToolCallContract.** What is promised of a call, without rows, months or workers:
`bill` goes from none to held, from held to charged or refunded; a refund may be
followed by one more hold if nothing was delivered; `delivered` is at most one.
Both runtimes implement it (`KeepsContract`, `PiKeepsContract`, by refinement
mappings; checked and proved).

**DurableToolCall** extends the ledger by the call row, the workers (`exec`, one
per dispatch) and the wire (`inFlight`, `received`). The transactions of
`AgentMcpTool.execute` are separate actions: `PrepareNew` and `PrepareRetry` (row,
reservation and mark-running are never committed apart, so `planned` and
`reserved` are not observable), then the transport, then one `Finalize...` on the
row as it is by then. `MigrateStuck` and `KeepUnknown` are the scans of the
recovery loop; `Admin...` are the admin's three decisions. What it says of the
transport, and why:

* `Refuse` only happens while the request is not on the wire. The error classes
  behind it (queue timeout, open circuit, failed connect or initialize) are
  raised before the tool request is written; that the HTTP library raises
  ConnectError only then is an assumption about the library.
* `GiveUp` (wall clock, cancellation, protocol errors) leaves the request in
  `inFlight`: the abandoned task may still send. `Crash` does too.
* No row of this runtime has an upstream request id before it is terminal, so
  the automatic probe has nothing to ask about and can only keep the call
  unknown.
* The age of 900 s after which a running row counts as stuck is abstracted: the
  migration may come at any time, also before a slow answer.

**PiToolCall** extends the ledger by the call row, the run with its attempt and
lease, the hooks of the workers and the requests between Gateway and backend. A
request waits in `net`; `CarryOut` runs its handler if the caller's attempt holds
the lease, and either the answer arrives or it does not; `NoAnswer` lets the
Gateway stop waiting while the request stays on its way. A failed report is
followed by one last report of `result_unknown`. `Fence` is what becomes of the
open calls of a lost attempt, and of a run that fails or is cancelled.
`fail_mcp` is modelled with its lack of a status guard: the ledger ignores a
terminal permit, the row is overwritten. Abstracted: the per-server dispatch gate
(it delays a call and changes no row), the validation of result metadata (a
refused finalize is covered by `Refuse`/`NoAnswer`).

### 3.2 Runs

**RunLifecycle.** One run of the "current" runtime, its open attempts, its hold on
the session and its terminal events. `run` is the row, `seen[s]` the copy of the
row in session `s`.

| reads | code | model |
|---|---|---|
| the row | scans; `settle_terminal` (`populate_existing`); the column query of `_cancel_requested`; `_assert_session_slot_integrity`; rollback and refresh after a failed publication | `run` |
| the copy | everything that goes through `lock_run`: `begin_attempt`, `claim_lease`, `renew_lease`, `pause`, `transition`, `force_fail`, `_is_running`, `_post_decision_gate`; the first look of `cancel_run` and `_settle_cancel_requested` | `seen[s]` |

A flush writes the columns that the session has changed on its copy (`Save`), so
a write under a stale copy may overwrite a status that somebody else has set.
`Look` is the scan and the first read; `ClaimQueued`, `ClaimResumed`, `TakeOver`
take the lock and decide on what was read; `LookForOrphan`, `SettleOrphan` are the
scan for cancelled runs; `LoopEnds`, `LeaseLost`, `PauseAtLimit`, `CancelSeen`,
`Decide` the top of the loop in `AgentEngine.run`, and `GateShut`,
`DecisionFails`, `NothingDone`, `AskUser`, `Act`, `Complete` what may follow a
decision; `LeftLeaseLapses`, `HeartbeatFails`, `IterationOverruns`, `Crash` time and
faults; `Ask`, `CancelNow`, `RequestCancel`, `Resume` the user's requests. The
heartbeat is not an action: while the owner of the lease works, the lease stays
live unless `HeartbeatFails` says otherwise. The engine's copy of its own lease may
lapse without the row's (`IterationOverruns`): one iteration may last longer than
the 300 s of the lease (three model requests of 240 s, `app/core/config.py:48`,
and a tool call of 150 s). One backend process, hence one executor: with two,
both may claim a queued run on copies read before the other's claim. A run that is
seen running without a lease has an open attempt in that same snapshot, so the
branch that begins one for want of it (`executor.py:360`) is left out: it is never
taken.

**PiRuns.** The queue of Pi runs over tenants, users and sessions: sessions hand in
runs (a layout of main runs and KOL details), a Gateway looks (the snapshot of
`claim_next`) and tries one candidate under its lock, workers ask back or report,
recovery requeues or ends what has lapsed, the user cancels, an admin suspends a
license or drains a Gateway. `served` is the order in which tenants were last
served, `second` the resolution of `queued_at`, `hash` the lease hash of a claim:
what makes a release happen once. `Look` takes the candidates' tenants in any
sequence that `ServedBefore` orders, of which there is one. A KOL detail of a Pi
tenant runs in the request that opened it (`DetailEnds`), and may end paused. That
it is resumed later is left out: it then is a running row without claim and
lease, which the executor of the current runtime passes over because of its
backend; resumption itself is in `RunLifecycle` and `Conversations`.

**GatewayProcess.** The other side of the same requests, in one Gateway. All
deadlines count down with `Tick`, and a timer that is due goes off before the
clock moves on. `AsksForRun` to `ClaimArrives` are `dispatchNext` (one claim
request at a time); `WorkerStarts`, `ChildExits`, `ChildIsKilled` the child;
`BeatDue`, `LeaseIsRenewed`, `BeatAnswered`, `BeatFails` a heartbeat with the
lease it grants, counted from the answer's absolute deadline; `ChildIsDone`,
`Drained`, `Reported`, `ReportIsLost` what follows the child's end; `Stop` is
SIGTERM. The backend's row is there as far as the requests reach it
(`UserCancels`, `ChildAsks`, `Recovers`). Assumed: the clocks of the two hosts
agree; opening the secrets and forking take no longer than a lease without the
time of a request and the grace; a request that was cut off before it was served
is not served later; recovery comes after the timers that are due at the
deadline. `FenceAssumption` says that a heartbeat, its timeout, the next one and the
grace fit in the lease, which is so with the defaults and which no line checks
(section 6). The floor of 25 ms of a heartbeat's timeout is below the unit of
time. Left out: claims that find nothing, and the pool's own queue, which
never fills because claims are made one at a time and only while a place is free.

**SourceEvents.** The pump sends numbered batches and repeats one whose answer it
missed; handlers of two processes ingest them (`Window` is what of a batch is
new), internal tools and settlements add events of their own under the same
sequence, deltas are merged into the message, rows are published to the broker of
the process after the commit; readers replay the table and follow the broker.
Taken from the Gateway's side: an attempt says `answer` at most once, and after
its texts (`AnswersOnce`, assumed of `Scripts`): the event projector sends the
completed message when the agent has ended
(`pi-gateway/src/event-projector.ts:218`).

### 3.3 Components of short transactions, and of services

**Publication**: tools of the runs of a session, each call a transaction with a
snapshot and one locked step. A run ends as its runtime lets it. `EngineEnds` is
`_handle_complete` (current): it looks for drafts and counts failed attempts, and
commits the last message; `Settles` is `settle_terminal` in the next transaction,
which looks for drafts again. `GatewayEnds` is the terminal request (Pi), with all it
reads from one snapshot: drafts, and the versions that `CompletionValidator` asks of a
formal analysis (`Reported`), but no attempts; `Settles` is then its lock and its
commit. Calls of a Pi run are requests of their own and may meet its end; a worker
of the current runtime makes one after another, unless it lost the run inside one
(`strayed`). A bound: the worker that follows it makes no call while that one is
under way. **Conversations**: requests of a session that arrive with a view and act
under its lock, and workers that pick a run up (`PicksUp`), begin its attempt and
lead it on by the copy they read then (`BeginAttempt`, `Leads`), whatever has become
of the row; only `Completes` looks at the row. `cvStale` collects the runs that a
worker began when they were under way no longer. **ToolCatalog**: refreshes of several
processes, engines with an assembled registry, Pi runs with frozen signatures. A
missing tool is put in quarantine only if it is of the manifest (`Faulty`).
**TenantControl**: admin writes and messages with views; `RolledBack` for the
loser of a unique key. **SkillRollout**: revisions and activations; a tenant's
bucket is a constant. **LoopGuard**: the guard's own transaction (current) or the
request's (pi), under the session's lock. **KolDetail**: requests that wait for
the tenant's rows with a snapshot of before. **ExportCache**: builders with claim
tokens that may be late, cancelled or dead. **ToolChannel**: breaker, semaphore
and wall clock of a service.

These share no state with each other, and are checked together:
`MCTransactions` and `MCServices` choose one component at the beginning of a
behaviour and leave the others in their initial state. Fairness of the resting
components asks for nothing, as their fair actions are not enabled there.

## 4. What the runs show

| run | question | result |
|---|---|---|
| `transactions` | The components made of short transactions, one at a time: are points conserved and bounded, do a session's rows agree however stale a request's view is, is a published version the one its run holds, has administration one effect per key, does a run start on a backend its tenant has? | all hold |
| `durable_call` | Two calls, a retry each, crashes, late requests, recovery, admin: do rows and ledger agree, is the contract kept, and does a recovery loop that goes on leave none running or unreported? | all hold |
| `services` | A Pi tool call over two attempts (two hooks for one call), the run behind a creator's detail, the export cache, the channel of a service: one dispatch, deserved charges, one builder and one detail run where the rows say so; every request and call comes to an end? | all hold |
| `run_lifecycle` | Executor, recovery loop and two requests on one run, with a fault anywhere: one terminal event, one attempt at a time, a slot that follows, completed only by the holder, never left? | all hold |
| `pi_runs` | Two Gateways, three runs of two tenants: counters, one retry, one active main run, cancellation, and no expired run that stays? | all hold; limits only for a queue claimed in order |
| `event_stream` | Lost, repeated and overlapping batches, two attempts, two processes, a reader that comes and goes: each event once, the end last, in order, and the end arrives? | all hold |
| `gateway_process` | A run claimed, lost and claimed again in a Gateway of two places, with late or missing answers, late or disobedient children, shutdown: fenced, earned reports, places that come back? | both hold |
| `durable_totals` | Are the totals of `reconcile_run` those of the wallet? | not while a second dispatch is held (finding) |
| `lifecycle_lease` | Does a worker fail its run for a lost lease only if the lease is lost? | no (finding) |
| `lifecycle_ended` | Is a run with its terminal event over? | no (finding) |
| `kol_detail_twice` | Does one of two concurrent requests for a creator's detail get into the engine? | both may (finding) |
| `stream_holes` | Is the broker only a wake-up signal? | no: a reader can skip a row (finding) |

Every action and every disjunct of the next-state relations fires in the passing
runs, and every property has a mutant of the code that breaks it
(`PROJECT.json`, "mutants").

### Bounds, and why they are enough

* Two dispatches per call: the code's own bound (`dispatch_count >= 2`). Two
  attempts of a Pi run: the code's own (one retry).
* Two calls of one user in `DurableToolCall`: properties relate one call to its
  rows, one call to the shared counters, or two calls that compete for points,
  for the counter of a month or for a place in the scan. In `MCDurableToolCall`
  the month changes only while the second call is not made, and then it never
  is: a change of month separates a permit from its counter, for which one call
  is enough. The second user of the ledger part of `transactions` shares the
  wallet and has a limit and a grant of its own.
* A grant of 20 and a limit of 20 hold two calls and refuse a third; in the
  ledger part a grant of 15 and adjustments of -10 and 5 make the wallet run out
  before, at and after the quota. `ScanLimit` 2 against two calls is a scan that
  has room for all of them.
* `PiToolCall`: two hooks of one call; repetition, retry and lost answers meet in
  it. The month changes only while the second hook has not begun. `ExportCache`:
  three requests, one build that outlives its lease or one damaged file, not
  both. `KolDetail`: three requests, one expiry. `ToolChannel`: three workers, one
  place, one key, a threshold of two, six requests.
* `RunLifecycle`: the executor and the recovery loop, which is what can follow or
  overlap one another; two requests; two decisions per attempt, so that an
  attempt can do something and then reach its limit; one fault.
* `PiRuns`: the four layouts of `MCPiRuns` are the relations two or three runs can
  have (users of one tenant, two tenants, a main run and a KOL detail of one
  session, two main runs of a session around a detail), with limits of one.
* `GatewayProcess`: one run with two claims, two places; while the first attempt
  has its place, the second one's child has not begun or could not be built
  (`Bounded`). The unit of time is ten seconds: a lease of six units, a heartbeat
  every two, requests of two, three to start a worker.
* `Publication`: a run of Pi that analyses and one of the current runtime, two
  artifacts, two revisions, three calls of which the last one publishes
  (`LastCallPublishes`), and one of the two runs leaves, or is left by its worker,
  before the end (`OneLeaves`). `TenantControl`: two requests with two writes, none
  or two configurations to begin with. `Conversations`: two callers, three
  arrivals, one key, two workers that pick up a run each (a worker that is done is
  as good as a new one, so they come in order, `PicksInOrder`): enough for a run
  begun on a stale copy beside a newer one; the session closes while both callers
  have a request on its way (`ClosesOnRequests`: nothing else looks whether it is
  open). `ToolCatalog`: two tools (one of the
  manifest), two signatures, two processes, two starts. `LoopGuard`: two errors,
  four calls. One pair of values, `x1` and `x2`, stands for the calls, artifacts,
  callers, requests and workers, whichever the chosen component has, and is its
  symmetry.
* Deadlock is not checked: months, keys, dispatches, attempts and requests are
  finite, and when all is resolved nothing is left to do.

### Fairness

Only what a loop, a timer or a callback of the code does is fair. `MigrateStuck`
and, in `DurableToolCall`, `KeepUnknown`, weakly, for each call:
`RecoveryLoop._run_loop` repeats every interval while the backend is up and
catches the errors of an iteration; it first runs the runs it has taken over, so
the assumption includes that `process_run` returns (`RunIsLeft` says that it
does). In `RunLifecycle` the scans and the engine's loop of each worker are weakly
fair, since model requests, tool calls and publications run under wall clocks;
a lease nobody renews lapses. In `PiRuns` recovery is fair for each run; in
`SourceEvents` the generator of a connected reader; in `GatewayProcess` the clock,
the timers, the continuations of a task and the pump, but neither the child's end
nor any answer of the backend. In `KolDetail` a request that can go on does, and
is not passed over for ever for the tenant's rows (strong fairness, InnoDB grants
row locks in the order of the requests); in `ExportCache` and `ToolChannel`
requests go on and leases and windows pass. No user, admin, upstream or worker
is assumed to do anything, and a worker may die at every step.

## 5. What is proved

With `tlapm`, for every value of the constants under the named assumptions of the
modules, each of which the runs evaluate. Most say that bounds are numbers and
that a value which means "none" is no other one; those that say more are
`LedgerAssumptions`, `HookAssumptions` and `RunsAssumption` (runs, hooks and
tenants are finite; ids are numbers), `PubRunsAssumption`, `EventsAssumption`
(`AnswersOnce`), `GatewayAssumption` and `FenceAssumption` (the times of a Gateway
fit together). Every invariant and every action property that a passing run
checks is stated by a theorem.

| module | theorems | argument |
|---|---|---|
| `TenantLedgerProofs` | `LedgerTypeCorrect`, `LedgerConserves`, `LedgerEscrow`, `LedgerAccounts`, `LedgerSpendingIsBounded` | `Accounts` (types, conservation, agreement with the rows) is inductive; cardinalities need that the sets of rows are finite. The bounds on spending are action properties of the types |
| `DurableToolCallProofs` | `DurableInvariant`, `DurableTypeCorrect`, `RowsMatchLedger`, `DurableRowsAreTrue`, `CallsAtMostOnce`, `NotSentIsNotSent`, `DurableCallIsSafe`, `DurableTerminalIsFinal`, `DurableReplayable`, `DurableImplementsLedger`, `DurableConserves`, `DurableKeepsContract` | every step is a step of the ledger or leaves it alone, and maps to a step or a stutter of the contract; `DurableInv`, see below |
| `RunLifecycleProofs` | `LifecycleTypeCorrect`, `EndedRunsHaveEvent`, `EndsOnce`, `EventWithTheEnd`, `SlotFollowsRun`, `CompletionIsByHolder`, `OneOpenAttempt`, `RowsSayTheSame` | see below |
| `PiRunsProofs` | `QueueCounts`, `QueueIsExclusive`, `QueueCancellationWins`, `QueueKeepsLimits`, `QueueKeepsTypes` | `QueueInv`: rows whose attempt, hash and lease fit their status, counters that count claims, one active main run, the slot of a claimed run. `LimitInv`, see below |
| `TransactionsProofs` | `TransactionsKeepTypes`, `TransactionsKeepBooks`, `CountersStayTrue`, `PublicationStaysSound`, `TransactionsKeepConduct`, `CatalogStaysSound`, `TransactionsKeepAdministration`, `TransactionsStartRight`, `TenantStaysSound` | `TransactionsInv`, the conjunction of one inductive invariant per component; a step of the whole is a step of each component or leaves it alone. See below |
| `ServicesProofs` | `PiTypeCorrect`, `PiCallsAreSafe`, `PiChargesAreDeserved`, `PiImplementsLedger`, `PiIsBilledByContract`, `DetailStaysSound`, `ExportStaysSound`, `ChannelStaysSound`, `ServicesKeepTypes`, `ServicesStaySound`, `ServicesKeepCalls` | `PiInv`: rows follow the ledger, one hook per call is past its preflight, what a report on its way says is true, rows are deserved, no row runs in a run that was left. `KdInv`, `ExInv`, `ChInv`, see below |
| `GatewayProcessProofs` | `GatewayInvHolds`, `GatewayStaysSound` | `GatewayInv`: what a Gateway believes of its lease the row grants (`UnderLease`), its timers end within it (`OnTime`), attempts have numbers and places of their own |
| `SourceEventsProofs` | `EventsInvHolds`, `EventsKeepTypes`, `SourceEventsAreExact`, `StoryStaysWhole`, `ReadersStayInOrder` | `EvInv`, see below |

`DurableInv == DurableTypeOK /\ RowMatchesLedger /\ WireMatchesRow /\ NotSentIsOver`.
`RowMatchesLedger` alone is not inductive with `AtMostOnce`: a second dispatch is
safe only because the first can never arrive, and that rests on facts about
workers that the row does not show. `WireMatchesRow` says that every request that
was received or can be, and every worker that is still at work, belongs to the
current dispatch of its call, and that a refused worker has no request left.
`NotSentIsOver` says that the call of a row marked definitely_not_sent has no
request and no worker. With both, `PrepareRetry` leaves no request and no worker
behind: it cannot break `AtMostOnce`, and no worker of the first dispatch can
resolve the permit of the second. For `SettledReplayable`, `ReplayInv` adds that an
outcome was read from an answer that had been received.

In `RunLifecycleProofs`, `StepEffect` says what a step may do to the run at all:
keep its status, end it with its event, end once more what has its event, leave
it waiting, or start it; it is where the copies come in (`SavedRow`).
`EndedHasEvent`, `OneTerminalEvent` and `SlotMatchesRun` are inductive with the
types, by that lemma. `AttemptMatchesStatus` is not: a queued run is claimed on
the word of a copy. `AttemptInv` adds `QueuedIsUntouched` (as long as a worker
looks at a queued run, the run is queued or cancelled and no session has got
further) and `OnlyExecutorsLook`, and it needs the hypothesis `OneExecutor`,
without which it is false.

**The limits of the queue.** A claim counts running runs in a snapshot older than
its locks, so nothing in the state says that the count is right, and
`OrderlyQueueKeepsLimits` is far from inductive: two Gateways with old snapshots
may each claim a run. What protects the limits is the order. `LimitInv` says that
a run keeps its place (`Placed`), that every running run has fewer active runs of
its tenant ahead of it than the limits allow (`RunnersFit`), and that of the runs
a claim in progress goes for, all active ones ahead are among the running runs of
its snapshot (`SnapshotsKnow`): the oldest queued run has only running ones ahead.
Since a requeued run keeps `queued_at`, those ahead of a run only become fewer
(`AheadShrinks`). The youngest running run of a tenant has all others ahead of it:
they are at most the limit. Where two runs of a tenant came in one second, a newer
one may get ahead of an older, and the argument (and the property) fails.

**Publication and conduct.** `PubInv`: what a call in progress may rely on (its
snapshot is a past of the rows), heads, versions with the attempts that made them,
events; that a run of the current runtime whose end is under way has no call that
could still change what the end has read (`CallsSound`, `CleanRuns`), and that the
versions a Pi run's end has counted do not go (`Analysed`, `ReportStays`). `CvInv`: a
message that still has the last number has seen every key and every answered
question; the runs under way, but for those in `cvStale`, are at most one; while
there are none of those, the slot names it. `TcInv`: the catalog is at least as far
as any listing that may still be written (`NotBefore`): a signature stays, and
approval only goes, for good once a refresh has found the tool faulty. `TaInv`: the configurations a request has seen are a beginning
of those that are there. `SkInv`: an activation tells the last two different
revisions of its scope's past. `LgInv`: the guard's row tells the last result of a
part, and its streak how often it came.

**The books per month.** `CountersStayTrue` says for the ledger alone that the sums of a
user's monthly columns are those of the user's rows. The sums are taken without
recursion, as the cardinality of the set of points that the columns stand for
(`PointsOf` in `MCTransactions`), so that a transaction adds or takes away ten of
them.

**Services.** `KdInv` says of a creator's detail that the views of requests are pasts of
the rows, and that as long as no run has ended one has the head. `ExInv`: claim
tokens are given out once, and a builder at work has one of its own, so that a
late one cannot mark another's file. `ChInv`: the queue of a service lists those who wait, each
once, and places held, given back and free add up, also when a place goes
straight to one who waits.

**Source events.** `EvInv` relates the rows to what worker, pump, requests on the
wire, handlers and readers know of them: rows are what the attempts said
(`RowsSaid`), in their order and without gaps (`RowsOrdered`, `NoGaps`); what the
pump takes as received, or a handler answers, is stored; the terminal event is the last;
the merged message ends with the texts of the attempt that answers
(`AnswerHasItsText`).

Facts about data that would be an induction (a greatest number, an oldest run, an
index where a list begins to differ) are proved from a least counterexample, by
the well-foundedness of the natural numbers (`LeastNatural`).

### Only model-checked

Liveness under fairness: `NobodyIsLeft`, `PiNeverStuckRunning`, `ServicesAnswer`,
`RunIsLeft`, `LostRunsAreTaken`, `EndReachesReaders`, `PlacesComeBack`. It is out of
the prover's reach. Nothing that is proved about needs recursion.

## 6. Findings

Runs that TLC refutes:

1. **Totals per call instead of per permit** (`durable_totals`).
2. **A lease lost only in the copy** (`lifecycle_lease`). The heartbeat keeps the
   row's lease live through a long iteration; the engine compares the time with
   its copy of the expiry, finds the lease lost and fails the run.
3. **A run that goes on after its end** (`lifecycle_ended`). A cancellation between
   the executor's (or a resumption's) first read and its lock: the run is set to
   running again after its terminal event. No later settlement changes it, since
   each finds that event, so it is taken over again and again; a pause, or
   `_fail_run`, which migrates before it looks for the event, gets it out. In
   `Conversations` the same step meets a newer run: the slot of the cancelled one was
   free, a message started another, and now both are running in one session, whose
   slot names the older (`begin_attempt` looks at no other run and sets it
   unconditionally, `repository.py:65-98`). `OneAtATime` therefore excepts the runs in
   `cvStale`, and speaks of the slot while there are none.
4. **Two detail runs for one creator** (`kol_detail_twice`).
5. **Rows skipped by a reader** (`stream_holes`).

Other things the models show or that came up while modelling. Each is in the
model as the code has it, and no property contradicts it:

* A missing tool that is not in the manifest stays usable. `refresh_service` looks
  the rows of missing dynamic tools up by the name in the allowlist's value
  (`registry.py:284-291`), while they are stored under the allowlist's key (388-403,
  and the comment at 200 that calls the value's name out of date). It counts the tool
  among those in quarantine and leaves its row approved; calls go on until the
  provider refuses them. `CatalogIsSound` is about tools found changed, and tools of
  the manifest found missing.
* `_record_rejection` says that a run with a failed publication is not marked as
  completed (`publishing.py:117-118`). That holds in the current runtime
  (`CompletedIsClean`); the terminal request of Pi counts no attempts
  (`router.py:461-471`), and a Pi run with a rejected publication ends plainly
  completed.
* Month change: a permit reserved before the end of a month and resolved after it
  finds `reserved < 10` in the new month's counter, and the outcome is rolled
  back; with another call held in the new month it takes that call's points from
  the counter (`billing/models.py:144` calls counter and reservation paired;
  `accounting.py:969`). The wallet stays right; `UserCountersMatchRows` is about
  the sum over months for this reason.
* Lost answer to finalize: the Gateway reports `result_unknown`, and `fail_mcp`
  overwrites the settled row (`app/pi_gateway/service.py:855`): unknown in the
  call table, charged in the ledger.
* Backlog: reported calls stay in the bounded scan of 200 (`recovery.py:304`), so
  later ones may never be reported; `NobodyIsLeft` is checked with room for all.
* The runbook says that three failed heartbeats lose a lease
  (`docs/runbooks/pi-agent-gateway.md:264`); two do (`gateway.ts:302`,
  `GivesUp`).
* Tenant rollback: the runbook's change of `runtime_backend` without a matching
  configuration is refused with `runtime_config_backend_mismatch`
  (`runtime_config/service.py:283`).
* Limits of the License are counts of the claim's snapshot: two Gateways may pass
  them together where two runs of a tenant came in the same second, or a KOL
  detail runs (otherwise they cannot: `QueueKeepsLimits`); a tenant's oldest queued run of a user at the limit hides its
  other runs (`scheduler.py:404`); a session with two queued runs makes
  `claim_next` raise for everybody while it lasts (`scheduler.py:181`).
  `authorize_run` counts after authentication only (`licensing/service.py:114`).
* The comment at `pi-gateway/src/main.ts:308` promises that a heartbeat's timeout,
  its repetition and the grace are always within the lease. They are for the
  default times (60, 20, 15 and 5 seconds); `config.ts` takes others without
  asking (a request may last up to two minutes), and with a timeout of 34 seconds
  a heartbeat that fails just before the grace is followed by one that finds less
  than the grace left. `FenceAssumption` (`BeatsFit`) states what is needed.
* A clarification, and a cancellation that the API settles at once, leave the
  claim's counter and hash until the run is released elsewhere.
* The half-open probe of the breaker is given to a call before `prepare`, which
  may replay or refuse it; no record follows and the key stays shut
  (`circuit_breaker.py:67`; `ToolChannel` has such keys in `wasted`).
* Dispatches that survive their cancellation no longer count in the semaphore of
  their service (`loose`).
* In the current runtime the loop guard's own transaction asks for the session's
  row, which the tool's transaction holds shared through the foreign key of its
  artifact event: it gives up after the lock wait (`LockWaitTimeout`), the success
  is not recorded and the tool is reported as failed.
* A second partial rollout moves the tenants outside the percentage back to the
  revision before the last, not to the one they had.
* `terminal()` and `internal_tool()` read the run by a plain SELECT before they
  lock; `publish_artifacts` checks the lease only at its entry;
  `_claim_working_head` leaves a draft with current revision 0 until its first
  save; the completion validator looks at the latest version of an artifact only;
  `update_tenant` decides on a view that may be stale; a taken-over worker may
  write its copy of `loop_guard_json`; `create_tenant` does not floor `valid_from`;
  the merged message of a Pi run keeps deltas of lost attempts.
* The audit row of an unknown call is written by `fail_mcp_call` only; stuck
  migration and fencing leave it out.

## 7. Not modelled

* License and membership refusals of single calls (they change nothing); usage
  records and costs beyond `reconcile_run`; result parsing, evidence content,
  wording of messages; sessions and headers of the transport.
* Builders, exporters, reports, normalizers and the calculation tools
  (`app/agent_artifacts/builders`, `exporters`, `app/selection/normalizers.py`):
  about a quarter of the backend. They are functions from payloads to payloads,
  field by field, on decimals and text; a small instance would tell nothing apart
  that their tests do not.
* Legacy wallets and the legacy MCP gateway: the tenant wallet has been the only
  source of truth since the cutover.
* The web client beyond its role as a reader of the stream, listings and CRUD
  administration, identity, uploads, prompts and memory, the model gateway (the
  model's answer is a step that may take long or fail).
* The proof-of-concept scripts of `app/pi_runtime_poc`: not on the path of a run.

These parts make up most of the lines of the repository, which is why the mapped
share is what it is: the models cover the code with shared state, and leave aside
the code that computes or displays.

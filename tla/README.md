# A TLA+ verification project for coder-split-rust

The repository is a Rust rewrite of the Coder backend: `coderd`, an Axum server
over PostgreSQL, run as one or several replicas, and the provisioner daemons that
connect to it. Most of its 190 000 lines are routes, types and single statements.
This project models the parts where the order of events decides whether the
program is right: tables that several processes write, leases and locks, caches,
background tasks, coordinators and the end of the process.

Paths below are relative to `src/`. `PROJECT.json` maps every definition that
models code to its lines, and lists runs, mutants, hazards, findings and theorems.

## 1. Inventory

| component | state | operations | what makes it hard | correct when |
|---|---|---|---|---|
| provisioner job table (`crates/coder-db/src/store/provisioner.rs`) | `provisioner_jobs`: started, canceled, completed, error, worker, updated_at | insert, acquire (`FOR UPDATE SKIP LOCKED`), heartbeat, complete, cancel, select stale | unconditional UPDATEs by id, four kinds of writers | a job has one owner; cancellations are not undone; the status moves along the lifecycle |
| daemon sessions (`crates/coder-provisioner/src/server.rs`) | `current_job` of the connection | messages, heartbeat timer, cancel-check timer | disconnects, lost answers, crashes with a job in hand | one session works on a job; cancellations arrive |
| stale-job reaper (`crates/coder-provisioner/src/lib.rs`) | the list of a pass | select, then one write per job | list gets stale; threshold against heartbeat | orphans end; a job that is worked on is left alone |
| DRPC service (`drpc_service.rs`) | none, works on the table | AcquireJob, UpdateJob, FailJob, CompleteJob | check on a row read earlier | an outcome changes only by calls that passed their check before it |
| notification dispatch (`crates/coder-notifications/src/lib.rs`) | `notification_messages`, backoff map per replica | acquire lease, send, two bulk writes | lease against slow batches, two retry clocks, one counter, failing writes | one cycle per message; final statuses stay; bounded sends; every message resolved |
| circuit breaker (`crates/coder-core/src/circuit_breaker.rs`) | state, two counters, last failure | call, report, status | calls that outlive the state they were admitted in | counters agree with the state; recovers |
| auth sessions (`crates/coder-auth`) | `auth_sessions`, one cache per replica | login, request, logout, password change, user deletion | read, revoke, insert; evictions are local | a revoked session dies within a bound |
| crypto key rotator (`crates/coder-server/src/crypto_key_rotator.rs`) | `crypto_keys`, advisory lock | sweep, lazy first key | lock can be lost, sweep works on an old list | always an active key; none removed too early |
| batched audit sink (`crates/coder-audit/src/batched_sink.rs`) | channel, batch | record, flush task, close | fallback after a failed batch, shutdown in the middle | order kept, events settled |
| usage tracker (`crates/coder-server/src/usage_tracker.rs`) | channel, pending map | add, flush, cancel | biased select | pings written |
| shutdown coordinator (`apps/coderd/src/shutdown.rs`, `main.rs`) | task list, deadline | run | one budget, dropped futures whose work goes on | pool closed last; process ends |
| replica manager (`crates/coder-server/src/replica_manager.rs`) | `replicas` | register, heartbeat, prune peers, shut down | each process stamps with its own clock, cycles fail or come late | a running process is listed; dead rows go |
| tailnet coordinator (`crates/coder-connectivity/src/tailnet.rs`, three WebSocket handlers) | sessions by peer, nodes, tunnels in two maps, subscriptions | coordinate, update node, add and remove tunnels, disconnect, close | sessions are overwritten while their handlers go on | the maps agree; everybody holds the nodes it should and no others |
| pub/sub (`crates/coder-db/src/pubsub.rs`) | channel map, order queue, LISTEN connection | subscribe, publish, clean up, close | orders are sent after the lock is released; connection breaks | nobody waits on a closed pub/sub |
| reconnecting PTY (`crates/coder-server/src/reconnecting_pty.rs`, `handlers/agents.rs`) | session map, ring buffer, pump flag, writer count, grace deadline | attach, replay, pump, detach, expire | each field has a lock of its own, detaching is a task of its own | one pump per session; stream and scrollback without a hole |
| workspace lifecycle workers (`crates/coder-workspaces/src/lib.rs`, `handlers/workspaces.rs`) | `workspaces`, the latest build, job status | autostart, autostop, dormancy, deletion, activity bump, the user's requests | four workers per replica decide on rows they read earlier | deadlines within the maximum; nothing stays overdue |
| connection guard, prebuild reconciler, retry helper, rate limit | | | | not modelled, section 7 |
| HTTP handlers, RBAC, identity, licences, telemetry, MCP, tooling | | | little concurrency of their own | not modelled |

How they interact: through PostgreSQL. Handlers, sessions and workers of every
replica issue single statements against the same tables; within a process they
share caches, channels and cancellation tokens. A statement is atomic (READ
COMMITTED with row locks), a handler with two statements is not, and the models
cut exactly there.

## 2. Modules

| module | models | extends / uses |
|---|---|---|
| `ProvisionerJobTable` | the statements on `provisioner_jobs`, one operator each | |
| `JobLifecycle` | abstract: what the provisioner promises of a job | |
| `ProvisionerDaemons` | users, sessions, reaper, crashes, time | table; refines `JobLifecycle` |
| `ProvisionerDrpc` | DRPC calls as check, then write | table |
| `NotificationDispatch` | queue table and the dispatch loops of the replicas | |
| `CircuitBreaker` | one breaker with concurrent callers | |
| `AuthSessions` | session table, caches, requests in flight | |
| `CryptoKeyRotator` | one feature's keys, sweeps step by step, the lock | |
| `BatchedAuditSink`, `UsageTracker` | channel, buffer, background task | |
| `Shutdown` | the process: handlers, both tasks, coordinator, pool | both of them |
| `ReplicaManager` | the replicas table and the heartbeat loop of every process | |
| `TunnelStore` | the tunnel maps and their operations | |
| `TailnetCoordinator` | coordinator and the handlers of its connections | `TunnelStore` |
| `PostgresPubSub` | one channel: map, listener task, publisher, close | |
| `ReconnectingPty` | store, pump tasks, clients | `PostgresPubSub` |
| `WorkspaceLifecycle` | one workspace under its workers and its user | |
| `MC…` | constants for TLC | the module named |
| `Provisioner_proofs` | theorems of the provisioner | `ProvisionerDaemons`, `ProvisionerDrpc`, `TLAPS` |
| `Process_proofs` | theorems of what lives in one process | `AuthSessions`, `CircuitBreaker`, `Shutdown`, `TLAPS` |
| other `…_proofs` | theorems | the module named, `TLAPS` |

Conventions. Variables and actions carry the names of columns, locals and
functions where TLA+ allows. Definitions marked as mutants are plausible bugs:
each is the mutated form of the definition that follows it and is not part of the
specification. They show that the property they belong to can fail.

### Provisioner

`started`, `canceled`, `completed` are the sets of rows whose column is not null,
`worker_id` is the column, `age` the time since `updated_at` (saturating just above
the thresholds, so that time needs no bound), `JobStatus` the generated column.
`Acquirable` and `Oldest` are the subselect of the acquire statement: organization,
type, tags (with the rule for untagged jobs), oldest first. Every statement is
applied without looking at what it does not check: `CompleteJob` and
`CancelAndComplete` write by id, whatever the row says.

A session handles one message or timer at a time, so a handler is one action.
A store call can fail before its effect (a stuttering step) or after it
(`SessionAcquireLost`, `SessionCompleteUnacked`, `SessionCancelCompleteUnacked`). The
reaper's select and its writes are separate steps. `ServerCrash` clears all that is in
memory. `MaxLateness` is how late a heartbeat may reach the table; `silence` counts how
long a session with a job has not stamped it. The cancel check's branch for a row that is
gone is left out: nothing but tests deletes rows of `provisioner_jobs`.

`ProvisionerDrpc` splits a call into the read and check (`RpcCheck`) and the write.
The service has no caller outside tests, and nothing serialises its calls. Both checks of
two calls can pass before either write, and the second verdict then replaces the first:
`OutcomeSettles` says that this is all that can happen, since a finished job lets no
further call past its check and each overwriting uses up one that was past it.

Left out: daemon and key rows, deletion of jobs by cascade, log text. One reaper
is modelled. The database's `NOW()` and the server's clock are taken to agree.

### Notifications

Times are ticks of `base_retry_interval`. A cycle is: read the pause
setting, lease the oldest rows in one statement, take the messages up one after the
other (preference, backoff gate, rendering, transport), then two bulk
writes. The writes go by id and check neither status nor lease, as in the code.
`PassesUnlessRead` is the code's rule that a setting which cannot be read counts as
"go on". `Recipients` groups the messages that share a (user, template) preference.
The jitter is less than a tick: a backoff ends on its tick or on the next.
A cycle may last up to `MaxCycle` ticks, longer than the lease, as in the code, where a
batch of 50 with timeouts of 30 s each meets a lease of 30 s that is not renewed. `outlived` is a
history variable: the messages that some cycle held until their lease ran out.
`SKIP LOCKED` is taken as exact oldest-first. No code in the repository inserts
messages, `Enqueue` is marked external.

### Circuit breaker

A call is two steps: `CallStart` admits it, `CallEnd` records its result in
whatever state the breaker is by then. The result is that of the dependency when
the call ends. The registry is a list of independent breakers.

### Sessions

A request that misses the cache reads the table (`RequestReads`) and later inserts
(`RequestInserts`): a revocation fits in between. Each replica has its own cache;
logout and password change evict from one of them, deletion of a user, which removes the
rows in one transaction, from none.
Lazy eviction on `get` and the sweep on insert are in the code's order.
`revoked_for` is the history variable the property is about.

### Crypto keys

A sweep is the code's loop: take the time, try the lock, list, then per key delete,
rotate (sequence read first, transaction second) or keep, insert a key if none was
valid, release. The lock belongs to a connection: `LoseLock` frees it while the
sweep goes on, and an unlock that fails sends it back to the pool with its connection,
where it keeps every other replica from sweeping until that connection is closed
(`Release`, `PooledLockEnds`); its own replica may get it again. Any statement may fail.
The handler's lazy insert (`RequestFindsNone`, `RequestInserts`) takes no lock. The replicas'
clocks and the database's `NOW()` are one clock, `now`.

### Audit, usage, shutdown

`flush_loop` is cut at its awaits: `recv`, `drain`, `window`, the bulk insert and the
single inserts of the fallback. A bulk insert may fail, or take effect and lose its
answer; the fallback then writes every event again, under new ids. `UsageTracker` has
the three branches of the biased select; the branch for a dropped sender is left out,
because `coderd` keeps the sender until it exits. `Shutdown` runs the tasks in the
order in which `main` registers them, with one task that stands for the workers
between the usage tracker and the database. Connections that were upgraded before
the shutdown may record events until the process exits.

### Replicas

An element of `Replicas` is one run of one process, since ids are drawn afresh. A cycle
is three steps: take the stamp, `UPDATE` the own row, `DELETE` the stale ones; any
may fail or the process may die in between. Stamps and the cut-off come from the
process's own clock (`Skew`). A refresh that finds no row only warns, as in the
code, so a row that is pruned once is lost until the restart. What the environment
grants is the guard of `Tick`: due steps are at most `MaxLag` late and at most
`MaxFailures` cycles fail in a row. `MarginAssumption` says when three intervals are
enough.

### Tailnet

The coordinator is one mutex, so a call is one step; what is not atomic is the life of
a connection: `Connect` may overwrite the session of an older connection whose handler is still
running, which then sends requests by *peer* id or closes by *session* id. `told` is what
the far end holds once it has read its channel, which is unbounded and in order. A request
has up to four parts, applied in the code's order (`ProcessRequest`). Proxies come
through `MultiAgentConn` and subscribe instead of opening tunnels. Error answers,
ready-for-handshake and the DERP map change none of this.

### Pub/sub and PTY

`PostgresPubSub` is one channel. The map is under a mutex, an order to the listener task
is sent after its release, and the task takes orders and notifications in any
order: `Subscribe`/`SendListen`, `PublishChecked`/`Publish` and `MaybeCleanup`/`SendUnlisten`
are pairs of steps.
A LISTEN fails and takes the entry out, a connection breaks and what was under
way is lost. `ReconnectingPty` is the handler and the store for one `reconnect_id`:
`get_or_create` is cut where it releases the map, `attach_agent`, `push_output` and the
detach task where they release a field's lock. A pump subscribes, attaches to whatever session
the map holds by then, and pushes into the session it was spawned for (`bound`, `own`). Bytes
are numbered as they are pushed; a message is its number of bytes. Reader count and
`last_activity` are left out: only `prune` reads them, which nothing but tests calls.

### Workspaces

`WorkspaceLifecycle` follows one workspace. Instants ahead are ticks left (-1 once
passed), instants in the past are ages, so time has no bound. A worker's pass is `Read`
(the eligibility query with all its branches, then the worker's own decision) and
later one of `Trigger`, `MarkDormant`, `SoftDelete`, `Bump`; the user's requests come in
between. The history variable `asleep` is the length of the unbroken dormancy so far, which
re-stamping a dormant workspace does not restart. A new build takes the place of the latest one and a bump on its way to the old
build is lost with it. Quiet hours are a choice, the autostart schedule an event, the
executor's truncation to the minute is below a tick. Owners are active or suspended. A
canceled job is one that never completes to these workers, except that a schedule may start
the workspace after it; no property tells them apart.

## 3. Runs

| run | instance | shows |
|---|---|---|
| `daemons` | 2 jobs, 2 daemons, 2 sessions, reap batch 1, threshold = heartbeat interval, heartbeats up to a tick late | `SingleHolder`, `CanceledIsOverOrOwned`; a held job is condemned only for its session's silence; refinement of `JobLifecycle`; orphans and pending jobs end, cancellations are delivered |
| `drpc` | 2 jobs, 2 calls in flight | outcomes settle, a reported cancellation is real |
| `notify` | 1 message, 2 replicas, 3 attempts, lease 2, cycles up to 3 ticks, 1 failure | the lease excludes until a cycle outlives it, only then are final statuses overwritten and sends exceed the attempts, by a bounded number; every message resolved for good |
| `breaker` | 3 callers, threshold 2, 2 probes | counters agree with the state, late successes do not close, open is probed, recovery |
| `sessions` | 2 tokens of one user, 2 replicas, TTL 2, lag 1 | a revoked session is accepted for less than TTL + lag |
| `crypto_keys` | 2 replicas, 1 request, clock to 5, 3 sequences, 1 lost lock or crash, unlocks may fail | always an active key, none removed early, no double rotation under the lock |
| `shutdown` | 3 events, batch 2, 1 ping, budget 2 | order of the trail, pool closed last, process ends, events settle |
| `replicas` | 2 processes, clocks 1 tick apart, interval 2, 1 failed cycle, time to 17 | a running process keeps its row and is listed by all, rows of dead ones go in time |
| `tailnet` | an agent with 2 connections, a user, a proxy, 2 nodes, requests of up to 2 parts | tunnel maps agree, views are current and hold no ghosts, an overwritten connection ends without harm |
| `pty` | 2 clients, 2 pumps, 2 sessions, 3 WebSockets, messages of 2 and 1 bytes, ring of 2, 1 fault | one pump per session, writers counted, scrollback and stream whole, nobody waits on a closed pub/sub |
| `workspaces` | one worker of each kind, all periods 1 tick, 1 user build, 1 failed statement | no deadline beyond its maximum; overdue is stopped, due is deleted |
| `workspaces_autodelete` (violation) | the same | a dormancy after a wake-up inherits the deletion instant of the one before |

### Bounds and why they are enough

Two sessions, replicas, callers or sweeps are what a race needs; three callers
are more than the two probes. Ages and deadlines saturate or count down, so
time itself is unbounded except in `CryptoKeyRotator`, whose clock of five ticks
covers creation, rotation, the grace period and the deletion of the old key with
durations of one or two ticks, for a sweep that comes in time (the successor starts
when the old key expires) and for one that is late (it starts with the sweep), and
three sequences give the first key two successors. A tick stands for the code's
hour, of which the default interval of five minutes, times three, is no whole tick:
hence `Interval = 0`. A batch of two with three events makes full, partial and last
batches happen. Failures are bounded (`MaxFailures`, `MaxLosses`) where each one can
add to a counter. Logs are counted up to `MaxLogs`. The safety results that
matter most are proved for all values of the constants (section 5), so the bounds
matter for liveness only.

In `daemons` the threshold and the heartbeat interval are equal, as the code's defaults
are, and a heartbeat may come a tick late, so live jobs are reaped there too. In `notify` a cycle
of three ticks outlives the lease of two, so that the other replica acquires, sends and
writes the same message in between. The rows of two messages do not touch each other but in the
order of the acquire and the sharing of a backoff window; two of them are 8.5 million states, and the
proofs cover any number.

`replicas` runs to tick 17: a process registers, fails a cycle, a peer dies, and the
dead row passes three intervals of two ticks and one silence. In `pty` the first message
fills the ring at once and the second pushes a byte out; three WebSockets let a client
come back to a session whose pump has ended, two sessions let a pump attach to
another session than its own, and a subscriber's backlog of one makes it lag. In
`workspaces` a period of one tick gives every comparison a before, an at and an after;
only the checker's pass may last a tick, which is enough for a stale dormancy.

Symmetry is used in `sessions` (tokens, replicas), `crypto_keys` (replicas) and `pty`
(clients, pumps), which check no liveness. `CHECK_DEADLOCK FALSE` is set where the model really stops:
all calls done, the clock at its bound, the process exited.

### Fairness

- Daemons: weak fairness of time, heartbeats and cancel checks (tokio timers).
  Strong fairness, per job, of being in a reaper's batch (the select orders by
  `random()`), and of its write (a store that does not fail for ever). Nothing is
  assumed of daemons or users.
- Notifications: weak fairness of time, of the poll, of taking up a message and of the
  bulk writes. A send that never returns is excluded by the transports' timeouts.
  `MessageIsResolved` also supposes that dispatching is not paused for ever.
- Breaker: time passes, calls keep coming, each ends. `Recovers` supposes that the
  dependency stays healthy.
- Shutdown: the tasks and the coordinator are scheduled, timers fire. Nothing is
  assumed of the database for `ShutdownEnds`; `EventIsSettled` supposes that writes
  return, with success or not. The coordinator cannot cut off a task that blocks
  its thread; the OpenTelemetry task is such a synchronous call and is not modelled.
  Nor is axum's own graceful phase, which has no timeout.
- Tailnet: a handler whose channel was closed is polled (weak fairness of `Evicted`).
  Sockets need not close.
- Workspaces: weak fairness of time, of each worker's tick and of its write. Nothing is
  assumed of the user, the provisioners or the schedule; the leads-to properties allow
  that the state changes under the worker.

## 4. Findings

`workspaces_autodelete`: `PUT /workspaces/{id}/dormant` goes through
`update_workspace_dormant_at`, which writes `dormant_at` and leaves `deleting_at` as it is,
while the workers' statement derives one from the other. A workspace that was marked
dormant by a worker, woken by its user and later put to sleep by hand has a
`deleting_at` in the past and is deleted by the next pass of the executor, without the
template's period. TLC's counterexample is this sequence: `MarkDormant` by the checker,
`PutDormant(None)`, two ticks awake, `PutDormant(0)`. The property measures the dormancy by the
history variable `asleep`, which a second request on a workspace that is dormant already
does not restart, so that only a wake-up can violate it; with a `PutDormant(None)` that cleared
`deleting_at` the property holds on the same instance.

Divergences met while modelling, which are in the models but have no run of their own:

- The reaper's default threshold (30 s, `coder-provisioner/src/lib.rs:112`) equals the sessions'
  default heartbeat interval, so any delay of a heartbeat exceeds it and the job of a live
  session is reaped. `HungReapNeedsSilence` says what is left: nothing but that silence
  condemns a held job.
- The reaper's write goes by id (`lib.rs:476`): a job that was completed since the select has its
  verdict replaced. `JobLifecycle` allows a later verdict for this reason.
- `drpc_service.rs:277` and `:342` reject a job that is completed already, by a check
  on a row read before: two calls in flight replace each other's outcome.
- The comment at `app_store.rs:5804` says that the acquire prevents two replicas from leasing the
  same row. It does until the lease runs out; a cycle that takes longer shares its messages with
  another replica's, and the later bulk write may turn a sent message back into a failed one.
- A notification that is skipped because the replica's own backoff window is open is
  recorded as a failed attempt (`coder-notifications/src/lib.rs:360`), although the comment says that
  it goes back to the pool; the skip can use up its last attempt.
- The documented limit on half-open probes is not enforced (`circuit_breaker.rs:198`).
- Pings in the channel are not part of the tracker's final flush (`usage_tracker.rs:144`).
- An `Unlisten` order can reach the listener task after the `Listen` of a newer
  subscriber (`pubsub.rs:165`), who then hears nothing.
- PTY: output fanned out between the scrollback's snapshot and `subscribe` is lost to the client
  (`agents.rs:1136` says it is not); the grace deadline can be set while a newer pump
  is attached; an expired attach removes whatever session has the id by then; a pump whose
  agent disappears silently stays in `recv` and the grace window does not start.
- A request of an overwritten tailnet connection acts on the newer session
  (`tailnet.rs:692`); only the close is guarded.
- The activity bump reads rows that are eligible for a transition already, so it extends a
  deadline, as a rule, only once it has passed (`coder-workspaces/src/lib.rs:1341`).
- A running workspace that is marked dormant is stopped by nobody: the executor and the checker
  only write the columns (the comment at `coder-workspaces/src/lib.rs:927` says it "also needs to be
  stopped", and what follows only logs), and the scheduler passes dormant workspaces over, so its
  deadline passes without effect until it is deleted or woken. `OverdueIsStopped` counts going dormant as an
  end of being overdue.
- An extension that arrives between a bump's read and its write is shortened to the bump
  (`lib.rs:1378`).
- An advisory lock whose unlock fails stays on its pooled connection (`store/mod.rs:156`); the comment
  at `:168` counts on a reset hook of the pool, and none is set (`:949`).
- No statement writes `workspace_builds.template_version_preset_id`, which
  `list_running_prebuilt_workspaces` counts by: every tick of the prebuild reconciler
  creates the desired number again.

## 5. Proofs

All theorems hold for every value of the constants that satisfies the named
assumptions, which state types and positivity and, in `ReplicaManager`, the margin;
`PtyAssumption` adds that the pump tasks of a run are finitely many (their number is a
count of the code) and that a task is not a WebSocket. No theorem has a hypothesis
beyond these. Where an argument needs the types they are proved as part of the
invariant, and no run lists them.

**`Provisioner_proofs`.** `TypeCorrect`. `OneHolder` and `NoCanceledOrphan`:
`SingleHolder` is not inductive, because an acquire must know that a job somebody holds
has started: the invariant adds that rows are consistent (`RowsConsistent`: an owner exactly
for started rows) and that the reaper's list names existing rows of the right kind.
`HungReapNeedsSilence`, whatever the intervals: `FreshInv` bounds the age of a held row by
its session's silence on it, and the reaper's select compares that age with its threshold. `Refinement`: one lemma per statement shows that it is an
action of `JobLifecycle`; every other step leaves status and owner as they are.
`ReportedCancelIsReal`, for any number of calls in flight: a call that has passed its check
has a row that was started (`CallsConsistent`), and what was reported stays canceled.
`OutcomesSettle`, for any number of calls as well: `Writers` of a finished job only get fewer, since
the check refuses a completed row, and the step that changes an outcome is the return of one of them.

**`NotificationDispatch_proofs`.** `LeaseExcludes`, `FinalStaysFinal` and `SendsAreBudgeted`, for
cycles of any length. The lease is 30 s and is not renewed, and a batch of 50 with a webhook
timeout of 30 s each can take longer; the history variable `outlived` holds the messages this
happened to. `LeaseInv` adds `BatchCovered`: a message in a batch that is not in `outlived`
is still leased for as long as the lease runs from the cycle's acquire, or already
marked sent while the cycle has only failures left to write (`Covered`). So nobody else can
acquire it, and a write that overwrites a final status comes from a cycle that outlived its lease.
For the budget, `AttemptsCount` bounds by `MaxAttempts` the attempts written plus the cycles that
still owe a write (`Owers`), and the sends by the attempts written plus the failures plus the
outcomes still in memory (`Unsaved`). Exclusion makes that one cycle at a time; without it
(`Slack`) each other replica may hold one more, and since each write counts as an attempt
this does not add up over repeated overruns. `DeliveryCounts` says the same of what
the recipient got while the lease held: after a delivery the row is final, or the cycle about to
make it so, unless a failure came between.

**`Process_proofs`.** Circuit breaker: `CountersInRange`, `CountersAgree` (with the types it is
inductive) and `ClosesOnlyProbed`. Sessions: `SessionTypes` and `RevokedSessionsExpire`;
`AgesRelate` says that an entry, or a read in flight, of a revoked session is at least as old
as the revocation, up to the lag of the read that made it. Shutdown: `ShutdownTypes`,
`TrailInOrder` and `PoolIsLast`. The order of the trail needs the order of what is not
in it yet: channel and batch are increasing, the batch before the channel, and both
after what is settled (`QueuesInOrder`). The exception is the fallback after a bulk insert that took
effect and lost its answer, when all of the batch is in the trail already (`BatchIsWritten`); an
invariant without that case is not inductive. `PoolIsLast` adds that no event is
forgotten (`AllAccounted`), what the flush task holds at each of its awaits (`FlusherConsistent`)
and that a budget that is left proves that all earlier tasks ended by
themselves (`CoordinatorInv`): the pool's task is started only with budget left.

**`CryptoKeyRotator_proofs`.** `NoGap` and `NoEarlyRemoval`, with lost locks
and without any assumption on the durations. A key with a `deletes_at` has a later key that
started a grace period before that time (`RetiredCovered`), and the same holds of
every row a sweep has on its list as due for deletion (`DoomedCovered`), since a
sweep's time is never ahead of the clock (`SweepsBehind`). The largest started
key can therefore not be expired, and it is the witness of `AlwaysActive`. The action property
`RetiredKeysStay` is about runs in which no lock was lost: only the holder of the lock is
in a sweep (`HolderSweeps`), so the list it works on is as the table is (`ListIsFresh`), except for
a first key which a request has put in the place of a removed one.

**`ReplicaManager_proofs`.** `RunningIsListed` and `DeadIsPrunedInTime`, under
`MarginAssumption`: the longest silence (failed cycles, each late, and the two stamps' own
lag) plus the spread of the clocks is below three intervals. `ReplicaInv` bounds the
age of a live row by the cycles that failed since it was written, and the age of
everybody else's row by what the process's last successful prune left.

**`TailnetCoordinator_proofs`.** `TunnelsStayConsistent`, `ViewStaysCurrent`, `NoGhostNodeStays`
and the action property `StaleCloseChangesNothing`, from one invariant `TailnetInv`: a registered peer's
session is an open connection of its own (`Linked`), the maps mirror each other, and
views are current and free of ghosts. A request is a composition of four parts, so
each part has a lemma that it keeps the invariant of the coordinator alone (`Good`).

**`ReconnectingPty_proofs`.** `FlagIsTrue`, `WritersCounted`, `RingKeepsTail`,
`StreamHasNoHole` and `ClosedPumpsEnd`, for any clients, pumps, sessions, capacities and messages.
The invariants of `PtyInv` rest on each other. `OnePump` (no two tasks have the same session of their
own) gives the flag, and makes the pump the only one that pushes into its session. The
writer count is preserved by counting: attaching adds one element to `WritersOf`, dropping
an attachment moves one from the set to `detaching`. `RingKeepsTail` rests on lemmas about spans
of numbers: what remains of two consecutive spans after the oldest bytes are drained. The live stream
needs to know what a pump holds between push and fan-out (`ChunkOK`), so that the chunk it
hands out continues where the client's queue ends, and that a client was sent no more than
was pushed (`ClientOK`). `ClosedPumpsEnd` is that a closed pub/sub has no receiver attached
to a sender (`PubSubInv`), whatever order close, subscribe and the listener's steps come in.

**`WorkspaceLifecycle_proofs`.** `TypeCorrect` and `DeadlineStaysWithinMax`. The bump writes what
it computed a while ago, so the invariant adds `BumpsWithinMax`: a deadline on its way
to the latest build is within that build's maximum, which no step raises.

## 6. Model-checked only

All invariants and action properties of the passing runs are proved. Liveness
(`OrphanIsReaped`, `PendingIsResolved`, `CancelIsDelivered`, `MessageIsResolved`, `OpenIsProbed`,
`Recovers`, `ShutdownEnds`, `EventIsSettled`, `OverwrittenEnds`, `OverdueIsStopped`,
`DueIsDeleted`) is out of the reach of the installed provers and is checked by TLC on the
instances of section 3.

## 7. Not modelled

`PROJECT.json` gives a reason for each component. In short: routes and response
shapes, RBAC as a large pure table, wire formats, cryptography, tooling. Within
modelled components: passwords, one-time passcodes, API keys and OAuth2 of
`AuthService`; daemon and key rows of the provisioner; rendering of notifications; the
signed tickets of the PTY; the DERP map. The connection guard is one atomic counter, the
retry helper a loop without state. The prebuild reconciler's deletions are not reached at this
commit (section 4). The remaining workers (rollup, log pruner, update check, app
health, telemetry) are periodic single statements.

## 8. Plan

1. An abstract channel that `PostgresPubSub` implements while nobody cleans it up, and an
   abstract audit trail that `BatchedAuditSink` implements, with the refinements proved.
2. `AuthService`'s one-time passcodes and the password change that races a login.
3. The prebuild reconciler, once builds carry their preset: claims against the reconciler.

# A TLA+ verification of heliograph

heliograph is a SmokePing-style latency monitor: a hub (`cmd/smoked`) probes
targets, stores rounds of measurements, evaluates alerts and serves a dashboard;
agents (`cmd/smoke-agent`) measure the same targets from other vantages and push
their rounds to the hub. This directory models the parts of it whose correctness
depends on interleavings, failures and restarts, checks the models with TLC and
proves the main results with TLAPS.

## 1. The system

| Part | State | Operations | Talks to |
|---|---|---|---|
| Agent measure loop (`internal/agent/agent.go`) | job set, planner, dispatcher | tick, probe, buffer a round | scheduler, buffer |
| Agent buffer (`buffer.go`) | rounds, head sequence number, drop and reject counters | add with eviction, peek, commit, reload | spool (mirror) |
| Agent flush loop (`agent.go`, `client.go`) | peeked batch, backoff | push, split on 413, give up on 400, retry, final flush | hub ingest over HTTPS |
| Agent spool (`spool.go`) | pending records, watermark, segment files, head file | stage, flush, roll, reclaim, degrade, recover | file system |
| Assignment poll (`agent.go`, `arm.go`) | ETag, jobs | pull, validate, swap jobs | hub assignment endpoint |
| Scheduler (`internal/scheduler`) | next fire time per target, in-flight set, worker slots | tick, dispatch, complete | probes, round callback |
| Hub ingest (`internal/api/agent.go`) | idempotent store, last-seen, remote NTP statistics | authenticate, validate, commit | runtime, store |
| Hub runtime (`cmd/smoked/main.go`) | live config and identities, `evalMu`, `applyMu` | store and evaluate a round, reload, apply config, restart | engine, store, config store |
| Alert engine (`internal/alert/engine.go`, `matcher.go`) | windows, firing bits, delivered bits | evaluate, inherit on reload, seed from history | notifiers |
| Notifiers (`engine.go`, `email.go`, `notifiers.go`) | bounded queue, workers, counters | enqueue, deliver with retries, drain on close | web hooks, SMTP |
| Store (`internal/store`, `pgstore`) | rounds by (target, vantage, time), hourly and daily aggregates and their marks | add, de-duplicate, read history, create, validate, rebuild, backfill and refresh aggregates | PostgreSQL with TimescaleDB |
| Config store and staging (`internal/configstore`, `internal/mcp`) | versioned document, staged edits | get, set if version matches, mint ids, stage, diff, apply | runtime, dashboard, import commands |
| Config trees (`internal/config`) | none: pure functions on documents | inherit, validate, compose, merge, edit | config store, staging, importer |
| Importer (`internal/importer/smokeping`, `cmd/smoked/import.go`) | none | convert a config, stitch an RRD, insert, refresh | config store, store |
| Vantage registry (`internal/vantage`) | vantages, serials, CA | add, rotate, revoke, authorise | ingest |

What is hard about it: the agent's buffer is changed by one goroutine while
another pushes a copy of its front; the spool promises durability across kills
and power failures at any system call; the hub's config changes while rounds
measured under the old one are in flight; an alert's delivered state must stay
coherent through inhibition, reloads and restarts; queues are bounded and drop;
requests are retried after they may have been processed; several writers edit one
config document, one of them behind the hub's back; the database runs jobs of its own
between any two statements of a start or an import; credentials are issued, revoked
and issued again by processes that share nothing but tables.

`PROJECT.json` lists each component with its status, and each hazard at its line.

## 2. The modules

| Module | Models | Checked by | Proved in |
|---|---|---|---|
| `StoreForward` | the abstract promise of store-and-forward | as a property of `AgentFlush` | `AgentFlushProofs` |
| `AgentFlush` | buffer, flush loop, hub's answers, shutdown | `MCAgentFlush` | `AgentFlushProofs` |
| `AgentSpool` | spool, its mirror of the buffer, file system, recovery | `MCAgentSpool` | `AgentSpoolProofs` |
| `AlertMatcher` | the matchers, pure | through `AlertWatch` | through `HubRuntimeProofs` |
| `AlertWatch` | a matcher at work on a stream of rounds | `MCAlgorithms` | `HubRuntimeProofs` |
| `AlertEngine` | evaluation, inheritance and seeding, pure | through `HubRuntime` | through `HubRuntimeProofs` |
| `HubRuntime` | rounds, reloads and restarts around the engine | `MCHubRuntime` | `HubRuntimeProofs` |
| `Notifier` | the delivery pool of web hook, chat and e-mail | `MCNotifier` | `NotifierProofs` |
| `Scheduler` | planner, dispatcher and the polling loop | `MCScheduler` | `SchedulerProofs` |
| `VantageRegistry` | registration, certificates, revocation, the authority | through `Federation` | `FederationProofs` |
| `Federation` | assignment poll, batches and retries, ingest and commit, clock readings, over `VantageRegistry` | `MCFederation` | `FederationProofs` |
| `ConfigPlane` | the config document, the hub that runs it and all who edit it | `MCConfigPlane` | `ConfigPlaneProofs` |
| `ConfigTree` | config trees: inheritance, validation, merge, edits, diff, pure | through `ConfigDocuments` | through `ConfigPlaneProofs` |
| `HistoryImport` | the stitching of an RRD's archives, pure | through `ConfigDocuments` | through `ConfigPlaneProofs` |
| `ConfigDocuments` | what the operations of both promise of any input | `MCAlgorithms` | `ConfigPlaneProofs` |
| `Rollups` | retention, aggregates, starts and imports, statement by statement | `MCRollups` | `RollupsProofs` |

`Federation` extends `VantageRegistry` (the composition of agent, hub and registry);
`HubRuntime` extends `AlertEngine`, which extends `AlertMatcher`; so does `AlertWatch`.
`ConfigDocuments` extends `ConfigTree` and `HistoryImport`. `AgentFlush`,
`AgentSpool` and `Federation` each look at the agent's buffer from another side: its
bound and its batches, its copy on disk, and what becomes of its rounds at the hub.

In every module "Seeded fault" marks an operator that is a plausible wrong
version of the definition after it. No specification uses it; it is there so that
each property can be shown to be able to fail.
### AgentFlush

A round is its measurement number with a size and whether the hub's decoder takes
it. `Add` (with `EvictToFit`), `PeekBatch` and `Commit` are the buffer's methods.
`StartSend`, `PushAccepted`, `PushSplit`, `PushRefused`, `PushFails`, `FinishSend`
are `sendBatch` unrolled: `todo` holds the slices of the batch the recursion has
yet to push, so that a measure can fall between any two pushes. The counters
`dropCnt` and `rejCnt` are sets of rounds, to say which round was counted.
`PushFails` stands for transport errors, timeouts, other statuses and
acknowledgments that do not add up; the request goes to `late` and may still be
processed at any later time (`HubProcessesLate`). `ShutdownBegins`,
`AwaitMeasureDrain`, `FinalPeek`, `FinalDrained`, `FinalDeadline` are the bounded
shutdown. `disowned` and `gaveUp` are history variables.

`NeverOvertaken` and `KeepsPromise` are the deep ones: the first says that late
and repeated requests never bring an older round to the hub after a newer one
unless the agent had given the older one up; the second is the refinement of
`StoreForward`, where a round is held, stored, dropped (only the oldest) or
rejected.

### AgentSpool

The file system is external: a file's records are durable up to its last fsync;
a directory change is visible at once and durable at the next fsync of the
directory. With `setup.journaled` changes are kept in order (and any fsync commits
them), as ext4 and xfs do; without it any subset of unsynced changes survives,
which is what POSIX promises. Each of the two setups has its own bounds. Each step of a flush is an action of its own, so
that `Kill` and `PowerLoss` fall between any two. `Open` is one action up to the
directory fsync of a first segment. Frames have unit size. A torn frame left by a
crash is taken to be short, never one whose checksum fails by chance.

Left out: acknowledgments lost between hub and agent (in `AgentFlush`), a
capacity lowered between restarts, the directory entry of the spool directory,
errors of `os.Remove`.

### AlertMatcher, AlertEngine, HubRuntime

`AlertMatcher` has the matchers as operators on windows; `U` is NaN. The memo table
of `matchSteps` is left out, since it saves work only. `AlertWatch` has one matcher
at work as the engine uses it: each round is appended, the window is cut to the depth of
the target's deepest matcher (`Spare` says how much deeper than this one it is), the
matcher is tested on the window. `FiresAsDocumented` compares its answer with
definitions that remember the whole stream. `IsMatcher` is what the parsers let through.

`AlertEngine` is `Evaluate`, `InheritStateFrom` and the seeding for one target and
vantage: the code keys all state by both, so that targets do not interact.
`HubRuntime` adds the rounds in flight, `evalMu` (one action per critical
section), the seed read outside it (`SeedReload` and `SwapRuntime` are two actions)
and restarts. A reload may install any config of `Configs`; `fp` is the
measurement identity, of which the store keeps the host only. A round's time is
left out, so that the recency test of `recentContiguous` becomes a choice: the
history of any vantage may be too old to be read. `told` is history: who was told
FIRING and not yet RESOLVED; so is `seen`: how many rounds a window was given since its
seed, and whether one is missing between the two. A change of an alert's meaning (its target's identity,
its matcher, its attachment) closes the account, by design of the code.

### Notifier

`WebhookNotifier` and `EmailNotifier` are one pool written twice; the model is that
pool, and `map` names lines of both. `Accept`, `Drop` and `Ignore` are the three ends
of `Notify`; `Take`, `Succeed`, `Refused`, `GiveUp`, `Retry`, `BackoffEnds`,
`BackoffInterrupted` and `Exit` are a worker's steps through `deliver`; `Close` and the
four actions after it are the drain, with the closing of `done` (`Deadline`) and the
cancelling of the requests (`CancelRequests`) apart, as they are in the code. An attempt
begun after the cancellation is `cancelled`: it can only fail. The counters are sets of
what they counted (`failed` and `retried` with the attempt), so that "counted once"
can be said. Notify after `Close` is modelled because the hub does not join the
handlers of agents' requests before it closes the pools; such events go to `ignored`.
Formatting, SMTP and HTTP are left out: an attempt succeeds, is refused for good, or
fails. An event whose formatting fails is never handed over.

### Scheduler

`Tick` is the planner's reconciliation with the dispatch of what is due; `Sleep` is
apart from it because the code computes the sleep from a second reading of the clock
and the job set may change in between. `StartProbe`, `ProbeReturns` and `StoreResult`
are a job goroutine: it waits for a slot, probes, gives the slot back, and only then
stores; its target is in flight all along. `Return` is the end of `Dispatcher.Wait`.
Time is discrete and passes by `Advance`, which stops at what a timer or a probe's
deadline forces to happen and at `Lag` within an iteration. The planner goes by name
and the dispatcher by key, so a renamed target is new to one and not to the other.
Probes are taken to return by their deadline. Panics of probes are results like any
other (`safeMeasure`). A non-positive interval, which the configuration rejects, and
offsets, which no caller uses, are left out, and so is `RunRound`.

### VantageRegistry and Federation

`VantageRegistry` is one vantage's row, its recorded serials and the authority, as
their users reach them: a process opens the store (`New`, whose schema marks the rows
from before serials were recorded), selects or creates the authority (`SelectCA`,
`PersistCA`), registers and issues in two transactions (`Register`,
`IssueClientCert`), revokes (`Revoke`). The agent listener trusts the authority it
found when it started. A certificate is its serial and its authority.

`Federation` puts one agent and one hub on top. `PullAssignment` is a poll that finds
a new version, `Measure` a round with the id or name its build reports and the
fingerprint it knows. A batch goes through the handler in three steps, because the
assignment it is checked against is read before the lock that commits it:
`AgentResults` validates against a snapshot, `CommitRemote` keeps what is still live
and stores and evaluates what is new, `Respond` applies the clock readings and answers.
`CommitFails` is a write reported as failed, committed or not; `HubDiesInCommit` a death
between the write and the evaluation; `PushLost` an answer that never comes, after
which the next post may meet the first one still in the handler. `SwapRuntime`,
`HubRestarts`, `AgentRestarts` and `InstallBundle` fall anywhere. A target's measurement
identity is its `def`, and a fingerprint is that `def`; a round's time is its number.
History variables: `gen`, `newest`, `seeded`, `lost`, `revoked`, and in a sample what
was live when it was stored (`as`), what the round's own target was when the handler
looked (`own`), and whether its write was reported as failed.

### ConfigPlane

A document maps the names of its targets to an id and the state of a credential:
what tells apart the writers' errors that matter, an edit lost, a history key changed,
a mask stored. `Write` with `SetSucceeds` is `configstore.Set`. What holds `applyMu`, or
boots, is in `busy`: the start with its stamping of ids (`BootReads`, `BootMigrates`,
which may fail and leave the targets as they are, `BootBuilds`), SIGHUP (`ReloadReads`, `ReloadSwaps`), an apply (`ApplyBuilds`,
`ApplyPersists` or `ApplyConflicts` or `ApplyUnanswered`, `ApplySwaps`), an import
through the hub (`ImportBuilds`, then as an apply). `CommandReads` and `CommandWrites` are
the import commands, processes of their own that write behind a running hub. A client
has one request under way and may give up on it while the hub still serves it. The
dashboard reads (`loadCfgTree`), saves whole documents (`saveDoc`) and adopts what it
sent; `habits` says whether it is reloaded after a save. The staging session is seeded
in two reads (`ensureReads`, `ensureComposes`), edited (`StageAdd`, `StageRemove`,
`StageReplace`), applied from a snapshot (`applyStaged`, `applyStagedAnswered`) and
discarded; its client's cookie may expire. `owed`, `behind` and `stamped` are history. A document
is valid when it shares no name with the file config; anything finer is in `ConfigTree`.

### ConfigTree, HistoryImport, MCAlgorithms

`ConfigTree` has documents as trees, functions from paths to own settings:
`Effective` and `Valid` (inheritance, what `Monitors` rejects), `AppendDBFragment`,
`AppendImport`, `MintNewIDs`, `resolve`, the staging edits (`stageAddTarget`,
`stageEditTarget` with its move, `stageRemoveTarget`) and the summary `diffDocs`. An
operator that may be refused gives the set of its results. `HistoryImport` is
`ExtractRRD`: three archives stitched finest first, their steps and lookbacks scaled
down (1, 2, 4 and 4, 8, 12), a lookback still a multiple of the next tier's step. A row
stands for the instants of its step up to its timestamp, and the properties speak of
those. `resolve` is given the file config or none.

`ConfigDocuments` states what these operators promise of every input. A behaviour holds
one: trees for an edit, a summary, an import or the reuse of a name, or an RRD with the
age of the clock that reads it. `DocumentAssumption` says what an input is: a tree has
the groups above its nodes; an import brings no ids; the reuse of a name starts from
documents that validate, with an id on each target, and a UUID is fresh; an RRD has
measured nothing after its last update, and the clock was read at most one tick before.
`MCAlgorithms` puts `AlertWatch` and `ConfigDocuments` side by side, as one run.

### Rollups

A start and an import are lists of the statements they have still to execute
(`EnableDownsampling`, `import.todo`), each an action, any of which may be the last
(`Stop`, `ImportFails`). The database's own jobs (`PolicyJob`, `RetentionJob`) and an
operator who drops or replaces a view (`Tamper`) come between. A view is its shape, its
relation's OID, its rows, and the days not known to agree with the raw rows
(`Refreshed` computes those again, from whatever raw rows are left). `excused` collects
the losses the code announces: what no raw row is left of when a view is rebuilt, and
what a backfill does not reach. `missed` collects the losses listed in section 4.

## 3. The runs

| Run | Question |
|---|---|
| `agent_flush` | Is every round accounted for, in order and once, and settled at last, through evictions, splits, failures, late requests and shutdown? |
| `spool` | Do flushed rounds survive every kill, power failure and I/O error, is recovery never refused, does a staged round become durable? |
| `hub_reload` | Do windows and alert state stay right, and are recipients told what fires and nothing else, through redefinitions, rerouting and restarts? |
| `notifier` | Is every alert event counted once and settled once, in nearly its order, and does Close end in time with nothing left? |
| `scheduler` | Does each target fire once an interval, never beside itself, with its results in order, and does a cancelled loop return? |
| `config` | Does no writer of the config overwrite what it has not seen, do history keys and staged edits survive, does the hub run what is stored? |
| `config_reminted` | Does a target keep its history key when the dashboard saves twice? It does not. |
| `config_masked` | Does the store keep credentials when a staging session outlives its login? It does not. |
| `algorithms` | Do matchers, tree edits, summaries, imports and RRD stitching do what their documentation says? |
| `rollups` | Do long views keep every round through half-way starts, rebuilds, imports, late rounds and retention, and are only views of the right shape served? |
| `rollups_import` | Does the daily tier persist when raw rows are gone? An import takes it away. |
| `federation` | Are rounds stored under what they measured and evaluated once, are clock readings the newest, do certificates follow registrations, and does the agent settle? |

Bounds, and why they are enough.

- `agent_flush`: four rounds in three shapes (small, large, undecodable), a buffer of three
  rounds and four size units, pushes of up to three rounds, one outage. The buffer
  overflows by count and by size while a batch is being split, a split reaches a single
  oversize round, and a request outlives its push.
- `spool`: two setups. With a journal, segments of two, three rounds, one kill and one I/O
  error, before or after one power failure: rolls, dead segments, overflow of a buffer of
  two, and a crash while recovering from a crash. Without one, segments of one, four
  rounds and a power failure that keeps any subset of the unsynced directory changes.
- `hub_reload`: two alerts, the lower-priority one listed first, matchers of depth one and
  two; ten configs (moved to another host, or to another port of the same, removed,
  detached, without alerts, redefined, rerouted, shared, repeating, and the usual one); four
  rounds, two in flight, two reloads and one restart: a round can outlive two definitions,
  two quick reloads can read back rounds of another one on the same host, and a target can
  get its first alert while rounds arrive. One vantage: the code keys all state by vantage.
- `notifier`: two workers, a queue of two, two attempts, five events: the queue overflows
  with both workers busy, an event backs off while others overtake it, Close comes anywhere.
- `scheduler`: two targets and one slot, a lag of one tick, a clock that covers a whole
  interval of the slower target and three of the fast one; one reload renames a target in
  flight and shortens the other's interval.
- `config`: three names, one of them also in the file config, so that documents can fail to
  compose; rows with and without ids, before and after a migration that may fail; three versions, so that a writer can be two behind; three stages, one start, and
  four ways of using the hub (`Habits`), each with two writers. A start that follows a stop
  is not run: what it would do first is what the one start does.
- `algorithms`: streams of five rounds against every pattern of up to three tokens and
  thresholds of up to three rounds, in windows up to two rounds deeper; every tree
  of targets among the paths a, b, a/a, a/b, b/a with distinct ids, and pairs of trees whose
  settings vary; RRDs with a gap, around the alignment of the coarsest step, read in time
  and a tick late.
- `rollups`: one probed target and one that is only imported; raw rows kept three days, five
  days in all, so that retention drops a day that the views still show; two rounds and two
  events, an event being a stop, an import or an operator's change.
- `federation`: nine scenes, each with its own small bounds of adds, rounds, events and losses,
  that share five configs in which two targets trade names, change identity, are moved to
  another vantage or removed; two handler slots, so that a batch meets its own retry.

Runs that may stop (bounds exhausted, agent, pool or loop stopped) say
`CHECK_DEADLOCK FALSE`.

Fairness. `AgentFlush` has weak fairness of the flush loop: its waits are timers,
and its pushes end because the HTTP client has a timeout. The environment (the
hub's answers, cancellation, measuring) is not fair; finitely many outages are a
bound (`MaxOutages`), and without it no round need ever be settled. `AgentSpool`
has weak fairness of the flusher: its ticker fires and its system calls return.
`Notifier` has weak fairness of each worker, whose attempts have a timeout and whose
backoffs are timers, and of Close, which has a deadline. `Scheduler` has weak fairness
of the loop and of each job, whose probe has a deadline and whose store returns, and
strong fairness of taking a slot: the slots are a Go channel, which serves blocked
senders in turn. `Federation` has weak fairness of the poll, the post and the handler,
all of which are loops on timers or bounded by request timeouts, and strong fairness of
the commit: a database that refuses a write does not refuse every retry. Lost answers
are bounded by the scene, and `AgentSettles` supposes that the certificate stays good.
No fairness makes the clock advance, a reload come or the hub stop. `HubRuntime`,
`ConfigPlane` and `Rollups` have none: they have no liveness property.

## 4. What the violation runs show, and limits met

Each violation run is a disagreement between the code and what it, or its
documentation, says; `PROJECT.json` quotes both.

1. `config_reminted`: the dashboard keeps the document it sent, without the ids the hub
   minted (dashboard.js:2412), and its next save has the same targets minted again. Their
   history stays under the old key. A reload of the page in between prevents it, and
   `HistoryKeysKept` holds then.
2. `config_masked`: after its admin session has ended the MCP client's reads are answered
   with masked credentials, which is no error, so it does not log in again (client.go:198);
   the write that follows does, and stores the masks.
3. `rollups_import`: a refresh after an import recomputes whole days for all targets from
   the raw rows that are left (import.go:157). For days older than the raw retention these
   are the imported rows alone.

Limits met while modelling, which properties admit, or configurations leave out:

- Spool. On a file system with unordered directory changes a segment reused at startup may
  not have a durable entry (spool.go:449), recovery acts on a head file that is visible but
  not durable (spool.go:416), and removals of dead segments may persist out of order and
  leave a gap that refuses the next start (spool.go:580, docs/federation.md:227). So
  `NeverRefuses` speaks of journaled file systems, and the unordered setup has no kill.
- Alerts. The store keeps of a measurement identity its host only, so that two quick
  reloads can seed a redefined target from its old rounds (main.go:1340). A round committed
  between seed and swap is missing from the window of a target's first alert (main.go:1318,
  against docs/alerting.md:78). A rerouted alert that recovers leaves an old recipient
  without its RESOLVED (engine.go:226). A window survives a target's detachment and
  carries no times, so that rounds before and after a pause can count as consecutive
  (engine.go:210). `hub_reload` meets the first two: `ObsoleteOnlyFromSeed` admits an
  obsolete round that comes from a seed, of the same host, and `RaisesOnConsecutiveRounds`
  a window with a gap where its seed ends. Its configs keep clear of the third; the last is
  not visible without times.
- Config. A migration of ids that fails is only logged (main.go:298-300), and the hub serves
  targets without ids. The next apply or import mints UUIDs for them (main.go:684), and the
  rows stored under their paths are no longer found, against "existing prod rows survive
  with zero rewrite" (main.go:289-292). An import from the command line before the hub's
  first start does the same. `HistoryKeysKept` holds once a migration has gone through.
- Importer. A row of a coarser archive stands for several instants, and one row of each
  coarser tier reaches over the border to the finer one. It is stored beside the finer
  samples of the instants they share; or a finer sample has its timestamp, and it is
  dropped with the instants that it alone had. rrd.go:34-38 says that the tiers are disjoint
  and no sample is counted twice. At the real scale that is up to 55 minutes of history
  3.5 days back and up to 11 hours 180 days back, once for each target. `HistoryStitches`
  admits these rows and no others. An import of history that is not given the file config,
  into a database without targets, goes by paths, and misses file targets with an id.
- Notifiers. An event handed to a closed pool is neither queued nor counted (engine.go:580),
  against "nothing is ever dropped silently" (engine.go:455) and "no Notify races the close"
  (main.go:246): the handlers of agents' requests are not joined before the pools are closed.
- Scheduler. A round's budget is capped by its interval "so a round can never overrun its own
  polling interval" (scheduler.go:56), but it starts when the job gets a slot: behind slow
  targets, or fired off the grid, it ends after its target's next firing, which is then
  skipped. How many firings an overloaded pool loses is not bounded by the code.
- Rollups. A round later than the hourly policy's three days is not in the hourly view. A start
  that died between creating the views and backfilling them is not made up for: the next one
  finds both views and skips the backfill. An import that races retention loses what retention
  drops between its insert and its refresh; one that fails before its refreshes leaves rows that
  the views may not show. All four, and what the third run above loses, are in `missed`.
- Federation. A write reported as failed but committed leaves rounds that are stored and never
  evaluated, since the agent's retry is a duplicate (against agent.go:321-322); such samples
  are `blind`. A round whose name is the id of one target and the path of another is dropped
  when its fingerprint does not decide. A round of an agent that reports ids, whose own
  target is not assigned any more as it was measured, is stored under the target now at the
  path equal to its id if that one measures the same (the path fallback, agent.go:237, or
  the choice by fingerprint before it), although a round is "attributed to the same storage
  identity the assignment named" (agent.go:148-151). `RoundsKeepTheirMeaning` admits this
  case and rules out every other attribution to another id. Rounds without a fingerprint are stored under whatever
  is live, unless the hub insists on one. A target detached between the handler's snapshot
  and the commit is still stored.
- Config trees. `findNode` prefers an id to a path, so a reference that is both names the
  former; removing a target removes what is below it; `validateFragment` does not see the
  root's settings.

Simplifications that a reader should know: the poll is answered at once or not at all;
`AgentSettles` lets a target's agent keep its certificate until a newer bundle; the
dashboard's admin session is taken to be valid and the hub's file config not to change
while the hub runs; days stand for both sizes of bucket.

## 5. What is proved

`AgentFlushProofs` proves, for every capacity, batch limit, size and number of
rounds satisfying `FlushAssumption`, that `TypeOK`, `SeqsMatchRounds` and
`NoSilentLoss` are invariants. `NoSilentLoss` is not inductive: a commit removes
what the last peek took, so that the invariant must say what the rest of a
`sendBatch` has in hand. `IInv` adds that `batch` is the run of rounds that ends at
`upto`, that the slices of `todo` cover exactly the part of it not yet acknowledged
or found unsendable, and that the buffer's ids are consecutive from `headSeq`.

The second part of the module goes on from there. `ImplementsPromise` is the refinement of
`StoreForward`, step by step: `Account` says that every measured round has exactly the
fate `FateOf` computes, which needs that a round leaves the buffer in front only.
`LaterNeverOvertakes` is `NeverOvertaken`: `Order` says that the slices still to push are
in the order of their rounds and that everything older than the next slice is at the
hub, counted, or given up; a late request can then bring nothing that is both new and
overtaken.

`AgentSpoolProofs` proves, for every capacity, segment size and number of kills, power
failures, failing operations and restarts, the safety properties of `spool` on a file
system that journals its directory. The difficulty is that a power failure may leave any
of several directories: the durable one with the first few of the pending changes applied
(`Possible`). A property of the visible directory alone is not inductive, since the next
step may be a crash to another one. So the invariant says of every directory of `Possible`
what recovery needs (`GoodDir`): its segments follow one another without a gap, they reach
its watermark, what lies below the watermark is delivered or evicted, and what a flush has
promised is either settled or durable above the watermark. Each step of a flush adds a
change or removes pending ones, and is shown to leave good directories only; a removal
because it is of a segment whose records all lie below the watermark that an earlier change
has recorded (`UnlinksOK`). `RecoveryIsNeverRefused`, `FlushedRoundsAreKept` and
`RemovedSegmentsAreDead` follow. `BufferIsMirrored` needs that written and staged records
together number the buffer's rounds (`MirrorOK`), and `DiskIsBounded` counts the numbers
that the records in the directory can have between two flushes (`FlushOK`). The theorems
say nothing where directory changes are unordered (`Journaled` is false): that setup's part
of the properties is TLC's alone.

`HubRuntimeProofs` proves, for every set of configs, vantages and samples satisfying
`HubAssumption`, `NoOrphanResolved`, `InhibitedStaysQuiet` and `ActiveIsDelivered`, and,
when reloads keep recipients (`FixedRouting`), `OpenFiringsRemembered`. The
inductive invariant ties the delivered bits to `told`: where an alert is visible,
all its recipients have been told. It is what makes a RESOLVED never an orphan.

Two more theorems are about what alerts are evaluated on, for any configs and any number of
reloads and restarts. `ObsoleteOnlyFromSeed` (`WindowsHoldLiveRounds`) says where a window
can get a round of another definition from: from the store, which keeps of a definition the
host only, and then only at a restart or where a reload finds no live window of a target
that it adds or leaves as it is. `RaisesOnConsecutiveRounds` (`LossAlertsRaiseWhenDue`) says
what a firing of a loss alert rests on: X rounds stored one after the other, unless a round
was stored while the window's seed was read but not yet in place (section 4). The invariant
(`FollowInv`) has a window, and the seed of a reload under way, be what the stored history of
the vantage ends with, of one host, long enough for every attached matcher, and of the live
definition as far as the window was given rounds since its seed (`seen`); a seed that a round
has made stale is either not used, since there is a window to inherit, or the gap is known.

The third part of the module is about the matchers. `AlertsFireAsDocumented` is
`FiresAsDocumented`, for every matcher the parsers let through, every stream of rounds of
any length and every window at least as deep as the matcher asks for. By `WatchInv` the
window is what the history ends with, all of it or at least the matcher's depth, and the
alert is firing exactly when the documentation, read on the whole history, says so (`Fired`).

- A loss or latency matcher sees X samples and its own last answer; the documentation speaks
  of the last X in a row that said anything. One more round changes the latter only when the
  last X samples are all bad, or all known and good, which is what the window shows
  (`HysteresisIs`).
- After k steps of a pattern, `matchSteps` has the places of the window where an alignment
  of these steps can end, by induction on k (`MatchesIffAligned`). An alignment reaches back no further than the sum of what the steps may take, which
  is `patternLength`; so the window holds every alignment the history has, and no other.

`NotifierProofs` proves, for every pool, queue length, number of attempts and of
events, the invariants of `notifier`, `CloseLeavesNothing` and `AbandonedIsNotSent`.
`EachEventInOnePlace` and
`OvertakingIsBounded` need that the queue is in order and newer than what the workers
hold (`InOrder`): an event is settled only after it was taken, and what is older and
unsettled is then with the other workers. `CloseLeavesNothing` needs that workers leave
only when the queue is closed and empty, and `AbandonedIsNotSent` that no request that
can still be answered is for a cut-off event (both in `WorkersConsistent`, with the
phases of Close in `ShutdownConsistent`).

`SchedulerProofs` proves, for every family of job sets with unique names and keys and
positive intervals, every number of slots and every lag, `NeverOverlapsItself`,
`StoredInOrder`, `FiresEveryInterval`, `PlanOnGrid` and `DrainedOnReturn`. The invariant
equates what is in flight with what runs, has every job in a batch that is waited for, and
puts the beginning of every round that runs after that of the round stored last.
`FiresEveryInterval` needs `FiringInv`: the firing planned is that of the interval after
the last one fired, and the loop is at most `Lag` behind it. Both rest on lemmas about
`NextDelay` and the division it uses, proved from the least element of a set of numbers.

`ConfigPlaneProofs` proves, for any names, initial documents, habits and numbers of
versions, stages and starts, all the safety properties of `config`.

- `LiveIsLatest`, by `LockInv`: `applyMu` has one holder, and the document it is to swap in
  is the stored one, or the row was written behind the hub.
- `NoLostUpdate`, by `WritersInv`: whatever an author, a copy or a request holds was read at
  its version and edited at its names since (`Basis`). A write that succeeds is over that very
  version, and so differs from what it replaces in those names only.
- `StagedEditsKept`, by `StagedInv`: a request whose session was not touched carries exactly
  the session's document and what is owed; one whose session was touched does not reset it.
- `HistoryKeysKept`, by `KeysInv`: a copy of the row's version has its ids, but where it was
  edited, and from the first migration that goes through every stored target has one, so that
  minting and stamping find nothing to re-key; before, only an apply or an import gives a
  target without an id another key than its path. It supposes the dashboard to read again
  after a save.
- `ExactMeansAccepted`, by `ComposeInv`: the live document composes with the file config, so
  that what runs beside a verbatim copy of it includes every name of the file config.

The second part of the module takes the documents as trees (`ConfigDocuments`), of any size,
over any keys and settings. A behaviour examines one input and does not change it; the work
is in the operators.

- `SummariesTellAll` (`DiffTellsAll`): a target's effective settings are the end of a fold
  along its path, and two folds over equal settings agree (`InheritanceAgrees`). So a target
  whose settings change without an entry is impossible, and a summary with no entry at all
  means that neither a node nor a setting differs.
- `StagedEditsKeepTargets` (`EditsKeepTargets`): a move takes each path below the target to
  another one and is one-to-one on the tree, since the place it goes to is neither taken nor
  below the target (`MoveIs`); groups made on the way and groups pruned have no targets, and
  what is left has every group above it (`Closed`). Ids and their number are then those from
  before, without supposing that ids differ.
- `ImportsKeepWhatIsThere` (`ImportsKeepTargets`): a merged document has the stored nodes as
  they are and the import's nodes but for their ids (`Merges`), whence an import accepted
  once is accepted again and changes nothing. A new target is given a UUID, so that keys stay
  distinct although its path may have been another one's, and the composed config is valid
  if both parts were. The path a fragment resolves to is the id the composed config reads. In
  `ExtractRRD` a known instant is in a row of the tier that owns it, or, if that archive
  dropped the row while the clock was behind, of the next tier (`InstantsAreTold`); that row
  is not dropped for a finer sample unless it is the tier's border row, and two rows that
  share an instant are of different tiers, the coarser one at its border.

`FederationProofs` proves, for any ids, configs, scenes and bounds, the safety properties of
`federation`, supposing that no definition has an empty fingerprint and that no two targets
of a config have one path (`ResolveMonitors` rejects that).

- `CredentialsFollowRegistration`, by `RegistryInv`: a stored authority is never replaced, a
  vantage deregistered leaves no serials, and a row whose serials are not all recorded has
  seen no revocation by serial.
- `RoundsKeepTheirMeaning`, by `MeaningInv`: an outcome carries the definition it was checked
  against, and the commit compares again; a target assigned under the id that a round names,
  as it was measured, comes first (`IdsComeFirst`); and for each round of a request it says,
  phase by phase, what was promised about it as long as no reload comes.
- `AlertsSeeEachRoundOnce`, by `OnceInv`: a round's time names it, the store has one sample
  for each key, and the live engine was given nothing that was stored before.
- `ShownReadingIsNewest`, by `ShownInv`: the clock reading kept is the one of the newest round
  applied since the server was last redefined, and stands under that round's own server.

`RollupsProofs` proves, for any spans, targets, histories and bounds, `ServedViewsAreCurrent`
and `PromisedRoundsShow`.
A start repairs views by the statements it has still to execute, so the invariant reads the
rest of its list: each view is current, or is created later, after it is dropped if it is
there; no mark comes before that; each policy comes after the last change of its view; and a
view that bears its mark is current, since OIDs are not used twice.

`PromisedRoundsShow` speaks of served views only, but what they hold was decided long
before. A tier is `Kept` if each round it owes is in its buckets, or will be brought by the
import under way, or is of a day its policy looks after. Such a day's raw rows are still there
(`RawInv`; the raw retention is longer than every policy), and a view lacks raw rows of
days that are to be refreshed only (`ViewsAgree`), so that the next run of the policy shows
them. A round leaves the policy's span when the day ends, and the jobs have run by then. No
step but a rebuild makes a tier lose what it kept without booking it (one lemma for each
action). `KeepInv` says where a tier may fail to be kept: while its view is not current, or a
start has stopped between creating and backfilling (`halfway`), or its list has still to
create the view, to add its policy and to backfill it, in this order (`Rebuild`, `Filled`).
A start that ends has none of these left.

Properties that no run lists because a theorem shows them for all constants, among them
`TypeOK` of `AgentFlush`, `SeqsMatchRounds`, `OpenFiringsRemembered`, `InhibitedStaysQuiet`,
`AbandonedIsNotSent`, `CloseLeavesNothing`, `PlanOnGrid` and `DrainedOnReturn`, are stated in
their modules.

Only model-checked: everything under fairness (`EveryRoundSettled`, `ShutdownEnds`,
`StagedBecomesDurable`, `EventsAreSettled`, `CloseReturns`, `CancelledLoopReturns`,
`AgentSettles`), which is out of the prover's reach; and what `spool` checks on a file system
with unordered directory changes. The steps and lookbacks of `rrdTiers` are the model's
scaled ones in the proof too: theirs is the only theorem about particular numbers.

Two of these proofs go by induction over the steps of a pattern and the nodes of a path. The
library's induction theorems take an operator as a parameter, which the provers cannot
instantiate; the lemma `Induction` states the principle for a set of numbers instead, which
they can, and proves it from the least element of the numbers outside the set.

## 6. Not modelled

Probes (network I/O and the output of other programs) and the statistics of a round;
rendering, charts and history queries of the web API; the parsers of the configuration and of
SmokePing's; the signing and hashing behind sessions and certificates; `RunRound` of
the demonstration mode; last-seen times and round statistics; flags, listeners and
metrics. They are sequential code over numbers and text, without state that outlives a
call, or input and output.

# VibeMonitor: formal models

VibeMonitor is a self-hosted monitor for a fleet of machines. An agent on each
machine reports metrics over JSON-RPC; one server process keeps the live state
in memory, stores it in SQLite, pushes it to dashboards over WebSocket and sends
Telegram alerts. This directory holds TLA+ models of the server and the agent,
the TLC configurations that check them on small instances, and theorems with
proofs checked by TLAPS. The code is the reference: every definition names the
lines it stands for in `PROJECT.json` ("map").

Contents: [inventory](#1-inventory), [plan](#2-plan),
[the modules](#3-the-modules), [runs and bounds](#4-runs-and-bounds),
[fairness](#5-fairness), [proofs](#6-proofs),
[findings](#7-findings), [what is not modelled](#8-what-is-not-modelled),
[running](#9-running).

## 1. Inventory

| Component | Code | State it keeps | Operations | Correct when |
|---|---|---|---|---|
| Store | `internal/store` (store, persistence, snapshot, sqlite, ping_data, settings, icon, themes, registration, telegram) | live nodes and configuration under `mu`; dirty marks; queue of history samples; row caches; the SQLite tables, written under `persistMu` | reports and basic info; create, edit, reorder, delete; configuration changes; flush every second (history) and 15 s (nodes); close; load | no acknowledged change is undone, no report is lost by a clean stop, deleted nodes leave nothing, the row cache is exact |
| History summaries | history_rollups, ping_rollup_query, resource_rollup_query | hourly summaries, watermark `completed_before`, repair queue, SQLite triggers | day summary, hour repair, three-step retention, mixed reads | a clean summary equals its raw rows; a query counts each row once; the backlog drains |
| Ping series | ping_data, ping_history, node_profile | targets per node, observations, 24 h previews, loss windows, a one-second query cache | record, prune, re-target, query | samples belong to current targets; loss counts equal the window's samples; gaps are not loss |
| Traffic and billing | store.go `ingestReportAt`, traffic, traffic_history | last counters, cycle start and use, daily traffic and online time | report, cycle rollover, reset-day change, manual correction | each byte counted once, in one cycle and day |
| Telegram alerts | server/telegram*, store/telegram* | queue of 128 jobs, four workers, one engine per node, saved alert state keyed by epoch | tick every 3 s, check, deliver with backoff, save, settings change | a change is announced once, a lost delivery is retried, nothing is sent for a removed node or old settings |
| WebSocket hub | server/ws_hub | clients, four-deep queues, coalescing trigger, one-second payload cache, last broadcast | register, broadcast, resynchronise, force, close | clients converge to the current state; bounded memory; close terminates |
| Administrator sessions | server/auth_routes, settings_routes | tokens with expiry, configuration | login, logout, check, password change | no session survives a password change or starts from old credentials |
| Request limits | server/rpc_limit, security | last acceptance per method and token; login attempts per address | allow, prune | spacing and counts hold, memory bounded |
| Agent RPC, registration | server/rpc_handler, store/registration | registration window and key | v2 reports, basic info, registration | a closed window creates no node |
| Agent | internal/agent | report channel of one, pending basic info, target list, identity worker | report loop, reconnect, ping, identity refresh | basic info is eventually delivered, results belong to the targets in force |
| Collectors, pages, dashboard, installer, protocol | pkg/monitor, server pages, web/dist, scripts | caches of one sample; DOM state | read `/proc`, render | not concurrent state machines |

How they interact. Agent requests reach `rpc_handler`, which takes the limiter
and then the store's `mu`. Administration takes `persistMu`, then `mu`, copies
what it needs, and gives up `mu` for the transaction. The store calls back
`notifyUpdate`, which wakes the hub. The hub and the alert dispatcher read
copies of the nodes. The background flusher is the only caller of the history
job and of the retention.

What is hard here, and where (the complete list, with lines, is "hazards" in
`PROJECT.json`):

* operations that copy under a lock, release it for the transaction and publish
  afterwards, while reports keep arriving;
* a queue acknowledged by length while others append to it and filter it;
* a crash between any two of those steps, and flushes that fail and are retried;
* summaries that must follow late writes, deletions and a retention that can fail
  half way;
* alert state saved after a message left, across settings changes;
* cached payloads overtaken by broadcasts, sessions overtaken by a new password.

## 2. Plan

Order, most important behaviour first; what is proved is in [section 6](#6-proofs):

1. `NodeRegistry`, `StorePersist` (+ `Inv`, `Proofs`): the store.
2. `HistoryRollup` (+ `Proofs`): summaries.
3. `WSHub` (+ `Proofs`), and `Dashboard`, which composes it with the page:
   coalescing, cached payloads, drop-oldest queues, polling.
4. `TelegramAlerts` (+ `Inv`, `Proofs`): dispatcher, workers, epochs, retries, saved
   state.
5. `AdminSession` and `Registration` (+ `AccessProofs`), `LoginLimit` and `RpcLimit`
   (+ `LimitProofs`): sessions against password changes, machines that register, the
   two limiters.
6. `TrafficAccounting` (+ `Proofs`): counters, cycles, corrections, days.
7. `OnlineHistory` and `PingSeries` (+ `NodeHistoryProofs`): online time by day; targets
   edited while samples are queued, and what a restart finds.
8. `AgentLink`: the agent's loop and workers over a lossy connection to a panel that
   restarts.

All of these are written. Left for later: the ping chart builder and the loss window
against reference definitions; the rankings.

Parts that share no state are checked side by side in one run (`MCServerParts`,
`MCStoreParts`, `MCLiveParts`): the variable `part` (`moves`) says which of them
moves in a behaviour, the others stay in one of their initial states. Such a run
is the sum of the parts' state spaces, not their product, and each part's
properties are decided as in a run of its own; in `MCLiveParts` the fairness too is
that of the part that moves.

## 3. The modules

### StorePersist, NodeRegistry

| Model | Code |
|---|---|
| `cfg`, `nodes`, `storeDirty`, `nodeDirty`, `pending` | `Store.config`, `Store.nodes` (with `tokenIndex`), `Store.dirty`, `Node.dirty`, `Store.pendingSamples` |
| `nodeCache`, `cacheReady` | `sqliteDB.nodeCache`, and whether it is nil |
| `diskCfg`, `diskNodes`, `hist` | tables `config`, `nodes`, `ping_history` with `resource_history` |
| `tx` | the holder of `persistMu`: what it copied, and whether it has committed |
| `used`, `gone`, `taken` | history variables: drawn identities, acknowledged deletions, samples the store owes the disk |

A node is `[meta, weight, rep]`: the panel's data, the display order and the
number of the last report it absorbed, which stands for everything a report
changes. Each operation is three steps: `Begin...` (copy under both locks),
`Commit...` or a failure (the transaction, with `mu` free), `Finish...` (publish
under `mu`). Reports (`IngestReport`, `IngestBasicInfo`) need only `mu` and fall
between any two of them; the final save of `Close` holds `mu` throughout. A
crash may come at any step and keeps the disk.

`NodeRegistry` is what an administrator is promised: a durable registry, and a
view that is either the durable one or behind it by exactly the change being
acknowledged. `RegistrySpec` is the refinement, with the database rows as the
durable registry.

### HistoryRollup

A time is `[hour, part]`; a day is `DayHours` whole hours (Beijing days start on
an hour). A summary is represented by the set of raw rows it was computed from, so
"current" is equality of sets. Transactions are single steps because every writer
holds `persistMu`; the retention is three steps because it is three transactions,
each of which may fail or be cut off by a stop. The triggers are
`Invalidated`: whatever differs between the tables before and after a
transaction, below the watermark, is queued for repair. The deletion of a node
is the exception, through `history_rollup_delete_guard`. Both mixed reads are
operators, evaluated for every window in every state.

### WSHub, Dashboard

| Model | Code |
|---|---|
| `hub`, `trigger`, `timer`, `spaced` | `closed`, `stop` and `done`; the one-token channel; the local timer of `run`; whether the minimum interval has passed since `lastBroadcast` |
| `cache`, `last` | `payloadCache` with its age; `lastPayload` |
| `cast` | the local variables of each `doBroadcastNodes` under way: the run goroutine's and the settings handlers' |
| `clients`, `conn`, `alive`, `out`, `queue` | the hub's map; where each handler is, from the handshake to the last `delete`; its connection; the snapshot in hand; `sendCh` |
| `content`, `version`, `notified`, `covered`, `got` | what a payload would show, and history: changes, changes announced, changes serialised by a broadcast, the last message a browser received |

Locks are held for single statements only, so a broadcast is four kinds of steps
(list, serialise, compare, queue client by client), and a full queue makes the
last one two. Nodes go offline by the passing of time, which nobody announces:
`Drift`, which only the ticker repairs. The full and the compact format have
caches, last payloads and clients of their own and are treated one after the
other; one of them is modelled.

`Dashboard` adds a page to each client: the node list it shows, whether its data are
older than ten seconds, and the answers of `/api/nodes` under way. `fetchNodes` asks
every five seconds whether or not it was answered before, so `fetched` is the set of
answers of the present `dashboardRevision`; newer data, from a message or an answer,
begin a revision (`Accepted`), and what was asked before is thrown away. `caught` is
history. Steps of the hub and of the page are joined where a message arrives or a
connection breaks; a page never asks the hub to resynchronise it, so `Resync` is a step
of the hub alone. The site settings are left out: their requests have no revision and
are applied as they come.

### TelegramAlerts

| Model | Code |
|---|---|
| `engines`, `pending`, `cursor`, `round` | locals of `runTelegramQueue`; `round` is the loop of admissions a tick began |
| `jobs`, `done` | the two channels; `done` has room for every job there can be, so it is a set |
| `worker` | what each worker copied (settings, node) and where its check is |
| `disk` | table `telegram_alert_state`, one row per node with its epoch |
| `enabled`, `epoch`, `member`, `health`, `usage`, `cycle` | settings and nodes as the checks read them |
| `told`, `warned` | history: what the chat of the present settings believes of a node, and the warnings it got |

A check is a chain of steps: take a job and copy settings and node; load the
state once per epoch; decide from the copy, looking at the live settings again
just before posting; post; save. Settings, opt-outs, deletions, reports and crashes
fall between any two. A post can fail, and it can arrive although its answer is
lost. The store refuses a state of other settings or of a node that is gone.
Two kinds of alerts are kept because they differ in kind: offline and recovery
toggles, the traffic warning happens once per cycle. A tick forgets the engines of
nodes without alerts and deletes their rows one by one, each of which may fail alone
with the error ignored. `told` becomes "unsure" where what the chat heard and what the
next engine will load differ (`Relearn` after a forgotten state, and a crash that lost
what the disk did not know) and after a lost answer: then a repetition is no surprise. A
row that agrees with the chat, because its deletion failed or because there is nothing
to say, leaves no doubt, so what is said next is held to it.

### AdminSession

| Model | Code |
|---|---|
| `secret`, `hash` | the password, and which of the salted hashes of `Config.AdminPassword` it is |
| `session` | `adminTokens`; a token is named after the login that drew it |
| `login`, `request` | the local variables of each login and each `POST /api/admin/settings` |
| `authMu` | who holds it for writing; readers hold it for one step |

A login is three steps: the copy of the configuration, the comparison outside
every lock, the second look and the token under `authMu`. A settings request checks
its session, reads its body, looks the session up again under the lock, saves, and
clears all sessions when it changed the password. The other administrative
routes only check.

### LoginLimit, RpcLimit, Registration

`LoginLimit` has the map of windows (`windows`) and, as history, when each address
was let in (`admitted`). The server has two instances of it, for logins and for
registrations; `server_parts` checks the bound both keep, `register_limit` the one
that is documented for registrations. A window that is over is replaced when its address comes
back, and its count is taken along, as in the code (`Inherited`). Any of the
windows that expire first may be evicted. `RpcLimit` splits a call in two, because
its time is taken before the lock: `Arrive` and `Decide`; `accepted` is history.
`Registration` splits the creation of a node and the change of the window where
the store gives up `mu`, with `persistMu` as a variable. Names that the panel gives
or changes itself are left out, as the code lets them repeat.

### TrafficAccounting, OnlineHistory

| Model | Code |
|---|---|
| `host`, `flight`, `sent` | boot ID, uptime, counters, selected interfaces and clock of the machine; its posts under way; the true number of bytes |
| `node` | `LastReport`, `LastSeen`, `TrafficBaselineSet`, `CycleStart`, `CurrentCycleUsed`, `TrafficManualAt`, `DailyTraffic`, `ResetDay`, and three marks for the cases the properties leave out |
| `saved`, `edit` | the row of the node; what `UpdateNodeWithOptionsContext` holds while it commits |

The unit of time is the two minutes within which a report's own time is believed.
A report carries, as history, what the host had sent and how often it had changed
(`sentAt`, `sent`, `changes`) when it was made; these order any two reports (`Older`),
also within one unit of time, where uptimes cannot. `newest` is the newest report an
account charged, and `rewound` marks an account that compared a report with a newer one.
`CycleRange` is a function of the reset day that gives a function of the time, and
sums are folds, so that no operator recurses. In `OnlineHistory` the grace of a contact is stored ahead of time and
taken off when read; `covered` is the union the stored numbers must measure.

### PingSeries

One target name of one node: `probe` is its series, preview and window in memory,
`queue` the samples that wait, `tx` a transaction with the copies it began with,
`stored` the series in the node's row, the row of `ping_observations` and the rows
of `ping_history`. `Reloaded` is `Store.load`. The time of a restart is the only
place where the several copies have to agree, so that is what `ReloadExact` compares.

### AgentLink

| Model | Code |
|---|---|
| `epoch`, `assigned`, `held`, `results` | the panel: `identityEpoch`, the node's targets, the identity it has, the targets of the results it has |
| `late` | requests the agent gave up and the panel still receives |
| `main`, `post`, `due` (`mainLoop`) | the loop of `Run`: its post under way, and whether `lastBasicInfo` asks for another |
| `refreshed`, `identityTrigger`, `pingTrigger` | the three channels of one place |
| `looking`, `lookedUp`; `probing` | `runNetworkIdentityLoop`; `runPingWorker` |

`handleRPCResult` is split between its locks and its sends. Contents are reduced to
what the properties compare: identities are numbered in the order they were found.
`Event` bounds faults, restarts, changes and timed lookups together.

## 4. Runs and bounds

| Run | Question | Bounds, and why they are enough |
|---|---|---|
| `store_persist` | every order of reports, flushes, administration, failures, stops and crashes | two nodes (one is edited or deleted while the other is flushed), two values of metadata and configuration, two reports, a queue of two, weights up to two. First full flushes of a running server do not fail: see finding 1 |
| `store_liveness` | accepted data reaches the disk; the queue keeps its limit | one node, three reports, a queue of two, so it fills |
| `store_first_flush` | the same store when the first flush may fail | two nodes, expected to violate `CleanStopSaves` |
| `history_rollup` | summaries and mixed reads | one node with one target and its metrics, days of two hours, a retention of a day and a half, a clock that crosses two midnights, two raw writes up to four hours late; two distinct instants in an hour give partial hours at both ends of a window. Values are interchangeable, hence the symmetry |
| `ws_liveness` | announced changes are broadcast, `Close` ends | one browser; two changes, so that the second falls into the interval of the first |
| `ws_stale` | the hub alone, expected to violate `ClientsConverge` | one browser, one change, a ticker that never stops |
| `telegram_alerts` | what the chat hears, what is left of a deleted node, whether a lasting outage is told | one node and one worker (nodes share nothing but queue and workers, and `OneCheck` leaves a node one worker), four events out of silence, report, settings, opt-out, opt-in, deletion and new cycle, one crash, one database failure, one lost answer: an outage takes two events, a recovery or a change of settings one each |
| `telegram_rotation` | expected to violate `EveryNodeChecked` | four nodes and a queue of two, no events: twice the capacity, like 256 nodes in the code |
| `server_parts` | the hub's limits and what survives `Close` | two browsers for one place, a queue of one so that it overflows at once, a settings handler beside the run goroutine, one change |
| | sessions | two logins, two settings requests, two passwords, two changes: a change during a login, and during another change |
| | `LoginLimit` | two addresses for a map of one, two attempts in a window of two units, a clock of five: three windows |
| | `RpcLimit` | three keys for a map of two, two callers, four accepted calls; a call may wait one unit |
| | registration | two machines, two names (the same one too), two windows |
| | the alert queue | three nodes for a queue of one and two workers, so that jobs are refused, queued, running and finished at a time; one event. Crashes and faults are in `telegram_alerts` |
| `store_parts` | traffic | two interfaces, months of one to three days, two reset days of which one does not exist in each month, a clock that crosses the start of a cycle and of a short month, two bytes, two reports under way, one incident (reboot, new interface, other selection or clock, edit, crash) |
| | online time | days of three units, a retention of one day, intervals of one and three units, three midnights |
| | ping series | two hosts and two methods, a queue of one, a preview of two, two edits (replaced, or removed and added again), one crash |
| `live_parts` | the backlog of summaries drains | the calendar of `history_rollup` with one midnight |
| | the agent and its panel | one list of targets beside none, two of: fault, restart of either side, change of the targets, timed lookup. One of each kind is needed for a case to arise, the second for another in its recovery |
| | the page over the hub | one page, a queue of one, one change: enough for the stale snapshot of `ws_stale` and for answers asked before the change |
| `register_limit` | expected to violate `AttemptsPerWindow` | one address and the limits of the code, ten attempts in a window of five minutes, a clock of six |

`store_persist`, `store_liveness` and `history_rollup` check deadlock: they always have
a clock or a restart to go on with. The hub and its page stop once the hub is closed,
and the other runs stop when their bounded time, bytes, windows or events are used
up, so these runs do not.

`StorePersist.cfg` and `StoreFirstFlush.cfg` use the symmetry of nodes, metadata
and configurations, `HistoryRollup.cfg` that of values, `ServerParts.cfg` that of
browsers and values, `StoreParts.cfg` that of interfaces and methods; no property
distinguishes these, and the liveness runs use no symmetry.

## 5. Fairness

* `StorePersist!Fairness`: the flusher's tickers fire again and again and Go's
  mutexes are starvation free, so a flush that keeps finding `persistMu` free
  gets it (strong fairness). A transaction ends (weak fairness); a disk that is
  tried again and again accepts a flush at some time (strong fairness on the
  commit: the code logs "will retry" and retries). Administration and reports
  need no fairness: nobody has to use the panel.
* `HistoryRollup!Fairness`: the flusher's `select` chooses among ready channels at
  random, and the job's timer is rearmed after every batch, so the job runs again
  and again whatever the other tickers do (strong fairness); a cleanup under way
  goes through its three statements (weak fairness). The clock is not fair: the
  property speaks of a clock that stops.

* `WSHub!HubFairness`: the minimum interval passes and goroutines run (weak fairness);
  `select` picks among ready branches at random, so a branch that is ready again
  and again is taken (strong fairness). The ticker is left out on purpose:
  announced changes must not need it. `TickingSpec` adds the ticker, the ageing of
  payloads and connections that deliver.
* `DashboardSpec`: the page's timers fire; a request that is made again and again
  is answered in time at some point (strong fairness). It needs neither the hub's ticker
  nor its notifications.
* `AgentLink!LinkFairness`: the goroutines run and a post ends, by an answer or by
  its ten-second limit (weak fairness); `select` chooses among ready cases at
  random and the report ticker fires again and again (strong fairness on a report, on
  news of a lookup and on the ping worker's signal), and fifteen minutes pass after a
  submission (weak fairness on `BasicAges`). Faults need no fairness, and are
  bounded. The quarter-hourly ticker, the ping worker's own and the weekly timer are
  left out on purpose: what was not delivered is submitted again after a report, and
  news must not wait for them.
* `TelegramAlerts!FairSpec`: the ticker ticks and each worker goes on (weak
  fairness); the dispatcher's `select` reads finished checks (strong fairness);
  retries go on for ever with a delay of at most 300 s, so a message that can be
  tried again and again is tried, and one that is posted again and again arrives
  (strong fairness on `DecideHealth` and `PostHealth`). Nothing is assumed of
  settings, nodes and administrators.

## 6. Proofs

| Module | Theorem | Says |
|---|---|---|
| `StorePersistProofs` | `TypeCorrect` | `Spec => []TypeOK` |
| | `DurabilityInvariant` | `Spec => []DurabilityInv`, the inductive invariant |
| | `AdministrationIsDurable`, `CacheIsExact`, `DeletionIsFinal` | the invariants `MetadataDurable`, `CacheMatchesDisk` (proved only), `NoResurrection` |
| | `ReportsAreNeverUndone` | the action property `NoRollback` |
| | `SamplesAreKept` | `NoSampleLost` |
| | `StoreImplementsRegistry` | `RegistrySpec`: the store implements `NodeRegistry` |
| | `CleanStopLosesNothing` | `CleanStopSaves`, if first full flushes do not fail |
| `HistoryRollupProofs` | `RollupTypeCorrect`, `SummariesAreCurrent` | `TypeOK`, `SummariesCurrent` |
| | `ResourceQueriesAreExact`, `PingQueriesAreExact` | the two mixed reads |
| | `DeletionLeavesNothing` | `DeletedLeavesNothing` |
| `TelegramAlertsProofs` | `AlertInvariant` | `Spec => []AlertInv`, the inductive invariant |
| | `AlertTypeCorrect`, `ChecksAreExclusive` | `TypeOK`, `OneCheck` |
| | `DeletedLeavesNoAlertState`, `NoMessageIsRepeated` | `NoStateOfDeleted`, `NoRepeat` |
| | `WarningsAreFew` | `FewWarnings` |
| `WSHubProofs` | `HubTypeCorrect`, `NoConnectionOutlivesClose` | `HubTypeOK` with the limits of clients and queues, `NoOrphan` |
| `AccessProofs` | `SessionTypeCorrect`, `StaleSessionsEnd` | `SessionTypeOK`, `NoStaleSession` |
| | `CurrentReplaces` | the action property `OnlyCurrentReplaces` |
| | `NamesStayUnique` | `NamesUnique` |
| `LimitProofs` | `LoginAttemptsBounded`, `PaceAlwaysHeld` | `AttemptsBounded`, `PaceHeld` |
| `NodeHistoryProofs` | `OnlineTimeIsExact` | `OnlineExact` |
| | `RestartsFindTheSeries` | `ReloadExact` |
| `TrafficAccountingProofs` | `BillingCyclesTile` | `CyclesTile` |
| | `TrafficIsTyped` | `TrafficTypeOK` of the account, its row, its edit, the host and the reports |
| | `NoByteIsChargedTwice` | `NoByteTwice` |
| | `DaysAgreeWithUse` | `DaysMatchCycle` |

Assumptions are the named `ASSUME`s of the modules: finite sets of nodes, keys and
addresses, natural bounds, `NoNode` outside the rows; for the calendar, positive
lengths and a clock that starts later than one retention after the epoch, because
0 in `completed_before` means "never run"; for `RpcLimit`, that an entry lives
longer than the longest declared gap and the longest wait for the lock together
(ten minutes against thirty seconds). For the accounts, `CalendarAssumption`: months
have days, the calendar has a month before and one after the time looked at,
and no month is longer than the days that are kept, which are 180
(`traffic_history.go:9`); without it a cycle would outlive its own days.

**Store.** `MetadataDurable` alone is not inductive: at the commit one has to know
what the operation copied. `DurabilityInv` (in `StorePersistInv`) adds

* `CopyInv`: what the holder of `persistMu` copied is still true of the live
  state, reports aside, since only that holder can create, edit or remove a node;
* `UnpublishedInv`: between commit and publication the disk differs from memory
  by exactly the rows of the operation;
* `IdentityInv`: uuids are never drawn twice, queued samples belong to live nodes;
* `AgeInv`: disk, copy and memory are ordered by age, which gives `NoRollback`.

`CleanStopLosesNothing` adds `StopInv`: every report is on disk, marked for a
save, or in the rows being saved. It takes `~FirstFlushMayFail`; finding 1 is
what happens otherwise.

`SamplesAreKept` needs `QueueInv`: while a flush is under way its batch is the oldest
part of the queue, because what arrives later is newer, so the number it
acknowledges stands for exactly what it wrote; and a clean store has nothing queued
but what is being written, so a stop without a final save leaves nothing. `OwedInv`
adds that the row of a node that lost its samples cannot come back, since its
identity is used up.

`StoreImplementsRegistry` goes through the actions with `DurabilityInv` and `OperandInv`
(an
administrative operation is about one node, and a new node goes behind all others). A
commit of administration is `Perform`, its publication `Show`, a start `Restart`,
a stop or a crash `Halt`; flushes, reports and failed transactions change neither the
durable registry nor the view and are stutters.

**Summaries.** `IInv` adds to `SummariesCurrent` that summaries exist only below
the watermark. Then each action either leaves an hour's raw rows and summary
alone, changes the raw rows and queues the hour, rebuilds the summary from the
raw rows, or removes both. Times are records `[hour, part]`, which keeps all
arithmetic linear. The reads follow from the invariant at each hour of the window.

**Alerts.** `NoRepeat` speaks of the moment of a post; why it holds is `Agreement`:
whoever has the last word about a node agrees with what its chat was told. The
last word is a worker's between load and save if it checks under the present
settings, else the engine's if it was loaded under them, else the disk's.
`Agreement` needs `OneCheck`, so that there is one such worker; `AgeInv`, so that
settings newer than every copy make all old words void and an engine is never
newer than the check that uses it; and the store's own test at the save. `OneCheck`
needs `RoundInv`: nodes that wait for admission have no check.

`WarningsAreFew` counts: a cycle that the last word about a node does not know to be
warned of has at most as many warnings as crashes and lost answers hid (`Spare` in
`WarningInv`), so the one that is posted now is one more. That cycles are warned of
in order is `CycleInv`: engine and disk name no later cycle than the check of their
node. Deletion takes the last word away without taking back what was sent, but
decides no further warning; the one being posted is accounted for by itself.

**Hub.** Types are not inductive alone: what a broadcast serialised, what a reader
holds and a young cache must be payloads, and the hub's map must be the clients
whose handlers are between registering and leaving (`MembersOK`), which is also
what turns the test under the lock into the bound on their number. `NoOrphan`
then rests on `Close` taking the map and the flag in one step.

**Sessions.** `NoStaleSession` needs what a login remembers: the hash it compared is
at least as new as its copy (`Remembered`), so that a copy that equals the present
hash means the password compared is the present one. `OnlyCurrentReplaces` needs
`SavingCurrent`: between the second look and the save nothing changes the hash or
reuses the session's login, because the lock is held (`LockHeld`).

**Limits.** `AttemptsBounded` is about any window, the code counts fixed ones. The
count of a window bounds the attempts it admitted; all before it except the last
`Attempts` of them are a whole window older (`WindowOK`), and an address that has
no window owes only that, relative to now (`RestedOK`). For `PaceHeld`, of each
accepted call the map still knows, or it is older than any declared gap, or too
many other keys were called since for it to stay (`Known`); the bound on waiting for
the lock enters where a call that came earlier is decided later.

**Registration.** A request that stores its node holds `persistMu`, so it is the only
one, and its name is still free (`Creating`).

**Online time.** What is stored is ahead of what is shown by the grace of the last
contact. `Measured` says that the stored days measure the union of all contacts with
the grace in it, `Ahead` that everything ahead of the clock is one piece which ends
at `onlineUntil`, so that what reading takes off is exactly what has not passed.

**Ping series.** `ReloadExact` is about a store at rest; `SeriesInv` says what holds on the
way there, as long as no result was overtaken. A series with a sample is what the last
sample waiting for its host will make of the row of `ping_observations`, or that row if
none waits (`Mirrors`). All that memory shows is in the rows or waits, and nothing of the
series that is later than a sample of the preview is missing from it (`Shown`), so a
preview cut again from the rows has every sample of it. That a commit keeps both rests on
what the transaction copied (`Underway`: the beginning of the queue, and a series that
the copy mirrors), on the queue being in the order of time and later than the row
(`Ordered`), and on no two samples of one time being of different methods (`Agreed`),
since rows are replaced by time. A batch is a fold over the queue; `BatchLeaves` says
what it leaves on the disk, by the same induction for sets as below. An edit to another
host leaves the samples of the old one in the queue, and `Filtered` keeps them from the
disk.

**Cycles.** `CyclesTile` is about the calendar alone, but the months are a sum: where a
month begins is a fold over those before it. tlapm cannot use the library's
induction theorems, whose hypothesis is an operator, so the module starts with
induction stated for sets (`NumbersByInduction`, `SubsetsByRemoval`): what is to be
shown is made a set of numbers or of sets, which is a first-order fact. From these
come what `Total` and `Part` do when one entry is added, changed or removed, and
that `FirstDay` advances by the length of a month.

**Bytes.** `NoByteTwice` compares an account with the host's truth, which an account
never sees. `ByteInv` therefore speaks of reports: every one there is, under way or in
an account or its row or its edit, was made in the host's past (`MadeBefore`: since
then the host sent at least what its counters grew by), two of one boot grew apart by
no more than was sent between them (`GrewApart`), the order of the reports is the same
by bytes and by changes of the host (`Agree`), and an account's days hold no more
than was sent when the newest report it charged was made (`InTruth`). A rollback to
an older row keeps all four, since the row was such an account.

**Days of a cycle.** `DayInv` is the relation of the use to the days (`InDays`) with
what an account knows of time (`Seems`): nothing is charged ahead of the clock or to
the cycle after the account's, so a rollover starts from empty days; the use is
exactly what the days of the cycle hold until a report spanned the cycle's start,
whose share is rounded; from then on the node was seen after that start, so no second
report spans it and the difference stays within one byte. A new reset day moves the
start only within days that are kept.

Model-checked only: the liveness properties of section 5 (`ReportsReachDisk`,
`SamplesReachDisk`, `CaughtUp`, `AnnouncedChangesBroadcast`, `CloseEnds`,
`PagesConverge`, `DownIsTold`, `IdentityDelivered`, `TargetsMeasured`,
`EpochsLookedUp`), since liveness under fairness and `ENABLED` are outside the prover's
reach. `NothingOvertaken`, a safety property of the page, is model-checked only as
well: it has no proof yet.

## 7. Findings

1. **A failed first flush can lose reports for good** (`store_first_flush`). The
   first flush after a start clears every node's dirty mark and, when it fails,
   restores only the store's (`store.go:302-311`). An edit of one node then
   creates the row cache, so the next flush is incremental, sees that node alone,
   and clears the store's mark: the other nodes stay unsaved, also through `Close`,
   although `docs/operations.md:42` says a normal exit saves waiting data. The
   incremental path restores both marks.

2. **A snapshot overtaken by a broadcast stays** (`ws_stale`). A snapshot is
   serialised, or taken from the cache, before it is queued, and a broadcast may be
   queued between the two. The browser then ends with the older state, and later
   broadcasts equal the last one and are skipped, which `ws_hub.go:287-289` takes to
   be redundant. The next change, or the page's own polling after ten silent
   seconds (`live_parts`), repairs it.

3. **The rotation can starve nodes** (`telegram_rotation`), although
   `telegram_queue.go:92` says it does not. The cursor moves by the capacity at every
   tick, whether or not anything was queued. With a multiple of the capacity as the
   number of nodes it takes few values, and slow checks that always make room
   before the same ones leave the other nodes out for ever.

4. **More registrations than documented** (`register_limit`). `docs/operations.md:80`
   and `README.md:51` promise at most ten registrations of an address in five minutes,
   429 beyond. Windows are fixed and begin with an address's first attempt
   (`security.go:163-185`): one attempt at the beginning of a window, one at its end and,
   once the cleanup removed that window, ten more in the next pass within five minutes.
   What both limiters keep is twice the limit (`AttemptsBounded`, proved).

Two more limits show in properties rather than in runs of their own. The comment at
`telegram.go:175` promises a traffic warning at most once per cycle; a crash between
delivery and save, or a lost answer, repeats it (`FewWarnings`: at most one more
each). `DownIsTold` leaves an outage in doubt in the same cases: when the recovery
message arrived but the server does not know, the outage that follows within the
retry delay is not told, because the server takes the first one as still told. The
same comes of two failed writes, the save of a recovery and then the deletion of the
row it should have replaced; the run has one.

Smaller disagreements met while modelling; the properties are stated so as to hold
with them:

* `security.go:163-185`: an expired window leaves its count behind, so after ten
  attempts the first one of the next window is refused once more, although
  `auth_routes.go:45` told the user to retry in five minutes. The one after it is
  let in.
* `client.go:126` says "Retry pending info after every successful metrics report". A
  refresh that fails, after a lookup or by the quarter-hourly ticker, leaves
  `lastBasicInfo` as it was, so reports resubmit it only after fifteen minutes.
  `IdentityDelivered` holds all the same.
* `traffic_history.go:41-42` says the shares "preserve every byte even across
  midnight". When basic information set `LastSeen` (`store.go:1143`) and reports are
  more than two minutes apart, the earlier sample time is judged by it and may not
  lie before the new one: the bytes go to the cycle and to no day (`unordered` in
  `DaysMatchCycle`).
* A report from before its host's clock was set back, that arrives after a newer one,
  passes for a newer one, and the next is compared with it: bytes may count twice
  (`rewound` in `NoByteTwice`).
* A correction of the use that also moves the reset day, with a report during its
  commit, adds the bytes of the meantime to the new cycle on top of its days
  (`corrected` in `DaysMatchCycle`).
* `rpc_limit.go:94-95` says a healthy agent never reaches the floor of half its
  interval; an answer delayed by more than half of it brings the next report that
  close. The report is then refused and the next one carries its bytes.
* A ping series whose target is added again while its samples wait in a full queue, or
  whose method changes before the first sample was accepted, may be found with an
  older start after a restart; `ReloadExact` therefore speaks of a series with a
  sample, and not of results that overtook each other.

## 8. What is not modelled

See "components" in `PROJECT.json`. Page templates, theme packages and the installer
have no interleavings worth a model; of the browser code only the data of the
public page are modelled, of the collectors only what their counters do (parsing
of `/proc` is data). The alerts on ping, CPU, memory, quota and due dates decide and
deliver like the two that are modelled; their clocks are left out. SQLite is
taken to be atomic and durable at commit.

In the parts that are modelled: the agent's sampler hands over its latest report
and is not a process; aggregate counters of agents that send no interfaces, and the
manual offset of a node's first cycle; ping samples older than a day, the row
cache of previews and the hourly pruning of them; sessions across a restart, which
ends them all; the session check of the other administrative routes, which look
at it once, and its expiry, which a settings request does not test a second time.

## 9. Running

    tlc -workers 2 -config StorePersist.cfg MCStorePersist
    tlapm StorePersistProofs.tla

with the community modules on the path. Definitions marked "Mutant" are the
faults each property is tested against, listed under "mutants".

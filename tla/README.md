# A TLA+ verification of ebpf-baseline

ebpf-baseline is a host monitor. BPF programs attached to LSM hooks and
tracepoints match file, process, network and privilege events against rule
sets in kernel maps and put records into ring buffers; a user-space process
consumes the rings, pushes the records through a lock-free two-priority bus to
one consumer thread, and there they are enriched with a process tree, compared
with file rules, a whitelist, a DSL rule engine and a baseline database, turned
into alerts, stored in SQLite and sent to a web hook.

This directory models the parts of that program in which concurrency, failure
or a limit decides whether an event, an alert or a refusal is lost. Paths below
are relative to the repository (`src/...` is the C++ program, `bpf/...` the
kernel side); `PROJECT.json` maps every definition to its lines.

## 1. Inventory

Threads and processes: the BPF programs (on every CPU, preempting nothing but
running in parallel), the main thread (`do_monitor_ringbuf`), the telemetry
consumer thread (`telemetry_consumer_main`), the notification worker
(`NotifyDispatcher::WorkerMain`), signal handlers for SIGINT/SIGTERM and SIGHUP,
and other invocations of the same binary (`baseline snapshot`, `check`,
`delete`, `clean`, `stats`) that share the SQLite files and pinned maps.

| Component | State | Operations | Talks to | Hard because | Correct if |
|---|---|---|---|---|---|
| Event bus queue (`telemetry/event_bus`) | slots with sequence numbers, two positions | `try_push`, `try_pop` | main thread pushes, consumer pops | lock-free, relaxed loads, stale positions | no slot is shared, order kept, full means full, nothing delivered twice |
| File-event path and backpressure (`bpf/bpf_common.h`, `lsm_file.bpf.c`, `watermark_backpressure`) | kernel ring, watermark level, drop counters, epoll readiness | hook: match, decide, reserve, submit; main: wait, consume, publish level | kernel ring, `watermark_level` map | wakeup suppression races the consumer, level is stale, ring may be full | no lost wakeup, counters reconcile, a refusal does not depend on telemetry |
| Telemetry pipeline (`monitor.cpp`) | rings, bus, `running`, counters, `user_stats` map | main loop, consumer loop, drain and flush at stop | all of the above, event store | shutdown of two threads on one flag | nothing vanishes uncounted, order kept, both threads end |
| Event store (`storage/event_store`) | pending batch, SQLite transaction, counters | `Append`, `Flush`, `FlushIfDue`, `WriteBatch` | SQLite, consumer thread | any SQLite call may fail; kill at any point | all or nothing per batch, counters agree with the table |
| File rules, whitelist, reload (`monitor.cpp`, `whitelist.cpp`, `bpf_common.h`) | kernel rule sets, three snapshots behind a readers/writer lock, decision cache, SIGHUP flag | merge at start, match in hook, examine rules of an event, reload | consumer thread, main thread, kernel map | the cache outlives its table; three tables swapped in turn; limited set size | one generation per event, fresh cache, no refusal lost, no signal lost |
| Notification dispatcher (`alerts/notify_dispatcher`, `notify_router.hpp`) | queue, silence table, aggregation windows, configuration, counters | `Dispatch`, `UpdateConfig`, worker, destructor | consumer thread, main thread, HTTP | condition variable with a computed deadline, reload while sending | every alert counted once, every merged alert in a digest, no oversleeping, join returns |
| Alert manager (`alerts/alert_manager`) | throttle stamps per rule, `alerts` table, counters | `ThrottledNow`, `SendDingTalk`, `SaveAlertToDB`, `RunRetention` | SQLite, dispatcher, `baseline check` as a second writer | stamps before it sends and stores; dates compared as text | each alert stored, refused or counted; a silence has its cause; old rows go first |
| Baseline database and CLI (`storage/baseline_db`, `baseline/baseline_*`) | tables of entries, versions and results | snapshot, check, delete, clean | SQLite, other processes | several processes without a busy timeout, failures between statements, a scan before the lock | no partial snapshot, the audit explains every entry, nothing that is there is dropped |
| Realtime baseline watch (`monitor.cpp`, `monitor_baseline`) | inode map, kernel rule map, debounce stamps | boot check, event handling, two-step comparison | LSM hooks, consumer thread, alert manager | hooks run before the operation; debounce; restart | a deviation that stays is reported |
| Process tree (`telemetry/process_tree`, `enricher`, `monitor.cpp`) | nodes by pid, LRU list, chain cache | bootstrap, fork, exec, exit, sweep, lookup | consumer thread, rings in any order | reordering between rings, pid reuse, loss, eviction | mirrors the kernel, no stranger named, chains simple |
| Rule engine (`detect/`) | compiled condition trees, buckets, prefilter masks | `ParseCondition`, `LoadRulesDir`, `Build`, `Evaluate` | consumer thread, reload | prefilter must not lose a match; strict loading | same verdict as a reading of the words |
| Network and privilege watch (`bpf/{net,priv,ns}_watch.bpf.c`, `baseline/monitor_{network,privilege}`) | in-flight map of connects | entry and return probes, classification | own rings | entry without return | each connect reported once |
| Kprobe/perf fallback (`bpf/lsm_kprobe.bpf.c`, `run_perf_buffer_loop`) | per-CPU buffers | poll, lost callback | alert manager | loss, no bus | same alerts as the ring path |
| Configuration, CLI, asset inventory, reports, utilities, vendored code | – | parsing, I/O, formatting | – | – | – |

`PROJECT.json` lists under `hazards` what in this code is hard to test, each at
its line with the property that covers it or the reason why none does.

## 2. Modules

| Module | Models | Checked by |
|---|---|---|
| `SlotFifo` | abstract: what a bounded multi-producer queue promises | – |
| `MpscQueue` | `MpscQueue::try_push` / `try_pop`, one step per atomic access | `MCMpscQueue` |
| `MpscQueue_proofs` | theorems about `MpscQueue` | TLAPS |
| `RingBackpressure` | file hooks, kernel ring, wakeups, watermark feedback, main loop | `MCRingBackpressure` |
| `RingBackpressure_proofs` | theorems about `RingBackpressure` | TLAPS |
| `EventStore` | the batched store, split at every SQLite call | `MCEventStore` |
| `EventStore_proofs` | theorems about `EventStore` | TLAPS |
| `TelemetryPipeline` | rings, bus, both threads, shutdown; composes `EventStore` | `MCTelemetryPipeline` |
| `TelemetryPipeline_proofs` | theorems about `TelemetryPipeline`, over those of `EventStore` | TLAPS |
| `NotifyDispatcher` | dispatcher, aggregation, silence, worker, reload, destructor | `MCNotifyDispatcher` |
| `FileRules` | rule merge, whitelist and its cache, SIGHUP reload | `MCFileRules`, `MCFileRulesCache` |
| `FileRules_proofs` | theorems about `FileRules` | TLAPS |
| `BaselineLedger` | abstract: the baseline as it is promised, which changes by whole commands | – |
| `BaselineStore` | the baseline database and `snapshot`, `delete`, `clean`, `check`, `check -c` as processes on it | `MCBaselineStore` |
| `BaselineStore_proofs` | theorems about `BaselineStore` | TLAPS |
| `ProcessTree` | kernel processes, the lossy queue of their events, the tree, its sweep, chains and the actor of a file event | `MCProcessTree` |
| `ProcessTree_proofs` | theorems about `ProcessTree` | TLAPS |
| `RuleEngine` | parser, loader, compilation and evaluation of the DSL, against a reading of the words | `MCRuleEngine` |
| `AlertManager` | throttle, alert table, retention, restart | `MCAlertManager` |
| `BaselineWatch` | `monitor --db`; extends `AlertManager` | `MCBaselineWatch` |
| `AlertManager_proofs` | theorems about `AlertManager`, `BaselineWatch` and `NotifyDispatcher` | TLAPS |

How they compose: `MpscQueue` implements `SlotFifo` (property `ImplementsFifo`,
the refinement mapping is the operator `Line`), and `TelemetryPipeline` uses the
bus as two such queues, where a push or a pop is one step.
`TelemetryPipeline` instantiates `EventStore` over its own variables and
property `UsesStore` shows that the consumer thread never calls the store in a
way `EventStore`'s specification does not have. `BaselineWatch` extends
`AlertManager`: every report of the watch is that module's `Report` or
`ReportUnlessThrottled`, and a restart of the monitor contains
`AlertManagerRestart`. `BaselineStore` implements `BaselineLedger` (property
`ImplementsLedger`): the ledger's variables are what is committed of the
database's, so processes, transactions and crashes are invisible there, and a
commit is one command.

A definition whose name ends in `_Something` next to one without it (for example
`Merge_LastWins` beside `Merge`) is a deliberately wrong version of the code. It
is used by no specification; substituting it must break the property named with
it under `mutants`, which shows that the property looks at that code.

### State and actions against the code

**MpscQueue.** `seq`, `data`, `enqueue_pos`, `dequeue_pos` are the members.
Each call is a program counter (`ppc`, `cpc`), a local position and a record.
`PushBegin` loads the position, `PushSlotFree` / `PushFull` / `PushReload` are
the three outcomes of `dif`, `PushClaim` / `PushCasFail` the weak
compare-and-swap, `PushWrite` the copy, `PushPublish` the release store; the pop
side is alike. Memory is sequentially consistent: the code's acquire/release
pairs order exactly the copy against the publication, and the copy is a step of
its own, so that a race on it would be seen (`NoSlotRace`). The statistics
(`LatencyStats`) are left out.

**RingBackpressure.** A hook run matches one or, in `inode_rename`, two targets
and handles each: `HookDrop` (shed: the hook returns before it looks at the
action), `HookDecide`, `HookReserve` / `HookReserveFails`, `HookCommit` and
`HookNotify`, the two halves of `bpf_ringbuf_submit` between which the consumer
may run. `ready` is the ring's place on epoll's ready list. The main loop is
`MainWoken`/`MainTimeout`, `MainConsume`, `UpdateUtilization`, `MainPublish`.
How many bytes a record takes is abstracted: the ring holds `RingSize` records.

**EventStore.** `pending` is `pending_`; `spc` tells where `Flush` stands; `txn`,
`uncommitted` and `table` are SQLite's side. `Begin`, `Insert`, `Commit` and
their failing variants are single steps. A failed `COMMIT` may or may not leave
the transaction open. `usable` is `insert_stmt_`: where it could not be prepared
`Discard` is what `Append` does. `Crash` kills the process and loses all but the
table; the next start prepares the `INSERT` anew, or fails to.

**TelemetryPipeline.** `MainPoll` takes what epoll reports in epoll's order,
`MainConsume` calls back into `TryPush`, `MainSync` writes `user_stats`; the
consumer walks `ConsumerTop`, `PopHi`, `PopLo`, `FlushIfDue` and at the end
drains, flushes and publishes. A popped record goes through `Route`: the store is
asked to keep it (`Append_`, or `Discard` where the store cannot), unless it is a
fork or an exit (`Transient`: they only change the process tree) or the monitor runs
without a store (`store_on`, chosen in `Init`); such a record joins the history set
`passed`. `Signal` clears `running` at any moment. `pushed_` is incremented with the
push.

**NotifyDispatcher.** Every method runs under `mu_` and is one step; the worker
sends outside it. `WorkerTop` computes the deadline and goes to sleep in one
step (the mutex is released by `wait_until`), `WorkerWake` needs a notification
or the deadline. `UpdateConfig` is the whole method with the flush of windows
when aggregation is switched off; windows are settled in any order, as the hash
table gives them. A key without a window has one that starts at `NoTime`.

**FileRules.** `MergeRule` / `BootDone` build `monitor_actions` rule by rule.
`Access` is a hook that matched. The consumer's `LockShared` ... `UnlockShared`
spans the loop over the rules of the event; for each rule `RuleAlerts`,
`CacheHit`, or `CacheMiss` followed by `Match`. The reload takes the flag, reads
the file, takes the lock for writing and swaps three tables, one step each, and
clears the cache outside the lock. A process is one instance of its pid
(`PidOf`), an exe stands for exe and ancestors. `LockShared` looks the exe up in
the process tree: any that ran under the pid since the event's process began, as the
tree itself reads /proc late, or none. Then the fallback reads the key
(`ReadStat`) and afterwards the exe (`Resolved`) of whatever process has the pid by
then; `ran` is the history of what has run under the pid since a process began. Of
the kind of access the event carries only whether it is an attribute event, which
is all that `process_event_core` branches on before the rules.

**BaselineStore.** A command is a process with a program counter; `Launch` gives
it its operation: the paths under its roots, those that are a root themselves
(`named`), those excluded by name or directory (`prefix`) and those excluded by a
glob only (`glob`), a distinction the code makes in different places
(`MatchesExclude` knows globs, `in_scope` does not). A snapshot scans: it reads a
file (`CollectPath`), fails on one it came to and could not read or on a root that
is not there (`CollectFails`), or passes a file over without an error
(`CollectSkips`: what lies below a directory without permission, or whose type
cannot be told). It opens the database (`Open`, which runs `InitTable` and its copy
of the old table), reads the entries (`ReadCurrent`; each SELECT returns its rows or
fewer, `Fetched`, because a step that fails ends the loop like the last row), takes the lock (`Begin` / `BeginFails`), writes path by path
(`WriteEntry`, `RemoveEntry`) and commits. `delete` reads its victims (`Select`),
`clean` lists, looks at each file and then deletes, `check` lists, compares,
opens the database again and saves its alerts, `check -c` writes the old table.
`db` is what is committed, `tx` the image the one writer works on. A version
stands for everything that is recorded of a file. The database exists; a file
that changes between `stat` and the hash of one `ReadEntry` is not modelled.
`touched`, `gone` and `skipped` are history variables: what others changed, what
was absent at some time, and what its scan passed over, since a process began.
`upsets` counts changes of files, files passed over and reads cut off, for the bound.

**ProcessTree.** A pid's generations are its process instances. A node says of two
things whose they are: `of` of uid, gid and comm, which come with the event (or from
the bootstrap), and `exe` of the executable, which the code reads from `/proc/<pid>`
when it consumes the event and which is then that of whoever has the pid; the
container id is read, or cleared, in the same way. An exec falls back on the
filename in its event (`ExecExe`), which may be missing (`starts.blank`). `Fork`, `Exec` and `Exit` are
the tracepoints: each changes the kernel's table and sends an event, or loses it.
`bootstrap` reads one pid of /proc per step while events arrive; `apply` is
`ApplyFork`, `ApplyExec` and `ApplyExit` with `upsert` and its eviction. A start
time is exact in an event and cut to a tick when read from /proc, as the two
sources differ in the code. `FileEvents` of any instance there has been may be
consumed at any time, since they travel through another ring.

**RuleEngine.** A condition is the sequence of words the lexer gives. The parser
operators follow the parser's methods, with what is left of the words as a result.
`Build` gives each rule its mask and bucket, `FirstHit` walks the candidates as
`Evaluate` does. The second half of the module says what a condition means without
the parser: it splits the words at the last-binding connective (`Holds`,
`WellFormed`). A field compared with literals means what the language's document
says (`MeantField`); what a comparison with a literal on the left or a field on the
right means is set by the code alone, and `MeantWhole` says it. The properties
compare the two halves.

**AlertManager.** One thread calls everything, so each call is a step; a refused
SQLite statement is a choice within it. A row keeps its time and which of the two
formats it is dated in, because retention compares text (`TextBefore`). The units
of `now` and the length of a year are constants of the instance.

**BaselineWatch.** `HookOp` is the LSM hook, `LandOp` the operation it announced;
the consumer may run between the two. `phase` is where the monitor stands:
`LoadBaseline`, the boot check (`BootCheckNext`, then the comparison), only then
`FillMonitorActions`; afterwards `TakeEvent`, `RuleCheck`, `DebounceEvent`,
`CompareStat`, `CompareHash` and one `HandleDeviation` per finding. `heard` and
`blind` are history variables: what has been reported since it deviates, and what
the design cannot see, each case where the code lets it go.

## 3. Runs

All bounds are named constants and sit in guards, never in state constraints, so
that liveness is checked on the same graph as safety.

| Run | Bounds | Shows |
|---|---|---|
| `MCMpscQueue` | 2 producers with 2 pushes each, 2 consumers, 2 slots | `NoSlotRace`, `ImplementsFifo` (no loss, duplication or reordering), `RefusalsAreTrue`, `EventuallyDelivered`. Four pushes into two slots wrap around the buffer twice and let a thread be a whole lap late. |
| `MCRingBackpressure` | 2 hooks, 3 records, 2 hook calls of 1 or 2 targets, three targets (two that block, one CRITICAL) | `RingInv` (types, `Reconciled`), `NoLostWakeup`, `BlockSurvivesFullRing`, `EverySubmittedIsConsumed`. Thresholds 33/66/99 make each level reachable with 0..3 records. |
| `MCEventStore` | 4 events, batches of 2, 2 failing calls, 1 crash | `StoreInv` (types, `Accounted`), `BatchAtomic`. Two batches are needed for a transaction left open by the first to hit the second. |
| `MCTelemetryPipeline` | 2 rings (a fork and an exec; a connection), with and without a store, one slot of each priority, batches of 2, 1 failing call | `PipeInv` (types, `NothingVanishes`), `OnlyLateEventsStranded`, `UsesStore`, `StopTerminates`. |
| `MCNotifyDispatcher` | 2 keys, 4 alerts, queue of 1, 2 windows, 1 retry, 1 reload among 4 configurations, clock to 4 | `NotifyInv` (types, `CountedOnce`, `MergedReachDigest`), `NeverOversleeps`, `StopReturns`. |
| `MCFileRules` | 2 files, 2 processes that have one pid in turn, 3 rules of which the kernel's set keeps 2, a cache of one entry, 2 events, 1 edit, 1 exec or start, 3 configurations of which one does not load | `RulesIndependent`, `OneGeneration`, `CacheFresh`, `SuppressionHasCause`, `ReloadTakesEffect`. |
| `MCBaselineStore` | 2 files, 1 kernel parameter, 2 processes at a time, 3 commands out of 7, 1 change of a file, file passed over by a scan or read cut off, any failure or kill | `EntriesExplained`, `SnapshotsAccounted`, `SnapshotTakesEffect`, `NothingPresentIsDropped`, `ImplementsLedger`. Two processes suffice for every race between a read and a commit, three commands for one that both follows and precedes another; the file that changes may appear, change or go. |
| `MCProcessTree` | pid 1 and two pids, 2 forks, 1 exec, chains of 2, trees of 2 or 3 nodes, a queue of 2, one cached chain | `TreeInv` (types, `LruMatchesNodes`, `ChainsAreSimple`), `Mirror`, `ChainIsTrue`, `ActorOfInstance`, `ParentOfActor`, `TombstonesGoAway`. Two forks reuse a pid, so that an event is consumed when a later instance has it, and close a circle of parents; two nodes for three pids evict. |
| `MCRuleEngine` | arrangements of up to three comparisons out of twenty-one, eleven malformed ones, unbalanced parentheses, pairs of rules, 3 events, one reload | `EngineInv` (types, `OrderWithinBucket`), `NoMatchLost`, `ReloadIsStrict`. The comparisons have fields of each kind (event type, string, number, array), each operator, and on either side a field or a literal; every one also stands under `not`, and every one is joined to each of four. |
| `MCAlertManager` | 2 rules, throttle of 2, 5 alerts, table of 2 rows, a year of 2 units, clock to 3, 1 row of the command line | `EveryAlertAccounted`, `ThrottleIsHonest`, `OldestOfAWriterGoFirst`. The clock passes a throttle window and a turn of the year. |
| `MCBaselineWatch` | 2 files, one with a YAML rule, 2 operations, 1 crash, throttle of 1, debounce of 2, clock to 2 | `SilenceIsExplained`. Two operations are needed for one to hide behind the other's debounce, comparison or replacement. |

An invariant whose name ends in `Inv` is the module's type invariant together with
the named conjuncts, checked as one.

One run shows that the code does not do what a document says:

| Run | Property violated | What happens |
|---|---|---|
| `MCFileRulesCache` | `SuppressedByOwnRule` | The decision cache does not know the rule: one rule's whitelist suppresses the alert of another. |

Observations met while modelling that no run is spent on:

*Queue, ring, pipeline, dispatcher*

- A queue of one slot (`telemetry.queue_hi` or `queue_lo` of 0 or 1, which nothing
  forbids) accepts a push over an unread record: `seq = pos + 1` of a full slot is
  the position of the next lap. All theorems about the queue but `TypeCorrect`
  therefore have the hypothesis `Capacity >= 2`.
- A batched record at the head of the ring keeps a later CRITICAL record from waking
  the reader, and the loop consumes only rings that epoll reported
  (`bpf_common.h:232`, `monitor.cpp:1799`); `docs/ring_buffer_optimization.md:145`
  says the next poll timeout reads them, `:167` that CRITICAL events stay realtime at
  every level. `EverySubmittedIsConsumed` is therefore stated for unbatched rings.
- The consumer tests the flag the signal handler clears, so it can drain, flush and
  leave while the main thread still pushes the rest of its round; what is pushed then
  is neither stored nor counted (`monitor.cpp:1589`, against the comment at `:1842`).
  `OnlyLateEventsStranded` bounds the loss to exactly these.
- After a reload to an empty `webhook_url` the worker takes an item queued before with
  a null notifier and dereferences it (`notify_dispatcher.cpp:222`, `:231`, against
  the comment at `:28`). The model has the step (`crashed`).
- `sync_user_stats` reads all counters and writes the map without a lock, from two
  threads (`monitor.cpp:495`, `:1595`, `:1829`): the main thread's periodic write can land after the
  consumer's final one, with older counters.
- An event shed by backpressure (`lsm_file.bpf.c:52`) returns 0 before the
  action, so a BLOCK rule of severity LOW or MEDIUM stops blocking under load;
  `tests/TESTCASES.md:64` states the refusal without that condition. The model
  has it, and `BlockSurvivesFullRing` is stated for runs without shedding.
- `monitor.cpp:1755` says rings ready in one round are consumed in array order;
  the loop follows epoll's order.
- After a failed `COMMIT` no `ROLLBACK` follows (`event_store.cpp:361`), although
  `event_store.hpp:39` says so. If SQLite kept the transaction open each later
  `BEGIN` fails; `Accounted` still holds, because the batches are counted.
- If the `INSERT` could not be prepared, `Append` discards every event and counts
  none, while `ok()` stays true (`event_store.cpp:277`): `discarded` in both models
  keeps what no counter of the program does.
- When a new aggregation window makes the table larger than its limit, the table
  is cleared with what its entries still owe (`notify_dispatcher.cpp:177`), although
  `notify_dispatcher.hpp:76` promises a digest at the end of every window. The
  passing run keeps the number of keys within the limit, and `MergedAlertsReachDigest`
  has that as its hypothesis: with `MaxWindows = 1` TLC finds `MergedReachDigest`
  violated as soon as a second key opens a window over a merged alert.

*File rules*

- When the process tree has no exe for an event, the fallback reads `/proc/<pid>`
  without comparing the start time with the event's (`monitor.cpp:624`,
  `whitelist.cpp:126-142`), so after the process has exited and the pid was given
  out again, a stranger's exe decides, and the decision is cached under the key of the
  process read first, which may be yet another one than that of the exe.
  `SuppressionHasCause` allows that much: the exe is one that ran under the pid since
  the event's process began. An exe of an *earlier* process of the pid is used only
  where the tree itself kept it, after a lost fork and an exec without a file name.
- A reload replaces the tables in the monitor but not the kernel's `monitor_actions`:
  files that only the new configuration names raise no event until a restart.
  `ReloadTakesEffect` is about the tables.

*Baseline database*

- Every open of the database copies the rows of the old table that have no entry, so a
  deleted path that `check -c` also recorded is back at the next command
  (`baseline_db.cpp:222`); `docs/help/fim-guide.html:141` says it is not verified any more.
- Without a busy timeout (`EventStore` sets one, `BaselineDB` does not) the alerts of
  a check are refused while another process writes, with a log line only;
  `baseline_check.cpp:393` says they are always written. The same holds for
  `SaveBaseline`, and a snapshot or deletion that meets a writer fails as a whole.
- A snapshot compares with entries it read before `BEGIN IMMEDIATE`. Under
  concurrency its counters, and the old values in the audit, describe that earlier
  state, and a scanned file can be left without an entry when a deletion commits in
  between and the file counted as unchanged. `SnapshotTakesEffect` therefore speaks
  of the paths nobody else touched.
- A snapshot that excludes a file by a glob removes its entry; excluding it by path
  keeps the entry.
- A snapshot removes the entries of files that are there but that its scan passes over:
  both iterators take `skip_permission_denied` (`baseline_snapshot.cpp:131`, `:152`), and
  an error of `is_regular_file` is overwritten by the `increment` after it (`:144`/`:149`,
  `:156`/`:161`). So a root directory the process may not read is an empty scan that
  succeeds and empties the baseline of its scope. `NothingPresentIsDropped` and
  `SnapshotTakesEffect` except what was passed over (`skipped`); of a file that the scan
  comes to and cannot hash they hold, because the command then fails.
- `is_regular_file` of a directory entry follows symbolic links and `ReadEntry` does not
  (`lstat`, `:76-82`): a link to a regular file below a root makes the whole snapshot
  fail, with an empty message. `CollectFails` stands for it.
- The loops that read the entries take every result of `sqlite3_step` but a row for the
  end (`baseline_db.cpp:307`, `:990`, `:1219`). A snapshot whose read is cut off records
  as `added` what has an entry and leaves the entry of a file that is gone
  (`Unread` in `SnapshotTakesEffect`); the trail still explains every entry.
- Kernel parameters that `check -c` records in the old table become entries of the
  file baseline; `check` reports them as missing files, and `clean` removes them
  until the next open.

*Telemetry pipeline*

- Forks and exits are popped and counted as pushed, and then only change the process
  tree: no counter tells them from what the store was handed
  (`monitor.cpp:1439-1453`, test at `:1443`). The difference between `pushed` and
  `stored + failed` is therefore no measure of loss. Without a store this is so for
  every event (`:1426`, `:1445`). `NothingVanishes` says that nothing else is passed
  over.

*Process tree*

- A pid that vanishes while bootstrap reads it leaves a node with parent 0, which a
  later exec of the same pid keeps; an exec after a lost fork keeps the parent of the
  pid's earlier owner (`process_tree.cpp:217`), although `process_tree.hpp:13` says the
  node is replaced. `ParentOfActor` therefore allows 0 and assumes no lost event.
- Start times from /proc and from events never compare equal, so an exec always takes
  the branch for a reused pid, and a file event of a process known from bootstrap or
  fork alone does not find its node.
- A file event consumed before the fork or exec of its process caches an empty chain
  for the life of that instance (`monitor.cpp:981` calls the chain invariable).
- A zombie met by the scan never gets an exit event and stays; threads become nodes.
- The exe and container id of a node are read from `/proc/<pid>` when its fork or exec
  is consumed, with no look at the start time (`process_tree.cpp:184`, `:204`, `:209`,
  `:226`, `:232`). When the process is gone by then and its pid in use again, the node
  has the start time, uid and comm of the one and the exe and container of the other;
  a file event of the first finds it, and `monitor.cpp:1020-1021` reports a stranger's
  exe. `ActorOfInstance` therefore claims the instance's own exe only while it runs.
  Afterwards the exe is empty, its own or a LATER instance's, never an earlier one's,
  unless the filename of an exec could not be read (`proc_watch.bpf.c:146-149`): an
  exec that finds neither leaves the old exe standing (`process_tree.cpp:226-230`).
- The model does not tell threads from processes (fork reports the thread that forked
  as the parent, `proc_watch.bpf.c:113`), lets pid 1 adopt every orphan, with no
  subreaper, gives kernel threads and zombies an exe like the others, and reads the
  files of one pid in one step. What a node says is of an instance, not of a moment of
  its life: an exe may be that of an exec still in the queue.

*Rule engine*

- Rules on network, dns, priv and ns events load and are never evaluated: `Evaluate`
  is called for file events and exec only.
- `rule_engine.hpp` says the first match in loading order wins; a rule of the event's
  bucket wins over an earlier one of the common bucket (`OrderWithinBucket`).
- `docs/rule-dsl-v1.md:79` lets any operand stand on either side of any operator. With
  a literal on the left or a field on the right the code knows only `=` and `!=`:
  `contains`, `startswith` and `in` are then false whatever the event
  (`rule_engine.cpp:319-326`, `:340-347`), so `not (file.path contains process.comm)`
  matches every event. Two sides of which one is a number and one is not, and an array
  against another field or on the right, are neither equal nor unequal, where the
  document says any element. The loader refuses none of these. `Meant` follows the
  code here, so `NoMatchLost` holds of them and says nothing for them.
- `0 = field` differs from `field = 0` for string fields; `file.new_uid` is 0, not missing, on events other than chown.
- A subdirectory of the rules that cannot be read makes the iterator or
  `is_regular_file` throw (`rule_loader.cpp:136-137`), and nothing on the way from the
  reload (`monitor.cpp:176-219`) catches it: on SIGHUP the monitor ends. The model
  has no such step; `ReloadIsStrict` is about the text of the rules.
- Two rule names can give one `dsl_rule_id` (`monitor.cpp:1236`) and then share one throttle.

*Alerts and retention*

- A rule is stamped before its alert is stored: when SQLite refuses the row, the
  window is silent and nothing of it is stored, although `alert_manager.cpp:287` says
  the first one is. `alert_manager.hpp:56` and `:109` say a throttled alert is stored
  too; it is not.
- The monitor dates rows `20260131-...`, the command line `2026-01-31T...`, SQLite
  `2026-01-31 ...`, and they are compared as text: age retention deletes no monitor row
  of the cutoff's year, and retention by number drops newer rows of the command line
  before older ones of the monitor. `OldestOfAWriterGoFirst` is what remains true.
- `insert_count` belongs to a process: a monitor restarted often, and the command line,
  never reach the cleanup by number of inserts.
- All files share the throttle of rule `baseline`, and the boot check that of
  `baseline-check`: of several deviations the first is stored. A hash deviation throttles
  the permission deviation of the same comparison, and a violation alert the mismatch
  alert of the same rule.

*Realtime baseline watch*

- A file deleted while the monitor was down is not reported: the boot check walks
  inodes of files that exist.
- The kernel map is filled after the boot check, which may send web hooks first:
  changes in between are unseen. A file replaced by rename is unwatched afterwards; the
  deletion of a file that only the baseline names raises no event; an inode with a YAML
  rule is blind to what that rule does not name.
- The last write within the two seconds of the debounce is never compared.

## 4. Fairness

- Queue: a thread inside a call runs on (WF); the consumer calls `try_pop`
  again and again (its loop does). The compare-and-swap is weak and may fail
  spuriously, but not for ever: SF on the two claims. A producer need not
  call.
- Ring: hooks run in the kernel and do not block (WF). The main loop has a
  timeout (WF).
- Store, rule engine, alert manager, baseline watch: safety only, every step may be the last.
- Pipeline: both threads are scheduled (WF). Events and signals are not promised.
- Dispatcher (`DispatcherFairSpec`): the worker is scheduled and time passes (WF). Calls are not promised.
- Process tree: the consumer's loop applies events, and comes to the sweep when its
  queues are empty for a moment (WF). Under a flood the inner loops have no bound
  (`monitor.cpp:1508`), and then the sweep, like the flush, waits.
- Baseline database: no liveness is claimed, a command may fail or be killed at any
  step.
- File rules: both threads are scheduled (WF). The writer gets the lock although
  readers come and go (SF on `ReloadLock`): there is one reader thread, which
  releases the lock between events, and the C++ library's lock on Linux lets a
  waiting writer in when the last reader leaves.

## 5. Proofs

TLAPS proves the following for all values of the constants that satisfy the
named assumptions of the modules.

| Theorem | Module | Statement |
|---|---|---|
| `TypeCorrect` | `MpscQueue_proofs` | `Spec => []TypeOK` |
| `Invariance` | `MpscQueue_proofs` | `Capacity >= 2` implies that `IInv` is invariant |
| `NoSlotRaceTheorem` | `MpscQueue_proofs` | `Capacity >= 2` implies `Spec => []NoSlotRace` |
| `BoundedOccupancyTheorem` | `MpscQueue_proofs` | `Capacity >= 2` implies `Spec => []BoundedOccupancy` |
| `QueueImplementsFifo` | `MpscQueue_proofs` | `Capacity >= 2` implies `Spec => ImplementsFifo`: `MpscQueue` refines `SlotFifo` |
| `RefusalsTrue` | `MpscQueue_proofs` | `Capacity >= 2` implies `Spec => RefusalsAreTrue`, an action property |
| `CountersReconcile` | `RingBackpressure_proofs` | `Spec => []RingInv` |
| `NoWakeupIsLost` | `RingBackpressure_proofs` | `Spec => []NoLostWakeup` |
| `RefusalSurvivesFullRing` | `RingBackpressure_proofs` | `Spec => []BlockSurvivesFullRing` |
| `StoreInvariant` | `EventStore_proofs` | `Spec => []StoreInv` |
| `BatchesAreAtomic` | `EventStore_proofs` | `Spec => []BatchAtomic` |
| `ConsumerUsesStore` | `TelemetryPipeline_proofs` | `Spec => UsesStore`: the pipeline refines `EventStore` |
| `NoEventVanishes` | `TelemetryPipeline_proofs` | `Spec => []PipeInv` |
| `LateEventsOnly` | `TelemetryPipeline_proofs` | `Spec => []OnlyLateEventsStranded` |
| `StorePromisesHold` | `TelemetryPipeline_proofs` | `Spec => [](Store!StoreInv /\ Store!BatchAtomic)` |
| `OneGenerationTheorem` | `FileRules_proofs` | `Spec => []OneGeneration` |
| `CacheFreshTheorem` | `FileRules_proofs` | `Spec => []CacheFresh` |
| `SuppressionTheorem` | `FileRules_proofs` | `Spec => SuppressionHasCause`, an action property |
| `RulesIndependentTheorem` | `FileRules_proofs` | `Spec => []RulesIndependent` |
| `TypeCorrect` | `BaselineStore_proofs` | `Spec => []TypeOK` |
| `EntriesExplainedTheorem` | `BaselineStore_proofs` | `Spec => []EntriesExplained` |
| `NothingPresentIsDroppedTheorem` | `BaselineStore_proofs` | `Spec => NothingPresentIsDropped`, an action property |
| `SnapshotsAccountedTheorem` | `BaselineStore_proofs` | `Spec => []SnapshotsAccounted` |
| `SnapshotTakesEffectTheorem` | `BaselineStore_proofs` | `Spec => SnapshotTakesEffect`, an action property |
| `StoreImplementsLedger` | `BaselineStore_proofs` | `Spec => ImplementsLedger`: `BaselineStore` refines `BaselineLedger` |
| `ActorIdentity` | `ProcessTree_proofs` | `Spec => []ActorOfInstance` |
| `ContainersAgree` | `ProcessTree_proofs` | `Spec => []TreeInv` |
| `TreeMirrorsKernel` | `ProcessTree_proofs` | `Spec => []Mirror` |
| `ParentIsOwn` | `ProcessTree_proofs` | `Spec => []ParentOfActor` |
| `ChainsEnd` | `ProcessTree_proofs` | `Spec => []ChainsAreSimple` |
| `ChainIsThePath` | `ProcessTree_proofs` | `Spec => []ChainIsTrue` |
| `AlertsAccounted` | `AlertManager_proofs` | `AlertManagerSpec => []EveryAlertAccounted` |
| `ThrottleKeepsItsWord` | `AlertManager_proofs` | `AlertManagerSpec => []ThrottleIsHonest` |
| `OldestGoFirst` | `AlertManager_proofs` | `AlertManagerSpec => OldestOfAWriterGoFirst`, an action property |
| `SilenceExplained` | `AlertManager_proofs` | `Spec => []SilenceIsExplained`, of `BaselineWatch` |
| `WatchAlertsHonest` | `AlertManager_proofs` | `Spec => [](EveryAlertAccounted /\ ThrottleIsHonest)`, of `BaselineWatch` |
| `AlertsCountedOnce` | `AlertManager_proofs` | `DispatcherSpec => [](TypeOK /\ CountedOnce)`, of `NotifyDispatcher` |
| `WorkerNeverOversleeps` | `AlertManager_proofs` | `DispatcherSpec => []NeverOversleeps` |
| `MergedAlertsReachDigest` | `AlertManager_proofs` | `RoomForAll` (finitely many keys, no more than the table takes) implies `DispatcherSpec => []NotifyInv` |

**The queue.** Neither property is inductive: whether a stale producer may claim
a slot depends on what the slot's sequence number says, and that depends on
every other thread. `IInv` therefore adds `SlotInv`, which gives the sequence
number of every slot within one lap of `dequeue_pos` (`Expected`) from who has
reserved or taken the position, and `ProducerInv` / `ConsumerInv`: a thread that
holds a position holds it alone and within the window, a local position never
runs ahead, and a producer about to claim `enqueue_pos` has seen its slot free.
`PushStep` and `PopStep` go through the actions; the arithmetic they rest on
(`SlotRepeats`, `SlotsDiffer`: two positions less than a lap apart are in
different slots) is a set of lemmas about `%`. The assumption `Capacity >= 2` is
needed, as section 3 explains.

That the queue implements `SlotFifo` needs two facts more. `DataInv` follows the
records: a committed position, the argument of a producer that owns one and the copy
in the hand of a consumer are what the position was claimed for, which is where the
absence of slot races is used. `Passed` says that a slot has moved on from every
position taken. The refinement mapping reads the line off the slots from `Oldest`, the
first position not handed back; `OldestExists` and `OldestUnique` turn that `CHOOSE`
into its characterisation, `LineHolds` says what the line then is, and
`LinePush`, `LinePopClaim` and `LinePopRelease` match each step with `Reserve`,
`Commit`, `Take`, `Deliver` or a stutter. The room for a reservation comes from
`ProducerInv`: the position a lap back is no longer taken, so it is not the oldest.
For `RefusalsAreTrue` a stale position is excluded by `Passed` (its slot is ahead of
it, which is the branch that reloads), and for the position in force `SlotInv` says
why its slot lags.

**The ring.** `Reconciled` and the others of `RingInv` become inductive with `CallInv`
(where a hook stands in its call) and `FillInv` / `NotifyInv`: a hook that fills a
record owns the busy one at its place in the ring, alone, and a record that was
submitted but not yet announced is batched exactly when its hook decided so.
`NoLostWakeup` is then inductive: the record the consumer stops at, if it is not busy,
has a hook that still decides about the wakeup, was batched, or lies behind one for
which this holds. For `BlockSurvivesFullRing`, `PassInv` says that while nothing was
shed no target that a hook has settled was one to refuse. The counting step
(`CountStep`) rests on lemmas about how a step changes the set of hooks in a phase.

**The event store.** `BatchInv` says how `pending_` stands to the batches (one of
them only between the `INSERT`s and the clearing) and `TxnInv` what the open
transaction holds. A transaction that a failed `COMMIT` left open is harmless because
`BEGIN` then refuses. Sets are counted with the theorems on finite sets; that a
sequence without repetition has as many members as elements is a lemma.

**The pipeline.** `RingTail` (what is unread of a ring are its last events) and
`Partition` (every consumed event is dropped, queued or handed over, once) make the
counters add up; `DrainInv` says how far the last drain has come, from which what
stays in the bus is late. `ConsumerUsesStore` shows that each step is one of
`EventStore` or leaves its variables alone. `StorePromisesHold` then needs no look at
the pipeline: it is the store's own theorems through the instance `SP` of
`EventStore_proofs`, with no crashes, and that refinement.

**The file rules.** `OneGeneration` becomes inductive with `LockInv`: reader and
writer exclude each other, the tables are equal whenever nobody writes, and while
somebody does, the tables already swapped are the loaded configuration.
`CacheFresh` is inductive itself, because what a miss stores is computed from the
whitelist that the shared lock keeps in place (`MatchStores`), and because every
way out of the swap leads through `ClearCache`. `SuppressionHasCause` needs where
the exe of a decision comes from (`OriginInv`: what the one living process of a pid ran
has run under the pid since any of its processes began, so the process whose key is in
hand, the event's or a later one, ran nothing else, and whatever a miss resolved ran
since then), what an entry rests on (`CauseInv`: the
whitelist in force, or the one the reload is replacing), and `LockInv` again,
which rules out a hit in the middle of the swap.

`RulesIndependent` speaks of the sets after any number of merges, also those in which
a full set gave up its weakest entry. `MergeInv` says what survives of the rules
merged so far: all of them while they fit, and all the blocking ones while those fit,
with no more blocking entries than there were blocking rules. `Merge` keeps this
(`MergeKeeps`) because a set with an entry that does not block never gives up a
blocking one: `WeakerRanks` makes the comparison one of numbers, so the weakest entry
exists (`WeakestExists`, from the least element of a set of naturals), and if it
blocks, the whole set does, which then is full of blocking rules. The pseudo rule of
a baseline file stands alone and blocks nothing.

**The baseline database.** Types need one fact more than `TypeOK`: a running
process has a run number (`Numbered`), because the audit records it. The trail
is inductive once it is stated of the writer's image too (`ExplainedInv`): the
two actions that change an entry write its record, a copied row needs none, and a
commit makes the image the database. That nothing present is dropped needs the
whole way of a path from the disk to the commit (`KeepInv`): what is absent is in
`gone` (`GoneInv`), a scan that did not find a path met its absence or passed it over
(`ScanInv`),
what a snapshot or clean is about to remove is in scope and not found, or was seen
absent (`DoomInv`), the holder of the write lock alone changes the image and nobody
the database meanwhile (`Exclusive`), so what the image lacks it was entitled to
remove (`KeptInv`). The conjuncts were checked with TLC before they were proved.

That every snapshot is accounted for speaks of what is committed; the invariant
`AccountInv` follows the transaction. Run numbers are given out once (`IdInv`), a
transaction adds records of its own run only (`TxInv`), and a run shows nothing before
it commits (`BlankInv`), which is why a rollback or a crash needs no undoing. `Fate`
says what a snapshot makes of a path; the counters are the sizes of the fates less
what is still to do (`CountInv`), the records those sets themselves (`WriteInv`), and
with nothing left to do the fates add up to what was scanned (`FatesAddUp`). That a
snapshot takes effect adds what it has seen and read of a path that nobody touched
(`SeenInv`, and `ReadInv`, which allows for a row that was cut off) and what its transaction has made of the path (`MakeInv`).

**The process tree.** That a lookup by (pid, start time) finds the right instance
needs what the start times are: an invariant says of every node and every event
under way that an exact start time belongs to the instance whose data it stands with,
and that a time read from /proc is even, hence equal to no event's. Loss, order and
eviction play no part, so neither does the size of the tree. This gives the uid. For
the exe, `ExeInv` says of a node that is dated to an instance that its exe is of no
earlier one, and of that one while it runs: at the time an exec is applied its pid is
held by its own instance, by a later one or by none (`KernelInv`, no event is of an
instance still to come), and in the last case the filename in the event is its own;
that the event has one unless `starts.blank` says otherwise is the other half of
`ExeInv`.

The containers (`LruInv`): the list names the nodes once each, through touch, insert,
eviction and sweep. The mirror (`EventInv`) argues from the queue. A node may differ
from the kernel's task only while the event that will mend it waits, where waiting is
said of positions in the queue: behind an event of an earlier life comes the fork of
the running one, a dead process that is not yet shown so has its exit under way, and
the parent of a node whose fork is applied is one its instance has had. An empty queue
then leaves the mirror. Both theorems hold only while nothing is lost, and the
mirror while nothing is evicted, as the properties say.

Chains are walked by a recursive function (`StepUp` is its step). Two lemmas carry
it: `Induct`, induction over a set of naturals from well-foundedness, and `Recursion`,
that a function given by a first value and a step exists and unfolds. By them a
recorded chain never repeats a pid (`CacheInv`). That it is the path of the true
parents in a quiet tree needs `KinInv`: the parents of running processes run, and form
no circle, stated as the existence of a rank that grows from parent to child and
that each fork and each exit (reparenting to pid 1) extends.

**The alert manager.** `EveryAlertAccounted` is inductive. `ThrottleIsHonest` needs
that the last entry of `passed` is the rule's stamp, that no entry is later than now,
and types; the two ways in (with and without a look at the throttle first) are proved
once each. Retention by number is shown to respect the age of one writer's rows by
what text order is: between two rows of one format the order of time (`TextOrder`,
from the monotony of division by the length of a year).

**The baseline watch.** Its reports and its restart are the alert manager's steps
(`WatchStepAlerts`), so that module's invariant holds of it (`WatchAlertsHonest`).
`SilenceIsExplained` speaks of a monitor at rest; the invariant `WatchInv` says of any
moment that a deviation has been heard, is among the named blind spots, or is
`Pending`: a step the monitor still has to take will look at it, because the file is
still to be checked at boot, is the one in hand at a stage that sees this aspect, is
in the list of findings, or has an event queued that does. Needed with it are that inodes
are not reused and lead to their file (`InodeInv`), that an event leads to the file of
its operation (`OpInv`), and that a debounce stamp comes from a comparison, or from
the event in hand (`StampInv`), since a stamp without a comparison would be a silence
without a cause. A restart empties all of it and begins with the boot check.

**The dispatcher.** `CountedOnce` mixes counters that `mu_` protects with where the
worker stands. `Balanced` writes it as one equation: what was accepted and what the
tables owe (`Owed`: digests issued less what was suppressed, dropped or still lies in
the queue) is what was sent, failed or merged, or is in the worker's hand. Settling a
window leaves `Owed` as it is, because a digest is put in the queue or counted as
suppressed or dropped (`EnqueueKeeps`, `FlushKeeps`); the other steps move one
unit across. `NeverOversleeps` is inductive beside it: whatever opens a window or
fills the queue notifies, and time does not pass a deadline unheeded. With them stand
the types (`TablesOK`, `WorkerOK`): the tables are finite, whatever their limit, and a
key without a start has no window, so that the next deadline is a least element.

`MergedReachDigest` counts the alerts that wait in open windows. It is stated with a
set of pairs (`Waiting`), so the theorems on finite sets apply: a merged alert adds a
pair, a settled window takes its pairs over into `digested`, and a window that opens
over another one settles it first. A reload that switches aggregation off settles all of
them in the order of the hash table, a recursive function over a sequence of
keys: `Recursion` says that it exists and `Induct` walks it (`WalkExists`,
`FlushAllKeep`), for every order. The hypothesis `RoomForAll` is needed, as section 3
explains; the two other theorems hold of overflowing tables too.

**The baseline ledger.** The mapping is what is committed, so every step but a commit
and the copy of the old table must leave it alone, which the code's one transaction
gives. A commit is one command of the ledger. `RunsInv` supplies that its number is
unused: only a run that is over has left a record or a row. `LogInv` relates
the writer's image to the database path by path: either the entry and the trail are those
committed, or the trail is longer by one record of this run, and the entry is what
this record says. The row of a snapshot counts the records by `AccountInv`, with the
ledger's unchanged paths chosen as the paths whose `Fate` is "unchanged"
(`SameCount`). The copy of the old table is `Migrate` because it runs under the write
lock; a copy that ignores the lock writes under an open transaction, whose commit then
takes the copied entry away again without a record, which no command of the ledger does.

Only model-checked: liveness under fairness and anything with ENABLED (out of the
prover's reach: `EventuallyDelivered`, `EverySubmittedIsConsumed`, `StopTerminates`,
`StopReturns`, `ReloadTakesEffect`, `TombstonesGoAway`); and `RuleEngine`
(`EngineInv`, `NoMatchLost`, `ReloadIsStrict`), whose parser and evaluator are recursive
operators: that what the parser builds means what the words say is an induction over
conditions. The library's
induction theorems, which take an operator as a parameter, are beyond the installed
provers. `Induct` and `Recursion` speak of sets and functions instead, and
serve where a recursion is a function over the naturals; what a fold or `SelectSeq`
computes stays with TLC. `TypeOK` of `FileRules` is not proved for that reason (what is
left to examine of an event comes from `SelectSeq`); TLC finds it to hold with the
constants of `MCFileRules`, but no run repeats that: the other invariants there do not
rest on it.

## 6. Not modelled, and why

- Weak memory. Atomics are sequentially consistent; see the queue above.
- `volatile bool running` and `volatile sig_atomic_t`: a read sees the old or the
  new value at any step.
- The database that cannot be opened at all (`ok()` false): the monitor then runs
  without a store, from start to end.
- The content of records, rules' paths and hashes, wording of alerts, HTTP.
- `LatencyStats`, logging, formatting, report generation, option parsing, asset
  collectors: no state that outlives a call, or I/O only.
- Vendored code (`nlohmann`, `spdlog`, `vmlinux.h`).
- Of the modelled parts: the lexer's characters and output templates of the DSL; hard
  links, renames away, read events and the hash lists of YAML rules in the baseline
  watch; local time against UTC in alert dates.
- The network watch: `net_watch.bpf.c` keeps a connect between entry and return in a
  map by thread; one step each, with no second actor on an entry. The DNS parser drops
  names of exactly 32 labels, although its comment allows them; it is a bounded parser
  without state. Its records take the path `TelemetryPipeline` models.
- The privilege and namespace watch: one handler per event, no state.
- The kprobe/perf fallback: one thread, per-CPU buffers that drop; its handlers are
  those of `FileRules` and `BaselineWatch`.
- Configuration and command line: text to records and a dispatch.

## 7. Plan

What decides whether an event is lost came first (queue, ring, pipeline, store), then
whether an alert is raised and delivered (rules, engine, process tree, watch, alert
manager, dispatcher), with the database the comparisons rest on and, above it, the
ledger it implements. Every safety property the runs check is proved but those of
`RuleEngine`. What is left is the rule engine's meaning for conditions of any length,
which needs its parser as a recursive function over the length of the words, and an
abstract specification of an alert's way from rule to notification that joins
`AlertManager` and `NotifyDispatcher`.

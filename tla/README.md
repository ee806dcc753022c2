# qiftop: verification in TLA+

qiftop shows network interfaces and connections with their rates, processes and
containers. A privileged agent (`qiftop-agent`) polls the kernel and publishes
snapshots on D-Bus; a GUI and a terminal client show them. These modules model
the parts where time, threads, messages and bounded tables meet, check them with
TLC and prove the main safety properties with TLAPS. Paths below are relative to
`src/src/`.

## 1. The system

| Part | State | What makes it hard |
|---|---|---|
| Adaptive cadence, `agent/IdleManager` | hint table with TTL and cap, last activity, current interval | clients come, go and expire between late timer ticks; interval changes are queued to two threads |
| Attribution eagerness, `agent/AttributionHintManager` | hint table with TTL and cap, announced mode | most eager wins, lapses are noticed by a half-TTL timer, several components are re-tuned |
| Connection publishing, `agent/ConnectionsService` | last snapshot twice (wire rows and typed mirror), key index | snapshots and late refinements interleave |
| Deferred attribution, `backend/ResolverDeepWorker`, `DeepAttributionQueue.h` | bounded queue with attempts, timer | retries, re-enqueue by every snapshot, quiescing, eviction |
| First-pass attribution, `backend/Attribution.cpp`, `backend/linux/SockDiagResolver`, `CgroupClassifier`, `CompositeResolver.h` | socket and PID caches with TTL, per-tick memo | PIDs are reused between look-ups |
| Namespace scanner, `backend/linux/NetnsScanner` | own thread, published map, demand scans | cadence changes, shutdown during a sweep, return to the host namespace |
| Monitors, `backend/linux/NetlinkMonitor`, `ConntrackMonitor` | worker threads with poll timers, LRU caches | start that fails, stop, queued interval changes |
| D-Bus clients, `backend/dbus` | started flag, desired interval and mode | replies after stop, agent restarts |
| Flow table, `aggregate/ConnectionAggregator` | rows, index, previous snapshot, UDP groups | rows go stale, return and are pruned; members of a group restart and lapse |
| Interface table, `aggregate/InterfaceAggregator` | rows, previous sample | interfaces come and go, counters restart |
| DNS cache, `dns/QtDnsResolver` | cache, insertion order, look-ups in flight | answers after a clear, eviction, negative TTL |
| Hand-off, `util/HandoffServer`, `HandoffClient`, `PrivilegeEscalator` | one client slot, authentication, line buffers | fragments, eviction of a peer, disconnects |
| GUI models, `ui/ConnectionModel`, `ConnectionGroupProxy` | groups and row indices | incremental edits over shifting indices |
| Everything else | settings, filter language, export, TUI, BSD backend, probes | see `PROJECT.json`, `components` |

How they interact: conntrack and netlink workers emit snapshots; the agent's main
thread attributes, caps and publishes them and queues weakly attributed flows for
the deferred pass; clients call methods, which count as activity, and send hints,
which change the polling interval and the attribution mode; the client's
aggregator turns snapshots into rows.

## 2. Modules

| Module | Models | Extends / uses |
|---|---|---|
| `AgentCadence` | `IdleManager`, the handlers that feed it, the monitor threads' poll timers | refines `ClientLease` |
| `AttributionHints` | `AttributionHintManager`, `onEffectiveEagernessChanged`, what it tunes | refines `ClientLease` |
| `ClientLease` | abstract: what both hint tables promise | |
| `DeepAttribution` | snapshot capping and publishing, the deferred pass, its queue and timer | |
| `ConnectionAggregator` | `updateConnections` with UDP aggregation, the settings it reads | |
| `MC*` | instances for TLC | the module of that name |
| `*Proofs` | theorems and proofs | the module of that name, `TLAPS` |

An operator whose name continues another one's (`PruneKeepsExpired` next to
`Prune`) is a wrong version of it. It is used by nothing: it records a bug each
property is known to catch (`PROJECT.json`, `mutants`).

### AgentCadence

`hints` is `m_hints`, `elapsed` is `m_since.elapsed()`, `tick` the time until the
one-second timer is due, `currentMs` is `m_currentMs`; per monitor, `thread`,
`timer` and `inbox` are its worker thread, the interval of its poll timer and the
queued `setPollIntervalMs` calls. Time is kept as ages that count down or
saturate, so the model has no horizon. Every handler of the main thread is one
action and includes the `evaluate()` and `noteActivity()` it calls, each of which
may post an interval; a worker applies one posted interval per step.
`WorkerStart` starts at a hard-coded interval, as `start()` of both workers does,
and netlink's may fail. `SetDesiredIntervalMs` casts its unsigned argument as the
service does. `Unreported` are the clients whose departure the agent is not told
of: none, or all when the `NameOwnerChanged` match could not be installed; one
out of three in the run, which exercises both paths together.

### AttributionHints

`lastEmitted` is the announced mode; `cacheTtl`, `netnsRefresh` and `deepActive`
are what `onEffectiveEagernessChanged` sets; `netnsTimer` is the interval the
scanner's thread runs at, which follows at its next tick. `Init` leaves the
configured mode open. Presets, overrides, defaults and floors are constants, with
the clamping of `safeCacheTtlMs` and `safeRefreshIntervalMs`. The activity an
accepted hint counts as belongs to `AgentCadence`.

### ClientLease

Clients take, keep, release and lose leases; there is no timer. A lease is good
for its TTL, no one is evicted, at most `Cap` are held and none is held `Grace`
past its end. The refinement mapping reads the set of holders, the time left and
the clients present off the concrete tables; `Grace` is one timer period plus the
lag allowed to a busy event loop.

### DeepAttribution

`rows` is `m_lastConns`, `last` is `m_last`; `queue` and `request` are the
queue's table; `owner` is what the resolver's caches say, which the environment
changes at any time. `Snapshot` is the whole of `onConnectionsUpdated`: cap,
attribute, publish, enqueue (merging attempts, evicting the quietest). `Process`
is one timer tick with the `onDeepRefined` it leads to, which runs in the same
call. A generation number is kept as `fresh`: whether a request is of the current
one. Byte counts are ranks.

### ConnectionAggregator

`rows`, `keyToIdx`, `prev` are `m_rows`, `m_keyToIdx`, `m_prev`; `group` and
`member` are `m_udpAgg`. One counter stands for the four of a connection, ages
for the distances to `lastSeenMs`. `Poll` is the whole of `updateConnections`:
direction, aggregation, expiry of members and peers, rows updated or made stale,
pruning from the last row to the first, the index, the new rows in any order (a
hash table's) and the new baseline. A flow the agent sends with an unknown
direction changes key when the local addresses become known. `floor` is the least
a flow's counter can be: a conntrack entry counts up, and a `Renewable` one may
be replaced and start again. Smoothing, attribution patches and name look-ups are
not part of it.

## 3. What the runs check

| Run | States | Result |
|---|---|---|
| `cadence` | 152,199 | table capped; pauses only an idle agent; faster than the base only while hinted; departed clients forgotten; every worker heads for the interval the main thread believes in; activity restores the active interval; the table is a lease table; polling stops for good when all clients have left |
| `hints` | 302,692 | announced mode current up to the timer's grace; most eager hint wins; configured off is a kill switch; resolvers tuned for the announced mode; the table is a lease table; everything returns to the configured mode when all clients have left |
| `deep_safety` | 40,194 (up to symmetry) | no lost wake-up of the worker; mirror in step; only weak flows queued; reason follows process; refinements only add |
| `deep_live` | 4,104 | a request leaves the queue, even one every snapshot renews, with snapshot and queue at their caps |
| `flows` | 24,552 | index exact; live rows are the last snapshot; members have their peer; retention honoured; aggregate counter monotone; a rate spans one interval |

The other runs show where the program differs from what its documents, comments
or tests say (`PROJECT.json`, `findings`, has the quotations):

- `cadence_start`: with a base interval other than one second, the workers keep
  their built-in second although the agent believes the base is applied.
- `cadence_zero`: `idle.timeout_secs=0` does not disable pausing; the schedule's
  last window still pauses.
- `hints_overrides`: a runtime hint, once gone, leaves the preset in place of the
  configured `cache_refresh_ms` and `netns_refresh_ms`.
- `hints_off`: a runtime off still refreshes the socket cache every second.
- `deep_stale`: a late refinement can put one process's container on a row a newer
  snapshot gave to another process.
- `deep_ownerless`: a flow without an owner is queued again after it has aged out.
- `flows_sum`: a member that lapses while its peer stays, and comes back, is
  counted twice.

### Bounds

- `cadence`, `hints`: three clients over a table of two is the smallest instance
  with a refusal, a free place and an eviction to be wrong about. TTL, windows and
  timer period keep the order of the configured ones, with a TTL that ends between
  two ticks; `MaxLag` lets a tick come late. Ages saturate where no comparison
  tells them apart (`ElapsedCap`, `AgeCap`). `InboxBound` is the number of posted
  intervals a worker may be behind; a handler that would post more waits. Requests
  are a clear, one below the floor, one slower than the base and one that the cast
  makes negative.
- `deep_*`: two flows, two processes of which one is in a container, duplicate
  keys. Dumps of three reach the same states as dumps of two at a cap of two.
  `deep_live` puts snapshot and queue at a cap of one, so that flows are cut and
  requests displaced.
- `flows`: two UDP flows to one peer, one whose direction may be unknown, so that
  it is a row of its own, then a member, then a row again. `MaxBytes` and
  `MaxAggregate` bound the counters and are the only cut. A TCP flow behaves as a
  UDP row outside aggregation with the other retention.

### Fairness

Weak fairness of timers, of the passing of time, of a worker thread taking its next
posted call, and of the snapshot that refreshes the socket cache while polling
goes on: an event loop that runs gives all of these. Nothing is assumed of
clients, of the kernel or of the order of events. `RequestsAgeOut` further assumes
a batch that takes in the whole queue: a batch is the loudest requests, so with
smaller batches a quiet one can be passed over while louder ones are renewed.

Deadlock is checked in every run. In each of them time, the environment or a
client can always move, so this says nothing of the queues; `WorkIsScheduled`,
`AllPollingStops` and `RequestsAgeOut` do.

## 4. What is proved

For every set of clients, flows and processes, every cap, interval, TTL, preset
and override allowed by `CadenceAssumption`, `HintsAssumption`, `DeepAssumption`
(finite sets, positive caps and periods):

| Module | Theorems |
|---|---|
| `AgentCadenceProofs` | `TypeCorrect`, `HintTableStaysBounded`, `PausesOnlyWhenIdle`, `SpeedNeedsLiveHint`, `DepartedLeaveNoHint`, `ActivityRestores`, `WorkersFollowCadence`, `HintTableIsLeaseTable` |
| `AttributionHintsProofs` | `TypeCorrect`, `AnnouncedIsCurrent`, `MostEagerHintWins`, `ConfiguredOffHolds`, `TuningFollows`, `HintTableIsLeaseTable` |
| `DeepAttributionProofs` | `TypeCorrect`, `NoLostWakeup`, `MirrorStaysInStep`, `OnlyWeakQueued`, `ReasonFollowsProcess`, `RefinementsNeverOverwrite` |

Each rests on an inductive invariant `IInv` at the top of its module.

- Cadence: that a hint outlives its TTL by less than a late period is not
  inductive. `HintAges` ties a hint's time left to the age of the timer: the
  two fall together, and the tick that resets the timer removes what has lapsed.
  `WorkersFollowCadence` assumes that the base interval is the workers' built-in
  one; `cadence_start` shows that it must.
- Attribution mode: `AnnouncedOrLapsed` says the announced mode can be out of date
  only while a lapsed hint is still in the table; `HintAges` bounds for how long.
- Deferred attribution: the properties are inductive together, with the type of
  the requests.
- Refinement of `ClientLease`: initial states map to initial states, every action
  to the abstract action on the same client, to the passing of time, or to a
  stutter. Pruning several lapsed hints in one tick is one abstract step.

Model-checked only: all liveness (fairness and `ENABLED` are beyond the prover)
and everything about `ConnectionAggregator`. Facts by induction over data, and
about recursive operators, would be beyond the prover too.

## 5. What is not modelled

`PROJECT.json` lists every part with its status, and the hazards of the parts not
yet modelled with a note. Out of reach for good: kernel and D-Bus marshalling,
painting and layout, formatting and export, desktop integration.

Planned, in this order:

1. First-pass attribution: `attributeFlows`, `SockDiagResolver`, the cgroup
   classifier and the composite, with PIDs that are recycled between the look-ups.
   To prove: a published row never mixes two processes when start times agree.
2. Agent and D-Bus client: snapshot, patches and the initial reply in flight,
   heartbeat against hint TTL, agent restart. Composes `AgentCadence` with its
   clients.
3. Rates: interface table and smoothing; attribution patches in the flow table.
4. DNS cache: answers in flight, clear, eviction, negative entries.
5. Monitor and namespace-scanner life cycles: start, failure, stop, demand scans.
6. Hand-off between unprivileged parent and elevated child.
7. Pure algorithms against a reference: LRU cache, top-K selection, configuration
   clamps, filter language, counter units.
8. Group proxy over the flow table's notifications; the BSD backend.
9. Proofs: the flow table's index and monotone counters.

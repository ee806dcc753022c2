-------------------------- MODULE AttributionHints --------------------------
(***************************************************************************)
(* The runtime attribution eagerness: AttributionHintManager, the D-Bus    *)
(* handler and the mode-change handler of ConnectionsService, and what the *)
(* mode tunes: the socket cache of SockDiagResolver, the sweep timer of    *)
(* NetnsScanner (in its own thread) and the deep-pass worker.              *)
(*                                                                         *)
(* Time is kept as ages, as in AgentCadence.                               *)
(***************************************************************************)
EXTENDS Integers, FiniteSets, FiniteSetsExt

CONSTANTS
  Client,          \* unique bus names; a name is never used again
  Unreported,      \* clients whose leaving goes unreported: none, or all when
                   \* attachBus() could not install its NameOwnerChanged match
  MaxHints,        \* kMaxHints
  HintTtl,
  MaxLag,          \* how late a busy event loop may run the prune timer
  CachePreset, NetnsPreset,      \* per mode: refresh intervals of the presets
  CacheOverride, NetnsOverride,  \* cache_refresh_ms, netns_refresh_ms; 0: none
  CacheDefault, CacheFloor,      \* kDefaultCacheTtlMs, kMinCacheTtlMs
  NetnsDefault, NetnsFloor,      \* kRefreshIntervalMs, kMinRefreshIntervalMs
  AgeCap           \* bound: saturation of the cache age, above every TTL

Off == 0
Balanced == 1
Eager == 2
Mode == {Off, Balanced, Eager}
NoMode == -1

ASSUME HintsAssumption ==
  /\ IsFiniteSet(Client)
  /\ Unreported \subseteq Client
  /\ MaxHints \in Nat \ {0}
  /\ HintTtl \in Nat \ {0} /\ MaxLag \in Nat
  /\ CachePreset \in [Mode -> Nat] /\ NetnsPreset \in [Mode -> Nat]
  /\ CacheOverride \in Nat /\ NetnsOverride \in Nat
  /\ CacheDefault \in Nat \ {0} /\ CacheFloor \in Nat \ {0}
  /\ NetnsDefault \in Nat \ {0} /\ NetnsFloor \in Nat \ {0}
  /\ AgeCap \in Nat

VARIABLES
  configMode,    \* m_configMode
  hints,         \* m_hints: per client [mode, left]; mode = NoMode when none
  tick,          \* time until m_pruneTimer is due; negative when overdue
  lastEmitted,   \* m_lastEmitted
  connected,     \* clients still on the bus
  cacheTtl,      \* SockDiagResolver: cacheTtlMs
  cacheAge,      \* SockDiagResolver: time since the last refresh
  netnsRefresh,  \* NetnsScanner: m_refreshIntervalMs, set by the main thread
  netnsTimer,    \* NetnsScanner: interval of the worker's timer
  deepActive     \* ResolverDeepWorker: m_active

table == <<hints, tick, lastEmitted, connected>>
tuning == <<cacheTtl, netnsRefresh, deepActive>>
vars == <<configMode, table, tuning, cacheAge, netnsTimer>>

-----------------------------------------------------------------------------
NoHint == [mode |-> NoMode, left |-> 0]

HasHint(c) == hints[c].mode # NoMode

\* qMax(1, m_hintTtlMs / 2)
PrunePeriod == IF HintTtl \div 2 > 1 THEN HintTtl \div 2 ELSE 1

\* The modes effectiveMode() looks at: those of hints not yet expired.
LiveModes(hs) ==
  {hs[c].mode : c \in {d \in Client : hs[d].mode # NoMode /\ hs[d].left > 0}}

EffectiveModeLeastEager(hs) ==
  IF configMode = Off THEN Off
  ELSE IF LiveModes(hs) # {} THEN Min(LiveModes(hs)) ELSE configMode
EffectiveModeHintsFirst(hs) ==
  IF LiveModes(hs) # {} THEN Max(LiveModes(hs)) ELSE configMode
EffectiveMode(hs) ==
  IF configMode = Off THEN Off
  ELSE IF LiveModes(hs) # {} THEN Max(LiveModes(hs)) ELSE configMode

Prune(hs) == [c \in Client |-> IF hs[c].left > 0 THEN hs[c] ELSE NoHint]

\* resolverTuningFor(): a preset, and the overrides unless the mode is off.
CacheFor(mode, override) ==
  IF mode # Off /\ override > 0 THEN override ELSE CachePreset[mode]
NetnsFor(mode, override) ==
  IF mode # Off /\ override > 0 THEN override ELSE NetnsPreset[mode]

\* safeCacheTtlMs(), safeRefreshIntervalMs()
SafeNoDefault(raw, default, floor) == raw
Safe(raw, default, floor) ==
  IF raw <= 0 THEN default ELSE IF raw >= floor THEN raw ELSE floor
SafeCache(raw) == Safe(raw, CacheDefault, CacheFloor)
SafeNetns(raw) == Safe(raw, NetnsDefault, NetnsFloor)

\* With eagerness=off in the configuration the resolver is a NullResolver, which
\* ignores tuning, and no deep worker is created.
HasResolver == configMode # Off

-----------------------------------------------------------------------------
\* main() and Application::start(): the resolver is built with the configured
\* overrides.
Init ==
  /\ configMode \in Mode
  /\ hints = [c \in Client |-> NoHint]
  /\ tick = PrunePeriod
  /\ lastEmitted = configMode
  /\ connected = Client
  /\ cacheTtl = SafeCache(CacheFor(configMode, CacheOverride))
  /\ cacheAge = AgeCap
  /\ netnsRefresh = SafeNetns(NetnsFor(configMode, NetnsOverride))
  /\ netnsTimer = netnsRefresh
  /\ deepActive = HasResolver

\* onEffectiveEagernessChanged(): re-tunes the resolvers and the deep worker.
OnEffectiveEagernessChangedKeepsWorker(mode) ==
  /\ cacheTtl' = IF HasResolver THEN SafeCache(CacheFor(mode, 0)) ELSE cacheTtl
  /\ netnsRefresh' =
       IF HasResolver THEN SafeNetns(NetnsFor(mode, 0)) ELSE netnsRefresh
  /\ UNCHANGED deepActive
OnEffectiveEagernessChanged(mode) ==
  /\ cacheTtl' = IF HasResolver THEN SafeCache(CacheFor(mode, 0)) ELSE cacheTtl
  /\ netnsRefresh' =
       IF HasResolver THEN SafeNetns(NetnsFor(mode, 0)) ELSE netnsRefresh
  /\ deepActive' = (HasResolver /\ mode # Off)

\* evaluate() on the table hs: prune, and announce a transition.
Evaluate(hs) ==
  LET kept == Prune(hs)
      mode == EffectiveMode(kept)
  IN  /\ hints' = kept
      /\ lastEmitted' = mode
      /\ \/ mode # lastEmitted /\ OnEffectiveEagernessChanged(mode)
         \/ mode = lastEmitted /\ UNCHANGED tuning

-----------------------------------------------------------------------------
\* SetDesiredAttributionEagerness, by the way it goes: `default` clears the
\* caller's hint, a mode stores one unless the table is full, and anything else
\* is ignored.  (The noteActivity() after an accepted hint is AgentCadence's.)
ClearHint(c) ==
  \/ HasHint(c) /\ Evaluate([hints EXCEPT ![c] = NoHint])
  \/ ~HasHint(c) /\ UNCHANGED <<hints, lastEmitted, tuning>>

TableFull == Cardinality({c \in Client : HasHint(c)}) >= MaxHints

SetHintEvicts(c, mode) ==
  LET room == IF HasHint(c) \/ ~TableFull THEN hints
              ELSE [hints EXCEPT ![CHOOSE d \in Client : HasHint(d)] = NoHint]
  IN  Evaluate([room EXCEPT ![c] = [mode |-> mode, left |-> HintTtl]])
SetHint(c, mode) ==
  \/ /\ HasHint(c) \/ ~TableFull
     /\ Evaluate([hints EXCEPT ![c] = [mode |-> mode, left |-> HintTtl]])
  \/ /\ ~HasHint(c) /\ TableFull
     /\ UNCHANGED <<hints, lastEmitted, tuning>>

SetDesiredAttributionEagerness(c) ==
  /\ c \in connected
  /\ \/ ClearHint(c)
     \/ \E mode \in Mode : SetHint(c, mode)
     \/ UNCHANGED <<hints, lastEmitted, tuning>>
  /\ UNCHANGED <<configMode, tick, connected, cacheAge, netnsTimer>>

\* A client leaves the bus; with a match installed the manager is told.
NameOwnerChangedKeepsMode(c) ==
  /\ c \in connected
  /\ connected' = connected \ {c}
  /\ hints' = IF c \notin Unreported THEN [hints EXCEPT ![c] = NoHint] ELSE hints
  /\ UNCHANGED <<configMode, tick, lastEmitted, tuning, cacheAge, netnsTimer>>
NameOwnerChanged(c) ==
  /\ c \in connected
  /\ connected' = connected \ {c}
  /\ \/ c \notin Unreported /\ HasHint(c) /\ Evaluate([hints EXCEPT ![c] = NoHint])
     \/ ~(c \notin Unreported /\ HasHint(c)) /\ UNCHANGED <<hints, lastEmitted, tuning>>
  /\ UNCHANGED <<configMode, tick, cacheAge, netnsTimer>>

\* m_pruneTimer
PruneTimerSilent ==
  /\ tick <= 0
  /\ tick' = PrunePeriod
  /\ hints' = Prune(hints)
  /\ UNCHANGED <<configMode, lastEmitted, connected, tuning, cacheAge, netnsTimer>>
PruneTimer ==
  /\ tick <= 0
  /\ tick' = PrunePeriod
  /\ Evaluate(hints)
  /\ UNCHANGED <<configMode, connected, cacheAge, netnsTimer>>

\* A unit of time passes.
TimePasses ==
  /\ tick > -MaxLag
  /\ tick' = tick - 1
  /\ hints' = [c \in Client |->
                 IF HasHint(c) THEN [hints[c] EXCEPT !.left = @ - 1] ELSE NoHint]
  /\ cacheAge' = IF cacheAge < AgeCap THEN cacheAge + 1 ELSE cacheAge
  /\ UNCHANGED <<configMode, lastEmitted, connected, tuning, netnsTimer>>

\* A snapshot attributes its flows: maybeRefresh() walks sockets and /proc when
\* the cache is older than its TTL.
MaybeRefresh ==
  /\ HasResolver /\ cacheAge >= cacheTtl
  /\ cacheAge' = 0
  /\ UNCHANGED <<configMode, table, tuning, netnsTimer>>

\* NetnsScannerWorker::tick() picks up the published cadence.
NetnsTick ==
  /\ HasResolver
  /\ netnsTimer' = netnsRefresh
  /\ UNCHANGED <<configMode, table, tuning, cacheAge>>

Next ==
  \/ \E c \in Client : SetDesiredAttributionEagerness(c) \/ NameOwnerChanged(c)
  \/ PruneTimer
  \/ TimePasses
  \/ MaybeRefresh
  \/ NetnsTick

Spec == Init /\ [][Next]_vars

\* Time passes, timers fire, snapshots arrive; what clients do is up to them.
FairSpec ==
  /\ Spec
  /\ WF_vars(PruneTimer) /\ WF_vars(TimePasses)
  /\ WF_vars(MaybeRefresh) /\ WF_vars(NetnsTick)

-----------------------------------------------------------------------------
\* Types; and no mode, preset or override takes a refresh interval below the
\* floor or the default of safeCacheTtlMs() and safeRefreshIntervalMs().
TypeOK ==
  /\ configMode \in Mode
  /\ hints \in [Client -> [mode : Mode \cup {NoMode}, left : Int]]
  /\ tick \in -MaxLag..PrunePeriod
  /\ lastEmitted \in Mode
  /\ connected \subseteq Client
  /\ cacheTtl \in Nat \ {0} /\ (cacheTtl >= CacheFloor \/ cacheTtl = CacheDefault)
  /\ cacheAge \in 0..AgeCap
  /\ netnsRefresh \in Nat \ {0} /\ netnsTimer \in Nat \ {0}
  /\ netnsRefresh >= NetnsFloor \/ netnsRefresh = NetnsDefault
  /\ deepActive \in BOOLEAN

\* The grace a lapsed hint may have before the (late) prune timer removes it.
Grace == PrunePeriod + MaxLag

\* The announced mode is the one effectiveMode() would return now, except while
\* a hint has lapsed so recently that the prune timer has yet to notice.
AnnouncedModeCurrent ==
  lastEmitted # EffectiveMode(hints)
    => \E c \in Client : /\ HasHint(c)
                         /\ hints[c].left <= 0 /\ hints[c].left > -Grace

\* "Most eager wins": no client, by its own hint or by leaving, brings the
\* announced mode below another client's unexpired hint.
MostEagerWins ==
  configMode # Off
    => \A c \in Client :
         HasHint(c) /\ hints[c].left > 0 => lastEmitted >= hints[c].mode

\* A configured `off` is a kill switch: no hint turns attribution on.
KillSwitch == configMode = Off => lastEmitted = Off /\ ~deepActive

\* The resolvers and the deep worker run at the cadence of the announced mode,
\* or at the configured one they were built with, and the deep worker runs
\* exactly when the announced mode is not off.
TunedForMode ==
  HasResolver =>
    /\ deepActive <=> lastEmitted # Off
    /\ \/ /\ cacheTtl = SafeCache(CacheFor(lastEmitted, 0))
          /\ netnsRefresh = SafeNetns(NetnsFor(lastEmitted, 0))
       \/ /\ lastEmitted = configMode
          /\ cacheTtl = SafeCache(CacheFor(configMode, CacheOverride))
          /\ netnsRefresh = SafeNetns(NetnsFor(configMode, NetnsOverride))

Leases ==
  INSTANCE ClientLease WITH
    Cap <- MaxHints, Ttl <- HintTtl,
    held <- {c \in Client : HasHint(c)},
    left <- [c \in Client |-> hints[c].left],
    present <- connected

\* The hint table is a lease table: setHint rejects and never evicts, a hint is
\* good for its TTL unless its owner clears it or leaves, at most kMaxHints are
\* held, and the half-TTL prune timer removes a lapsed one within Grace.
LeaseTable == Leases!Spec

\* Once every client has left, the announced mode, the deep worker and the netns
\* sweep are back where the configured mode has them, for good.
SettlesAtConfig ==
  (connected = {}) ~>
    [](/\ lastEmitted = configMode /\ deepActive = HasResolver
       /\ HasResolver => netnsTimer = netnsRefresh)

\* agent.conf on cache_refresh_ms and netns_refresh_ms: only 0 means "use the
\* selected eagerness preset"; a set override holds in the configured mode.
OverridesHold ==
  HasResolver /\ lastEmitted = configMode =>
    /\ CacheOverride > 0 => cacheTtl = SafeCache(CacheOverride)
    /\ NetnsOverride > 0 => netnsRefresh = SafeNetns(NetnsOverride)

\* ConnectionsService::onEffectiveEagernessChanged: runtime off is "stop
\* refreshing".
OffStopsRefreshing == [][lastEmitted = Off => cacheAge' >= cacheAge]_vars
=============================================================================

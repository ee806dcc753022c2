---------------------------- MODULE AgentCadence ----------------------------
(***************************************************************************)
(* The agent's adaptive polling cadence: qiftop::agent::IdleManager, the   *)
(* D-Bus handlers of InterfacesService and ConnectionsService that feed    *)
(* it, and the poll timers of the monitor threads it drives.               *)
(*                                                                         *)
(* The main thread runs every handler to completion.  Each monitor has a   *)
(* worker thread: setPollIntervalMs is posted to its event queue and takes *)
(* effect when the worker gets to it.  Time is kept as ages, so that the   *)
(* model needs no horizon: elapsed is m_since.elapsed(), saturated above   *)
(* every window, and a hint carries the time it has left.                  *)
(***************************************************************************)
EXTENDS Integers, FiniteSets, FiniteSetsExt, Sequences

CONSTANTS
  Client,          \* unique bus names; a name is never used again
  Monitor,         \* m_net and m_conn
  Fallible,        \* monitors whose worker start() can fail (netlink)
  Unreported,      \* clients whose leaving goes unreported: none, or all when
                   \* attachBus() could not install its NameOwnerChanged match
  Request,         \* interval arguments clients send (D-Bus uint)
  UIntMod,         \* 2^w of the uint argument that is cast to int
  MaxHints,        \* kMaxHints
  ActiveInterval, Slow1Interval, Slow2Interval, MinInterval,
  ActiveWindow, Slow1Window, Slow2Window, IdleTimeout,
  HintTtl,
  TickPeriod,      \* period of the evaluation timer (1000 ms)
  MaxLag,          \* how late a busy event loop may run that timer
  DefaultPoll,     \* interval a worker's start() hard-codes (1000 ms)
  ElapsedCap,      \* bound: saturation of elapsed, above every window
  InboxBound       \* bound: interval changes pending for one worker

ASSUME CadenceAssumption ==
  /\ Fallible \subseteq Monitor
  /\ IsFiniteSet(Client)
  /\ Unreported \subseteq Client
  /\ UIntMod \in Nat /\ Request \subseteq Nat
  /\ MaxHints \in Nat \ {0}
  /\ ActiveInterval \in Nat \ {0} /\ MinInterval \in Nat \ {0}
  /\ Slow1Interval \in Nat \ {0} /\ Slow2Interval \in Nat \ {0}
  /\ ActiveWindow \in Nat /\ Slow1Window \in Nat
  /\ Slow2Window \in Nat /\ IdleTimeout \in Nat
  /\ HintTtl \in Nat /\ TickPeriod \in Nat \ {0} /\ MaxLag \in Nat
  /\ DefaultPoll \in Nat \ {0}
  /\ ElapsedCap \in Nat /\ InboxBound \in Nat
  /\ \A w \in {ActiveWindow, Slow1Window, Slow2Window, IdleTimeout} :
       w <= ElapsedCap

VARIABLES
  hints,      \* m_hints: per client [ms, left]; ms = 0 when it has none
  elapsed,    \* m_since.elapsed()
  tick,       \* time until m_timer is due; negative when overdue
  currentMs,  \* m_currentMs
  connected,  \* clients still on the bus
  thread,     \* per monitor: "idle", "starting", "up" or "failed"
  timer,      \* per monitor: interval of its poll timer, 0 when stopped
  inbox       \* per monitor: intervals posted and not yet applied

vars == <<hints, elapsed, tick, currentMs, connected, thread, timer, inbox>>

main == <<hints, elapsed, tick, currentMs, connected>>
workers == <<thread, timer, inbox>>

-----------------------------------------------------------------------------
None == [ms |-> 0, left |-> 0]

HasHint(c) == hints[c].ms > 0

\* qMax
AtLeastSwapped(x, floor) == IF x < floor THEN x ELSE floor
AtLeast(x, floor) == IF x < floor THEN floor ELSE x

\* static_cast<int>(uint)
AsInt(u) == IF u < UIntMod \div 2 THEN u ELSE u - UIntMod

\* The erasure effectiveActiveIntervalMs() performs while it scans the table.
PruneKeepsExpired(hs) == hs
Prune(hs) == [c \in Client |-> IF hs[c].left > 0 THEN hs[c] ELSE None]

HintedIntervals(hs) == {hs[c].ms : c \in {d \in Client : hs[d].ms > 0}}

\* The value effectiveActiveIntervalMs() returns for a pruned table.
EffectiveActive(hs) ==
  AtLeast(Min({ActiveInterval} \cup HintedIntervals(hs)), MinInterval)

Reached(window, e) == window > 0 /\ e >= window

PauseReached(e) == Reached(IdleTimeout, e) \/ Reached(Slow2Window, e)

\* The target evaluate() computes from the pruned table and the elapsed time.
TargetNeverPauses(hs, e) ==
  LET active == EffectiveActive(hs)
  IN  IF Reached(Slow1Window, e) THEN AtLeast(active, Slow2Interval)
      ELSE IF Reached(ActiveWindow, e) THEN AtLeast(active, Slow1Interval)
      ELSE active
Target(hs, e) ==
  LET active == EffectiveActive(hs)
  IN  IF PauseReached(e) THEN 0
      ELSE IF Reached(Slow1Window, e) THEN AtLeast(active, Slow2Interval)
      ELSE IF Reached(ActiveWindow, e) THEN AtLeast(active, Slow1Interval)
      ELSE active

\* The applyInterval() calls made on the way from interval cur to interval to.
Applied(cur, to) == IF to = cur THEN <<>> ELSE <<to>>

\* Monitor::setPollIntervalMs: posted to the worker if its thread is running.
PushLosesSecond(s) ==
  /\ \A m \in Monitor : Len(inbox[m]) + Len(s) <= InboxBound
  /\ inbox' = [m \in Monitor |->
                 IF thread[m] = "idle" \/ s = <<>> THEN inbox[m]
                 ELSE Append(inbox[m], Head(s))]
  /\ UNCHANGED <<thread, timer>>
Push(s) ==
  /\ \A m \in Monitor : Len(inbox[m]) + Len(s) <= InboxBound
  /\ inbox' = [m \in Monitor |->
                 IF thread[m] = "idle" THEN inbox[m] ELSE inbox[m] \o s]
  /\ UNCHANGED <<thread, timer>>

Started == currentMs # -1

-----------------------------------------------------------------------------
\* The members the IdleManager constructor and the monitors start from.
Init ==
  /\ hints = [c \in Client |-> None]
  /\ elapsed = 0
  /\ tick = TickPeriod
  /\ currentMs = -1
  /\ connected = Client
  /\ thread = [m \in Monitor |-> "idle"]
  /\ timer = [m \in Monitor |-> 0]
  /\ inbox = [m \in Monitor |-> <<>>]

\* Application::start(): the IdleManager constructor applies the active
\* interval while no monitor thread runs, so it reaches no worker; then both
\* monitors start, and noteActivity() finds m_currentMs already equal.
AppStart ==
  /\ ~Started
  /\ currentMs' = EffectiveActive(hints)
  /\ thread' = [m \in Monitor |-> "starting"]
  /\ UNCHANGED <<hints, elapsed, tick, connected, timer, inbox>>

\* evaluate() on the table hs.
Evaluate(hs) ==
  LET kept == Prune(hs)
      to   == Target(kept, elapsed)
  IN  /\ hints' = kept
      /\ currentMs' = to
      /\ Push(Applied(currentMs, to))

\* noteActivity(): GetInterfaces, GetConnections, GetProcessDetails.
NoteActivityLeavesItToTimer ==
  /\ elapsed' = 0
  /\ UNCHANGED <<hints, currentMs, thread, timer, inbox>>
NoteActivity ==
  LET kept == Prune(hints)
      to   == EffectiveActive(kept)
  IN  /\ hints' = kept
      /\ elapsed' = 0
      /\ currentMs' = to
      /\ Push(Applied(currentMs, to))

\* A table change inside an accepted SetDesiredIntervalMs: evaluate() and then
\* noteActivity(), each of which may apply an interval.
EvaluateThenNoteActivity(hs) ==
  LET kept == Prune(hs)
      mid  == Target(kept, elapsed)
      to   == EffectiveActive(kept)
  IN  /\ hints' = kept
      /\ elapsed' = 0
      /\ currentMs' = to
      /\ Push(Applied(currentMs, mid) \o Applied(mid, to))

\* A read-only method call.
Call(c) ==
  /\ Started /\ c \in connected
  /\ NoteActivity
  /\ UNCHANGED <<tick, connected>>

\* SetDesiredIntervalMs, by the way setClientHint() goes.
ClearHint(c, u) ==
  /\ AsInt(u) <= 0
  /\ \/ /\ HasHint(c)
        /\ EvaluateThenNoteActivity([hints EXCEPT ![c] = None])
     \/ /\ ~HasHint(c)
        /\ NoteActivity

TableFullOffByOne == Cardinality({c \in Client : HasHint(c)}) > MaxHints
TableFull == Cardinality({c \in Client : HasHint(c)}) >= MaxHints

RefuseHint(c, u) ==
  /\ AsInt(u) > 0
  /\ ~HasHint(c) /\ TableFull
  /\ UNCHANGED vars

StoreHintEvicts(c, u) ==
  /\ AsInt(u) > 0
  /\ LET room == IF HasHint(c) \/ ~TableFull THEN hints
                 ELSE [hints EXCEPT ![CHOOSE d \in Client : HasHint(d)] = None]
     IN  EvaluateThenNoteActivity(
           [room EXCEPT ![c] = [ms |-> AtLeast(AsInt(u), MinInterval),
                                left |-> HintTtl]])
StoreHint(c, u) ==
  /\ AsInt(u) > 0
  /\ HasHint(c) \/ ~TableFull
  /\ EvaluateThenNoteActivity(
       [hints EXCEPT ![c] = [ms |-> AtLeast(AsInt(u), MinInterval),
                             left |-> HintTtl]])

SetDesiredIntervalMs(c, u) ==
  /\ Started /\ c \in connected
  /\ ClearHint(c, u) \/ RefuseHint(c, u) \/ StoreHint(c, u)
  /\ UNCHANGED <<tick, connected>>

\* A client leaves the bus; with a match installed the agent is told.
NameOwnerChangedIgnored(c) ==
  /\ Started /\ c \in connected
  /\ connected' = connected \ {c}
  /\ UNCHANGED <<hints, currentMs, thread, timer, inbox, elapsed, tick>>
NameOwnerChanged(c) ==
  /\ Started /\ c \in connected
  /\ connected' = connected \ {c}
  /\ \/ /\ c \notin Unreported /\ HasHint(c)
        /\ Evaluate([hints EXCEPT ![c] = None])
     \/ /\ ~(c \notin Unreported /\ HasHint(c))
        /\ UNCHANGED <<hints, currentMs, thread, timer, inbox>>
  /\ UNCHANGED <<elapsed, tick>>

\* The one-second timer.
TimerTick ==
  /\ Started /\ tick <= 0
  /\ tick' = TickPeriod
  /\ Evaluate(hints)
  /\ UNCHANGED <<elapsed, connected>>

\* A unit of time passes.
TimePasses ==
  /\ Started /\ tick > -MaxLag
  /\ tick' = tick - 1
  /\ elapsed' = IF elapsed < ElapsedCap THEN elapsed + 1 ELSE elapsed
  /\ hints' = [c \in Client |->
                 IF HasHint(c) THEN [hints[c] EXCEPT !.left = @ - 1] ELSE None]
  /\ UNCHANGED <<currentMs, connected, thread, timer, inbox>>

-----------------------------------------------------------------------------
\* QThread::started -> Worker::start(): the timer starts at a fixed interval.
WorkerStart(m) ==
  /\ thread[m] = "starting"
  /\ \/ /\ thread' = [thread EXCEPT ![m] = "up"]
        /\ timer' = [timer EXCEPT ![m] = DefaultPoll]
     \/ /\ m \in Fallible
        /\ thread' = [thread EXCEPT ![m] = "failed"]
        /\ UNCHANGED timer
  /\ UNCHANGED <<main, inbox>>

\* Worker::setPollIntervalMs; without a timer the call does nothing.
WorkerSetPollIntervalMs(m) ==
  /\ thread[m] \in {"up", "failed"} /\ inbox[m] # <<>>
  /\ timer' = IF thread[m] = "up"
              THEN [timer EXCEPT ![m] = Head(inbox[m])] ELSE timer
  /\ inbox' = [inbox EXCEPT ![m] = Tail(@)]
  /\ UNCHANGED <<main, thread>>

Next ==
  \/ AppStart
  \/ \E c \in Client : Call(c)
  \/ \E c \in Client, u \in Request : SetDesiredIntervalMs(c, u)
  \/ \E c \in Client : NameOwnerChanged(c)
  \/ TimerTick
  \/ TimePasses
  \/ \E m \in Monitor : WorkerStart(m) \/ WorkerSetPollIntervalMs(m)

Spec == Init /\ [][Next]_vars

\* Time passes, event loops run; what clients do is up to them.
FairSpec ==
  /\ Spec
  /\ WF_vars(AppStart) /\ WF_vars(TimerTick) /\ WF_vars(TimePasses)
  /\ \A m \in Monitor :
       WF_vars(WorkerStart(m)) /\ WF_vars(WorkerSetPollIntervalMs(m))

-----------------------------------------------------------------------------
Hint == [ms : Nat, left : Int]

\* Types; a running agent's interval is zero (paused) or at least the floor
\* poll.min_interval_ms, whatever clients ask for.
TypeOK ==
  /\ hints \in [Client -> Hint]
  /\ elapsed \in 0..ElapsedCap
  /\ tick \in -MaxLag..TickPeriod
  /\ currentMs \in {-1, 0} \cup {n \in Nat : n >= MinInterval}
  /\ connected \subseteq Client
  /\ thread \in [Monitor -> {"idle", "starting", "up", "failed"}]
  /\ timer \in [Monitor -> Nat]
  /\ inbox \in [Monitor -> Seq(Nat)]

\* setClientHint's cap: however clients come, go and expire, the table never
\* holds more than kMaxHints hints.
HintTableBounded == Cardinality({c \in Client : HasHint(c)}) <= MaxHints

\* IdleManager::evaluate pauses polling only when no accepted call arrived for
\* the idle timeout or the third schedule window: no order of calls, hint
\* changes, disconnects and late timer ticks pauses an agent in recent use.
PausedOnlyWhenIdle == currentMs = 0 => PauseReached(elapsed)

\* "Hints expire after Config::hintTtlMs unless re-asserted": polling is faster
\* than the configured base only while a hint at least that fast is in the
\* table, and a hint outlives its TTL by less than one (late) timer period.
FasterOnlyWhileHinted ==
  (0 < currentMs /\ currentMs < ActiveInterval)
    => \E c \in Client : /\ HasHint(c) /\ hints[c].ms <= currentMs
                         /\ hints[c].left > -(TickPeriod + MaxLag)

\* onNameOwnerChanged drops a departed client's hint at once; when the match
\* could not be installed, the TTL and the timer still bound its life.
GoneClientsForgotten ==
  \A c \in Client \ connected :
    HasHint(c) => c \in Unreported /\ hints[c].left > -(TickPeriod + MaxLag)

\* What a running worker will poll at once its queue has drained.
Eventual(m) ==
  IF inbox[m] # <<>> THEN inbox[m][Len(inbox[m])]
  ELSE IF thread[m] = "starting" THEN DefaultPoll ELSE timer[m]

\* Every running worker is heading for the interval the main thread believes it
\* applied (m_currentMs), whatever changes are still queued.  Holds when the
\* active interval is the one the workers hard-code.
PollFollowsCadence ==
  \A m \in Monitor :
    thread[m] \in {"starting", "up"} => Eventual(m) = currentMs

\* "Any incoming method call resets the timer and immediately restores the
\* active interval": a step that restarts m_since leaves the cadence at the
\* minimum of the base interval and the hints left in the table.
ActivityRestoresActive ==
  [][elapsed' = 0 /\ elapsed > 0
       => /\ currentMs' = EffectiveActive(hints')
          /\ currentMs' <= AtLeast(ActiveInterval, MinInterval)]_vars

Leases ==
  INSTANCE ClientLease WITH
    Cap <- MaxHints, Ttl <- HintTtl, Grace <- TickPeriod + MaxLag,
    held <- {c \in Client : HasHint(c)},
    left <- [c \in Client |-> hints[c].left],
    present <- connected

\* The hint table is a lease table: setClientHint refuses a newcomer rather than
\* evict anyone, so a hint is good for its TTL unless its owner clears it or
\* leaves, and the timer, however late, removes a lapsed one within its grace.
LeaseTable == Leases!Spec

\* Once every client has left the bus, polling stops for good in every worker.
AllPollingStops ==
  (Started /\ connected = {}) ~> [](\A m \in Monitor : timer[m] = 0)

\* "ensure we start at the active interval" (Application::start): a worker that
\* has started and has nothing queued polls at the agent's current interval.
StartsAtActiveInterval ==
  \A m \in Monitor :
    thread[m] = "up" /\ inbox[m] = <<>> /\ currentMs = ActiveInterval
      => timer[m] = ActiveInterval

\* agent.conf on idle.timeout_secs: "0 disables pausing".
ZeroTimeoutNeverPauses == IdleTimeout = 0 => currentMs # 0
=============================================================================

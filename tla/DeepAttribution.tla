-------------------------- MODULE DeepAttribution ---------------------------
(***************************************************************************)
(* The connection snapshots the agent publishes and the deferred pass that *)
(* fills in what the first attribution missed: onConnectionsUpdated and    *)
(* onDeepRefined of ConnectionsService, ResolverDeepWorker and its         *)
(* DeepAttributionQueue.  All run on the agent's main thread; they         *)
(* interleave with each other and with the kernel, where the owner of a    *)
(* flow's socket appears, goes and changes.                                *)
(***************************************************************************)
EXTENDS Naturals, FiniteSets, Sequences

CONSTANTS
  Flow,            \* attribution keys (protocol, end points, interface, direction)
  Proc, NoProc,    \* processes, told apart by (pid, start time)
  Cont, NoCont,    \* containers
  ContainerOf,     \* the container a process runs in
  Loud,            \* total byte counts
  MaxInput,        \* bound: flows in one conntrack dump
  MaxConnections,  \* kMaxConnections
  QueueMax, MaxAttempts,       \* deepQueueMax, deepMaxAttempts
  BatchSizes                   \* deepBatchMax of the presets

ASSUME DeepAssumption ==
  /\ IsFiniteSet(Flow) /\ IsFiniteSet(Proc) /\ NoProc \notin Proc
  /\ NoCont \notin Cont /\ ContainerOf \in [Proc -> Cont \cup {NoCont}]
  /\ Loud \subseteq Nat
  /\ MaxInput \in Nat /\ MaxConnections \in Nat \ {0}
  /\ QueueMax \in Nat \ {0} /\ MaxAttempts \in Nat \ {0}
  /\ BatchSizes \subseteq Nat \ {0}

VARIABLES
  owner,      \* per flow, what the resolver's caches say now
  rows,       \* m_lastConns, with m_keyIndex derived from it
  last,       \* m_last, the rows GetConnections returns
  queue,      \* m_byKey: the queued flows
  request,    \* per queued flow: attempts, bytes and whether it is of the
              \* current generation
  active,     \* m_active
  timerOn,    \* m_timer->isActive()
  batchMax    \* m_batchMax

vars == <<owner, rows, last, queue, request, active, timerOn, batchMax>>

-----------------------------------------------------------------------------
Container(p) == IF p = NoProc THEN NoCont ELSE ContainerOf[p]

\* attributionReason(), as far as the deferred pass looks at it.
Reason(p, forwarded) ==
  IF p # NoProc THEN "resolved" ELSE IF forwarded THEN "forwarded" ELSE "unowned"

\* A row as the first pass leaves it: attributeFlows() and attributionReason().
Row(conn, fwd) ==
  [key |-> conn.key, bytes |-> conn.bytes,
   proc |-> owner[conn.key], cont |-> Container(owner[conn.key]),
   reason |-> Reason(owner[conn.key], conn.key \in fwd)]

\* The row m_keyIndex has for a flow: of duplicates the last.
HasRow(k) == \E i \in DOMAIN rows : rows[i].key = k
Index(k) ==
  CHOOSE i \in DOMAIN rows :
    rows[i].key = k /\ \A j \in DOMAIN rows : rows[j].key = k => j <= i

\* The n loudest members of S, ties in any order (partial_sort).
LoudestUncapped(S, n, bytes) == {S}
Loudest(S, n, bytes) ==
  {T \in SUBSET S : /\ Cardinality(T) = (IF Cardinality(S) < n THEN Cardinality(S) ELSE n)
                    /\ \A x \in T, y \in S \ T : bytes[x] >= bytes[y]}

\* The snapshots onConnectionsUpdated may keep of a dump: all of it, or its
\* MaxConnections loudest flows, loudest first.
Kept(conns) ==
  IF Len(conns) <= MaxConnections THEN {conns}
  ELSE {s \in [1..MaxConnections -> {conns[i] : i \in DOMAIN conns}] :
          \E f \in [1..MaxConnections -> DOMAIN conns] :
            /\ \A i, j \in 1..MaxConnections : i # j => f[i] # f[j]
            /\ \A i \in 1..MaxConnections : s[i] = conns[f[i]]
            /\ \A i, j \in 1..MaxConnections : i < j => s[i].bytes >= s[j].bytes
            /\ \A d \in DOMAIN conns : (\A i \in 1..MaxConnections : f[i] # d)
                 => s[MaxConnections].bytes >= conns[d].bytes}

Conn == [key : Flow, bytes : Loud]
Dumps == UNION {[1..n -> Conn] : n \in 0..MaxInput}

-----------------------------------------------------------------------------
NoRequest == [attempts |-> 0, bytes |-> 0, fresh |-> FALSE]

Init ==
  /\ owner \in [Flow -> Proc \cup {NoProc}]
  /\ rows = <<>> /\ last = <<>>
  /\ queue = {} /\ request = [k \in Flow |-> NoRequest]
  /\ active = TRUE /\ timerOn = FALSE
  /\ batchMax \in BatchSizes

\* The flows of a snapshot worth a deferred pass.
Weak(snapshot) ==
  {snapshot[i].key : i \in {j \in DOMAIN snapshot : /\ snapshot[j].proc = NoProc
                                                    /\ snapshot[j].reason # "forwarded"}}

\* The bytes of the last weak row of a flow.
WeakBytes(snapshot, k) ==
  LET weak == {j \in DOMAIN snapshot : snapshot[j].key = k /\ snapshot[j].proc = NoProc}
  IN  snapshot[CHOOSE i \in weak : \A j \in weak : j <= i].bytes

\* DeepAttributionQueue::enqueue for the weak flows of a new generation: the
\* newest observation, but the attempts made so far.
MergedForgetsAttempts(snapshot) ==
  [k \in Flow |->
     IF k \in Weak(snapshot)
     THEN [attempts |-> 0, bytes |-> WeakBytes(snapshot, k), fresh |-> TRUE]
     ELSE [request[k] EXCEPT !.fresh = FALSE]]
MergedSameGeneration(snapshot) ==
  [k \in Flow |->
     IF k \in Weak(snapshot)
     THEN [attempts |-> request[k].attempts,
           bytes |-> WeakBytes(snapshot, k), fresh |-> TRUE]
     ELSE request[k]]
Merged(snapshot) ==
  [k \in Flow |->
     IF k \in Weak(snapshot)
     THEN [attempts |-> request[k].attempts,
           bytes |-> WeakBytes(snapshot, k), fresh |-> TRUE]
     ELSE [request[k] EXCEPT !.fresh = FALSE]]

Only(S, r) == [k \in Flow |-> IF k \in S THEN r[k] ELSE NoRequest]

\* ResolverDeepWorker::enqueue, for a snapshot's weak flows.
EnqueueIgnoresActive(snapshot) ==
  LET merged == Merged(snapshot)
      bytes  == [k \in Flow |-> merged[k].bytes]
  IN  /\ \E q \in Loudest(queue \cup Weak(snapshot), QueueMax, bytes) :
           queue' = q /\ request' = Only(q, merged)
      /\ timerOn' = (timerOn \/ queue' # {})
Enqueue(snapshot) ==
  LET merged == Merged(snapshot)
      bytes  == [k \in Flow |-> merged[k].bytes]
  IN  \/ /\ active /\ Weak(snapshot) # {}
         /\ \E q \in Loudest(queue \cup Weak(snapshot), QueueMax, bytes) :
              queue' = q /\ request' = Only(q, merged)
         /\ timerOn' = (timerOn \/ queue' # {})
      \/ /\ ~(active /\ Weak(snapshot) # {})
         /\ request' = Only(queue, merged)
         /\ UNCHANGED <<queue, timerOn>>

\* onConnectionsUpdated(): a dump arrives; fwd are its flows that are not ours.
OnConnectionsUpdated(conns, fwd) ==
  \E kept \in Kept(conns) :
    LET snapshot == [i \in 1..Len(kept) |-> Row(kept[i], fwd)]
    IN  /\ rows' = snapshot
        /\ last' = snapshot
        /\ Enqueue(snapshot)
        /\ UNCHANGED <<owner, active, batchMax>>

-----------------------------------------------------------------------------
\* onDeepRefined() on the row of a refined flow: toward more information only.
PatchedBlindly(row, p) ==
  [row EXCEPT !.proc = p, !.reason = "resolved", !.cont = Container(p)]
PatchedKeepsReason(row, p) ==
  [row EXCEPT
     !.proc = IF @ = NoProc THEN p ELSE @,
     !.cont = IF @ = NoCont THEN Container(p) ELSE @]
Patched(row, p) ==
  [row EXCEPT
     !.proc   = IF @ = NoProc THEN p ELSE @,
     !.reason = IF row.proc = NoProc THEN "resolved" ELSE @,
     !.cont   = IF @ = NoCont THEN Container(p) ELSE @]

\* The rows patched with the updates of the refined flows.
OnDeepRefinedForgetsLast(refined) ==
  LET at == {Index(k) : k \in {f \in refined : HasRow(f)}}
      new == [i \in DOMAIN rows |->
                IF i \in at THEN Patched(rows[i], owner[rows[i].key]) ELSE rows[i]]
  IN  rows' = new /\ UNCHANGED last
OnDeepRefined(refined) ==
  LET at == {Index(k) : k \in {f \in refined : HasRow(f)}}
      new == [i \in DOMAIN rows |->
                IF i \in at THEN Patched(rows[i], owner[rows[i].key]) ELSE rows[i]]
  IN  /\ rows' = new
      /\ last' = [i \in DOMAIN last |-> IF new[i] # rows[i] THEN new[i] ELSE last[i]]

\* What becomes of a request that stays unresolved.
RetryForever(k) == TRUE
Retry(k) == request[k].attempts + 1 < MaxAttempts

\* process(): one tick of the coalescing timer.  The batch is attributed again;
\* what resolves is published, what does not is queued again until it ages out.
Process ==
  /\ timerOn
  /\ \E batch \in Loudest(queue, batchMax, [k \in Flow |-> request[k].bytes]) :
       LET refined == {k \in batch : owner[k] # NoProc}
           again   == {k \in batch \ refined : Retry(k)}
       IN  /\ queue' = (queue \ batch) \cup again
           /\ request' = [k \in Flow |->
                            IF k \in again
                            THEN [request[k] EXCEPT !.attempts = @ + 1]
                            ELSE IF k \in batch THEN NoRequest ELSE request[k]]
           /\ OnDeepRefined(refined)
  /\ timerOn' = (queue' # {})
  /\ UNCHANGED <<owner, active, batchMax>>

\* onEffectiveEagernessChanged(): setTuning() and setActive().
OnEffectiveEagernessChanged(on) ==
  /\ active' = on
  /\ batchMax' \in BatchSizes
  /\ \/ on /\ UNCHANGED <<queue, request, timerOn>>
     \/ /\ ~on
        /\ queue' = {} /\ request' = [k \in Flow |-> NoRequest] /\ timerOn' = FALSE
  /\ UNCHANGED <<owner, rows, last>>

\* Sockets open, close and change hands; the resolver's caches follow.
Reown(k, p) ==
  /\ owner[k] # p
  /\ owner' = [owner EXCEPT ![k] = p]
  /\ UNCHANGED <<rows, last, queue, request, active, timerOn, batchMax>>

Snapshot ==
  \E conns \in Dumps :
    \E fwd \in SUBSET {conns[i].key : i \in DOMAIN conns} :
      OnConnectionsUpdated(conns, fwd)

Next ==
  \/ Snapshot
  \/ Process
  \/ \E on \in BOOLEAN : OnEffectiveEagernessChanged(on)
  \/ \E k \in Flow, p \in Proc \cup {NoProc} : Reown(k, p)

Spec == Init /\ [][Next]_vars

\* A running QTimer fires.
FairSpec == Spec /\ WF_vars(Process)

-----------------------------------------------------------------------------
RowType ==
  [key : Flow, bytes : Loud, proc : Proc \cup {NoProc}, cont : Cont \cup {NoCont},
   reason : {"resolved", "forwarded", "unowned"}]

\* Types, the caps on snapshot and queue, and the attempts a request may make.
TypeOK ==
  /\ owner \in [Flow -> Proc \cup {NoProc}]
  /\ rows \in Seq(RowType) /\ Len(rows) <= MaxConnections
  /\ last \in Seq(RowType)
  /\ queue \subseteq Flow /\ Cardinality(queue) <= QueueMax
  /\ \A k \in Flow : /\ request[k].attempts \in 0..(MaxAttempts - 1)
                     /\ k \notin queue => request[k] = NoRequest
  /\ active \in BOOLEAN /\ timerOn \in BOOLEAN
  /\ batchMax \in BatchSizes

\* No lost wake-up and no idle ticking: the worker's timer runs exactly while
\* requests are queued, and a worker quiesced by `off` has none.
WorkIsScheduled ==
  /\ timerOn <=> queue # {}
  /\ ~active => queue = {}

\* What GetConnections returns (m_last) stays in step, row by row, with the
\* typed mirror that refinements are matched against.
MirrorInStep == last = rows

\* A request of the current generation is for a row that still lacks a process:
\* no flow is refined that the snapshot or an earlier tick already resolved.
QueuedMeansWeak ==
  \A k \in queue : request[k].fresh =>
    \E i \in DOMAIN rows : rows[i].key = k /\ rows[i].proc = NoProc

\* A row says "resolved" exactly when it names a process, through every patch.
ReasonMatchesProcess ==
  \A i \in DOMAIN rows : (rows[i].reason = "resolved") <=> (rows[i].proc # NoProc)

\* "Only patch toward MORE information; never overwrite a good attribution":
\* a tick of the worker keeps every process and container a row already has.
RefinementsOnlyAdd ==
  [][Process =>
       \A i \in DOMAIN rows :
         /\ rows[i].proc # NoProc => rows'[i].proc = rows[i].proc
         /\ rows[i].cont # NoCont => rows'[i].cont = rows[i].cont]_vars

\* A request is resolved, displaced or ages out, even if every snapshot renews
\* it, once a batch takes the whole queue.
RequestsAgeOut ==
  <>[](batchMax >= QueueMax) => \A k \in Flow : (k \in queue) ~> (k \notin queue)

\* ATTRIBUTION.md derives a row's container from "/proc/<pid>/cgroup" of its
\* process, and a request carries its generation "so a stale refinement can be
\* dropped": a row never names one process and another one's container.
ContainerOfProcess ==
  \A i \in DOMAIN rows : rows[i].cont = Container(rows[i].proc)

\* "genuinely ownerless flows age out of its queue": a flow that stays in the
\* table with no owner is eventually left alone.
OwnerlessLeftAlone ==
  \A k \in Flow :
    <>[](active /\ owner[k] = NoProc /\ k \in Weak(rows)) => <>[](k \notin queue)
=============================================================================

------------------------ MODULE DeepAttributionProofs -----------------------
(***************************************************************************)
(* Proofs about DeepAttribution for every set of flows, processes and      *)
(* containers and every limit.                                             *)
(***************************************************************************)
EXTENDS DeepAttribution, FiniteSetTheorems, SequenceTheorems,
        WellFoundedInduction, TLAPS

Request == [attempts : Nat, bytes : Nat, fresh : BOOLEAN]

\* Requests are well formed whether queued or not.
RequestsTyped == request \in [Flow -> Request]

\* The inductive invariant.
IInv ==
  /\ TypeOK
  /\ RequestsTyped
  /\ WorkIsScheduled
  /\ MirrorInStep
  /\ ReasonMatchesProcess
  /\ QueuedMeansWeak

-----------------------------------------------------------------------------
\* Keeping the loudest: a part of what there was, within the limit, and not
\* empty unless there was nothing.
LEMMA LoudestBounds ==
  ASSUME NEW S \in SUBSET Flow, NEW n \in Nat \ {0}, NEW bytes,
         NEW T \in Loudest(S, n, bytes)
  PROVE  T \subseteq S /\ Cardinality(T) <= n /\ (S # {} => T # {})
<1>1. IsFiniteSet(S) /\ Cardinality(S) \in Nat
  BY DeepAssumption, FS_Subset, FS_CardinalityType
<1>2. /\ T \subseteq S
      /\ Cardinality(T) = IF Cardinality(S) < n THEN Cardinality(S) ELSE n
  BY DEF Loudest
<1>3. S # {} => Cardinality(S) # 0
  BY <1>1, FS_EmptySet
<1>4. T = {} => Cardinality(T) = 0
  BY FS_EmptySet
<1>. QED  BY <1>1, <1>2, <1>3, <1>4

\* What onConnectionsUpdated keeps of a dump.
LEMMA KeptBounds ==
  ASSUME NEW conns \in Dumps, NEW kept \in Kept(conns)
  PROVE  /\ Len(kept) \in Nat /\ Len(kept) <= MaxConnections
         /\ \A i \in 1..Len(kept) : kept[i] \in Conn
<1>1. PICK n \in 0..MaxInput : conns \in [1..n -> Conn]
  BY DEF Dumps
<1>2. n \in Nat /\ conns \in Seq(Conn) /\ Len(conns) = n /\ DOMAIN conns = 1..n
  BY <1>1, DeepAssumption
<1>3. CASE Len(conns) <= MaxConnections
  <2>1. kept = conns
    BY <1>3 DEF Kept
  <2>. QED  BY <1>1, <1>2, <1>3, <2>1
<1>4. CASE ~(Len(conns) <= MaxConnections)
  <2>1. kept \in [1..MaxConnections -> {conns[i] : i \in DOMAIN conns}]
    BY <1>4 DEF Kept
  <2>2. kept \in [1..MaxConnections -> Conn]
    BY <1>1, <1>2, <2>1
  <2>3. kept \in Seq(Conn) /\ Len(kept) = MaxConnections
    BY <2>2, DeepAssumption
  <2>. QED  BY <2>2, <2>3, DeepAssumption
<1>. QED  BY <1>3, <1>4

\* A row fresh from the first pass.
LEMMA RowTyped ==
  ASSUME TypeOK, NEW conn \in Conn, NEW fwd
  PROVE  /\ Row(conn, fwd) \in RowType
         /\ Row(conn, fwd).key = conn.key
         /\ (Row(conn, fwd).reason = "resolved") <=> (Row(conn, fwd).proc # NoProc)
<1>1. owner[conn.key] \in Proc \cup {NoProc}
  BY DEF TypeOK, Conn
<1>2. Container(owner[conn.key]) \in Cont \cup {NoCont}
  BY <1>1, DeepAssumption DEF Container
<1>. QED  BY <1>1, <1>2 DEF Row, RowType, Reason, Conn

\* A non-empty set of positions has a last one.
LEMMA LastPosition ==
  ASSUME NEW n \in Nat, NEW at \in SUBSET (1..n), at # {}
  PROVE  \E i \in at : \A j \in at : j <= i
<1>. DEFINE above == {m \in Nat : \A j \in at : j <= m}
<1>1. n \in above
  OBVIOUS
<1>2. PICK m \in above : \A x \in above : ~(<<x, m>> \in OpToRel(<, Nat))
  <2>1. above \subseteq Nat /\ above # {}
    BY <1>1
  <2>. QED  BY <2>1, NatLessThanWellFounded, WFMin
<1>3. m \in Nat /\ \A j \in at : j <= m
  OBVIOUS
<1>4. m \in at
  <2>. SUFFICES ASSUME m \notin at  PROVE FALSE
    OBVIOUS
  <2>1. \A j \in at : j <= m - 1
    BY <1>3
  <2>2. m # 0
    <3>1. PICK j \in at : TRUE
      OBVIOUS
    <3>2. j \in Nat /\ 1 <= j /\ j <= m
      BY <1>3
    <3>. QED  BY <1>3, <3>2
  <2>3. m - 1 \in above
    BY <1>3, <2>1, <2>2
  <2>4. <<m - 1, m>> \in OpToRel(<, Nat)
    BY <1>3, <2>2 DEF OpToRel
  <2>. QED  BY <1>2, <2>3, <2>4
<1>. QED  BY <1>3, <1>4

\* m_keyIndex finds a row of the flow it is asked for.
LEMMA IndexFinds ==
  ASSUME rows \in Seq(RowType), NEW k, HasRow(k)
  PROVE  Index(k) \in DOMAIN rows /\ rows[Index(k)].key = k
<1>. DEFINE at == {i \in DOMAIN rows : rows[i].key = k}
<1>1. Len(rows) \in Nat /\ DOMAIN rows = 1..Len(rows)
  OBVIOUS
<1>2. at \in SUBSET (1..Len(rows)) /\ at # {}
  BY <1>1 DEF HasRow
<1>3. \E i \in at : \A j \in at : j <= i
  BY <1>1, <1>2, LastPosition
<1>. QED  BY <1>3 DEF Index

-----------------------------------------------------------------------------
LEMMA InitEstablishes == Init => IInv
<1>. SUFFICES ASSUME Init  PROVE IInv
  OBVIOUS
<1>1. Cardinality(queue) <= QueueMax
  BY FS_EmptySet, DeepAssumption DEF Init
<1>2. rows \in Seq(RowType) /\ last \in Seq(RowType) /\ Len(rows) <= MaxConnections
  BY EmptySeq, DeepAssumption DEF Init
<1>3. \A k \in Flow : request[k] = NoRequest /\ request[k].attempts \in 0..(MaxAttempts - 1)
  BY DeepAssumption DEF Init, NoRequest
<1>4. owner \in [Flow -> Proc \cup {NoProc}] /\ queue \subseteq Flow
  BY DEF Init
<1>5. active \in BOOLEAN /\ timerOn \in BOOLEAN /\ batchMax \in BatchSizes
  BY DEF Init
<1>6. TypeOK
  BY <1>1, <1>2, <1>3, <1>4, <1>5, Zenon DEF TypeOK
<1>. QED
  BY <1>6 DEF Init, IInv, RequestsTyped, Request, NoRequest, WorkIsScheduled,
              MirrorInStep, ReasonMatchesProcess, QueuedMeansWeak

\* A new snapshot's requests.
LEMMA MergedTyped ==
  ASSUME IInv, NEW snapshot \in Seq(RowType)
  PROVE  /\ Weak(snapshot) \subseteq Flow
         /\ Merged(snapshot) \in [Flow -> Request]
         /\ \A k \in Flow :
              /\ Merged(snapshot)[k].attempts = request[k].attempts
              /\ Merged(snapshot)[k].fresh <=> k \in Weak(snapshot)
<1>1. \A i \in DOMAIN snapshot : snapshot[i] \in RowType
  OBVIOUS
<1>2. Weak(snapshot) \subseteq Flow
  BY <1>1 DEF Weak, RowType
<1>3. \A k \in Weak(snapshot) : WeakBytes(snapshot, k) \in Nat
  <2>. SUFFICES ASSUME NEW k \in Weak(snapshot)  PROVE WeakBytes(snapshot, k) \in Nat
    OBVIOUS
  <2>. DEFINE weak == {j \in DOMAIN snapshot : snapshot[j].key = k /\ snapshot[j].proc = NoProc}
              top  == CHOOSE i \in weak : \A j \in weak : j <= i
  <2>0. Len(snapshot) \in Nat /\ weak \in SUBSET (1..Len(snapshot)) /\ weak # {}
    BY DEF Weak
  <2>1. \E i \in weak : \A j \in weak : j <= i
    BY <2>0, LastPosition
  <2>2. top \in DOMAIN snapshot
    BY <2>1
  <2>3. snapshot[top].bytes \in Nat
    BY <1>1, <2>2, DeepAssumption DEF RowType
  <2>. QED  BY <2>3 DEF WeakBytes
<1>4. request \in [Flow -> Request]
  BY DEF IInv, RequestsTyped
<1>. QED  BY <1>2, <1>3, <1>4 DEF Merged, Request

\* Enqueueing a snapshot's weak flows schedules the worker exactly when it has
\* something to do, within the cap, and keeps the attempts made so far.
LEMMA EnqueueStep ==
  ASSUME IInv, NEW snapshot \in Seq(RowType), Enqueue(snapshot), active' = active
  PROVE  /\ queue' \subseteq Flow /\ Cardinality(queue') <= QueueMax
         /\ request' = Only(queue', Merged(snapshot))
         /\ timerOn' \in BOOLEAN
         /\ WorkIsScheduled'
<1>. DEFINE W == Weak(snapshot)
            bytes == [k \in Flow |-> Merged(snapshot)[k].bytes]
<1>1. W \subseteq Flow /\ queue \subseteq Flow /\ Cardinality(queue) <= QueueMax
  BY MergedTyped DEF IInv, TypeOK
<1>2. CASE /\ active /\ W # {}
           /\ \E q \in Loudest(queue \cup W, QueueMax, bytes) :
                queue' = q /\ request' = Only(q, Merged(snapshot))
           /\ timerOn' = (timerOn \/ queue' # {})
  <2>1. PICK q \in Loudest(queue \cup W, QueueMax, bytes) :
          queue' = q /\ request' = Only(q, Merged(snapshot))
    BY <1>2
  <2>2. queue \cup W \in SUBSET Flow /\ queue \cup W # {} /\ QueueMax \in Nat \ {0}
    BY <1>1, <1>2, DeepAssumption
  <2>. HIDE DEF W, bytes
  <2>3. q \subseteq queue \cup W /\ Cardinality(q) <= QueueMax /\ q # {}
    BY <2>2, LoudestBounds
  <2>4. active' /\ timerOn' = TRUE
    BY <1>2, <2>1, <2>3
  <2>5. WorkIsScheduled' /\ timerOn' \in BOOLEAN
    BY <2>1, <2>3, <2>4 DEF WorkIsScheduled
  <2>. QED  BY <1>1, <2>1, <2>3, <2>5
<1>3. CASE /\ ~(active /\ W # {})
           /\ request' = Only(queue, Merged(snapshot))
           /\ UNCHANGED <<queue, timerOn>>
  <2>1. queue' = queue /\ timerOn' = timerOn
    BY <1>3
  <2>2. WorkIsScheduled' /\ timerOn' \in BOOLEAN
    BY <2>1 DEF WorkIsScheduled, IInv, TypeOK
  <2>. QED  BY <1>1, <1>3, <2>1, <2>2
<1>. QED  BY <1>2, <1>3 DEF Enqueue

LEMMA SnapshotStep == IInv /\ Snapshot => IInv'
<1>. SUFFICES ASSUME IInv, NEW conns \in Dumps,
                     NEW fwd \in SUBSET {conns[i].key : i \in DOMAIN conns},
                     OnConnectionsUpdated(conns, fwd)
              PROVE  IInv'
  BY DEF Snapshot
<1>1. PICK kept \in Kept(conns) :
        LET snapshot == [i \in 1..Len(kept) |-> Row(kept[i], fwd)]
        IN  /\ rows' = snapshot /\ last' = snapshot /\ Enqueue(snapshot)
            /\ UNCHANGED <<owner, active, batchMax>>
  BY DEF OnConnectionsUpdated
<1>. DEFINE snap == [i \in 1..Len(kept) |-> Row(kept[i], fwd)]
<1>2. rows' = snap /\ last' = snap /\ Enqueue(snap) /\ UNCHANGED <<owner, active, batchMax>>
  BY <1>1
<1>3. Len(kept) \in Nat /\ Len(kept) <= MaxConnections
      /\ \A i \in 1..Len(kept) : kept[i] \in Conn
  BY KeptBounds
<1>4. \A i \in 1..Len(kept) :
        /\ snap[i] \in RowType
        /\ (snap[i].reason = "resolved") <=> (snap[i].proc # NoProc)
  BY <1>3, RowTyped DEF IInv
<1>5. DOMAIN snap = 1..Len(kept)
  OBVIOUS
<1>6. snap \in Seq(RowType) /\ Len(snap) = Len(kept)
  BY <1>3, <1>4, SeqDef
<1>. HIDE DEF snap
<1>7. /\ queue' \subseteq Flow /\ Cardinality(queue') <= QueueMax
      /\ request' = Only(queue', Merged(snap))
      /\ timerOn' \in BOOLEAN
      /\ WorkIsScheduled'
  BY <1>2, <1>6, EnqueueStep
<1>8. /\ Merged(snap) \in [Flow -> Request]
      /\ \A k \in Flow : /\ Merged(snap)[k].attempts = request[k].attempts
                         /\ Merged(snap)[k].fresh <=> k \in Weak(snap)
  BY <1>6, MergedTyped
<1>9. request' \in [Flow -> Request]
      /\ \A k \in Flow : /\ k \notin queue' => request'[k] = NoRequest
                         /\ k \in queue' => request'[k] = Merged(snap)[k]
  BY <1>7, <1>8 DEF Only, NoRequest, Request
<1>10. \A k \in Flow : request'[k].attempts \in 0..(MaxAttempts - 1)
  <2>1. \A k \in Flow : request[k].attempts \in 0..(MaxAttempts - 1)
    BY DEF IInv, TypeOK
  <2>2. NoRequest.attempts \in 0..(MaxAttempts - 1)
    BY DeepAssumption DEF NoRequest
  <2>. QED  BY <1>8, <1>9, <2>1, <2>2
<1>11. TypeOK'
  <2>1. owner' \in [Flow -> Proc \cup {NoProc}] /\ active' \in BOOLEAN /\ batchMax' \in BatchSizes
    BY <1>2 DEF IInv, TypeOK
  <2>2. rows' \in Seq(RowType) /\ Len(rows') <= MaxConnections /\ last' \in Seq(RowType)
    BY <1>2, <1>3, <1>6
  <2>. QED  BY <1>7, <1>9, <1>10, <2>1, <2>2, Zenon DEF TypeOK
<1>12. QueuedMeansWeak'
  <2>. SUFFICES ASSUME NEW k \in queue', request'[k].fresh
                PROVE  \E i \in DOMAIN snap : snap[i].key = k /\ snap[i].proc = NoProc
    BY <1>2 DEF QueuedMeansWeak
  <2>1. k \in Weak(snap)
    BY <1>7, <1>8, <1>9
  <2>. QED  BY <2>1 DEF Weak
<1>13. ReasonMatchesProcess' /\ MirrorInStep'
  BY <1>2, <1>4, <1>5 DEF ReasonMatchesProcess, MirrorInStep
<1>. QED  BY <1>7, <1>9, <1>11, <1>12, <1>13 DEF IInv, RequestsTyped

-----------------------------------------------------------------------------
\* onDeepRefined on the updates of flows that have an owner: every row keeps
\* its place and its key, and only the rows of refined flows change.
LEMMA RefinedRows ==
  ASSUME IInv, NEW refined \in SUBSET Flow,
         \A k \in refined : owner[k] # NoProc,
         OnDeepRefined(refined)
  PROVE  /\ rows' \in Seq(RowType) /\ Len(rows') = Len(rows)
         /\ MirrorInStep'
         /\ ReasonMatchesProcess'
         /\ \A i \in DOMAIN rows :
              /\ rows[i].key \notin refined => rows'[i] = rows[i]
              /\ rows[i].proc # NoProc => rows'[i].proc = rows[i].proc
              /\ rows[i].cont # NoCont => rows'[i].cont = rows[i].cont
<1>. DEFINE at == {Index(k) : k \in {f \in refined : HasRow(f)}}
            new == [i \in DOMAIN rows |->
                      IF i \in at THEN Patched(rows[i], owner[rows[i].key]) ELSE rows[i]]
<1>1. /\ rows' = new
      /\ last' = [i \in DOMAIN last |-> IF new[i] # rows[i] THEN new[i] ELSE last[i]]
  BY DEF OnDeepRefined
<1>2. rows \in Seq(RowType) /\ last = rows /\ owner \in [Flow -> Proc \cup {NoProc}]
      /\ \A i \in DOMAIN rows : (rows[i].reason = "resolved") <=> (rows[i].proc # NoProc)
  BY DEF IInv, TypeOK, MirrorInStep, ReasonMatchesProcess
<1>3. Len(rows) \in Nat /\ DOMAIN rows = 1..Len(rows) /\ \A i \in DOMAIN rows : rows[i] \in RowType
  BY <1>2
<1>4. \A i \in at : i \in DOMAIN rows /\ rows[i].key \in refined
  BY <1>2, IndexFinds
<1>5. \A i \in at : /\ owner[rows[i].key] \in Proc /\ owner[rows[i].key] # NoProc
                    /\ Container(owner[rows[i].key]) \in Cont \cup {NoCont}
  BY <1>2, <1>4, DeepAssumption DEF Container
<1>. DEFINE P(i) == Patched(rows[i], owner[rows[i].key])
<1>6. \A i \in at :
        /\ P(i) \in RowType
        /\ P(i).reason = "resolved" /\ P(i).proc # NoProc
        /\ rows[i].proc # NoProc => P(i).proc = rows[i].proc
        /\ rows[i].cont # NoCont => P(i).cont = rows[i].cont
  <2>. SUFFICES ASSUME NEW i \in at
                PROVE  /\ P(i) \in RowType
                       /\ P(i).reason = "resolved" /\ P(i).proc # NoProc
                       /\ rows[i].proc # NoProc => P(i).proc = rows[i].proc
                       /\ rows[i].cont # NoCont => P(i).cont = rows[i].cont
    OBVIOUS
  <2>1. rows[i] \in RowType /\ ((rows[i].reason = "resolved") <=> (rows[i].proc # NoProc))
    BY <1>2, <1>3, <1>4
  <2>2. /\ owner[rows[i].key] \in Proc /\ owner[rows[i].key] # NoProc
        /\ Container(owner[rows[i].key]) \in Cont \cup {NoCont}
    BY <1>5
  <2>. QED  BY <2>1, <2>2 DEF Patched, RowType
<1>. HIDE DEF at, P
<1>7. \A i \in DOMAIN rows : new[i] = IF i \in at THEN P(i) ELSE rows[i]
  BY DEF P
<1>8. DOMAIN new = DOMAIN rows /\ \A i \in DOMAIN rows : new[i] \in RowType
  BY <1>3, <1>6, <1>7
<1>9. new \in Seq(RowType) /\ Len(new) = Len(rows)
  <2>1. new = [i \in 1..Len(rows) |-> new[i]]
    BY <1>3
  <2>. HIDE DEF new
  <2>2. new \in [1..Len(rows) -> RowType]
    BY <1>3, <1>8, <2>1
  <2>. QED  BY <1>3, <1>8, <2>2, SeqDef
<1>10. last' = new
  <2>1. last' = [i \in DOMAIN rows |-> IF new[i] # rows[i] THEN new[i] ELSE rows[i]]
    BY <1>1, <1>2
  <2>2. \A i \in DOMAIN rows : (IF new[i] # rows[i] THEN new[i] ELSE rows[i]) = new[i]
    OBVIOUS
  <2>. QED  BY <2>1, <2>2
<1>11. MirrorInStep'
  BY <1>1, <1>10 DEF MirrorInStep
<1>. HIDE DEF new
<1>12. ReasonMatchesProcess'
  BY <1>1, <1>2, <1>6, <1>7, <1>8 DEF ReasonMatchesProcess
<1>. QED  BY <1>1, <1>4, <1>6, <1>7, <1>9, <1>11, <1>12

LEMMA ProcessStep == IInv /\ Process => IInv'
<1>. SUFFICES ASSUME IInv, Process  PROVE IInv'
  OBVIOUS
<1>1. PICK batch \in Loudest(queue, batchMax, [k \in Flow |-> request[k].bytes]) :
       LET refined == {k \in batch : owner[k] # NoProc}
           again   == {k \in batch \ refined : Retry(k)}
       IN  /\ queue' = (queue \ batch) \cup again
           /\ request' = [k \in Flow |->
                            IF k \in again
                            THEN [request[k] EXCEPT !.attempts = @ + 1]
                            ELSE IF k \in batch THEN NoRequest ELSE request[k]]
           /\ OnDeepRefined(refined)
  BY DEF Process
<1>. DEFINE refined == {k \in batch : owner[k] # NoProc}
            again   == {k \in batch \ refined : Retry(k)}
<1>2. /\ queue' = (queue \ batch) \cup again
      /\ request' = [k \in Flow |->
                       IF k \in again
                       THEN [request[k] EXCEPT !.attempts = @ + 1]
                       ELSE IF k \in batch THEN NoRequest ELSE request[k]]
      /\ OnDeepRefined(refined)
  BY <1>1
<1>3. timerOn /\ timerOn' = (queue' # {}) /\ UNCHANGED <<owner, active, batchMax>>
  BY DEF Process
<1>4. queue \subseteq Flow /\ Cardinality(queue) <= QueueMax /\ batchMax \in Nat \ {0}
      /\ request \in [Flow -> Request]
      /\ \A k \in Flow : /\ request[k].attempts \in 0..(MaxAttempts - 1)
                         /\ k \notin queue => request[k] = NoRequest
  BY DeepAssumption DEF IInv, TypeOK, RequestsTyped
<1>5. batch \subseteq queue
  BY <1>4, LoudestBounds
<1>6. /\ rows' \in Seq(RowType) /\ Len(rows') = Len(rows)
      /\ MirrorInStep' /\ ReasonMatchesProcess'
      /\ \A i \in DOMAIN rows : rows[i].key \notin refined => rows'[i] = rows[i]
  BY <1>2, <1>4, <1>5, RefinedRows
<1>7. again \subseteq batch /\ again \cap refined = {} /\ \A k \in again : Retry(k)
  OBVIOUS
<1>8. refined \subseteq batch
  OBVIOUS
<1>. HIDE DEF refined, again
<1>9. queue' \subseteq queue /\ Cardinality(queue') <= QueueMax
  <2>1. queue' \subseteq queue
    BY <1>2, <1>5, <1>7
  <2>2. IsFiniteSet(queue)
    BY <1>4, DeepAssumption, FS_Subset
  <2>3. Cardinality(queue') <= Cardinality(queue) /\ Cardinality(queue) \in Nat /\ Cardinality(queue') \in Nat
    BY <2>1, <2>2, FS_Subset, FS_CardinalityType
  <2>. QED  BY <1>4, <2>1, <2>3, DeepAssumption
<1>10. \A k \in Flow :
         /\ k \in again => request'[k] = [request[k] EXCEPT !.attempts = @ + 1]
         /\ k \in batch \ again => request'[k] = NoRequest
         /\ k \notin batch => request'[k] = request[k]
  BY <1>2, <1>7
<1>11. \A k \in Flow : /\ request'[k] \in Request
                       /\ request'[k].attempts \in 0..(MaxAttempts - 1)
                       /\ k \in queue' => request'[k].fresh = request[k].fresh
                       /\ k \notin queue' => request'[k] = NoRequest
  <2>. SUFFICES ASSUME NEW k \in Flow
                PROVE  /\ request'[k] \in Request
                       /\ request'[k].attempts \in 0..(MaxAttempts - 1)
                       /\ k \in queue' => request'[k].fresh = request[k].fresh
                       /\ k \notin queue' => request'[k] = NoRequest
    OBVIOUS
  <2>1. request[k] \in Request /\ request[k].attempts \in 0..(MaxAttempts - 1)
    BY <1>4
  <2>2. CASE k \in again
    <3>1. request[k].attempts + 1 < MaxAttempts
      BY <1>7, <2>2 DEF Retry
    <3>2. request'[k] = [request[k] EXCEPT !.attempts = @ + 1] /\ k \in queue'
      BY <1>2, <1>10, <2>2
    <3>. QED  BY <2>1, <3>1, <3>2, DeepAssumption DEF Request
  <2>3. CASE k \in batch \ again
    <3>1. request'[k] = NoRequest /\ k \notin queue'
      BY <1>2, <1>10, <2>3
    <3>2. NoRequest \in Request
      BY DEF Request, NoRequest
    <3>3. NoRequest.attempts \in 0..(MaxAttempts - 1)
      BY DeepAssumption DEF NoRequest
    <3>. QED  BY <3>1, <3>2, <3>3
  <2>4. CASE k \notin batch
    <3>1. request'[k] = request[k] /\ (k \in queue' <=> k \in queue)
      BY <1>2, <1>7, <1>10, <2>4
    <3>2. k \notin queue => request[k] = NoRequest
      BY <1>4
    <3>. QED  BY <2>1, <3>1, <3>2
  <2>. QED  BY <2>2, <2>3, <2>4
<1>12. TypeOK'
  <2>1. /\ owner' \in [Flow -> Proc \cup {NoProc}] /\ active' \in BOOLEAN
        /\ batchMax' \in BatchSizes /\ timerOn' \in BOOLEAN
    BY <1>3 DEF IInv, TypeOK
  <2>2. Len(rows') <= MaxConnections /\ last' \in Seq(RowType)
    BY <1>6 DEF IInv, TypeOK, MirrorInStep
  <2>3. queue' \subseteq Flow
    BY <1>4, <1>9
  <2>. QED  BY <1>6, <1>9, <1>11, <2>1, <2>2, <2>3, Zenon DEF TypeOK
<1>13. QueuedMeansWeak'
  <2>. SUFFICES ASSUME NEW k \in queue', request'[k].fresh
                PROVE  \E i \in DOMAIN rows' : rows'[i].key = k /\ rows'[i].proc = NoProc
    BY DEF QueuedMeansWeak
  <2>1. k \in queue /\ k \in Flow /\ k \notin refined
    BY <1>2, <1>4, <1>7, <1>8, <1>9
  <2>2. PICK i \in DOMAIN rows : rows[i].key = k /\ rows[i].proc = NoProc
    BY <1>11, <2>1 DEF IInv, QueuedMeansWeak
  <2>3. rows'[i] = rows[i]
    BY <1>6, <2>1, <2>2
  <2>4. i \in DOMAIN rows'
    BY <1>6 DEF IInv, TypeOK
  <2>. QED  BY <2>2, <2>3, <2>4
<1>14. WorkIsScheduled'
  BY <1>3, <1>9 DEF IInv, WorkIsScheduled
<1>15. RequestsTyped'
  <2>1. request' = [k \in Flow |-> request'[k]]
    BY <1>2
  <2>. QED  BY <1>11, <2>1 DEF RequestsTyped
<1>. QED  BY <1>6, <1>12, <1>13, <1>14, <1>15 DEF IInv

LEMMA EagernessStep ==
  ASSUME IInv, NEW on \in BOOLEAN, OnEffectiveEagernessChanged(on)
  PROVE  IInv'
<1>1. /\ active' = on /\ batchMax' \in BatchSizes /\ UNCHANGED <<owner, rows, last>>
  BY DEF OnEffectiveEagernessChanged
<1>2. MirrorInStep' /\ ReasonMatchesProcess'
  BY <1>1 DEF IInv, MirrorInStep, ReasonMatchesProcess
<1>3. CASE on /\ UNCHANGED <<queue, request, timerOn>>
  <2>1. TypeOK'
    BY <1>1, <1>3 DEF IInv, TypeOK
  <2>2. WorkIsScheduled' /\ QueuedMeansWeak' /\ RequestsTyped'
    BY <1>1, <1>3 DEF IInv, WorkIsScheduled, QueuedMeansWeak, RequestsTyped
  <2>. QED  BY <1>2, <2>1, <2>2 DEF IInv
<1>4. CASE ~on /\ queue' = {} /\ request' = [k \in Flow |-> NoRequest] /\ timerOn' = FALSE
  <2>1. NoRequest \in Request /\ NoRequest.attempts \in 0..(MaxAttempts - 1)
    BY DeepAssumption DEF Request, NoRequest
  <2>2. Cardinality(queue') <= QueueMax
    BY <1>4, FS_EmptySet, DeepAssumption
  <2>3. /\ queue' \subseteq Flow /\ timerOn' \in BOOLEAN /\ active' \in BOOLEAN
        /\ \A k \in Flow : /\ request'[k].attempts \in 0..(MaxAttempts - 1)
                           /\ k \notin queue' => request'[k] = NoRequest
    BY <1>1, <1>4, <2>1
  <2>4. /\ owner' \in [Flow -> Proc \cup {NoProc}] /\ rows' \in Seq(RowType)
        /\ Len(rows') <= MaxConnections /\ last' \in Seq(RowType)
    BY <1>1 DEF IInv, TypeOK
  <2>5. TypeOK'
    BY <1>1, <2>2, <2>3, <2>4, Zenon DEF TypeOK
  <2>6. WorkIsScheduled' /\ QueuedMeansWeak' /\ RequestsTyped'
    BY <1>4, <2>1 DEF WorkIsScheduled, QueuedMeansWeak, RequestsTyped
  <2>. QED  BY <1>2, <2>5, <2>6 DEF IInv
<1>. QED  BY <1>3, <1>4 DEF OnEffectiveEagernessChanged

LEMMA ReownStep ==
  ASSUME IInv, NEW k \in Flow, NEW p \in Proc \cup {NoProc}, Reown(k, p)
  PROVE  IInv'
<1>1. owner' \in [Flow -> Proc \cup {NoProc}]
  BY DEF Reown, IInv, TypeOK
<1>2. UNCHANGED <<rows, last, queue, request, active, timerOn, batchMax>>
  BY DEF Reown
<1>3. TypeOK'
  BY <1>1, <1>2 DEF IInv, TypeOK
<1>. QED
  BY <1>2, <1>3 DEF IInv, RequestsTyped, WorkIsScheduled, MirrorInStep,
                    ReasonMatchesProcess, QueuedMeansWeak

LEMMA StutterStep == IInv /\ UNCHANGED vars => IInv'
BY DEF vars, IInv, TypeOK, RequestsTyped, WorkIsScheduled, MirrorInStep,
       ReasonMatchesProcess, QueuedMeansWeak

THEOREM Invariance == Spec => []IInv
<1>1. IInv /\ [Next]_vars => IInv'
  BY SnapshotStep, ProcessStep, EagernessStep, ReownStep, StutterStep DEF Next
<1>. QED  BY InitEstablishes, <1>1, PTL DEF Spec

-----------------------------------------------------------------------------
\* The snapshot and the queue stay within their caps and no request makes more
\* than deepMaxAttempts attempts, for any caps.
THEOREM TypeCorrect == Spec => []TypeOK
<1>1. IInv => TypeOK
  BY DEF IInv
<1>. QED  BY Invariance, <1>1, PTL

\* The coalescing timer runs exactly while requests are queued.
THEOREM NoLostWakeup == Spec => []WorkIsScheduled
<1>1. IInv => WorkIsScheduled
  BY DEF IInv
<1>. QED  BY Invariance, <1>1, PTL

\* GetConnections never returns a row the typed mirror does not hold.
THEOREM MirrorStaysInStep == Spec => []MirrorInStep
<1>1. IInv => MirrorInStep
  BY DEF IInv
<1>. QED  BY Invariance, <1>1, PTL

\* A request of the current generation is for a row without a process.
THEOREM OnlyWeakQueued == Spec => []QueuedMeansWeak
<1>1. IInv => QueuedMeansWeak
  BY DEF IInv
<1>. QED  BY Invariance, <1>1, PTL

\* The reason of a row and its process agree through every refinement.
THEOREM ReasonFollowsProcess == Spec => []ReasonMatchesProcess
<1>1. IInv => ReasonMatchesProcess
  BY DEF IInv
<1>. QED  BY Invariance, <1>1, PTL

\* No tick of the worker overwrites a process or a container a row has.
THEOREM RefinementsNeverOverwrite == Spec => RefinementsOnlyAdd
<1>. DEFINE Adds == Process =>
              \A i \in DOMAIN rows :
                /\ rows[i].proc # NoProc => rows'[i].proc = rows[i].proc
                /\ rows[i].cont # NoCont => rows'[i].cont = rows[i].cont
<1>1. IInv => Adds
  <2>. SUFFICES ASSUME IInv, Process
                PROVE  \A i \in DOMAIN rows :
                         /\ rows[i].proc # NoProc => rows'[i].proc = rows[i].proc
                         /\ rows[i].cont # NoCont => rows'[i].cont = rows[i].cont
    OBVIOUS
  <2>1. PICK batch \in Loudest(queue, batchMax, [k \in Flow |-> request[k].bytes]) :
          OnDeepRefined({k \in batch : owner[k] # NoProc})
    BY DEF Process
  <2>2. batchMax \in Nat \ {0} /\ queue \in SUBSET Flow
    BY DeepAssumption DEF IInv, TypeOK
  <2>3. batch \subseteq Flow
    BY <2>2, LoudestBounds
  <2>. QED  BY <2>1, <2>3, RefinedRows
<1>2. IInv /\ [Next]_vars => [Adds]_vars
  BY <1>1
<1>. HIDE DEF Adds
<1>3. Spec => [][Adds]_vars
  BY Invariance, <1>2, PTL DEF Spec
<1>. QED  BY <1>3 DEF Adds, RefinementsOnlyAdd
=============================================================================

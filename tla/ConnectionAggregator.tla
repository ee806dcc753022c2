------------------------ MODULE ConnectionAggregator ------------------------
(***************************************************************************)
(* The flow table every front end shows: aggregate::ConnectionAggregator.  *)
(* A snapshot updates rows in place, marks the missing ones stale, prunes  *)
(* the old ones and appends the new; UDP flows to one peer are folded into *)
(* one row whose counter must survive members that come, go and restart.   *)
(*                                                                         *)
(* One byte counter stands for the four of a connection.  Smoothing,       *)
(* names and attribution of a row are not part of this module.             *)
(***************************************************************************)
EXTENDS Integers, FiniteSets, SequencesExt

CONSTANTS
  Flow, Udp,      \* connections, numbered; those that are UDP
  Peer, PeerOf,   \* aggregated identities, numbered; the one of a UDP flow
  WireUnknown,    \* flows the agent sends with Direction::Unknown
  Renewable,      \* flows whose conntrack entry may be replaced, at any count
  Retentions,     \* stale retentions the user may set, [tcp, udp]
  Gaps,           \* time between two snapshots
  MaxBytes,       \* bound: a conntrack counter
  MaxAggregate    \* bound: the bytes of departed members of a peer

ASSUME AggregatorAssumption ==
  /\ IsFiniteSet(Flow) /\ Udp \subseteq Flow /\ WireUnknown \subseteq Flow
  /\ PeerOf \in [Udp -> Peer] /\ Flow \cap Peer = {} /\ Flow \cup Peer \subseteq Nat
  /\ Renewable \subseteq Flow
  /\ Retentions \subseteq [tcp : Nat, udp : Nat]
  /\ Gaps \subseteq Nat
  /\ MaxBytes \in Nat /\ MaxAggregate \in Nat

VARIABLES
  floor,            \* least the kernel's counter of a flow can be now
  inferable,        \* whether the local addresses known here tell a direction
  aggregateByPeer,  \* m_udpAggregateByPeer
  retention,        \* m_staleRetentionMs, m_staleRetentionMsUdp
  group,            \* m_udpAgg: per peer [base, age]
  member,           \* UdpAggState::members: per UDP flow [bytes, age]
  rows,             \* m_rows
  keyToIdx,         \* m_keyToIdx
  prev              \* m_prev, as the bytes per key

vars == <<floor, inferable, aggregateByPeer, retention,
          group, member, rows, keyToIdx, prev>>

-----------------------------------------------------------------------------
\* Ages count from lastSeenMs; Gone is the age of what is not in the table.
Gone == -1
NoGroup == [base |-> 0, age |-> Gone]
NoMember == [bytes |-> 0, age |-> Gone]
Older(age, dt) == IF age = Gone THEN Gone ELSE age + dt

Known(f) == f \notin WireUnknown \/ inferable
Aggregated(f) == aggregateByPeer /\ f \in Udp /\ Known(f)

\* Connection::key(), of the flow or of the row it is folded into; the direction
\* is part of it.
Key(f) == IF Aggregated(f) THEN <<PeerOf[f], TRUE>> ELSE <<f, Known(f)>>

KeysOf(s) == {s[i].key : i \in DOMAIN s}

Budget(key) == IF key[1] \in Udp \cup Peer THEN retention.udp ELSE retention.tcp

-----------------------------------------------------------------------------
\* The UDP state after the flows in S were observed with these bytes.  A counter
\* that went back moves what was counted into the base.
ObservedIgnoresRestart(S, bytes, dt) ==
  LET seen == {f \in S : Aggregated(f)}
  IN  [member |-> [f \in Udp |-> IF f \in seen THEN [bytes |-> bytes[f], age |-> 0]
                                 ELSE [member[f] EXCEPT !.age = Older(@, dt)]],
       group  |-> [g \in Peer |->
                     [base |-> group[g].base,
                      age  |-> IF \E f \in seen : PeerOf[f] = g THEN 0
                               ELSE Older(group[g].age, dt)]]]
Observed(S, bytes, dt) ==
  LET seen == {f \in S : Aggregated(f)}
      back(g) == {f \in seen : PeerOf[f] = g /\ bytes[f] < member[f].bytes}
  IN  [member |-> [f \in Udp |-> IF f \in seen THEN [bytes |-> bytes[f], age |-> 0]
                                 ELSE [member[f] EXCEPT !.age = Older(@, dt)]],
       group  |-> [g \in Peer |->
                     [base |-> group[g].base
                                 + MapThenSumSet(LAMBDA f : member[f].bytes, back(g)),
                      age  |-> IF \E f \in seen : PeerOf[f] = g THEN 0
                               ELSE Older(group[g].age, dt)]]]

\* Peers unseen for longer than the retention are dropped with their members;
\* a member unseen for that long leaves its bytes in the base of its peer.
ExpireKeepsMembers(st) ==
  LET late(age) == age > retention.udp
      lapsed(g) == {f \in Udp : PeerOf[f] = g /\ late(st.member[f].age)}
  IN  [group  |-> [g \in Peer |->
                     IF late(st.group[g].age) THEN NoGroup
                     ELSE [st.group[g] EXCEPT
                             !.base = @ + MapThenSumSet(LAMBDA f : st.member[f].bytes,
                                                        lapsed(g))]],
       member |-> [f \in Udp |->
                     IF late(st.member[f].age) /\ ~late(st.group[PeerOf[f]].age)
                     THEN NoMember ELSE st.member[f]]]
Expire(st) ==
  LET late(age) == age > retention.udp
      lapsed(g) == {f \in Udp : PeerOf[f] = g /\ late(st.member[f].age)}
  IN  [group  |-> [g \in Peer |->
                     IF late(st.group[g].age) THEN NoGroup
                     ELSE [st.group[g] EXCEPT
                             !.base = @ + MapThenSumSet(LAMBDA f : st.member[f].bytes,
                                                        lapsed(g))]],
       member |-> [f \in Udp |->
                     IF late(st.member[f].age) \/ late(st.group[PeerOf[f]].age)
                     THEN NoMember ELSE st.member[f]]]

NoUdpState == [group |-> [g \in Peer |-> NoGroup], member |-> [f \in Udp |-> NoMember]]

UdpState(S, bytes, dt) ==
  IF aggregateByPeer THEN Expire(Observed(S, bytes, dt)) ELSE NoUdpState

\* The snapshot by key, after aggregation.
Incoming(S, bytes, st) ==
  [k \in {Key(f) : f \in S} |->
     IF k[1] \in Peer
     THEN st.group[k[1]].base
            + MapThenSumSet(LAMBDA f : st.member[f].bytes, {f \in Udp : PeerOf[f] = k[1]})
     ELSE bytes[k[1]]]

\* A row against the snapshot: its rate is what was added since the last one.
RefreshedUnderflow(r, incoming, dt) ==
  IF r.key \in DOMAIN incoming
  THEN [r EXCEPT !.bytes = incoming[r.key], !.age = 0, !.stale = FALSE,
                 !.raw = IF r.key \in DOMAIN prev
                         THEN incoming[r.key] - prev[r.key] ELSE 0]
  ELSE [r EXCEPT !.age = @ + dt, !.stale = TRUE, !.raw = 0]
RefreshedStaysStale(r, incoming, dt) ==
  IF r.key \in DOMAIN incoming
  THEN [r EXCEPT !.bytes = incoming[r.key], !.age = 0,
                 !.raw = IF r.key \in DOMAIN prev /\ incoming[r.key] >= prev[r.key]
                         THEN incoming[r.key] - prev[r.key] ELSE 0]
  ELSE [r EXCEPT !.age = @ + dt, !.stale = TRUE, !.raw = 0]
Refreshed(r, incoming, dt) ==
  IF r.key \in DOMAIN incoming
  THEN [r EXCEPT !.bytes = incoming[r.key], !.age = 0, !.stale = FALSE,
                 !.raw = IF r.key \in DOMAIN prev /\ incoming[r.key] >= prev[r.key]
                         THEN incoming[r.key] - prev[r.key] ELSE 0]
  ELSE [r EXCEPT !.age = @ + dt, !.stale = TRUE, !.raw = 0]

\* Rows stale for too long are removed one by one, the last one first.
Expired(s) == {i \in DOMAIN s : s[i].stale /\ s[i].age > Budget(s[i].key)}
PruneFirstToLast(s) == FoldLeft(RemoveAt, s, SetToSortSeq(Expired(s), <))
Prune(s) == FoldLeft(RemoveAt, s, SetToSortSeq(Expired(s), >))

NewRow(key, incoming) ==
  [key |-> key, bytes |-> incoming[key], raw |-> 0, age |-> 0, stale |-> FALSE]

\* m_keyToIdx: rebuilt for the rows kept, extended with the rows appended.
IndexedOffByOne(kept, new) ==
  [k \in KeysOf(kept \o new) |->
     IF k \in KeysOf(kept) THEN CHOOSE i \in DOMAIN kept : kept[i].key = k
     ELSE Len(kept) + 1 + CHOOSE i \in DOMAIN new : new[i].key = k]
Indexed(kept, new) ==
  [k \in KeysOf(kept \o new) |->
     IF k \in KeysOf(kept) THEN CHOOSE i \in DOMAIN kept : kept[i].key = k
     ELSE Len(kept) + CHOOSE i \in DOMAIN new : new[i].key = k]

\* What the rates of the next snapshot are taken against.
RememberKeepsOld(incoming) ==
  [k \in DOMAIN incoming \cup DOMAIN prev |->
     IF k \in DOMAIN incoming THEN incoming[k] ELSE prev[k]]
Remember(incoming) == incoming

\* updateConnections(): a snapshot of the flows in S, dt after the last one.  New
\* rows come in the order of a hash table.
UpdateConnections(S, bytes, dt) ==
  LET st       == UdpState(S, bytes, dt)
      incoming == Incoming(S, bytes, st)
      kept     == Prune([i \in DOMAIN rows |-> Refreshed(rows[i], incoming, dt)])
  IN  /\ group' = st.group /\ member' = st.member
      /\ \E order \in SetToSeqs(DOMAIN incoming \ KeysOf(kept)) :
           LET new == [i \in DOMAIN order |-> NewRow(order[i], incoming)]
           IN  /\ rows' = kept \o new
               /\ keyToIdx' = Indexed(kept, new)
      /\ prev' = Remember(incoming)

-----------------------------------------------------------------------------
Init ==
  /\ floor = [f \in Flow |-> 0]
  /\ inferable = FALSE /\ aggregateByPeer = TRUE /\ retention \in Retentions
  /\ group = NoUdpState.group /\ member = NoUdpState.member
  /\ rows = <<>> /\ keyToIdx = [k \in {} |-> 0] /\ prev = [k \in {} |-> 0]

\* A snapshot of some flows arrives (the agent sends the loudest only).  A
\* conntrack entry counts up; a replaced one starts again.
Poll ==
  \E S \in SUBSET Flow, dt \in Gaps :
    \E bytes \in [S -> 0..MaxBytes] :
      /\ \A f \in S : bytes[f] >= floor[f]
      /\ floor' = [f \in Flow |-> IF f \in S \ Renewable THEN bytes[f] ELSE floor[f]]
      /\ UpdateConnections(S, bytes, dt)
      /\ \A g \in Peer : group'[g].base <= MaxAggregate
      /\ UNCHANGED <<inferable, aggregateByPeer, retention>>

SetUdpAggregateByPeer(v) ==
  /\ v # aggregateByPeer
  /\ aggregateByPeer' = v
  /\ group' = NoUdpState.group /\ member' = NoUdpState.member
  /\ UNCHANGED <<floor, inferable, retention, rows, keyToIdx, prev>>

SetStaleRetentionMs(r) ==
  /\ r # retention
  /\ retention' = r
  /\ UNCHANGED <<floor, inferable, aggregateByPeer, group, member,
                 rows, keyToIdx, prev>>

SetLocalAddresses ==
  /\ inferable' = ~inferable
  /\ UNCHANGED <<floor, aggregateByPeer, retention, group, member,
                 rows, keyToIdx, prev>>

Next ==
  \/ Poll
  \/ \E v \in BOOLEAN : SetUdpAggregateByPeer(v)
  \/ \E r \in Retentions : SetStaleRetentionMs(r)
  \/ SetLocalAddresses

Spec == Init /\ [][Next]_vars

-----------------------------------------------------------------------------
AnyKey == (Flow \cup Peer) \X BOOLEAN

TypeOK ==
  /\ floor \in [Flow -> 0..MaxBytes]
  /\ inferable \in BOOLEAN /\ aggregateByPeer \in BOOLEAN /\ retention \in Retentions
  /\ \A g \in Peer : group[g].base \in Nat /\ group[g].age \in Nat \cup {Gone}
  /\ \A f \in Udp : member[f].bytes \in Nat /\ member[f].age \in Nat \cup {Gone}
  /\ \A i \in DOMAIN rows :
       rows[i] \in [key : AnyKey, bytes : Nat, raw : Nat, age : Nat, stale : BOOLEAN]
  /\ DOMAIN prev \subseteq AnyKey

\* m_keyToIdx, through which attribution patches find their row, has exactly the
\* rows of the table, each at its place, and no key has two rows.
IndexExact ==
  /\ DOMAIN keyToIdx = KeysOf(rows)
  /\ \A i \in DOMAIN rows : keyToIdx[rows[i].key] = i

\* The rows not shown as stale are exactly those of the last snapshot, with its
\* counters: none is stale while it is there, none live after it is gone.
LiveRowsAreSnapshot ==
  /\ {rows[i].key : i \in {j \in DOMAIN rows : ~rows[j].stale}} = DOMAIN prev
  /\ \A i \in DOMAIN rows : ~rows[i].stale => rows[i].bytes = prev[rows[i].key]

\* A member is counted under a peer that is in the table, and not seen later
\* than it: no bytes wait under a peer that has been dropped.
MembersHavePeer ==
  \A f \in Udp : member[f].age # Gone =>
    group[PeerOf[f]].age \in 0..member[f].age

\* A snapshot (only a snapshot changes the rows) removes the rows whose retention
\* is over and no others.
RetentionHonoured ==
  [][rows' # rows =>
       /\ \A i \in DOMAIN rows' : rows'[i].stale => rows'[i].age <= Budget(rows'[i].key)
       /\ \A i \in DOMAIN rows : rows[i].key \notin KeysOf(rows') =>
            /\ rows[i].key \notin DOMAIN prev'
            /\ \E dt \in Gaps : rows[i].age + dt > Budget(rows[i].key)]_vars

\* The counter of an aggregated row never goes back while the aggregation stays
\* on, whichever members restart, lapse or return, so its rate is never lost.
AggregateMonotone ==
  [][\A i \in DOMAIN rows, j \in DOMAIN rows' :
       /\ rows[i].key = rows'[j].key
       /\ rows[i].key[1] \in Peer /\ group[rows[i].key[1]].age # Gone
       => rows'[j].bytes >= rows[i].bytes]_vars

\* A rate is what two successive snapshots differ by: a row that was missing, or
\* whose counter restarted, never shows the bytes of several intervals at once.
RateSpansOneInterval ==
  [][rows' # rows =>
       \A j \in DOMAIN rows' : rows'[j].raw > 0 =>
         \E i \in DOMAIN rows :
           /\ rows[i].key = rows'[j].key /\ ~rows[i].stale
           /\ rows'[j].bytes = rows[i].bytes + rows'[j].raw]_vars

\* test_connection_aggregator.cpp: "Aggregate counters are the sum of the
\* members", here with no conntrack entry ever replaced.
AggregateIsSumOfMembers ==
  \A i \in DOMAIN rows :
    rows[i].key[1] \in Peer =>
      rows[i].bytes <= MapThenSumSet(LAMBDA f : floor[f],
                                     {f \in Udp : PeerOf[f] = rows[i].key[1]})
=============================================================================

----------------------- MODULE MCConnectionAggregator -----------------------
(* Small instances of ConnectionAggregator: two UDP flows to one peer, one  *)
(* of them with a direction that only the client may be able to tell, so    *)
(* that it is now a member of the peer and now a row of its own.            *)
EXTENDS ConnectionAggregator

UdpFlows == {2, 3}
OnePeer == {10}
ToOnePeer == [f \in UdpFlows |-> 10]
SecondUdp == {3}
Nobody == {}

ZeroOrOne == {[tcp |-> 1, udp |-> 0], [tcp |-> 0, udp |-> 1]}
OneEach == {[tcp |-> 1, udp |-> 1]}
UnitGap == {1}
=============================================================================

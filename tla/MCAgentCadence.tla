--------------------------- MODULE MCAgentCadence ---------------------------
(* Small instances of AgentCadence.  One unit of time is half a second.    *)
EXTENDS AgentCadence

CONSTANTS c1, c2, c3, net, conn

TwoClients == {c1, c2}
ThreeClients == {c1, c2, c3}
Nobody == {}
TheFirst == {c1}
NetAndConn == {net, conn}
OnlyNet == {net}

\* Clear, a request below the floor, one slower than the base, and one so large
\* that the cast to int makes it negative.
Requests == {0, 1, 5, 12}
FewRequests == {0, 2}
=============================================================================

---------------------------- MODULE ClientLease -----------------------------
(***************************************************************************)
(* What both hint tables of the agent promise, with no timer in sight: a   *)
(* client's hint is a lease.  Only a client on the bus takes one, at most  *)
(* Cap are held, a holder keeps its lease for Ttl unless it gives it up or *)
(* leaves (nobody evicts it), and no lease is held Grace past its term.    *)
(* IdleManager (AgentCadence) and AttributionHintManager (AttributionHints)*)
(* each implement it with a periodic timer that may run late.              *)
(***************************************************************************)
EXTENDS Integers, FiniteSets

CONSTANTS Client, Cap, Ttl, Grace, Unreported

VARIABLES
  held,     \* clients with a lease
  left,     \* term left on each lease, 0 for a client without one
  present   \* clients on the bus

vars == <<held, left, present>>

Init ==
  /\ held = {}
  /\ left = [c \in Client |-> 0]
  /\ present = Client

Lapsed == {c \in held : left[c] <= 0}

\* The leases in S are gone and the others untouched.
Drop(S) ==
  /\ held' = held \ S
  /\ left' = [c \in Client |-> IF c \in held \ S THEN left[c] ELSE 0]

\* Any handler may clean up some lapsed leases on its way.
Expire == \E S \in SUBSET Lapsed : Drop(S) /\ UNCHANGED present

Release(c) ==
  /\ c \in present
  /\ \E S \in SUBSET Lapsed : Drop(S \cup {c})
  /\ UNCHANGED present

Take(c) ==
  /\ c \in present
  /\ c \in held \/ Cardinality(held) < Cap
  /\ \E S \in SUBSET Lapsed :
       /\ held' = (held \ S) \cup {c}
       /\ left' = [d \in Client |-> IF d = c THEN Ttl
                                    ELSE IF d \in held \ S THEN left[d] ELSE 0]
  /\ UNCHANGED present

Leave(c) ==
  /\ c \in present
  /\ present' = present \ {c}
  /\ \/ \E S \in SUBSET Lapsed : Drop(S \cup {c})
     \/ c \in Unreported /\ UNCHANGED <<held, left>>

Pass ==
  /\ \A c \in held : left[c] - 1 > -Grace
  /\ left' = [c \in Client |-> IF c \in held THEN left[c] - 1 ELSE 0]
  /\ UNCHANGED <<held, present>>

Next ==
  \/ Expire
  \/ \E c \in Client : Release(c) \/ Take(c) \/ Leave(c)
  \/ Pass

Spec == Init /\ [][Next]_vars
=============================================================================

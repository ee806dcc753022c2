------------------------- MODULE MCAttributionHints -------------------------
(* Small instances of AttributionHints.  The refresh intervals keep the    *)
(* order of the real ones (eager 250 ms and 1 s, balanced 1 s and 5 s, off *)
(* 0) in small units.                                                      *)
EXTENDS AttributionHints, TLC

CONSTANTS c1, c2, c3

TwoClients == {c1, c2}
ThreeClients == {c1, c2, c3}
Nobody == {}
TheFirst == {c1}

CachePresets == (Off :> 0) @@ (Balanced :> 2) @@ (Eager :> 1)
NetnsPresets == (Off :> 0) @@ (Balanced :> 5) @@ (Eager :> 2)
=============================================================================

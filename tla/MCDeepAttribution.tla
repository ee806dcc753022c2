------------------------- MODULE MCDeepAttribution --------------------------
(* Small instances of DeepAttribution.                                     *)
EXTENDS DeepAttribution, TLC

CONSTANTS f1, f2, p1, p2, box

OneFlow == {f1}
TwoFlows == {f1, f2}
TwoProcs == {p1, p2}
OneBox == {box}

\* p1 runs on the host and p2 in a container.
Containers == (p1 :> NoCont) @@ (p2 :> box)

TwoLevels == {1, 2}
OneLevel == {1}
OneOrTwo == {1, 2}

FlowSymmetry == Permutations(Flow)
=============================================================================

---------------------------- MODULE MCDecorated ----------------------------
(* Two decorated branches, a claim on each of two machines.                *)
EXTENDS Decorated

CONSTANTS b1, b2, h1, h2, p1, p2

MCBranches == {b1, b2}
MCHosts    == {h1, h2}
MCProcs    == {p1, p2}
MCRank     == [b \in MCBranches |-> IF b = b1 THEN 1 ELSE 2]
\* The lane of the second branch is on the first machine; of the first
\* one only the remote has a copy.
MCCopies   == [h \in MCHosts |-> IF h = h1 THEN {b2} ELSE {}]
MCKeen     == {p1}
MCHostOf   == [p \in MCProcs |-> IF p = p1 THEN h1 ELSE h2]
=============================================================================

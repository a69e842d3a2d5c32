------------------------------- MODULE MCLane -------------------------------
(* A workshop and a laptop that keep their lanes under different paths.    *)
EXTENDS MarkerInv

Workshop == "workshop"
Laptop   == "laptop"

TwoHosts == {Workshop, Laptop}
OneEach == [p \in {"p1", "p2"} |-> IF p = "p1" THEN Workshop ELSE Laptop]
SplitVerbs == [p \in {"p1", "p2"} |->
    IF p = "p1" THEN {"claim", "start", "release", "yield", "reap"}
    ELSE {"start"}]
OwnPaths == [h \in {Workshop, Laptop} |-> h]
=============================================================================

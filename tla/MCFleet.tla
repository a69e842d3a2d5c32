------------------------------ MODULE MCFleet ------------------------------
(* Plan 2 waits on plan 1 and its two phases, or both are free at once.    *)
EXTENDS Fleet, TLC

CONSTANTS h1, h2

TwoPlans == {1, 2}
Chain    == 1 :> [deps |-> {}, phases |-> 2] @@
            2 :> [deps |-> {1}, phases |-> 1]
Abreast  == [p \in TwoPlans |-> [deps |-> {}, phases |-> 1]]
ChainOrAbreast == {Chain, Abreast}

StatusRank == [s \in Status |->
    CASE s = "done" -> 0 [] s = "wip" -> 1 [] s = "todo" -> 2
      [] OTHER -> 3]
Oids == [c \in [status : Status, open : 0..2] |->
            3 * StatusRank[c.status] + c.open]
=============================================================================

------------------------------ MODULE MCLease ------------------------------
(* Small instances of Lease for TLC.                                       *)
EXTENDS RegisterInv, TLC

CONSTANTS h1, h2, p1, p2, p3

TwoHosts == {h1, h2}

\* One command per clone; the two clones are interchangeable.
OnePerHost == p1 :> h1 @@ p2 :> h2
Swap == {h1 :> h2 @@ h2 :> h1 @@ p1 :> p2 @@ p2 :> p1}

\* Two commands at once in the clone h1.
TwoOnOne == p1 :> h1 @@ p2 :> h2 @@ p3 :> h1
OneClone == p1 :> h1 @@ p3 :> h1
=============================================================================

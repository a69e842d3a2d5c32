----------------------------- MODULE MCObserver -----------------------------
(* Small instances of Observer for TLC.                                    *)
EXTENDS ObserverInv, TLC

CONSTANTS r1, r2

\* Two verbs of the same host are interchangeable.
Verbs == Permutations(Runs)
=============================================================================

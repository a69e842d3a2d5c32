---------------------------- MODULE ObserverInv ----------------------------
(* The inductive invariant behind Observer's properties.                   *)
EXTENDS Observer

\* A window never starts before its tip became the remote's, and every
\* look but the first adds at most Gap to its span.
Sound(w) ==
    w.tip # 0 =>
        /\ w.tip < next
        /\ w.tip = remote => bornAt <= w.first
        /\ w.last <= now
        /\ w.samples >= 1
        /\ Span(w) <= (w.samples - 1) * Gap

\* Tips are used once, in order, and none is from the future.
RefsInv ==
    /\ remote < next /\ view < next
    /\ bornAt <= now

VerbInv(r) ==
    /\ r.watch < next
    /\ r.at <= now
    /\ r.pc = "clocked" /\ r.watch = remote => bornAt <= r.at
    /\ Sound(r.win)
    /\ r.stale =>
          /\ r.pc = "save" /\ r.win.tip # 0
          /\ Span(r.win) > Wait(chain[r.win.tip])
    /\ r.pc = "reset" => r.watch # 0
    /\ r.pc = "take" =>
          /\ r.watch # 0
          /\ r.watch = remote => now - bornAt > Wait(chain[r.watch])

IInv ==
    /\ TypeOK
    /\ RefsInv
    /\ Sound(store)
    /\ \A p \in Runs : VerbInv(run[p])
=============================================================================

------------------------------ MODULE Observer ------------------------------
(***************************************************************************)
(* How one host decides that a plan's lease is stale (internal/observe,    *)
(* internal/discovery/stale.go, observeHolds and mintOrTakeOver of         *)
(* cmd/frit).                                                              *)
(*                                                                         *)
(* Every fleet-reading verb fetches, reads the work ref's tip off the      *)
(* clone's tracking refs, and folds it into a window kept in a per-host    *)
(* state file: which tip, when this host first and last saw it, how many   *)
(* looks agreed.  claim and start take over a hold whose window spans more *)
(* than (k+1)*T, k being the takeovers already in the chain, by CAS on     *)
(* exactly the watched tip.  The state file is loaded and replaced whole,  *)
(* with no lock between the two, by every verb that runs on the host.      *)
(*                                                                         *)
(* The module watches one held plan; a verb is a process that may stop     *)
(* anywhere.  The other hosts are the environment, which moves the ref.    *)
(***************************************************************************)
EXTENDS Integers

CONSTANTS
    Runs,         \* verbs that may run on the host
    T,            \* the takeover window
    Gap,          \* the sample gap S_max
    CountFaults,  \* whether counting the chain's takeovers may fail
    MaxTime,      \* bound: the last instant
    MaxTips,      \* bound: tips the work ref ever has
    MaxSamples    \* bound: looks one window counts

ASSUME ClockAssumption ==
    /\ T \in Nat /\ Gap \in Nat
    /\ MaxTime \in Nat /\ MaxTips \in Nat /\ MaxSamples \in Nat \ {0}
ASSUME FaultAssumption == CountFaults \in BOOLEAN

VARIABLES
    now,      \* the host's clock
    remote,   \* tip of the work ref on the remote, 0 when absent
    next,     \* the next tip nobody has used
    bornAt,   \* when the remote's tip came to be there
    chain,    \* takeover markers in each tip's chain
    view,     \* the clone's tracking copy of remote
    store,    \* the window in the state file
    run       \* per verb: what it has read and decided

vars == <<now, remote, next, bornAt, chain, view, store, run>>

Times  == 0..MaxTime
TipIds == 1..MaxTips
Tips   == 0..MaxTips

\* reached is not in the state file: it records whether a look that
\* extended the window came from a fetch that reached the remote.
Window == [tip : Tips, first : Times, last : Times, samples : 0..MaxSamples,
           reached : BOOLEAN]
NoWindow == [tip |-> 0, first |-> 0, last |-> 0, samples |-> 0, reached |-> FALSE]

Fresh(tip, at) ==
    [tip |-> tip, first |-> at, last |-> at, samples |-> 1, reached |-> FALSE]

Span(w) == w.last - w.first

\* Mutant of Observe: a moved tip extends the window of the old one.
ObserveAnyTip(w, tip, at, reached) ==
    IF w.tip = 0 \/ at - w.last > Gap THEN Fresh(tip, at)
    ELSE [w EXCEPT !.tip = tip, !.last = at, !.samples = @ + 1]

\* Mutant of Observe: a wide gap between two looks does not void.
ObserveAcrossGaps(w, tip, at, reached) ==
    IF w.tip # tip THEN Fresh(tip, at)
    ELSE [w EXCEPT !.last = at, !.samples = @ + 1, !.reached = @ \/ reached]

\* One look: the same tip within the gap extends the window; a moved tip,
\* a wide gap or no window at all starts one now.
Observe(w, tip, at, reached) ==
    IF w.tip # tip \/ at - w.last > Gap THEN Fresh(tip, at)
    ELSE [w EXCEPT !.last = at, !.samples = @ + 1, !.reached = @ \/ reached]

\* Mutant of StaleHold: the window itself is enough, off by one.
StaleHoldAtThreshold(w, at, threshold) ==
    w.tip # 0 /\ at - w.last <= Gap /\ Span(w) >= threshold

\* Matured: one tip for more than the threshold, looked at until now.
StaleHold(w, at, threshold) ==
    w.tip # 0 /\ at - w.last <= Gap /\ Span(w) > threshold

\* Mutant of TakeoverCounts: the chain's takeovers are not counted.
TakeoverCountsNone(tip) == {0}

\* TakeoverCount answers zero on a git fault.
TakeoverCounts(tip) == IF CountFaults THEN {0, chain[tip]} ELSE {chain[tip]}

-----------------------------------------------------------------------------
(* A verb.  watch is the tip it gathered, fetched where its pass reached a *)
(* remote: this repository's, only another's, or none; at is its clock     *)
(* reading, win the window it will save, stale its verdict.  A field no    *)
(* later step reads is back at its value in Idle.                          *)

PCs == {"idle", "gathered", "clocked", "save", "take", "reset"}

Fetches == {"none", "elsewhere", "here"}

Verb == [pc : PCs, watch : Tips, fetched : Fetches, at : Times,
         win : Window, stale : BOOLEAN]

Idle == [pc |-> "idle", watch |-> 0, fetched |-> "none", at |-> 0,
         win |-> NoWindow, stale |-> FALSE]

TypeOK ==
    /\ now \in Times /\ bornAt \in Times
    /\ remote \in Tips /\ view \in Tips
    /\ next \in 1..(MaxTips + 1)
    /\ chain \in [TipIds -> Nat]
    /\ store \in Window
    /\ run \in [Runs -> Verb]

Init ==
    /\ now = 0 /\ bornAt = 0
    /\ remote = 0 /\ view = 0 /\ next = 1
    /\ chain = [t \in TipIds |-> 0]
    /\ store = NoWindow
    /\ run = [p \in Runs |-> Idle]

refVars == <<remote, next, bornAt, chain>>

\* The ref moves to a tip it never had before.
MoveTo(k) ==
    /\ next <= MaxTips
    /\ remote' = next
    /\ next' = next + 1
    /\ bornAt' = now
    /\ chain' = [chain EXCEPT ![next] = k]

-----------------------------------------------------------------------------
(* The environment: time, the other hosts, and the host's own disk.        *)

Tick ==
    /\ now < MaxTime
    /\ now' = now + 1
    /\ UNCHANGED <<refVars, view, store, run>>

\* Another host claims the absent ref, beats, or takes the lease over.
Push ==
    /\ IF remote = 0 THEN MoveTo(0)
       ELSE \E k \in {chain[remote], chain[remote] + 1} : MoveTo(k)
    /\ UNCHANGED <<now, view, store, run>>

\* The ref is scavenged.
Delete ==
    /\ remote # 0
    /\ remote' = 0
    /\ bornAt' = 0
    /\ UNCHANGED <<now, next, chain, view, store, run>>

\* The state file is lost or unreadable: a cold start.
LoseStore ==
    /\ store # NoWindow
    /\ store' = NoWindow
    /\ UNCHANGED <<now, refVars, view, run>>

-----------------------------------------------------------------------------
(* The verb's steps, in the order of gatherFleetOpts and observeHolds.     *)

\* The pass reads the tip off the tracking copy, which the fetch has just
\* refreshed, or left alone when it failed or was skipped.  Fetched counts
\* the whole fleet, so another repository's fetch stands for this one's.
Gather(p) ==
    /\ run[p].pc = "idle"
    /\ \E fetched \in Fetches :
          /\ view' = IF fetched = "here" THEN remote ELSE view
          /\ run' = [run EXCEPT ![p] = [Idle EXCEPT
                        !.pc = "gathered", !.watch = view', !.fetched = fetched]]
    /\ UNCHANGED <<now, refVars, store>>

ReadClock(p) ==
    /\ run[p].pc = "gathered"
    /\ run' = [run EXCEPT ![p].pc = "clocked", ![p].at = now]
    /\ UNCHANGED <<now, refVars, view, store>>

\* The state is loaded and the look folded into it.  No ref to watch drops
\* the window, or leaves it as loaded when the pass confirmed nothing.
Fold(p) ==
    LET r == run[p] IN
    /\ r.pc = "clocked"
    /\ \/ /\ r.watch = 0
          /\ run' = [run EXCEPT ![p] = [Idle EXCEPT !.pc = "save",
                        !.win = IF r.fetched # "none" THEN NoWindow ELSE store]]
       \/ LET w == Observe(store, r.watch, r.at, r.fetched = "here") IN
          /\ r.watch # 0 /\ w.samples <= MaxSamples
          /\ \E k \in TakeoverCounts(r.watch) :
                run' = [run EXCEPT ![p] = [Idle EXCEPT
                           !.pc = "save", !.win = w,
                           !.stale = StaleHold(w, r.at, (k + 1) * T)]]
    /\ UNCHANGED <<now, refVars, view, store>>

\* The state file is replaced whole, or cannot be written.
Save(p) ==
    /\ run[p].pc = "save"
    /\ store' \in {run[p].win, store}
    /\ run' = [run EXCEPT ![p] =
                  IF ~run[p].stale THEN Idle
                  ELSE [Idle EXCEPT !.pc = "take", !.watch = run[p].win.tip]]
    /\ UNCHANGED <<now, refVars, view>>

\* The takeover wins its CAS on the watched tip.
Takeover(p) ==
    /\ run[p].pc = "take"
    /\ remote = run[p].watch
    /\ MoveTo(chain[run[p].watch] + 1)
    /\ view' = next
    /\ run' = [run EXCEPT ![p] = Idle]
    /\ UNCHANGED <<now, store>>

\* The holder's session is alive here: the takeover is vetoed and the
\* holder's lease renewed from the watched tip instead.
BeatForHolder(p) ==
    /\ run[p].pc = "take"
    /\ remote = run[p].watch
    /\ MoveTo(chain[run[p].watch])
    /\ view' = next
    /\ run' = [run EXCEPT ![p] = Idle]
    /\ UNCHANGED <<now, store>>

\* The takeover loses its CAS; the loser reads the tip that beat it.
TakeoverLost(p) ==
    /\ run[p].pc = "take"
    /\ remote \notin {0, run[p].watch}
    /\ run' = [run EXCEPT ![p] = [Idle EXCEPT !.pc = "reset", !.watch = remote]]
    /\ UNCHANGED <<now, refVars, view, store>>

\* resetWindow: the window restarts on the tip that won.
ResetWindow(p) ==
    /\ run[p].pc = "reset"
    /\ store' = Observe(NoWindow, run[p].watch, now, TRUE)
    /\ run' = [run EXCEPT ![p] = Idle]
    /\ UNCHANGED <<now, refVars, view>>

\* A verb that only reads, is refused, fails or is killed.
Stop(p) ==
    /\ run[p].pc # "idle"
    /\ run' = [run EXCEPT ![p] = Idle]
    /\ UNCHANGED <<now, refVars, view, store>>

Next ==
    \/ Tick \/ Push \/ Delete \/ LoseStore
    \/ \E p \in Runs :
          \/ Gather(p) \/ ReadClock(p) \/ Fold(p) \/ Save(p)
          \/ Takeover(p) \/ BeatForHolder(p) \/ TakeoverLost(p)
          \/ ResetWindow(p) \/ Stop(p)

Spec == Init /\ [][Next]_vars

-----------------------------------------------------------------------------
\* How long a tip must have sat before it may be taken from: the backoff
\* is lost, and only the bare window is left, when the count can fail.
Wait(k) == IF CountFaults THEN T ELSE (k + 1) * T

\* A takeover for staleness never displaces a tip that was the remote's
\* for less than the backed-off window, however the verbs of the host
\* race on the state file, miss fetches or lose the file
\* (mintOrTakeOver: the CAS is on the tip the window matured on).
TakenAfterWindow ==
    [][\A p \in Runs : Takeover(p) => now - bornAt > Wait(chain[remote])]_vars

\* A hold is read stale only on enough looks: no more than Gap of its span
\* is vouched for by one look.  ("a matured window holds at least five
\* samples and an observer that slept cannot mature one from two far-apart
\* looks", discovery/stale.go, at Gap = T/4.)
StaleOnManyLooks ==
    \A p \in Runs : run[p].stale => (run[p].win.samples - 1) * Gap > T

\* "a gap over S_max, because the observer slept or origin was unreachable
\* - restarts, so an origin outage resets every observer"
\* (docs/research/lease-protocol.md): a hold is read stale only if some look
\* of its window after the first had reached the remote.
OutageResets ==
    \A p \in Runs : run[p].stale => run[p].win.reached
=============================================================================

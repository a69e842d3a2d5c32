------------------------------- MODULE Lease -------------------------------
(***************************************************************************)
(* The lease protocol of frit (internal/claim) for ONE plan.               *)
(*                                                                         *)
(* A plan is leased through a single git ref, refs/heads/plan/<id>, on the *)
(* remote.  Every transition mints a marker commit and pushes it with      *)
(* --force-with-lease, so the remote arbitrates by compare-and-swap; a     *)
(* push whose answer is lost is classified by reading the ref back.        *)
(*                                                                         *)
(* A clone ("host") keeps a local copy of the ref and at most one worktree *)
(* on the branch (git refuses a second), whose private git dir stores the  *)
(* lane's token.  Its remote-tracking refs are not kept as state: a fetch  *)
(* that fails leaves a view from the past, and the model lets such a view  *)
(* be any older tip.  A process is one frit command running in a clone; it *)
(* may stop at any point.  Commits made with plain git by the agents in    *)
(* the lanes, and merges made on the forge, are the environment's.         *)
(***************************************************************************)
EXTENDS Integers, FiniteSets, FiniteSetsExt

CONSTANTS
    Hosts,        \* clones of the repository, one per machine
    Procs,        \* frit commands that may run
    HostOf,       \* the clone each command runs in
    MaxCommits,   \* bound: commits that may ever be made
    MaxWork,      \* bound: how many of them are the agents' own
    MaxInFlight,  \* bound: abandoned pushes the remote may still apply
    StaleViews    \* whether fetches of the work ref may fail

ASSUME HostAssumption   == HostOf \in [Procs -> Hosts]
ASSUME NoHostAssumption == "nobody" \notin Hosts
ASSUME BoundAssumption  ==
    /\ MaxCommits \in Nat \ {0}
    /\ MaxWork \in Nat
    /\ MaxInFlight \in Nat
ASSUME ViewAssumption   == StaleViews \in BOOLEAN

VARIABLES
    commits,      \* the object store; objects are never changed once made
    next,         \* the id of the next commit to be made
    main,         \* tip of the base branch on the remote
    remote,       \* tip of the work ref on the remote, 0 when absent
    rescue,       \* agents' commits parked under the plan's rescue refs
    net,          \* pushes the client gave up on and the remote may apply
    local,        \* per host: the clone's own copy of the work ref
    token,        \* per host: token in the lane worktree's git dir, or 0
    wt,           \* per host: a worktree stands on the work branch
    proc          \* per process: the command it is running

vars == <<commits, next, main, remote, rescue, net,
          local, token, wt, proc>>

-----------------------------------------------------------------------------
(* The commit graph.  A commit's id is its rank in time, which is the      *)
(* order git log walks in; anc is its history, itself included, and tree   *)
(* the agents' commits whose content its tree carries.                     *)

CommitIds == 1..MaxCommits
Tips      == 0..MaxCommits
Root      == 1

Markers   == {"claim", "beat", "release", "takeover"}
Kinds     == Markers \cup {"none", "main", "work"}
Nobody    == "nobody"

Commit == [kind : Kinds, epoch : Nat, holder : Hosts \cup {Nobody},
           anc : SUBSET CommitIds, tree : SUBSET CommitIds]

Plain(kind, anc, tree) ==
    [kind |-> kind, epoch |-> 0, holder |-> Nobody, anc |-> anc, tree |-> tree]

Unborn == Plain("none", {}, {})

Anc(c)       == commits[c].anc
Tree(c)      == commits[c].tree
IsMarker(c)  == commits[c].kind \in Markers
MarkersOf(c) == {m \in Anc(c) : IsMarker(m)}

\* The marker that governs a tip: the newest one reachable from it.
HasMarker(c)    == MarkersOf(c) # {}
LatestMarker(c) == Max(MarkersOf(c))
Governs(c)      == commits[LatestMarker(c)]

Released(c) == commits[c].kind = "release"

\* The nearest marker that is not a beat establishes the hold or ends it.
TerminalsOf(c) == {m \in MarkersOf(c) : commits[m].kind # "beat"}
LiveHold(c) ==
    /\ TerminalsOf(c) # {}
    /\ commits[Max(TerminalsOf(c))].kind # "release"

\* Mutant of OwnAdvance: ancestry alone proves the lease.
OwnAdvanceByAncestry(t, tip) == t \in Anc(tip) /\ IsMarker(t)

OwnAdvance(t, tip) ==
    /\ t \in Anc(tip)
    /\ IsMarker(t)
    /\ Governs(tip).kind # "release"
    /\ Governs(tip).epoch = commits[t].epoch
    /\ Governs(tip).holder = commits[t].holder

TokenProves(t, tip) ==
    /\ t # 0 /\ tip # 0
    /\ t = tip \/ OwnAdvance(t, tip)

HasWork(b, tip)   == \E w \in Anc(tip) \ Anc(b) : ~IsMarker(w)
Landed(b, tip)    == Tree(tip) \subseteq Tree(b)
Unlanded(b, tip)  == HasWork(b, tip) /\ ~Landed(b, tip)
LandedTip(b, tip) == tip \in Anc(b) \/ (HasWork(b, tip) /\ Landed(b, tip))

\* The commits a clone may take for the base: its remote-tracking copy,
\* refreshed or, when that fetch fails, left where it was.
Bases == {c \in Anc(main) : commits[c].kind = "main"}

\* The tips a clone may take for the remote's, 0 for an absent ref.
Views == IF StaleViews THEN {remote, 0} \cup {c \in CommitIds : c < next}
         ELSE {remote}

\* What a gather reports of view and the local copy: the hold's tip, the
\* remote's copy first, and whether either is a live hold not yet merged.
HoldTip(h, view) == IF view # 0 THEN view ELSE local[h]
Held(h, view, b) ==
    \E t \in {view, local[h]} \ {0} : LiveHold(t) /\ t \notin Anc(b)

-----------------------------------------------------------------------------
(* A running command.  from is the tip its transition is CASed from, and   *)
(* after a loss the tip that won; parent the commit a claim is built on;   *)
(* seen the local copy's value read before minting; marker the minted      *)
(* commit (0 for a delete).  A field is 0 where it is no longer used.      *)

Ops == {"none", "claim", "takeover", "renew", "bind", "rebind",
        "beatfor", "release", "scavenge"}
PCs == {"idle", "mint", "push", "confirm", "lost", "sync", "persist",
        "leased", "stood", "abort", "park", "delete"}

Proc == [pc : PCs, op : Ops, from : Tips, parent : Tips,
         seen : Tips, marker : Tips]

Run(pc, op, from, parent, seen, marker) ==
    [pc |-> pc, op |-> op, from |-> from, parent |-> parent,
     seen |-> seen, marker |-> marker]

Idle == Run("idle", "none", 0, 0, 0, 0)

IsIdle(p) == proc[p].pc = "idle"
At(p, pc) == proc[p].pc = pc
Become(p, r) == proc' = [proc EXCEPT ![p] = r]
Goto(p, pc)  == Become(p, [proc[p] EXCEPT !.pc = pc])
Finish(p)    == Become(p, Idle)

Set(f, h, v) == [f EXCEPT ![h] = v]

Store(c) ==
    /\ next <= MaxCommits
    /\ commits' = [commits EXCEPT ![next] = c]
    /\ next' = next + 1

Marker(kind, parent, epoch, holder) ==
    [kind |-> kind, epoch |-> epoch, holder |-> holder,
     anc |-> Anc(parent) \cup {next}, tree |-> Tree(parent)]

TypeOK ==
    /\ commits \in [CommitIds -> Commit]
    /\ next \in 2..(MaxCommits + 1)
    /\ main \in CommitIds
    /\ remote \in Tips
    /\ rescue \subseteq CommitIds
    /\ net \subseteq [from : Tips, marker : Tips]
    /\ local \in [Hosts -> Tips]
    /\ token \in [Hosts -> Tips]
    /\ \A h \in Hosts : token[h] # 0 => wt[h]
    /\ wt \in [Hosts -> BOOLEAN]
    /\ proc \in [Procs -> Proc]

Init ==
    /\ commits = [c \in CommitIds |->
                    IF c = Root THEN Plain("main", {Root}, {}) ELSE Unborn]
    /\ next = 2
    /\ main = Root
    /\ remote = 0
    /\ rescue = {}
    /\ net = {}
    /\ local = [h \in Hosts |-> 0]
    /\ token = [h \in Hosts |-> 0]
    /\ wt = [h \in Hosts |-> FALSE]
    /\ proc = [p \in Procs |-> Idle]

graphVars == <<commits, next>>
serverVars == <<main, remote, rescue, net>>
laneVars == <<token, wt>>

-----------------------------------------------------------------------------
(* The environment: agents working with plain git, and the forge.          *)

\* An agent commits in the lane's worktree, or somebody starts the branch
\* by hand off the base.
Work(h) ==
    /\ Cardinality({c \in CommitIds : commits[c].kind = "work"}) < MaxWork
    /\ \E on \in IF local[h] = 0 THEN Bases ELSE {local[h]} :
          /\ wt[h] \/ local[h] = 0
          /\ Store(Plain("work", Anc(on) \cup {next}, Tree(on) \cup {next}))
    /\ local' = Set(local, h, next)
    /\ UNCHANGED <<serverVars, laneVars, proc>>

\* git merge --ff-only of the base into the lane's branch.
FastForward(h) ==
    /\ wt[h] /\ local[h] # 0
    /\ \E b \in Bases \ {local[h]} :
          local[h] \in Anc(b) /\ local' = Set(local, h, b)
    /\ UNCHANGED <<graphVars, serverVars, laneVars, proc>>

\* A plain git push of the branch: the remote takes only a fast-forward.
\* (Recreating a deleted ref by hand is outside the protocol's trust.)
PushWork(h) ==
    /\ local[h] # 0 /\ remote # 0 /\ local[h] # remote
    /\ remote \in Anc(local[h])
    /\ remote' = local[h]
    /\ UNCHANGED <<graphVars, main, rescue, net, local, laneVars, proc>>

\* The forge lands the work ref on the base, keeping its history or not.
Land(history) ==
    /\ HasWork(main, remote) /\ ~Landed(main, remote)
    /\ Store(Plain("main", Anc(main) \cup history \cup {next},
                   Tree(main) \cup Tree(remote)))
    /\ main' = next
    /\ UNCHANGED <<remote, rescue, net, local, laneVars, proc>>

LandMerge  == remote # 0 /\ Land(Anc(remote))
LandSquash == remote # 0 /\ Land({})

-----------------------------------------------------------------------------
(* Acquire: read the ref, then claim an absent one at epoch 1 on the base  *)
(* or a released one at the next epoch on its release marker.              *)

\* A fresh claim refuses a local branch the base does not contain.
Diverges(h, b) == local[h] # 0 /\ local[h] \notin Anc(b)

\* The read of the ref, where remoteHolder folds an unreadable remote to
\* "absent", and what it leads to.
Acquire(p) ==
    LET h == HostOf[p]
        claim(from, parent) ==
            Become(p, Run("mint", "claim", from, parent, 0, 0))
    IN
    /\ IsIdle(p)
    /\ \E view \in Views, b \in Bases :
          /\ ~Held(h, view, b)
          /\ \/ ~Diverges(h, b) /\ claim(0, b)
             \/ remote # 0 /\ Released(remote) /\ claim(remote, remote)
             \/ /\ remote # 0 /\ ~Released(remote)
                /\ Become(p, Run("lost", "claim", remote, 0, 0, 0))
    /\ UNCHANGED <<graphVars, serverVars, local, laneVars>>

\* Mutant of ClaimEpoch: a released ref is re-acquired at its old epoch.
ClaimEpochKept(from) == IF from = 0 THEN 1 ELSE commits[from].epoch

ClaimEpoch(from) == IF from = 0 THEN 1 ELSE commits[from].epoch + 1

ClaimMint(p) ==
    LET h == HostOf[p] IN
    /\ At(p, "mint")
    /\ Store(Marker("claim", proc[p].parent, ClaimEpoch(proc[p].from), h))
    /\ Become(p, Run("push", "claim", proc[p].from, 0, local[h], next))
    /\ UNCHANGED <<serverVars, local, laneVars>>

-----------------------------------------------------------------------------
(* The holder's transitions: advance mints a marker of the same epoch and  *)
(* CASes it from the recorded tip.                                         *)

\* Mutant of RelayBase: a local branch beside from is relayed too.
RelayBaseDiverged(h, from) ==
    IF local[h] # 0 /\ local[h] \notin Anc(from) THEN {local[h]} ELSE {from}

\* relayBase: the lane's own fast-forward of from is carried along; a
\* local branch beside from is refused.
RelayBase(h, from) ==
    IF local[h] # 0 /\ from \in Anc(local[h]) THEN {local[h]}
    ELSE IF local[h] = 0 \/ local[h] \in Anc(from) THEN {from}
    ELSE {}

\* holderBase: on another's behalf nothing local is ever carried along.
HolderBase(h, from) ==
    IF local[h] = 0 \/ local[h] \in Anc(from) THEN {from} ELSE {}

Advance(p, op, kind, from, holder, parents) ==
    /\ HasMarker(from)
    /\ \E parent \in parents :
          /\ Store(Marker(kind, parent, Governs(from).epoch, holder))
          /\ Become(p, Run("push", op, from, 0, local[HostOf[p]], next))
    /\ UNCHANGED <<serverVars, local, laneVars>>

OwnHold(h, tip) == HasMarker(tip) /\ Governs(tip).holder = h

\* ownToken: the lane acts on its lease when its token proves the tip
\* the remote carries now.
OwnToken(h) == wt[h] /\ TokenProves(token[h], remote)

Renew(p) ==
    LET h == HostOf[p] IN
    /\ IsIdle(p) /\ OwnToken(h)
    /\ Advance(p, "renew", "beat", remote, h, RelayBase(h, remote))

Release(p) ==
    LET h == HostOf[p] IN
    /\ IsIdle(p) /\ OwnToken(h)
    /\ \E view \in Views, b \in Bases : Held(h, view, b)
    /\ Advance(p, "release", "release", remote, h, RelayBase(h, remote))

\* A hold is taken from when it is gathered as held, and as stale or
\* dead: facts of the observer and of herdr, not of the lease.
Gathered(h, tip) ==
    \E view \in Views, b \in Bases : Held(h, view, b) /\ tip = HoldTip(h, view)

\* A vetoed takeover beats for a holder whose session this host sees
\* alive: only beats name a session, and sessions live on the holder's
\* own host.
BeatFor(p) ==
    LET h == HostOf[p] IN
    /\ IsIdle(p)
    /\ \E tip \in CommitIds :
          /\ Gathered(h, tip) /\ OwnHold(h, tip) /\ Governs(tip).kind = "beat"
          /\ Advance(p, "beatfor", "beat", tip, h, HolderBase(h, tip))

\* RenewToBind: the started agent's session is stamped on the lease.
Bind(p) ==
    LET h == HostOf[p] IN
    /\ At(p, "stood")
    /\ Advance(p, "bind", "beat", proc[p].marker, h,
               RelayBase(h, proc[p].marker))

\* One reconcile, when the tip that won is this lane's own hold.
Rebind(p) ==
    LET h == HostOf[p] IN
    /\ At(p, "lost") /\ proc[p].op = "bind"
    /\ OwnHold(h, proc[p].from)
    /\ Advance(p, "rebind", "beat", proc[p].from, h,
               RelayBase(h, proc[p].from))

\* A lane that could not be stood up, or whose handoff died, gives its
\* lease back.
Unwind(p) ==
    LET h == HostOf[p] IN
    /\ At(p, "leased") \/ At(p, "abort")
    /\ Advance(p, "release", "release", proc[p].marker, h,
               RelayBase(h, proc[p].marker))

\* Mutant of Takeover: the epoch is kept, as in a renewal.
TakeoverSameEpoch(p) ==
    LET h == HostOf[p] IN
    /\ IsIdle(p)
    /\ \E from \in CommitIds :
          /\ Gathered(h, from) /\ HasMarker(from)
          /\ Store(Marker("takeover", from, Governs(from).epoch, h))
          /\ Become(p, Run("push", "takeover", from, 0, local[h], next))
    /\ UNCHANGED <<serverVars, local, laneVars>>

\* Takeover: a child of exactly the observed tip, at the next epoch.
Takeover(p) ==
    LET h == HostOf[p] IN
    /\ IsIdle(p)
    /\ \E from \in CommitIds :
          /\ Gathered(h, from) /\ HasMarker(from)
          /\ Store(Marker("takeover", from, Governs(from).epoch + 1, h))
          /\ Become(p, Run("push", "takeover", from, 0, local[h], next))
    /\ UNCHANGED <<serverVars, local, laneVars>>

-----------------------------------------------------------------------------
(* casPush and casDelete: the arbitrated push and its classification.      *)

Outcome(p) == IF proc[p].op = "scavenge" THEN "delete" ELSE "sync"

\* Mutant of PushAcked: a plain --force, without the lease on from.
PushAckedForced(p) ==
    /\ At(p, "push")
    /\ remote' = proc[p].marker
    /\ Goto(p, Outcome(p))
    /\ UNCHANGED <<graphVars, main, rescue, net, local, laneVars>>

\* The remote applies the push and the client is told so.
PushAcked(p) ==
    /\ At(p, "push") /\ remote = proc[p].from
    /\ remote' = proc[p].marker
    /\ Goto(p, Outcome(p))
    /\ UNCHANGED <<graphVars, main, rescue, net, local, laneVars>>

\* The remote applies the push and the answer is lost.
PushUnacked(p) ==
    /\ At(p, "push") /\ remote = proc[p].from
    /\ remote' = proc[p].marker
    /\ Goto(p, "confirm")
    /\ UNCHANGED <<graphVars, main, rescue, net, local, laneVars>>

\* Mutant of PushFailed: the push is taken for applied, unconfirmed.
PushFailedIgnored(p) ==
    /\ At(p, "push")
    /\ Goto(p, Outcome(p))
    /\ UNCHANGED <<graphVars, serverVars, local, laneVars>>

\* The remote refuses the push, or never sees it.
PushFailed(p) ==
    /\ At(p, "push")
    /\ Goto(p, "confirm")
    /\ UNCHANGED <<graphVars, serverVars, local, laneVars>>

\* The client gives up while the push is still on its way.
PushAbandoned(p) ==
    /\ At(p, "push") /\ Cardinality(net) < MaxInFlight
    /\ net' = net \cup {[from |-> proc[p].from, marker |-> proc[p].marker]}
    /\ Goto(p, "confirm")
    /\ UNCHANGED <<graphVars, main, remote, rescue, local, laneVars>>

\* Mutant of Deliver: the late push is applied whatever the ref says.
DeliverForced(m) ==
    /\ net' = net \ {m}
    /\ remote' = m.marker
    /\ UNCHANGED <<graphVars, main, rescue, local, laneVars, proc>>

\* The remote gets to an abandoned push.
Deliver(m) ==
    /\ net' = net \ {m}
    /\ remote' = IF remote = m.from THEN m.marker ELSE remote
    /\ UNCHANGED <<graphVars, main, rescue, local, laneVars, proc>>

\* The confirming read: our own marker is a win, another's a loss that
\* names the mover (only a lost claim, takeover or bind acts on it), and
\* a delete is confirmed by absence.  No ref where a marker was pushed is
\* a fault.
Confirm(p) ==
    /\ At(p, "confirm")
    /\ \/ remote = proc[p].marker /\ Goto(p, Outcome(p))
       \/ /\ remote \notin {proc[p].marker, 0}
          /\ IF proc[p].op \notin {"claim", "takeover", "bind"} THEN Finish(p)
             ELSE Become(p, Run("lost", proc[p].op, remote, 0, 0, 0))
    /\ UNCHANGED <<graphVars, serverVars, local, laneVars>>

\* The confirming read fails too, or finds no ref at all.
Unconfirmed(p) ==
    /\ At(p, "confirm")
    /\ Finish(p)
    /\ UNCHANGED <<graphVars, serverVars, local, laneVars>>

\* syncLocalRef: only from exactly the value seen before minting.
AfterSync(p) ==
    IF proc[p].op = "release" THEN Finish(p)
    ELSE Become(p, Run("persist", proc[p].op, 0, 0, 0, proc[p].marker))

\* Mutant of Sync: update-ref without the expected old value.
SyncForced(p) ==
    LET h == HostOf[p] IN
    /\ At(p, "sync")
    /\ local' = Set(local, h, proc[p].marker)
    /\ AfterSync(p)
    /\ UNCHANGED <<graphVars, serverVars, laneVars>>

Sync(p) ==
    LET h == HostOf[p] IN
    /\ At(p, "sync")
    /\ \/ local[h] = proc[p].seen /\ local' = Set(local, h, proc[p].marker)
       \/ UNCHANGED local
    /\ AfterSync(p)
    /\ UNCHANGED <<graphVars, serverVars, laneVars>>

\* Mutant of Persist: the token is written with no worktree to hold it.
PersistAnyway(p) ==
    LET h == HostOf[p] IN
    /\ At(p, "persist")
    /\ token' = Set(token, h, proc[p].marker)
    /\ CASE proc[p].op \in {"claim", "takeover"} -> Goto(p, "leased")
         [] proc[p].op = "renew" -> Goto(p, "stood")
         [] OTHER -> Finish(p)
    /\ UNCHANGED <<graphVars, serverVars, local, wt>>

\* persistToken: nothing to write to when no worktree stands.
Persist(p) ==
    LET h == HostOf[p] IN
    /\ At(p, "persist")
    /\ token' = IF wt[h] THEN Set(token, h, proc[p].marker) ELSE token
    /\ CASE proc[p].op \in {"claim", "takeover"} -> Goto(p, "leased")
         [] proc[p].op = "renew" -> Goto(p, "stood")
         [] OTHER -> Finish(p)
    /\ UNCHANGED <<graphVars, serverVars, local, wt>>

-----------------------------------------------------------------------------
(* Standing the lane up, unwinding it, and tearing it down.                *)

\* Mutant of ParkUnlanded: nothing is parked.
ParkNothing(b, tip) == rescue

\* park creates a rescue ref named for the tip, so it never moves one.
ParkUnlanded(b, tip) ==
    IF Unlanded(b, tip) THEN rescue \cup Tree(tip) ELSE rescue

\* Mutant of StandUp: the token is read back from the remote instead of
\* kept from the claim.
StandUpFromRemote(p) ==
    LET h == HostOf[p] IN
    /\ At(p, "leased") /\ ~wt[h]
    /\ wt' = Set(wt, h, TRUE)
    /\ token' = Set(token, h, remote)
    /\ IF local[h] # 0 THEN UNCHANGED local
       ELSE \E c \in ({proc[p].marker, remote} \ {0}) \cup Bases :
               local' = Set(local, h, c)
    /\ Goto(p, "stood")
    /\ UNCHANGED <<graphVars, serverVars>>

StandUp(p) ==
    LET h == HostOf[p] IN
    /\ At(p, "leased") /\ ~wt[h]
    /\ wt' = Set(wt, h, TRUE)
    /\ token' = Set(token, h, proc[p].marker)
    /\ IF local[h] # 0 THEN UNCHANGED local
       ELSE \E c \in ({proc[p].marker, remote} \ {0}) \cup Bases :
               local' = Set(local, h, c)
    /\ Goto(p, "stood")
    /\ UNCHANGED <<graphVars, serverVars>>

\* A handoff that dies after the stand-up removes the worktree first; a
\* resumed lane is never unwound.
HandoffFails(p) ==
    LET h == HostOf[p] IN
    /\ At(p, "stood") /\ proc[p].op # "renew"
    /\ \/ wt' = Set(wt, h, FALSE) /\ token' = Set(token, h, 0)
       \/ UNCHANGED laneVars
    /\ Goto(p, "abort")
    /\ UNCHANGED <<graphVars, serverVars, local>>

\* start clears a leftover worktree, parking its unlanded work first.
ClearLeftover(p) ==
    LET h == HostOf[p] IN
    /\ IsIdle(p) /\ wt[h] /\ local[h] # 0
    /\ \E view \in Views, b \in Bases :
          /\ ~Held(h, view, b)
          /\ rescue' = ParkUnlanded(b, local[h])
    /\ wt' = Set(wt, h, FALSE)
    /\ token' = Set(token, h, 0)
    /\ UNCHANGED <<graphVars, main, remote, net, local, proc>>

\* Yield: a lane whose branch is not the remote's tip parks it whole and
\* is torn down, unless it is called from elsewhere.
Yield(p) ==
    LET h == HostOf[p] IN
    /\ IsIdle(p) /\ local[h] # 0 /\ remote # local[h]
    /\ rescue' = rescue \cup Tree(local[h])
    /\ \/ wt[h] /\ wt' = Set(wt, h, FALSE) /\ token' = Set(token, h, 0)
       \/ UNCHANGED laneVars
    /\ UNCHANGED <<graphVars, main, remote, net, local, proc>>

-----------------------------------------------------------------------------
(* Scavenge: remove the ref of a landed or finished plan.                  *)

\* A plan is marked done by the agents' own commits, so it may read as
\* done only on a base some of them landed on.
MayBeDone(b) == Tree(b) # {}

\* The evidence names a tip: the gathered one of a plan that is done, or
\* that release finds neither held nor released; or the landed one that
\* beat this command's own claim.
ScavengeTip(p, tip) ==
    LET h == HostOf[p] IN
    \E b \in Bases :
        \/ /\ IsIdle(p)
           /\ \E view \in Views :
                 /\ tip = HoldTip(h, view)
                 /\ MayBeDone(b) \/ (~Held(h, view, b) /\ ~Released(tip))
        \/ /\ At(p, "lost") /\ proc[p].op \in {"claim", "takeover"}
           /\ tip = proc[p].from /\ LandedTip(b, tip)

\* Then the ref is read: gone, still at that tip, or moved on (refused).
Scavenge(p) ==
    /\ \E tip \in CommitIds :
          /\ ScavengeTip(p, tip)
          /\ \/ remote = 0 /\ Become(p, Run("delete", "scavenge", 0, 0, 0, 0))
             \/ remote = tip /\ Become(p, Run("park", "scavenge", tip, 0, 0, 0))
    /\ UNCHANGED <<graphVars, serverVars, local, laneVars>>

\* A park that fails ends the scavenge.
Park(p) ==
    /\ At(p, "park")
    /\ \E b \in Bases : rescue' = ParkUnlanded(b, proc[p].from)
    /\ Goto(p, "push")
    /\ UNCHANGED <<graphVars, main, remote, net, local, laneVars>>

\* The local copy goes too, unless a worktree stands on it.
DeleteLocal(p) ==
    LET h == HostOf[p] IN
    /\ At(p, "delete")
    /\ local' = IF wt[h] THEN local ELSE Set(local, h, 0)
    /\ Finish(p)
    /\ UNCHANGED <<graphVars, serverVars, laneVars>>

\* A command returns, is refused, fails a step or is killed.
Stop(p) ==
    /\ ~IsIdle(p)
    /\ Finish(p)
    /\ UNCHANGED <<graphVars, serverVars, local, laneVars>>

-----------------------------------------------------------------------------
Environment ==
    \/ \E h \in Hosts : Work(h) \/ FastForward(h) \/ PushWork(h)
    \/ LandMerge \/ LandSquash
    \/ \E m \in net : Deliver(m)

Command(p) ==
    \/ Acquire(p) \/ ClaimMint(p)
    \/ Renew(p) \/ Release(p) \/ BeatFor(p) \/ Takeover(p)
    \/ Bind(p) \/ Rebind(p) \/ Unwind(p)
    \/ PushAcked(p) \/ PushUnacked(p) \/ PushFailed(p) \/ PushAbandoned(p)
    \/ Confirm(p) \/ Unconfirmed(p) \/ Sync(p) \/ Persist(p)
    \/ StandUp(p) \/ HandoffFails(p)
    \/ ClearLeftover(p) \/ Yield(p)
    \/ Scavenge(p) \/ Park(p) \/ DeleteLocal(p)
    \/ Stop(p)

Next == Environment \/ \E p \in Procs : Command(p)

Spec == Init /\ [][Next]_vars
-----------------------------------------------------------------------------
(* What the protocol promises.                                             *)

\* The work ref is append-only: whoever moves it, a tip that replaces
\* another one descends from it; only a delete takes history away.
\* (Acquire: "history is appended, never rewritten".)
AppendOnly ==
    [][remote # 0 /\ remote' # 0 => remote \in commits'[remote'].anc]_vars

\* Tokens never prove the same lease to two clones.
OneProvenHolder ==
    \A g, h \in Hosts :
        TokenProves(token[g], remote) /\ TokenProves(token[h], remote) => g = h

\* Agents' commits somebody could recover from the remote: on the work
\* ref, parked under a rescue ref, or landed on the base.
Saved == rescue \cup Tree(main) \cup (IF remote = 0 THEN {} ELSE Tree(remote))

\* What reached the remote stays recoverable from it, whatever is
\* deleted, taken over, abandoned or crashes in between.
SavedStaysSaved == [][Saved \subseteq Saved']_vars

\* The holder's own transitions (and a beat for it) never move the
\* clone's branch off a commit an agent made there.
SyncKeepsLocalWork ==
    [][\A p \in Procs :
          LET h == HostOf[p] IN
          /\ proc[p].pc = "sync" /\ proc'[p] # proc[p]
          /\ proc[p].op \notin {"claim", "takeover"}
          /\ local'[h] # local[h] /\ local[h] # 0
          => Tree(local[h]) \subseteq commits'[local'[h]].tree]_vars

\* Nothing of a plan's own history is in the base's yet: every landing so
\* far was a squash.
Squashed == ~HasMarker(main)

\* The remote ref, read through its tip's markers, is the register of
\* WorkRef for as long as landings are squashed: it is acquired at the
\* next epoch only, changes holder only with the epoch, and is never
\* handed back to an older lease.  Once the base carries markers, a branch
\* that takes the base in is governed by theirs, and nothing is promised.
Register == INSTANCE WorkRef WITH
    Holders  <- Hosts,
    NoHolder <- Nobody,
    phase    <- IF ~Squashed THEN "void"
                ELSE IF remote = 0 THEN "absent"
                ELSE IF LiveHold(remote) THEN "held" ELSE "released",
    epoch    <- IF remote = 0 \/ ~Squashed THEN 0 ELSE Governs(remote).epoch,
    holder   <- IF remote = 0 \/ ~Squashed THEN Nobody
                ELSE Governs(remote).holder

ImplementsWorkRef == Register!Spec

-----------------------------------------------------------------------------
(* What the repository says of the protocol and the code does not keep.    *)

\* "so no deletion loses work" (docs/research/lease-protocol.md): a branch
\* a scavenge deletes in its clone carries nothing that is not also on
\* the remote.
NoDeletionLosesWork ==
    [][\A p \in Procs : DeleteLocal(p) =>
          LET h == HostOf[p] IN
          local[h] # 0 /\ local'[h] = 0 => Tree(local[h]) \subseteq Saved]_vars

\* "A release is terminal by kind, never a lease this lane still owns,
\* whatever it carries" (OwnAdvance): a lane's token proves only a tip
\* whose nearest terminal marker is not a release.
ReleaseIsTerminal ==
    \A h \in Hosts : OwnToken(h) => LiveHold(remote)

\* "The lane that still holds the live lease is refused" (yield): a lane
\* yield tears down cannot prove the lease any more.
YieldSparesTheHolder ==
    [][\A p \in Procs : Yield(p) =>
          LET h == HostOf[p] IN
          wt[h] /\ ~wt'[h] => ~TokenProves(token[h], remote)]_vars
=============================================================================

----------------------------- MODULE Decorated -----------------------------
(***************************************************************************)
(* A plan held by legacy branches, plan/<id>-<slug>, with no work ref of   *)
(* its own, and the takeover that migrates it (claim.TakeoverDecorated):   *)
(* every branch is read again, then each in turn is parked, deleted on the *)
(* remote by compare-and-swap on the tip that was judged, and dropped from *)
(* the clone; only then is the id-only lease acquired.  There is no        *)
(* transaction around this: any step may lose its race, fail or be the     *)
(* last one the command takes, and the next command finds what is left.    *)
(*                                                                         *)
(* The history of a branch is the set of the agents' commits on it and of  *)
(* 0, its claim marker; {} is a branch that is not there.  Whether the     *)
(* window has matured is free: Observer says when it may.                  *)
(***************************************************************************)
EXTENDS Integers, FiniteSets

CONSTANTS
    Branches,    \* the plan's decorated branches
    Rank,        \* their order by name
    Hosts,       \* machines, each with a clone
    Procs,       \* hosts' runs of frit claim, each again and again
    HostOf,      \* the machine each runs on
    Keen,        \* those whose supervisor never stops claiming
    CopiesOf,    \* bound: the branches each clone may have a copy of
    MaxWork,     \* bound: commits the legacy agents may make
    MaxFaults    \* bound: lost answers, refusals and kills

ASSUME DecoratedRank ==
    /\ Rank \in [Branches -> Nat] /\ IsFiniteSet(Branches)
    /\ \A b, c \in Branches : Rank[b] = Rank[c] => b = c
ASSUME DecoratedHosts  == HostOf \in [Procs -> Hosts] /\ Keen \subseteq Procs
ASSUME DecoratedCopies == CopiesOf \in [Hosts -> SUBSET Branches]
ASSUME DecoratedBounds == MaxWork \in Nat /\ MaxFaults \in Nat

VARIABLES
    work,     \* the number of commits made
    merged,   \* per branch: what of it the base branch has as ancestors
    content,  \* commits whose content has landed on the base branch
    rescue,   \* commits parked under rescue refs
    origin,   \* the branches on the remote
    local,    \* per host: its clone's branches
    out,      \* per host: the branches its worktrees stand on
    agents,   \* per host: those of them with a live agent's pane
    lease,    \* the holder of the id-only work ref, or Nobody
    late,     \* deletes whose client gave up, still on their way
    faults,   \* faults so far
    cmd,      \* the takeover each process is running
    since     \* history: branches pushed since each process gathered

landing == <<merged, content>>
lanes   == <<local, out, agents>>
vars    == <<work, merged, content, rescue, origin, local, out, agents,
             lease, late, faults, cmd, since>>

-----------------------------------------------------------------------------
Nobody  == "nobody"
Made    == 1..work
Commits == 0..work
None    == [b \in Branches |-> {}]

WorkIn(S)  == S \ {0}
Live(b, S) == S # {} /\ ~(S \subseteq merged[b])

\* The hold branches of a clone that has fetched, and their tips: the
\* remote's copy before the clone's own.
Held(h)  == {b \in Branches : Live(b, origin[b]) \/ Live(b, local[h][b])}
Tip(h, b) == IF origin[b] # {} THEN origin[b] ELSE local[h][b]

\* Nothing is parked where the content is on the base branch already.
Unlanded(S) == IF WorkIn(S) \subseteq content THEN {} ELSE WorkIn(S)

PCs == {"idle", "veto", "read", "park", "delete", "drop", "acquire"}

\* The tips judged ({} for a branch that was not a hold), the branches
\* still to be read, and those read to stand and not yet retired.
Cmd == [pc : PCs, tips : [Branches -> SUBSET Commits],
        todo : SUBSET Branches, standing : SUBSET Branches,
        pushed : SUBSET Branches]

Idle == [pc |-> "idle", tips |-> None, todo |-> {}, standing |-> {},
         pushed |-> {}]

At(p, pc)    == cmd[p].pc = pc
Become(p, c) == cmd' = [cmd EXCEPT ![p] = c]
Goto(p, pc)  == Become(p, [cmd[p] EXCEPT !.pc = pc])
Finish(p)    == Become(p, Idle) /\ since' = [since EXCEPT ![p] = {}]
\* The loops take the branches in the order of their names.
IsFirst(b, S) == b \in S /\ \A c \in S : Rank[b] <= Rank[c]
Judged(p)    == {b \in Branches : cmd[p].tips[b] # {}}

Fault == faults < MaxFaults /\ faults' = faults + 1

\* Besides types: an agent is in a worktree, and no worktree stands on a
\* branch its clone no longer has.
TypeOK ==
    /\ work \in 0..MaxWork
    /\ merged \in [Branches -> SUBSET Commits]
    /\ content \in SUBSET Made
    /\ rescue \in SUBSET Made
    /\ origin \in [Branches -> SUBSET Commits]
    /\ local \in [Hosts -> [Branches -> SUBSET Commits]]
    /\ out \in [Hosts -> SUBSET Branches]
    /\ agents \in [Hosts -> SUBSET Branches]
    /\ lease \in Hosts \cup {Nobody}
    /\ late \in SUBSET (Branches \X SUBSET Commits)
    /\ faults \in 0..MaxFaults
    /\ cmd \in [Procs -> Cmd]
    /\ since \in [Procs -> SUBSET Branches]
    /\ \A h \in Hosts :
          /\ agents[h] \subseteq out[h]
          /\ \A b \in out[h] : local[h][b] # {}

\* Claimed branches, pushed or not, in any of the clones.
Init ==
    /\ work = 0
    /\ merged = None /\ content = {} /\ rescue = {}
    /\ origin \in [Branches -> {{}, {0}}]
    /\ local \in [Hosts -> [Branches -> {{}, {0}}]]
    /\ \A h \in Hosts : \A b \in Branches \ CopiesOf[h] : local[h][b] = {}
    /\ out \in [Hosts -> SUBSET Branches]
    /\ \A h \in Hosts : \A b \in out[h] : local[h][b] # {}
    /\ agents \in {out, [h \in Hosts |-> {}]}
    /\ lease = Nobody /\ late = {} /\ faults = 0
    /\ cmd = [p \in Procs |-> Idle]
    /\ since = [p \in Procs |-> {}]

-----------------------------------------------------------------------------
(* The legacy lanes and the forge: plain git.                              *)

\* Somebody commits in a worktree of the branch.
Work(h, b) ==
    /\ b \in out[h] /\ work < MaxWork
    /\ work' = work + 1
    /\ local' = [local EXCEPT ![h][b] = @ \cup {work + 1}]
    /\ UNCHANGED <<landing, rescue, origin, out, agents, lease, late,
                   faults, cmd, since>>

\* git push: a fast-forward, or the branch anew where it is gone.
Push(h, b) ==
    /\ b \in out[h]
    /\ origin[b] \subseteq local[h][b] /\ origin[b] # local[h][b]
    /\ origin' = [origin EXCEPT ![b] = local[h][b]]
    /\ since' = [p \in Procs |-> since[p] \cup ({b} \cap Judged(p))]
    /\ UNCHANGED <<work, landing, rescue, lanes, lease, late, faults, cmd>>

\* The forge lands a branch, as a merge or squashed.
Land(b) ==
    /\ ~(WorkIn(origin[b]) \subseteq content)
    /\ content' = content \cup WorkIn(origin[b])
    /\ \/ merged' = [merged EXCEPT ![b] = @ \cup origin[b]]
       \/ UNCHANGED merged
    /\ UNCHANGED <<work, rescue, origin, lanes, lease, late, faults, cmd,
                   since>>

\* An agent comes to a worktree or leaves it, or the worktree is removed.
\* Nobody makes a new one for a branch of the old naming.
AgentMoves(h, b) ==
    /\ b \in out[h]
    /\ \/ agents' = [agents EXCEPT ![h] = @ \cup {b}] /\ UNCHANGED out
       \/ agents' = [agents EXCEPT ![h] = @ \ {b}] /\ UNCHANGED out
       \/ /\ out' = [out EXCEPT ![h] = @ \ {b}]
          /\ agents' = [agents EXCEPT ![h] = @ \ {b}]
    /\ UNCHANGED <<work, landing, rescue, origin, local, lease, late, faults,
                   cmd, since>>

\* The remote applies a delete whose client gave up, if the CAS still holds.
Deliver ==
    \E d \in late :
        /\ late' = late \ {d}
        /\ origin' = IF origin[d[1]] = d[2]
                     THEN [origin EXCEPT ![d[1]] = {}] ELSE origin
        /\ UNCHANGED <<work, landing, rescue, lanes, lease, faults, cmd,
                       since>>

-----------------------------------------------------------------------------
(* mintOrTakeOver and TakeoverDecorated, step by step.                     *)

unchangedBeside == <<work, landing, lanes, lease>>

\* No work ref is seen: the plan is free, or decorated branches hold it
\* and the window on their tips has matured.
Gather(p) ==
    LET h == HostOf[p] IN
    /\ At(p, "idle") /\ lease = Nobody
    /\ Become(p,
          IF Held(h) = {} THEN [Idle EXCEPT !.pc = "acquire"]
          ELSE [Idle EXCEPT !.pc = "veto", !.todo = Held(h),
                            !.tips = [b \in Branches |->
                                IF b \in Held(h) THEN Tip(h, b) ELSE {}]])
    /\ UNCHANGED <<unchangedBeside, rescue, origin, late, faults, since>>

\* decoratedLaneLive: an agent on one of the branches, in this machine's
\* panes.  A herdr that does not answer shows none.
Vetoed(p) ==
    /\ At(p, "veto") /\ agents[HostOf[p]] \cap Judged(p) # {}
    /\ Finish(p)
    /\ UNCHANGED <<unchangedBeside, rescue, origin, late, faults>>

NotVetoed(p) ==
    /\ At(p, "veto")
    /\ IF agents[HostOf[p]] \cap Judged(p) = {} THEN UNCHANGED faults
       ELSE Fault
    /\ Goto(p, "read")
    /\ UNCHANGED <<unchangedBeside, rescue, origin, late, since>>

\* Where the command goes once nothing is left of what it was doing.
After(todo, pc, standing) ==
    IF todo # {} THEN pc ELSE IF standing # {} THEN "park" ELSE "acquire"

\* decoratedTip: a branch that is gone has nothing left to retire; one
\* that still is what was judged stands.
Reread(p, b) ==
    LET c == cmd[p]
        now == Tip(HostOf[p], b)
        standing == IF now = {} THEN c.standing ELSE c.standing \cup {b}
    IN
    /\ At(p, "read") /\ IsFirst(b, c.todo)
    /\ now \in {{}, c.tips[b]}
    /\ Become(p, [c EXCEPT !.todo = @ \ {b}, !.standing = standing,
                           !.pc = After(c.todo \ {b}, "read", standing),
                           !.pushed = IF origin[b] # {} THEN @ \cup {b}
                                      ELSE @])
    /\ UNCHANGED <<unchangedBeside, rescue, origin, late, faults, since>>

\* A branch that has moved is a lost race, before anything was retired.
RereadMoved(p, b) ==
    /\ At(p, "read") /\ IsFirst(b, cmd[p].todo)
    /\ Tip(HostOf[p], b) \notin {{}, cmd[p].tips[b]}
    /\ Finish(p)
    /\ UNCHANGED <<unchangedBeside, rescue, origin, late, faults>>

\* Mutant of Park: this clone's own copy is parked, not the judged tip.
ParkLocal(p, b) ==
    /\ At(p, "park") /\ IsFirst(b, cmd[p].standing)
    /\ rescue' = rescue \cup Unlanded(local[HostOf[p]][b])
    /\ Goto(p, "delete")
    /\ UNCHANGED <<unchangedBeside, origin, late, faults, since>>

Park(p, b) ==
    /\ At(p, "park") /\ IsFirst(b, cmd[p].standing)
    /\ rescue' = rescue \cup Unlanded(cmd[p].tips[b])
    /\ Goto(p, "delete")
    /\ UNCHANGED <<unchangedBeside, origin, late, faults, since>>

\* Mutant of Delete: a delete the remote refused is read as done.
DeleteUnchecked(p, b) ==
    /\ At(p, "delete") /\ IsFirst(b, cmd[p].standing)
    /\ \/ b \in cmd[p].pushed /\ origin[b] \in {{}, cmd[p].tips[b]}
          /\ origin' = [origin EXCEPT ![b] = {}]
       \/ UNCHANGED origin
    /\ Goto(p, "drop")
    /\ UNCHANGED <<unchangedBeside, rescue, late, faults, since>>

\* casDelete of a branch the remote had: deleted on exactly the judged
\* tip, or found gone.
Delete(p, b) ==
    /\ At(p, "delete") /\ IsFirst(b, cmd[p].standing)
    /\ \/ b \in cmd[p].pushed /\ origin[b] \in {{}, cmd[p].tips[b]}
          /\ origin' = [origin EXCEPT ![b] = {}]
       \/ b \notin cmd[p].pushed /\ UNCHANGED origin
    /\ Goto(p, "drop")
    /\ UNCHANGED <<unchangedBeside, rescue, late, faults, since>>

\* Moved since it was read: what was retired before it stays retired.
DeleteMoved(p, b) ==
    /\ At(p, "delete") /\ IsFirst(b, cmd[p].standing)
    /\ b \in cmd[p].pushed
    /\ origin[b] \notin {{}, cmd[p].tips[b]}
    /\ Finish(p)
    /\ UNCHANGED <<unchangedBeside, rescue, origin, late, faults>>

\* The push fails and is not confirmed, or the branch still stands: it
\* has been applied, or may yet be.
DeleteUnconfirmed(p, b) ==
    /\ At(p, "delete") /\ IsFirst(b, cmd[p].standing)
    /\ b \in cmd[p].pushed
    /\ \/ /\ origin[b] = cmd[p].tips[b]
          /\ origin' = [origin EXCEPT ![b] = {}] /\ UNCHANGED late
       \/ late' = late \cup {<<b, cmd[p].tips[b]>>} /\ UNCHANGED origin
    /\ Fault
    /\ Finish(p)
    /\ UNCHANGED <<unchangedBeside, rescue>>

\* Mutant of Drop: a worktree on the branch is not looked for.
DropCheckedOut(p, b) ==
    LET h == HostOf[p]
        standing == cmd[p].standing \ {b}
    IN
    /\ At(p, "drop") /\ IsFirst(b, cmd[p].standing)
    /\ local' = IF local[h][b] = cmd[p].tips[b]
                THEN [local EXCEPT ![h][b] = {}] ELSE local
    /\ Become(p, [cmd[p] EXCEPT !.standing = standing, !.pushed = @ \ {b},
                                !.pc = After(standing, "park", {})])
    /\ UNCHANGED <<work, landing, rescue, origin, out, agents, lease, late,
                   faults, since>>

\* Mutant of Drop: a local copy that has to be kept is a failure.
DropOrFail(p, b) ==
    LET h == HostOf[p]
        standing == cmd[p].standing \ {b}
    IN
    /\ At(p, "drop") /\ IsFirst(b, cmd[p].standing)
    /\ IF local[h][b] \in {{}, cmd[p].tips[b]} /\ b \notin out[h]
       THEN /\ local' = [local EXCEPT ![h][b] = {}]
            /\ Become(p, [cmd[p] EXCEPT !.standing = standing,
                                        !.pushed = @ \ {b},
                                        !.pc = After(standing, "park", {})])
            /\ UNCHANGED since
       ELSE Finish(p) /\ UNCHANGED local
    /\ UNCHANGED <<work, landing, rescue, origin, out, agents, lease, late,
                   faults>>

\* The clone's own copy goes where it is the judged tip and no worktree
\* stands on it.
Drop(p, b) ==
    LET h == HostOf[p]
        standing == cmd[p].standing \ {b}
    IN
    /\ At(p, "drop") /\ IsFirst(b, cmd[p].standing)
    /\ local' = IF local[h][b] = cmd[p].tips[b] /\ b \notin out[h]
                THEN [local EXCEPT ![h][b] = {}] ELSE local
    /\ Become(p, [cmd[p] EXCEPT !.standing = standing, !.pushed = @ \ {b},
                                !.pc = After(standing, "park", {})])
    /\ UNCHANGED <<work, landing, rescue, origin, out, agents, lease, late,
                   faults, since>>

\* Acquire, the arbiter: create-only.
Acquire(p) ==
    /\ At(p, "acquire")
    /\ lease' = IF lease = Nobody THEN HostOf[p] ELSE lease
    /\ Finish(p)
    /\ UNCHANGED <<work, landing, rescue, origin, lanes, late, faults>>

\* The remote cannot be read, the park or the push fails, or a kill.
Stop(p) ==
    /\ ~At(p, "idle")
    /\ Fault
    /\ Finish(p)
    /\ UNCHANGED <<unchangedBeside, rescue, origin, late>>

-----------------------------------------------------------------------------
Environment ==
    \/ \E h \in Hosts, b \in Branches :
          Work(h, b) \/ Push(h, b) \/ AgentMoves(h, b)
    \/ \E b \in Branches : Land(b)
    \/ Deliver

Advance(p) ==
    \/ Gather(p) \/ Vetoed(p) \/ NotVetoed(p)
    \/ \E b \in Branches :
          \/ Reread(p, b) \/ RereadMoved(p, b) \/ Park(p, b)
          \/ Delete(p, b) \/ DeleteMoved(p, b) \/ DeleteUnconfirmed(p, b)
          \/ Drop(p, b)
    \/ Acquire(p)

Next == Environment \/ \E p \in Procs : Advance(p) \/ Stop(p)

Spec == Init /\ [][Next]_vars

\* A supervisor keeps claiming, and each of its runs takes its next step.
FairSpec == Spec /\ \A p \in Keen : WF_vars(Advance(p))

-----------------------------------------------------------------------------
(* What the migration promises.                                            *)

Saved == rescue \cup content \cup UNION {WorkIn(origin[b]) : b \in Branches}

\* "claim and start park its work, CAS-delete it" (docs/claiming.md:231,
\* S100; ParkUnlanded and casDelete in retireDecorated): no commit
\* that reached the remote is lost to it, and none a clone's branch
\* carried is lost to both, whatever races, fails half way or arrives late.
NothingLost ==
    [][/\ Saved \subseteq Saved'
       /\ \A h \in Hosts, b \in Branches :
             WorkIn(local[h][b]) \subseteq local'[h][b] \cup Saved']_vars

\* The Acquire of TakeoverDecorated comes after its rivals: a branch
\* the takeover judged does not stand on the remote at the judged tip,
\* unless somebody has pushed it since.
RivalsRetired ==
    [][\A p \in Procs :
          Acquire(p) /\ lease' # lease =>
             \A b \in Judged(p) :
                origin[b] # cmd[p].tips[b] \/ b \in since[p]]_vars

\* A TakeoverDecorated that failed half way does not stop the next: if
\* the agents of the legacy lanes stay away, the plan is leased at last.
EndsInALease ==
    <>[](\A h \in Hosts : agents[h] = {}) => <>(lease # Nobody)
=============================================================================

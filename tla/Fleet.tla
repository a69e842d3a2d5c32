------------------------------- MODULE Fleet -------------------------------
(***************************************************************************)
(* A fleet of plans worked to completion: the index of every plan over     *)
(* every ref (internal/index), the gathered view (internal/fleet), what    *)
(* is ready and in which order (internal/discovery), and pick --go, which  *)
(* walks that order until a start takes (cmd/frit).                        *)
(*                                                                         *)
(* One repository.  Some hosts run pick --go over and over, on a view that *)
(* may be out of date by the time it acts; on others people start plans by *)
(* name.  A start is one step here, taken apart in Lane, and its lease in  *)
(* Lease.  Agents close the phases of their plan, the forge lands their    *)
(* branches, and a bounded number of things go wrong: MaxFaults of them.   *)
(***************************************************************************)
EXTENDS Integers, FiniteSets

CONSTANTS
    Pickers,    \* machines that run pick --go
    Others,     \* machines on which plans are started by name
    Plans,      \* plan ids
    Ledgers,    \* each plan's depends-on and number of phases, to choose from
    Oid,        \* the object id of each content of a plan file
    MaxFaults   \* bound: agents lost, displaced or careless, failed
                \* starts, and plans superseded

Hosts  == Pickers \cup Others
Nobody == "nobody"
Main   == 0

Status == {"todo", "wip", "done", "dropped"}
Copy   == [status : Status, open : Nat]

ASSUME FleetPlans ==
    /\ Plans \subseteq Nat \ {0} /\ IsFiniteSet(Plans)
    /\ Ledgers \subseteq [Plans -> [deps : SUBSET Plans, phases : Nat \ {0}]]
ASSUME FleetBounds ==
    Nobody \notin Pickers \cup Others /\ MaxFaults \in Nat

VARIABLES
    ledger,   \* the plans as they were written, which never changes
    tree,     \* per ref: the copy of every plan it carries
    lane,     \* per plan: its work ref on the remote
    agent,    \* per plan: the host its lease's agent is alive on
    aged,     \* plans whose tip has sat unchanged through the window
    pick,     \* per host: the walk it is in
    faults    \* what may still go wrong

moving == <<tree, lane, agent, aged, pick, faults>>
vars   == <<ledger, tree, lane, agent, aged, pick, faults>>

-----------------------------------------------------------------------------
\* A ref is the default branch, or a plan's work ref, named for the plan.
Refs == {Main} \cup Plans

Lane   == [ref : {"absent", "held", "released"}, merged : BOOLEAN]
NoLane == [ref |-> "absent", merged |-> FALSE]

\* A candidate as the walk of pick --go carries it: its place, whether its
\* ledger has an open phase, and how it was read: free, deserted, which
\* is dead before the window matured, or stale.
Entry == [plan : Plans, place : Nat, open : BOOLEAN,
          hold : {"free", "deserted", "stale"}]
Walk  == [todo : SUBSET Entry, seen : SUBSET Plans]
Rest  == [todo |-> {}, seen |-> {}]

Deps(p) == ledger[p].deps
Fresh   == [p \in Plans |-> [status |-> "todo", open |-> ledger[p].phases]]

\* The types, and that a walk's order is strict: pick --go names one plan
\* as its next, whatever it has gathered (rankByUnblock).
TypeOK ==
    /\ ledger \in Ledgers
    /\ tree \in [Refs -> [Plans -> Copy]]
    /\ lane \in [Plans -> Lane]
    /\ agent \in [Plans -> Hosts \cup {Nobody}]
    /\ aged \in SUBSET Plans
    /\ pick \in [Pickers -> Walk]
    /\ \A h \in Pickers : \A e, f \in pick[h].todo :
          e.place = f.place => e = f
    /\ faults \in 0..MaxFaults

Init ==
    /\ ledger \in Ledgers
    /\ tree = [r \in Refs |-> Fresh]
    /\ lane = [p \in Plans |-> NoLane]
    /\ agent = [p \in Plans |-> Nobody]
    /\ aged = {}
    /\ pick = [h \in Pickers |-> Rest]
    /\ faults = MaxFaults

-----------------------------------------------------------------------------
(* The index: one entry per plan, its versions over all refs ranked.       *)

RefsThere   == {Main} \cup {p \in Plans : lane[p].ref # "absent"}
Versions(p) == {tree[r][p] : r \in RefsThere}
Carrying(p, v) == {r \in RefsThere : tree[r][p] = v}

\* Mutant of Outranks: the copy most refs carry, wherever they are.
OutranksByCount(p, v, w) ==
    LET n == Cardinality(Carrying(p, v))
        m == Cardinality(Carrying(p, w))
    IN n > m \/ (n = m /\ Oid[v] < Oid[w])

\* The copy on the default branch, then the one most refs carry, then the
\* lowest object id.
Outranks(p, v, w) ==
    LET n == Cardinality(Carrying(p, v))
        m == Cardinality(Carrying(p, w))
    IN IF (Main \in Carrying(p, v)) # (Main \in Carrying(p, w))
       THEN Main \in Carrying(p, v)
       ELSE n > m \/ (n = m /\ Oid[v] < Oid[w])

Primary(p) ==
    CHOOSE v \in Versions(p) : \A w \in Versions(p) \ {v} : Outranks(p, v, w)

\* The plans the index has in a status, by their authoritative version.
Indexed(status) == {p \in Plans : Primary(p).status = status}

LandedIDs ==
    {p \in Indexed("done") \cup Indexed("dropped") :
        Main \in Carrying(p, Primary(p))}

MergedRefs == {p \in Plans : lane[p].merged}
Leases     == {p \in Plans : lane[p].ref = "held"}

\* The holds: neither merged, landed nor released.
HeldPlans == (Leases \ MergedRefs) \ LandedIDs

\* herdr knows the sessions of its own machine: one that is alive on
\* another reads as gone here.
SessionDead(h, p) == agent[p] # h

\* What a pass gathers, in a clone that has just fetched: the plans as
\* discovery sees them.  ans is whether herdr answered for the sessions
\* the leases are bound to.
View(h, held, ans) ==
    [todo |-> Indexed("todo"), wip |-> Indexed("wip"),
     done |-> Indexed("done"), dropped |-> Indexed("dropped"),
     open  |-> {p \in Plans : Primary(p).open > 0},
     held  |-> held,
     stale |-> held \cap aged,
     dead  |-> {p \in held : ans /\ SessionDead(h, p)}]

Views(h) == {View(h, held, ans) : held \in {HeldPlans}, ans \in BOOLEAN}

-----------------------------------------------------------------------------
(* Discovery, over a view.                                                 *)

Unfinished(v) == v.todo \cup v.wip

\* Mutant of Candidate: a held plan is never offered.
CandidateUnheld(v, p) == p \notin v.held /\ p \in v.todo

Candidate(v, p) ==
    IF p \in v.held THEN p \in v.stale \cup v.dead /\ p \in Unfinished(v)
    ELSE p \in v.todo

\* Mutant of AllDone: a superseded dependency counts as done.
AllDoneOrDropped(v, p) == Deps(p) \subseteq v.done \cup v.dropped

AllDone(v, p) == Deps(p) \subseteq v.done

Ready(v)     == {p \in Plans : Candidate(v, p) /\ AllDone(v, p)}
Resumable(v) == v.wip \ v.held

\* downstreamCounts: the plans still waiting on this one.
Downstream(v, p) == Cardinality({q \in Unfinished(v) : p \in Deps(q)})

\* Mutant of Before: equal counts are left as they come.
BeforeUntied(v, p, q) ==
    IF (p \in Ready(v)) # (q \in Ready(v)) THEN p \in Ready(v)
    ELSE Downstream(v, p) > Downstream(v, q)

\* rankByUnblock, the resume tail after the fresh picks.
Before(v, p, q) ==
    IF (p \in Ready(v)) # (q \in Ready(v)) THEN p \in Ready(v)
    ELSE \/ Downstream(v, p) > Downstream(v, q)
         \/ Downstream(v, p) = Downstream(v, q) /\ p < q

Candidates(v) == Ready(v) \cup Resumable(v)

-----------------------------------------------------------------------------
(* pick --go.                                                              *)

EntryOf(v, p) ==
    [plan |-> p, open |-> p \in v.open,
     place |-> Cardinality({q \in Candidates(v) \ {p} : Before(v, q, p)}),
     hold |-> CASE p \notin v.held -> "free"
                [] p \in v.stale -> "stale"
                [] OTHER -> "deserted"]

\* The candidate whose turn it is.
Top(h, e) ==
    e \in pick[h].todo /\ \A f \in pick[h].todo : e.place <= f.place

Seen(h, p) == p \in pick[h].seen

\* The walks as they are once the plan's ref has moved: a CAS on the tip
\* they read can no longer win.
Missed(p) == [h \in Pickers |-> [pick[h] EXCEPT !.seen = @ \ {p}]]

Skip(walks, h, e) ==
    [walks EXCEPT ![h] = IF walks[h].todo = {e} THEN Rest
                         ELSE [walks[h] EXCEPT !.todo = @ \ {e}]]
Stop(walks, h) == [walks EXCEPT ![h] = Rest]

\* Something that ought not to happen, unless it is free.
Costs(free) ==
    /\ free \/ faults > 0
    /\ faults' = IF free THEN faults ELSE faults - 1

Gather(h) ==
    /\ pick[h].todo = {}
    /\ \E v \in Views(h) :
          /\ Candidates(v) # {}
          /\ pick' = [pick EXCEPT ![h] =
                         [todo |-> {EntryOf(v, p) : p \in Candidates(v)},
                          seen |-> Plans]]
    /\ UNCHANGED <<tree, lane, agent, aged, faults>>

\* A ledger with no open phase is an error, and ends the walk.
NoOpenPhase(h, e) ==
    /\ Top(h, e) /\ ~e.open
    /\ pick' = Stop(pick, h)
    /\ UNCHANGED <<tree, lane, agent, aged, faults>>

\* The gate skips a deserted hold whose lane on this machine still has
\* work, and a plan on which presence shows a live agent.
Refused(h, e) ==
    /\ Top(h, e) /\ e.open
    /\ agent[e.plan] # Nobody \/ e.hold = "deserted"
    /\ pick' = Skip(pick, h, e)
    /\ UNCHANGED <<tree, lane, agent, aged, faults>>

\* The live-session veto, and the beat for the holder.
Veto(h, e) ==
    /\ Top(h, e) /\ e.open /\ e.hold # "free" /\ Seen(h, e.plan)
    /\ agent[e.plan] = h
    /\ aged' = aged \ {e.plan}
    /\ pick' = Skip(Missed(e.plan), h, e)
    /\ UNCHANGED <<tree, lane, agent, faults>>

\* The CAS is lost: the ref is another's lease, or its tip has moved.
LosesCAS(h, e) ==
    /\ Top(h, e) /\ e.open
    /\ IF e.hold = "free" THEN lane[e.plan].ref = "held"
       ELSE ~Seen(h, e.plan)

Lost(h, e) ==
    /\ LosesCAS(h, e) /\ ~(e.hold = "free" /\ lane[e.plan].merged)
    /\ pick' = Skip(pick, h, e)
    /\ UNCHANGED <<tree, lane, agent, aged, faults>>

\* scavengeLanded: a lease that has merged is deleted on the way, whether
\* an agent is still on it or not, and the plan left for the next walk.
LostToLanded(h, e) ==
    LET p == e.plan IN
    /\ LosesCAS(h, e) /\ e.hold = "free" /\ lane[p].merged
    /\ lane' = [lane EXCEPT ![p] = NoLane]
    /\ tree' = [tree EXCEPT ![p] = Fresh]
    /\ agent' = [agent EXCEPT ![p] = Nobody]
    /\ aged' = aged \ {p}
    /\ pick' = Skip(Missed(p), h, e)
    /\ Costs(agent[p] = Nobody)

\* A free plan is acquired on the base, or on the release it was left at;
\* a hold is taken over at the tip that was read.
WinsCAS(h, e) ==
    /\ Top(h, e) /\ e.open
    /\ IF e.hold = "free" THEN lane[e.plan].ref # "held"
       ELSE Seen(h, e.plan)

Leased(p, ref) ==
    /\ lane' = [lane EXCEPT ![p] = [ref |-> ref, merged |-> FALSE]]
    /\ tree' = [tree EXCEPT ![p] =
                   IF lane[p].ref = "absent" THEN tree[Main] ELSE @]
    /\ aged' = aged \ {p}

\* The lane stands, with its agent: an agent alive on it is displaced.
Start(h, e) ==
    /\ WinsCAS(h, e)
    /\ Leased(e.plan, "held")
    /\ agent' = [agent EXCEPT ![e.plan] = h]
    /\ pick' = Stop(Missed(e.plan), h)
    /\ Costs(agent[e.plan] = Nobody)

\* The stand-up fails: the lease is released again, the walk aborted.
StartFails(h, e) ==
    /\ WinsCAS(h, e)
    /\ Leased(e.plan, "released")
    /\ agent' = [agent EXCEPT ![e.plan] = Nobody]
    /\ pick' = Stop(Missed(e.plan), h)
    /\ Costs(FALSE)

\* start <id>, of a plan the same gate lets through, acting at once on
\* what it gathered.
StartByName(h, p) ==
    /\ \E v \in Views(h) :
          /\ p \in Candidates(v) /\ p \in v.open
          /\ p \in v.held \/ lane[p].ref # "held"
    /\ Leased(p, "held")
    /\ agent' = [agent EXCEPT ![p] = h]
    /\ pick' = Missed(p)
    /\ Costs(agent[p] = Nobody)

-----------------------------------------------------------------------------
(* The agents, the clock, the forge and the people.                        *)

\* The agent closes a phase in its lane, and the plan with the last one,
\* unless it forgets to; its session may end with the phase.
CloseTo(p, status) ==
    /\ agent[p] # Nobody /\ lane[p].ref = "held" /\ tree[p][p].open > 0
    /\ tree' = [tree EXCEPT ![p][p] =
                   [status |-> status, open |-> tree[p][p].open - 1]]
    /\ lane' = [lane EXCEPT ![p].merged = FALSE]
    /\ \E a \in {agent[p], Nobody} : agent' = [agent EXCEPT ![p] = a]
    /\ aged' = aged \ {p}
    /\ pick' = Missed(p)

Close(p) ==
    /\ CloseTo(p, IF tree[p][p].open = 1 THEN "done" ELSE "wip")
    /\ UNCHANGED faults

Forget(p) == tree[p][p].open = 1 /\ CloseTo(p, "wip") /\ Costs(FALSE)

\* The session ends before it closed anything.
Vanish(p) ==
    /\ agent[p] # Nobody
    /\ agent' = [agent EXCEPT ![p] = Nobody]
    /\ Costs(FALSE)
    /\ UNCHANGED <<tree, lane, aged, pick>>

\* frit release; giving up on open work is one of the faults.
Release(p) ==
    /\ agent[p] # Nobody /\ lane[p].ref = "held"
    /\ lane' = [lane EXCEPT ![p] = [ref |-> "released", merged |-> FALSE]]
    /\ agent' = [agent EXCEPT ![p] = Nobody]
    /\ aged' = aged \ {p}
    /\ pick' = Missed(p)
    /\ Costs(tree[p][p].open = 0)
    /\ UNCHANGED tree

\* The window of a tip that nobody moves matures.
Age(p) ==
    /\ lane[p].ref = "held" /\ p \notin aged
    /\ aged' = aged \cup {p}
    /\ UNCHANGED <<tree, lane, agent, pick, faults>>

\* The forge lands the lane, by a merge or by a squash.
Land(p) ==
    /\ lane[p].ref # "absent" /\ tree[Main][p].status \in {"todo", "wip"}
    /\ tree[p][p].open < tree[Main][p].open
    /\ tree' = [tree EXCEPT ![Main][p] = tree[p][p]]
    /\ \E merged \in BOOLEAN : lane' = [lane EXCEPT ![p].merged = merged]
    /\ UNCHANGED <<agent, aged, pick, faults>>

\* Somebody closes the plan whose last phase landed without it.
Repair(p) ==
    /\ tree[Main][p].status = "wip" /\ tree[Main][p].open = 0
    /\ tree' = [tree EXCEPT ![Main][p].status = "done"]
    /\ UNCHANGED <<lane, agent, aged, pick, faults>>

Supersede(p) ==
    /\ tree[Main][p].status \in {"todo", "wip"}
    /\ tree' = [tree EXCEPT ![Main][p].status = "dropped"]
    /\ Costs(FALSE)
    /\ UNCHANGED <<lane, agent, aged, pick>>

-----------------------------------------------------------------------------
Try(h) ==
    \E e \in pick[h].todo :
        \/ NoOpenPhase(h, e) \/ Refused(h, e) \/ Veto(h, e)
        \/ Lost(h, e) \/ LostToLanded(h, e)
        \/ Start(h, e) \/ StartFails(h, e)

Elsewhere(p) ==
    \/ Close(p) \/ Forget(p) \/ Vanish(p) \/ Release(p)
    \/ Age(p) \/ Land(p) \/ Repair(p) \/ Supersede(p)

Next ==
    /\ UNCHANGED ledger
    /\ \/ \E h \in Pickers : Gather(h) \/ Try(h)
       \/ \E h \in Others, p \in Plans : StartByName(h, p)
       \/ \E p \in Plans : Elsewhere(p)

\* The pickers keep running pick --go, and each run ends; agents get their
\* phases closed; windows mature; branches are landed, and what
\* is stuck is looked at.
Fairness ==
    /\ \A h \in Pickers : WF_moving(Gather(h) \/ Try(h))
    /\ \A p \in Plans :
          /\ WF_moving(Close(p)) /\ WF_moving(Age(p))
          /\ WF_moving(Land(p)) /\ WF_moving(Repair(p))

Spec == Init /\ [][Next]_vars /\ Fairness

-----------------------------------------------------------------------------
(* What the fleet promises.                                                *)

Begun(p) == \/ tree[Main][p].status \in {"wip", "done"}
            \/ lane[p].ref # "absent"

\* "a plan whose every upstream is done [...] is startable, and anything
\* else is withheld" (Ready): no plan is begun, in a lane or on the
\* default branch, before every plan it depends on has landed there as
\* done; views out of date, the resume tail, which does not look at
\* dependencies, and finished work that has not merged included.
DependenciesFirst ==
    \A p \in Plans : Begun(p) =>
        \A d \in Deps(p) : tree[Main][d].status = "done"

\* "The status is flipped by the commit that lands the work, so the branch
\* that work lands on is the one telling the truth" (Entry.Primary): old
\* lanes that still carry a plan as open never bring it back once the
\* default branch, when the host looked, had it settled.
SettledStaysDown ==
    [][\A h \in Pickers :
          pick[h].todo = {} => \A e \in pick'[h].todo :
              tree[Main][e.plan].status \in {"todo", "wip"}]_vars

\* The plans a plan waits on, through any number of others.
Upstream(p) ==
    {q \in Plans :
        \A S \in SUBSET Plans :
            Deps(p) \subseteq S /\ (\A s \in S : Deps(s) \subseteq S) => q \in S}

\* pick --go "taking the next when a claim loses its race" (Candidates)
\* does not stall the fleet: as long as hosts run it, every plan is
\* finished, whatever agents vanish, lanes merge away under their plan
\* and hosts race; except a plan behind one that was superseded, which
\* is never ready.
EveryPlanSettles ==
    \A p \in Plans :
        <>(\/ tree[Main][p].status \in {"done", "dropped"}
           \/ \E d \in Upstream(p) : tree[Main][d].status = "dropped")
=============================================================================

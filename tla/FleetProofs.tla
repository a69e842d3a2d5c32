---------------------------- MODULE FleetProofs ----------------------------
(***************************************************************************)
(* Theorems about Fleet, for every set of plans, hosts, dependencies and   *)
(* phases and any number of faults.  They rest on what the default branch  *)
(* says: it outranks every other copy of a plan, so the gathered view is a *)
(* view of it alone, and a done there is final.                            *)
(***************************************************************************)
EXTENDS Fleet, FiniteSetTheorems, TLAPS

-----------------------------------------------------------------------------
(* The invariant.                                                          *)

MainSays(p) == tree[Main][p].status

DepsLanded(p) == \A d \in Deps(p) : MainSays(d) = "done"

\* A plan that a walk may still start has its dependencies landed.
WalksLanded == \A h \in Pickers : \A e \in pick[h].todo : DepsLanded(e.plan)

IInv == TypeOK /\ DependenciesFirst /\ WalksLanded

-----------------------------------------------------------------------------
(* The index.                                                              *)

\* The default branch's copy of a plan is the authoritative one, however
\* many other refs carry another.
LEMMA MainOutranks ==
    ASSUME NEW p \in Plans
    PROVE  Primary(p) = tree[Main][p]
<1> DEFINE m == tree[Main][p]
           Best(v) == \A w \in Versions(p) \ {v} : Outranks(p, v, w)
<1>1. m \in Versions(p) /\ Main \in Carrying(p, m)
  BY DEF Versions, RefsThere, Carrying
<1>2. \A v : v # m => Main \notin Carrying(p, v)
  BY DEF Carrying
<1>3. Best(m)
  BY <1>1, <1>2 DEF Outranks
<1>4. ASSUME NEW v \in Versions(p), Best(v), v # m PROVE FALSE
  <2>1. Outranks(p, v, m)
    BY <1>1, <1>4
  <2>2. QED
    BY <2>1, <1>1, <1>2, <1>4 DEF Outranks
<1>5. \E v \in Versions(p) : Best(v)
  BY <1>1, <1>3
<1> QED
  BY <1>4, <1>5 DEF Primary

\* What a view says of a plan is what the default branch says of it.
LEMMA ViewOfMain ==
    ASSUME NEW h, NEW v \in Views(h)
    PROVE  /\ v.todo = {p \in Plans : MainSays(p) = "todo"}
           /\ v.wip = {p \in Plans : MainSays(p) = "wip"}
           /\ v.done = {p \in Plans : MainSays(p) = "done"}
           /\ v.held \subseteq Plans
  BY MainOutranks
     DEF Views, View, Indexed, MainSays, HeldPlans, Leases

\* A candidate of a walk is unsettled on the default branch, and what it
\* depends on has landed there.
LEMMA CandidateLanded ==
    ASSUME DependenciesFirst, NEW h, NEW v \in Views(h), NEW p \in Candidates(v)
    PROVE  /\ p \in Plans
           /\ MainSays(p) \in {"todo", "wip"}
           /\ DepsLanded(p)
<1>1. CASE p \in Ready(v)
  BY <1>1, ViewOfMain
     DEF Ready, Candidate, AllDone, Unfinished, DepsLanded, Deps, MainSays
<1>2. CASE p \in Resumable(v)
  BY <1>2, ViewOfMain
     DEF Resumable, DependenciesFirst, Begun, DepsLanded, MainSays
<1> QED
  BY <1>1, <1>2 DEF Candidates

-----------------------------------------------------------------------------
(* The order of a walk.                                                    *)

\* The plans waiting on a plan can be counted.
LEMMA DownstreamNat ==
    ASSUME NEW h, NEW v \in Views(h), NEW p
    PROVE  Downstream(v, p) \in Nat
<1>1. {q \in Unfinished(v) : p \in Deps(q)} \subseteq Plans
  BY ViewOfMain DEF Unfinished
<1> QED
  BY <1>1, FleetPlans, FS_Subset, FS_CardinalityType DEF Downstream

\* Of two candidates one comes before the other, and the order is
\* transitive: counts that are equal are settled by the plan ids.
LEMMA BeforeIsOrder ==
    ASSUME NEW h, NEW v \in Views(h),
           NEW p \in Plans, NEW q \in Plans, NEW r \in Plans
    PROVE  /\ p # q => Before(v, p, q) \/ Before(v, q, p)
           /\ ~Before(v, p, p)
           /\ Before(v, p, q) /\ Before(v, q, r) => Before(v, p, r)
<1>1. p \in Nat /\ q \in Nat /\ r \in Nat
  BY FleetPlans
<1>2. /\ Downstream(v, p) \in Nat
      /\ Downstream(v, q) \in Nat
      /\ Downstream(v, r) \in Nat
  BY DownstreamNat
<1> QED
  BY <1>1, <1>2 DEF Before

\* No two candidates have the same place, since the places before the one
\* are all before the other, and it is there itself.
LEMMA PlacesDiffer ==
    ASSUME NEW h, NEW v \in Views(h), Candidates(v) \subseteq Plans,
           NEW p \in Candidates(v), NEW q \in Candidates(v), Before(v, p, q)
    PROVE  EntryOf(v, p).place < EntryOf(v, q).place
<1> DEFINE Ahead(r) == {s \in Candidates(v) \ {r} : Before(v, s, r)}
<1>1. Ahead(p) \subseteq Ahead(q)
  <2> SUFFICES ASSUME NEW s \in Ahead(p) PROVE s \in Ahead(q)
    OBVIOUS
  <2>1. s \in Plans /\ p \in Plans /\ q \in Plans
    OBVIOUS
  <2>2. Before(v, s, q)
    BY <2>1, BeforeIsOrder
  <2>3. s # q
    BY <2>1, <2>2, BeforeIsOrder
  <2> QED
    BY <2>2, <2>3
<1>2. p \in Ahead(q) /\ p \notin Ahead(p)
  BY BeforeIsOrder
<1>3. IsFiniteSet(Ahead(p)) /\ IsFiniteSet(Ahead(q))
  BY FleetPlans, FS_Subset
<1>4. /\ Cardinality(Ahead(p)) \in Nat
      /\ Cardinality(Ahead(q)) \in Nat
  BY <1>3, FS_CardinalityType
<1>5. Cardinality(Ahead(p)) <= Cardinality(Ahead(q))
  BY <1>1, <1>3, FS_Subset
<1>6. Cardinality(Ahead(p)) # Cardinality(Ahead(q))
  BY <1>1, <1>2, <1>3, FS_Subset
<1>7. /\ EntryOf(v, p).place = Cardinality(Ahead(p))
      /\ EntryOf(v, q).place = Cardinality(Ahead(q))
  BY DEF EntryOf
<1> QED
  BY <1>4, <1>5, <1>6, <1>7

\* What a gather puts into a walk: typed entries in a strict order.
LEMMA GatheredWalk ==
    ASSUME NEW h, NEW v \in Views(h), Candidates(v) \subseteq Plans
    PROVE  /\ {EntryOf(v, p) : p \in Candidates(v)} \subseteq Entry
           /\ \A p, q \in Candidates(v) :
                 EntryOf(v, p).place = EntryOf(v, q).place => p = q
<1>1. ASSUME NEW p \in Candidates(v) PROVE EntryOf(v, p) \in Entry
  <2>1. Cardinality({q \in Candidates(v) \ {p} : Before(v, q, p)}) \in Nat
    BY FleetPlans, FS_Subset, FS_CardinalityType
  <2> QED
    BY <2>1 DEF EntryOf, Entry
<1>2. ASSUME NEW p \in Candidates(v), NEW q \in Candidates(v), p # q
      PROVE  EntryOf(v, p).place # EntryOf(v, q).place
  <2>1. EntryOf(v, p) \in Entry /\ EntryOf(v, q) \in Entry
    BY <1>1
  <2>2. EntryOf(v, p).place \in Nat /\ EntryOf(v, q).place \in Nat
    BY <2>1 DEF Entry
  <2>3. Before(v, p, q) \/ Before(v, q, p)
    BY <1>2, BeforeIsOrder
  <2> QED
    BY <2>2, <2>3, PlacesDiffer
<1> QED
  BY <1>1, <1>2

-----------------------------------------------------------------------------
(* How walks move: only a gather adds to one.                              *)

\* The walks pick' are typed, and leave out what they like.
Shrinks(walks) ==
    /\ walks \in [Pickers -> Walk]
    /\ \A h \in Pickers : walks[h].todo \subseteq pick[h].todo

\* Giving a walk up, leaving a candidate behind and losing sight of a tip
\* only shrink walks.
LEMMA WalksShrink ==
    ASSUME NEW walks, Shrinks(walks), NEW h \in Pickers, NEW e
    PROVE  Shrinks(Skip(walks, h, e)) /\ Shrinks(Stop(walks, h))
  BY DEF Shrinks, Skip, Stop, Walk, Rest

LEMMA MissedShrinks ==
    ASSUME TypeOK, NEW p
    PROVE  Shrinks(pick) /\ Shrinks(Missed(p))
  BY DEF TypeOK, Shrinks, Missed, Walk

\* Every step but a gather only shrinks walks.
LEMMA StepShrinks ==
    ASSUME TypeOK, Next, \A h \in Pickers : ~Gather(h)
    PROVE  Shrinks(pick')
<1>1. ASSUME NEW h \in Pickers, NEW e \in pick[h].todo,
             \/ NoOpenPhase(h, e) \/ Refused(h, e) \/ Veto(h, e)
             \/ Lost(h, e) \/ LostToLanded(h, e)
             \/ Start(h, e) \/ StartFails(h, e)
      PROVE  Shrinks(pick')
  <2>1. \E walks \in {pick, Missed(e.plan)} :
            pick' = Skip(walks, h, e) \/ pick' = Stop(walks, h)
    BY <1>1
       DEF NoOpenPhase, Refused, Veto, Lost, LostToLanded, Start, StartFails
  <2> QED
    BY <2>1, WalksShrink, MissedShrinks
<1>2. ASSUME NEW h \in Others, NEW p \in Plans, StartByName(h, p)
      PROVE  Shrinks(pick')
  BY <1>2, MissedShrinks DEF StartByName
<1>3. ASSUME NEW p \in Plans, Elsewhere(p)
      PROVE  Shrinks(pick')
  BY <1>3, MissedShrinks
     DEF Elsewhere, Close, Forget, CloseTo, Vanish, Release, Age, Land,
         Repair, Supersede
<1> QED
  BY <1>1, <1>2, <1>3 DEF Next, Try

\* A gather fills its walk from a view, and touches no other.
LEMMA GatherFills ==
    ASSUME TypeOK, NEW h \in Pickers, Gather(h)
    PROVE  \E v \in Views(h) :
              /\ pick' \in [Pickers -> Walk]
              /\ pick'[h].todo = {EntryOf(v, p) : p \in Candidates(v)}
              /\ \A g \in Pickers \ {h} : pick'[g] = pick[g]
              /\ \A p, q \in Candidates(v) :
                    EntryOf(v, p).place = EntryOf(v, q).place => p = q
<1>1. PICK v \in Views(h) :
          pick' = [pick EXCEPT ![h] =
                      [todo |-> {EntryOf(v, p) : p \in Candidates(v)},
                       seen |-> Plans]]
  BY DEF Gather
<1>2. Candidates(v) \subseteq Plans
  BY ViewOfMain DEF Candidates, Ready, Resumable
<1>3. {EntryOf(v, p) : p \in Candidates(v)} \subseteq Entry
  BY <1>2, GatheredWalk
<1>4. \A p, q \in Candidates(v) :
          EntryOf(v, p).place = EntryOf(v, q).place => p = q
  BY <1>2, GatheredWalk
<1>5. pick' \in [Pickers -> Walk]
  BY <1>1, <1>3 DEF TypeOK, Walk
<1> QED
  BY <1>1, <1>4, <1>5 DEF TypeOK

-----------------------------------------------------------------------------
(* Types.                                                                  *)

LEMMA MainIsNoPlan == Main \notin Plans
  BY FleetPlans DEF Main

\* A plan's copy as it was written.
LEMMA FreshTyped ==
    ASSUME ledger \in Ledgers
    PROVE  Fresh \in [Plans -> Copy]
  BY FleetPlans DEF Fresh, Copy, Status

LEMMA InitTyped == Init => TypeOK
  BY FreshTyped, FleetBounds
     DEF Init, TypeOK, Refs, Lane, NoLane, Hosts, Walk, Rest, Nobody

\* The variables other than the walks keep their types.
StateTyped ==
    /\ ledger \in Ledgers
    /\ tree \in [Refs -> [Plans -> Copy]]
    /\ lane \in [Plans -> Lane]
    /\ agent \in [Plans -> Hosts \cup {Nobody}]
    /\ aged \in SUBSET Plans
    /\ faults \in 0..MaxFaults

LEMMA CostsTyped ==
    ASSUME TypeOK, NEW free, Costs(free)
    PROVE  faults' \in 0..MaxFaults
  BY FleetBounds DEF TypeOK, Costs

LEMMA LeasedTyped ==
    ASSUME TypeOK, NEW p \in Plans, NEW ref \in {"held", "released"},
           Leased(p, ref)
    PROVE  /\ tree' \in [Refs -> [Plans -> Copy]]
           /\ lane' \in [Plans -> Lane]
           /\ aged' \in SUBSET Plans
  BY DEF TypeOK, Leased, Lane, Refs

\* The plan of a candidate is a plan.
LEMMA EntryPlan ==
    ASSUME TypeOK, NEW h \in Pickers, NEW e \in pick[h].todo
    PROVE  e \in Entry /\ e.plan \in Plans
  BY DEF TypeOK, Walk, Entry

LEMMA TryTyped ==
    ASSUME TypeOK, NEW h \in Pickers, NEW e \in pick[h].todo,
           \/ NoOpenPhase(h, e) \/ Refused(h, e) \/ Veto(h, e)
           \/ Lost(h, e) \/ LostToLanded(h, e)
           \/ Start(h, e) \/ StartFails(h, e),
           ledger' = ledger
    PROVE  StateTyped'
<1>1. CASE NoOpenPhase(h, e) \/ Refused(h, e) \/ Veto(h, e) \/ Lost(h, e)
  BY <1>1 DEF NoOpenPhase, Refused, Veto, Lost, TypeOK, StateTyped
<1>2. CASE LostToLanded(h, e)
  <2>1. faults' \in 0..MaxFaults
    BY <1>2, CostsTyped DEF LostToLanded
  <2>2. Fresh \in [Plans -> Copy]
    BY FreshTyped DEF TypeOK
  <2> QED
    BY <1>2, <2>1, <2>2, EntryPlan
       DEF LostToLanded, TypeOK, StateTyped, Refs, Lane, NoLane
<1>3. CASE Start(h, e)
  <2>1. faults' \in 0..MaxFaults
    BY <1>3, CostsTyped DEF Start
  <2> QED
    BY <1>3, <2>1, EntryPlan, LeasedTyped
       DEF Start, TypeOK, StateTyped, Hosts
<1>4. CASE StartFails(h, e)
  <2>1. faults' \in 0..MaxFaults
    BY <1>4, CostsTyped DEF StartFails
  <2> QED
    BY <1>4, <2>1, EntryPlan, LeasedTyped DEF StartFails, TypeOK, StateTyped
<1> QED
  BY <1>1, <1>2, <1>3, <1>4

LEMMA ByNameTyped ==
    ASSUME TypeOK, NEW h \in Others, NEW p \in Plans, StartByName(h, p),
           ledger' = ledger
    PROVE  StateTyped'
<1>1. faults' \in 0..MaxFaults
  BY CostsTyped DEF StartByName
<1> QED
  BY <1>1, LeasedTyped DEF StartByName, TypeOK, StateTyped, Hosts

\* An agent's commit changes its own lane's copy of its own plan.
LEMMA CloseToTyped ==
    ASSUME TypeOK, NEW p \in Plans, NEW status \in {"wip", "done"},
           CloseTo(p, status)
    PROVE  /\ tree' \in [Refs -> [Plans -> Copy]]
           /\ lane' \in [Plans -> Lane]
           /\ agent' \in [Plans -> Hosts \cup {Nobody}]
           /\ aged' \in SUBSET Plans
<1>1. [status |-> status, open |-> tree[p][p].open - 1] \in Copy
  BY DEF CloseTo, TypeOK, Refs, Copy, Status
<1>2. tree' \in [Refs -> [Plans -> Copy]]
  BY <1>1 DEF CloseTo, TypeOK, Refs
<1>3. lane' \in [Plans -> Lane]
  BY DEF CloseTo, TypeOK, Lane
<1> QED
  BY <1>2, <1>3 DEF CloseTo, TypeOK

\* A commit that only restates a plan's status on the default branch.
LEMMA RestatedTyped ==
    ASSUME TypeOK, NEW p \in Plans, NEW status \in Status,
           tree' = [tree EXCEPT ![Main][p].status = status]
    PROVE  tree' \in [Refs -> [Plans -> Copy]]
<1> DEFINE c == tree[Main][p]
<1>1. Main \in Refs /\ c \in Copy /\ tree[Main] \in [Plans -> Copy]
  BY DEF TypeOK, Refs
<1>2. [c EXCEPT !.status = status] \in Copy
  BY <1>1 DEF Copy
<1>3. tree' = [tree EXCEPT
                  ![Main] = [tree[Main] EXCEPT
                                ![p] = [c EXCEPT !.status = status]]]
  OBVIOUS
<1> QED
  BY <1>1, <1>2, <1>3 DEF TypeOK

LEMMA ElsewhereTyped ==
    ASSUME TypeOK, NEW p \in Plans, Elsewhere(p), ledger' = ledger
    PROVE  StateTyped'
<1>1. CASE Close(p)
  BY <1>1, CloseToTyped DEF Close, TypeOK, StateTyped
<1>2. CASE Forget(p)
  <2>1. faults' \in 0..MaxFaults
    BY <1>2, CostsTyped DEF Forget
  <2> QED
    BY <1>2, <2>1, CloseToTyped DEF Forget, TypeOK, StateTyped
<1>3. CASE Vanish(p)
  <2>1. faults' \in 0..MaxFaults
    BY <1>3, CostsTyped DEF Vanish
  <2> QED
    BY <1>3, <2>1 DEF Vanish, TypeOK, StateTyped
<1>4. CASE Release(p)
  <2>1. faults' \in 0..MaxFaults
    BY <1>4, CostsTyped DEF Release
  <2> QED
    BY <1>4, <2>1 DEF Release, TypeOK, StateTyped, Lane
<1>5. CASE Age(p)
  BY <1>5 DEF Age, TypeOK, StateTyped
<1>6. CASE Land(p)
  <2>1. tree' \in [Refs -> [Plans -> Copy]]
    BY <1>6 DEF Land, TypeOK, Refs
  <2> QED
    BY <1>6, <2>1 DEF Land, TypeOK, StateTyped, Lane
<1>7. CASE Repair(p)
  <2>1. tree' \in [Refs -> [Plans -> Copy]]
    BY <1>7, RestatedTyped DEF Repair, Status
  <2> QED
    BY <1>7, <2>1 DEF Repair, TypeOK, StateTyped
<1>8. CASE Supersede(p)
  <2>1. faults' \in 0..MaxFaults
    BY <1>8, CostsTyped DEF Supersede
  <2> QED
    BY <1>8, <2>1, RestatedTyped DEF Supersede, TypeOK, StateTyped, Status
<1> QED
  BY <1>1, <1>2, <1>3, <1>4, <1>5, <1>6, <1>7, <1>8 DEF Elsewhere

\* Every step keeps the types, and the strict order of every walk.
LEMMA NextTyped ==
    ASSUME TypeOK, Next
    PROVE  TypeOK'
<1>1. StateTyped'
  <2>1. CASE \E h \in Pickers : Gather(h)
    BY <2>1 DEF Next, Gather, TypeOK, StateTyped
  <2> QED
    BY <2>1, TryTyped, ByNameTyped, ElsewhereTyped DEF Next, Try
<1>2. /\ pick' \in [Pickers -> Walk]
      /\ \A h \in Pickers : \A e, f \in pick'[h].todo :
            e.place = f.place => e = f
  <2>1. CASE \E h \in Pickers : Gather(h)
    <3>1. PICK h \in Pickers : Gather(h)
      BY <2>1
    <3>2. PICK v \in Views(h) :
              /\ pick' \in [Pickers -> Walk]
              /\ pick'[h].todo = {EntryOf(v, p) : p \in Candidates(v)}
              /\ \A g \in Pickers \ {h} : pick'[g] = pick[g]
              /\ \A p, q \in Candidates(v) :
                    EntryOf(v, p).place = EntryOf(v, q).place => p = q
      BY <3>1, GatherFills
    <3>3. \A e, f \in pick'[h].todo : e.place = f.place => e = f
      BY <3>2
    <3> QED
      BY <3>2, <3>3 DEF TypeOK
  <2>2. CASE \A h \in Pickers : ~Gather(h)
    BY <2>2, StepShrinks DEF Shrinks, TypeOK
  <2> QED
    BY <2>1, <2>2
<1> QED
  BY <1>1, <1>2 DEF StateTyped, TypeOK

-----------------------------------------------------------------------------
(* The default branch, and what is begun.                                  *)

\* The steps that leave the default branch's copies alone.
MainKept == tree'[Main] = tree[Main]

\* Work in a lane never shows on the default branch by itself.
LEMMA LaneStepsKeepMain ==
    ASSUME TypeOK, Next,
           \A p \in Plans : ~Land(p) /\ ~Repair(p) /\ ~Supersede(p)
    PROVE  MainKept
<1>1. Main \in Refs /\ tree \in [Refs -> [Plans -> Copy]]
  BY DEF TypeOK, Refs
<1>2. ASSUME NEW h \in Pickers, Gather(h) PROVE MainKept
  BY <1>2 DEF Gather, MainKept
<1>3. ASSUME NEW h \in Pickers, NEW e \in pick[h].todo,
             \/ NoOpenPhase(h, e) \/ Refused(h, e) \/ Veto(h, e)
             \/ Lost(h, e) \/ LostToLanded(h, e)
             \/ Start(h, e) \/ StartFails(h, e)
      PROVE  MainKept
  <2>1. e.plan \in Plans /\ e.plan # Main
    BY EntryPlan, MainIsNoPlan
  <2>2. CASE NoOpenPhase(h, e) \/ Refused(h, e) \/ Veto(h, e) \/ Lost(h, e)
    BY <2>2 DEF NoOpenPhase, Refused, Veto, Lost, MainKept
  <2>3. CASE LostToLanded(h, e)
    BY <1>1, <2>1, <2>3 DEF LostToLanded, MainKept
  <2>4. CASE Start(h, e) \/ StartFails(h, e)
    BY <1>1, <2>1, <2>4 DEF Start, StartFails, Leased, MainKept
  <2> QED
    BY <1>3, <2>2, <2>3, <2>4
<1>4. ASSUME NEW h \in Others, NEW p \in Plans, StartByName(h, p)
      PROVE  MainKept
  BY <1>1, <1>4, MainIsNoPlan DEF StartByName, Leased, MainKept
<1>5. ASSUME NEW p \in Plans, Elsewhere(p) PROVE MainKept
  BY <1>1, <1>5, MainIsNoPlan
     DEF Elsewhere, Close, Forget, CloseTo, Vanish, Release, Age, MainKept
<1> QED
  BY <1>2, <1>3, <1>4, <1>5 DEF Next, Try

\* Landing, repairing and superseding touch the default branch's copy of
\* one plan, which was neither done nor dropped there.
LEMMA MainSteps ==
    ASSUME TypeOK, NEW p \in Plans, Land(p) \/ Repair(p) \/ Supersede(p)
    PROVE  /\ MainSays(p) \in {"todo", "wip"}
           /\ \A d \in Plans \ {p} : MainSays(d)' = MainSays(d)
           /\ \A q \in Plans : lane'[q].ref = lane[q].ref
           /\ pick' = pick
           /\ ~Supersede(p) => Begun(p)
           /\ Supersede(p) => MainSays(p)' = "dropped"
<1>1. Main \in Refs /\ tree \in [Refs -> [Plans -> Copy]]
  BY DEF TypeOK, Refs
<1>2. \A d \in Plans \ {p} : MainSays(d)' = MainSays(d)
  BY <1>1 DEF Land, Repair, Supersede, MainSays
<1>3. \A q \in Plans : lane'[q].ref = lane[q].ref
  <2>1. CASE Land(p)
    <3>1. PICK merged \in BOOLEAN : lane' = [lane EXCEPT ![p].merged = merged]
      BY <2>1 DEF Land
    <3>2. lane \in [Plans -> Lane]
      BY DEF TypeOK
    <3> QED
      BY <3>1, <3>2 DEF Lane
  <2> QED
    BY <2>1 DEF Repair, Supersede
<1>4. Supersede(p) => MainSays(p)' = "dropped"
  BY <1>1 DEF Supersede, MainSays, Copy
<1> QED
  BY <1>2, <1>3, <1>4 DEF Land, Repair, Supersede, MainSays, Begun

\* Done on the default branch is final.
LEMMA DoneIsFinal ==
    ASSUME TypeOK, Next, NEW d \in Plans, MainSays(d) = "done"
    PROVE  MainSays(d)' = "done"
<1>1. CASE \E p \in Plans : Land(p) \/ Repair(p) \/ Supersede(p)
  <2>1. PICK p \in Plans : Land(p) \/ Repair(p) \/ Supersede(p)
    BY <1>1
  <2>2. p # d
    BY <2>1, MainSteps
  <2> QED
    BY <2>1, <2>2, MainSteps
<1>2. CASE \A p \in Plans : ~Land(p) /\ ~Repair(p) /\ ~Supersede(p)
  BY <1>2, LaneStepsKeepMain DEF MainKept, MainSays
<1> QED
  BY <1>1, <1>2

\* Dependencies are plans, and do not change.
LEMMA DepsArePlans ==
    ASSUME TypeOK, Next, NEW p \in Plans
    PROVE  Deps(p) \subseteq Plans /\ Deps(p)' = Deps(p)
  BY FleetPlans DEF TypeOK, Next, Deps

LEMMA DepsStayLanded ==
    ASSUME TypeOK, Next, NEW p \in Plans, DepsLanded(p)
    PROVE  DepsLanded(p)'
  BY DoneIsFinal, DepsArePlans DEF DepsLanded

\* A step that gives a plan a work ref found what it depends on landed:
\* the walk's view did, and done is final.
LEMMA LanesLanded ==
    ASSUME IInv, Next, NEW p \in Plans,
           lane'[p].ref # "absent", lane[p].ref = "absent"
    PROVE  DepsLanded(p)
<1>1. TypeOK /\ DependenciesFirst /\ WalksLanded
  BY DEF IInv
<1>2. lane \in [Plans -> Lane]
  BY <1>1 DEF TypeOK
<1>3. ASSUME NEW h \in Pickers, Gather(h) PROVE FALSE
  BY <1>3 DEF Gather
<1>4. ASSUME NEW h \in Pickers, NEW e \in pick[h].todo,
             \/ NoOpenPhase(h, e) \/ Refused(h, e) \/ Veto(h, e)
             \/ Lost(h, e) \/ LostToLanded(h, e)
             \/ Start(h, e) \/ StartFails(h, e)
      PROVE  DepsLanded(p)
  <2>1. e.plan \in Plans /\ DepsLanded(e.plan)
    BY <1>1, EntryPlan DEF WalksLanded
  <2>2. p = e.plan
    BY <1>2, <1>4, <2>1
       DEF NoOpenPhase, Refused, Veto, Lost, LostToLanded, Start, StartFails,
           Leased, NoLane
  <2> QED
    BY <2>1, <2>2
<1>5. ASSUME NEW h \in Others, NEW q \in Plans, StartByName(h, q)
      PROVE  DepsLanded(p)
  <2>1. p = q
    BY <1>2, <1>5 DEF StartByName, Leased
  <2>2. PICK v \in Views(h) : q \in Candidates(v)
    BY <1>5 DEF StartByName
  <2> QED
    BY <1>1, <2>1, <2>2, CandidateLanded
<1>6. ASSUME NEW q \in Plans, Elsewhere(q) PROVE FALSE
  <2>1. CASE Land(q) \/ Repair(q) \/ Supersede(q)
    BY <1>1, <2>1, MainSteps
  <2>2. CASE Close(q) \/ Forget(q)
    <3>1. lane' = [lane EXCEPT ![q].merged = FALSE]
      BY <2>2 DEF Close, Forget, CloseTo
    <3> QED
      BY <1>2, <3>1 DEF Lane
  <2>3. CASE Vanish(q) \/ Release(q) \/ Age(q)
    BY <1>2, <2>3 DEF Vanish, Release, Age
  <2> QED
    BY <1>6, <2>1, <2>2, <2>3 DEF Elsewhere
<1> QED
  BY <1>3, <1>4, <1>5, <1>6 DEF Next, Try

LEMMA BegunLanded ==
    ASSUME IInv, Next, NEW p \in Plans, Begun(p)'
    PROVE  DepsLanded(p)
<1>1. TypeOK /\ DependenciesFirst
  BY DEF IInv
<1>2. CASE Begun(p)
  BY <1>1, <1>2 DEF DependenciesFirst, DepsLanded, MainSays
<1>3. CASE ~Begun(p)
  <2>1. CASE lane'[p].ref # "absent"
    BY <1>3, <2>1, LanesLanded DEF Begun
  <2>2. CASE MainSays(p)' \in {"wip", "done"} /\ lane'[p].ref = "absent"
    <3>1. MainSays(p)' # MainSays(p)
      BY <1>3, <2>2 DEF Begun, MainSays
    <3>2. \E q \in Plans : Land(q) \/ Repair(q) \/ Supersede(q)
      BY <1>1, <3>1, LaneStepsKeepMain DEF MainKept, MainSays
    <3>3. PICK q \in Plans : Land(q) \/ Repair(q) \/ Supersede(q)
      BY <3>2
    <3>4. p = q /\ Supersede(p)
      BY <1>1, <1>3, <3>1, <3>3, MainSteps
    <3> QED
      BY <1>1, <2>2, <3>4, MainSteps
  <2> QED
    BY <2>1, <2>2 DEF Begun, MainSays
<1> QED
  BY <1>2, <1>3

\* A walk's candidates had their dependencies landed when it looked.
LEMMA WalkedLanded ==
    ASSUME IInv, Next, NEW h \in Pickers, NEW e \in pick'[h].todo
    PROVE  e.plan \in Plans /\ DepsLanded(e.plan)
<1>1. TypeOK /\ DependenciesFirst /\ WalksLanded
  BY DEF IInv
<1>2. CASE e \in pick[h].todo
  BY <1>1, <1>2, EntryPlan DEF WalksLanded
<1>3. CASE e \notin pick[h].todo
  <2>1. PICK g \in Pickers : Gather(g)
    BY <1>1, <1>3, StepShrinks DEF Shrinks
  <2>2. PICK v \in Views(g) :
            /\ pick'[g].todo = {EntryOf(v, p) : p \in Candidates(v)}
            /\ \A k \in Pickers \ {g} : pick'[k] = pick[k]
    BY <1>1, <2>1, GatherFills
  <2>3. PICK p \in Candidates(v) : e = EntryOf(v, p)
    BY <1>3, <2>2
  <2> QED
    BY <1>1, <2>3, CandidateLanded DEF EntryOf
<1> QED
  BY <1>2, <1>3

-----------------------------------------------------------------------------
(* The invariant is inductive.                                             *)

LEMMA InitIInv == Init => IInv
  BY InitTyped
     DEF Init, IInv, DependenciesFirst, Begun, WalksLanded, Fresh, NoLane,
         Rest, Refs

\* Invariance: dependencies come first, in the lanes, on the default
\* branch and in every walk.
THEOREM Invariance == Spec => []IInv
<1>1. IInv /\ [Next]_vars => IInv'
  <2> SUFFICES ASSUME IInv, [Next]_vars PROVE IInv'
    OBVIOUS
  <2>1. CASE Next
    <3>1. TypeOK /\ TypeOK'
      BY <2>1, NextTyped DEF IInv
    <3>2. DependenciesFirst'
      BY <2>1, <3>1, BegunLanded, DepsStayLanded
         DEF DependenciesFirst, DepsLanded, MainSays
    <3>3. WalksLanded'
      BY <2>1, <3>1, WalkedLanded, DepsStayLanded DEF WalksLanded
    <3> QED
      BY <3>1, <3>2, <3>3 DEF IInv
  <2>2. CASE UNCHANGED vars
    BY <2>2
       DEF vars, IInv, TypeOK, DependenciesFirst, Begun, WalksLanded,
           DepsLanded, MainSays, Deps
  <2> QED
    BY <2>1, <2>2
<1> QED
  BY <1>1, InitIInv, PTL DEF Spec

\* Every variable keeps its type, and every walk its strict order.
THEOREM TypeCorrect == Spec => []TypeOK
<1>1. IInv => TypeOK
  BY DEF IInv
<1> QED
  BY <1>1, Invariance, PTL

\* No plan is begun before what it depends on has landed.
THEOREM DependenciesLandFirst == Spec => []DependenciesFirst
<1>1. IInv => DependenciesFirst
  BY DEF IInv
<1> QED
  BY <1>1, Invariance, PTL

\* No walk starts on a plan the default branch has settled.
THEOREM SettledPlansStayDown == Spec => SettledStaysDown
<1>1. ASSUME IInv, Next, NEW h \in Pickers, pick[h].todo = {},
             NEW e \in pick'[h].todo
      PROVE  tree[Main][e.plan].status \in {"todo", "wip"}
  <2>1. TypeOK /\ DependenciesFirst
    BY <1>1 DEF IInv
  <2>2. PICK g \in Pickers : Gather(g)
    BY <1>1, <2>1, StepShrinks DEF Shrinks
  <2>3. PICK v \in Views(g) :
            /\ pick'[g].todo = {EntryOf(v, p) : p \in Candidates(v)}
            /\ \A k \in Pickers \ {g} : pick'[k] = pick[k]
    BY <2>1, <2>2, GatherFills
  <2>4. PICK p \in Candidates(v) : e = EntryOf(v, p)
    BY <1>1, <2>3
  <2> QED
    BY <2>1, <2>4, CandidateLanded DEF EntryOf, MainSays
<1>2. IInv /\ [Next]_vars =>
        [\A h \in Pickers :
            pick[h].todo = {} => \A e \in pick'[h].todo :
                tree[Main][e.plan].status \in {"todo", "wip"}]_vars
  BY <1>1
<1> QED
  BY <1>2, Invariance, PTL DEF Spec, SettledStaysDown
=============================================================================

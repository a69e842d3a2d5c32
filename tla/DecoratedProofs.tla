-------------------------- MODULE DecoratedProofs --------------------------
(***************************************************************************)
(* Theorems about Decorated, for any branches, machines, claims and        *)
(* faults.  What a takeover that is half way, or a delete that is still on *)
(* its way, may take from the remote is parked or landed already; and what *)
(* it is done with is gone, unless somebody has pushed it since.           *)
(***************************************************************************)
EXTENDS Decorated, TLAPS

-----------------------------------------------------------------------------
(* The invariant.                                                          *)

Safe(S) == WorkIn(S) \subseteq rescue \cup content

\* Park comes before delete, for every delete that may still happen.
ParkedInv ==
    /\ \A p \in Procs, b \in Branches :
          (At(p, "delete") \/ At(p, "drop")) /\ IsFirst(b, cmd[p].standing)
          => Safe(cmd[p].tips[b])
    /\ \A d \in late : Safe(d[2])

Gone(p, b) == origin[b] # cmd[p].tips[b] \/ b \in since[p]

\* What the takeover has still to read or to delete on the remote.
Ahead(p) ==
    cmd[p].todo \cup
    {b \in cmd[p].standing \cap cmd[p].pushed :
        ~(At(p, "drop") /\ IsFirst(b, cmd[p].standing))}

GoneOf(p) ==
    /\ \A b \in Judged(p) \ Ahead(p) : Gone(p, b)
    /\ At(p, "park") \/ At(p, "delete") \/ At(p, "drop") =>
          cmd[p].todo = {}
    /\ At(p, "acquire") => cmd[p].todo = {} /\ cmd[p].standing = {}

GoneInv == \A p \in Procs : GoneOf(p)

IInv == TypeOK /\ ParkedInv /\ GoneInv

-----------------------------------------------------------------------------
(* Types.                                                                  *)

LEMMA FirstUnique ==
    ASSUME NEW S \in SUBSET Branches, NEW b, NEW c,
           IsFirst(b, S), IsFirst(c, S)
    PROVE  b = c
<1>0. b \in S /\ c \in S
  BY DEF IsFirst
<1>1. /\ b \in Branches /\ c \in Branches
      /\ Rank[b] <= Rank[c] /\ Rank[c] <= Rank[b]
  BY <1>0 DEF IsFirst
<1>2. Rank[b] \in Nat /\ Rank[c] \in Nat
  BY <1>1, DecoratedRank
<1>3. Rank[b] = Rank[c]
  BY <1>1, <1>2
<1> QED
  BY <1>1, <1>3, DecoratedRank

LEMMA IdleTyped == Idle \in Cmd
  BY DEF Idle, Cmd, PCs, None

LEMMA FinishTyped ==
    ASSUME TypeOK, NEW p \in Procs, Finish(p)
    PROVE  /\ cmd' \in [Procs -> Cmd] /\ cmd'[p] = Idle
           /\ since' \in [Procs -> SUBSET Branches]
           /\ \A q \in Procs \ {p} :
                 cmd'[q] = cmd[q] /\ since'[q] = since[q]
  BY IdleTyped DEF TypeOK, Finish, Become

LEMMA GotoTyped ==
    ASSUME TypeOK, NEW p \in Procs, NEW pc \in PCs, Goto(p, pc)
    PROVE  /\ cmd' \in [Procs -> Cmd]
           /\ cmd'[p] = [cmd[p] EXCEPT !.pc = pc]
<1>1. cmd[p] \in Cmd /\ cmd' = [cmd EXCEPT ![p] = [cmd[p] EXCEPT !.pc = pc]]
  BY DEF TypeOK, Goto, Become
<1>2. [cmd[p] EXCEPT !.pc = pc] \in Cmd
  BY <1>1 DEF Cmd
<1> QED
  BY <1>1, <1>2 DEF TypeOK

LEMMA TipTyped ==
    ASSUME TypeOK, NEW h \in Hosts, NEW b \in Branches
    PROVE  Tip(h, b) \in SUBSET Commits
  BY DEF TypeOK, Tip

\* A step of a command that ends it or moves it on leaves the rest typed.
LEMMA QuietTyped ==
    ASSUME TypeOK, UNCHANGED <<unchangedBeside, rescue>>,
           origin' \in [Branches -> SUBSET Commits],
           late' \in SUBSET (Branches \X SUBSET Commits),
           faults' \in 0..MaxFaults,
           cmd' \in [Procs -> Cmd], since' \in [Procs -> SUBSET Branches]
    PROVE  TypeOK'
  BY DEF TypeOK, unchangedBeside, landing, lanes, Cmd, Commits, Made

LEMMA FaultTyped ==
    ASSUME TypeOK, Fault
    PROVE  faults' \in 0..MaxFaults
  BY DecoratedBounds DEF TypeOK, Fault

LEMMA WorkTyped ==
    ASSUME TypeOK, NEW h \in Hosts, NEW b \in Branches, Work(h, b)
    PROVE  TypeOK'
<1>1. /\ work' \in 0..MaxWork /\ work + 1 \in Commits'
      /\ Commits \subseteq Commits' /\ Made \subseteq Made'
  BY DecoratedBounds DEF Work, TypeOK, Commits, Made
<1>2. /\ local' = [local EXCEPT ![h][b] = @ \cup {work + 1}]
      /\ local' \in [Hosts -> [Branches -> SUBSET Commits']]
      /\ \A g \in Hosts, c \in Branches : local[g][c] \subseteq local'[g][c]
  BY <1>1 DEF Work, TypeOK
<1>3. \A g \in Hosts : \A c \in out[g] : local'[g][c] # {}
  BY <1>2 DEF TypeOK
<1>4. Cmd \subseteq Cmd'
  BY <1>1 DEF Cmd
<1>5. SUBSET (Branches \X SUBSET Commits)
         \subseteq SUBSET (Branches \X SUBSET Commits')
  BY <1>1
<1>6. UNCHANGED <<merged, content, rescue, origin, out, agents, lease, late,
                  faults, cmd, since>>
  BY DEF Work, landing
<1>7. /\ late' \in SUBSET (Branches \X SUBSET Commits')
      /\ cmd' \in [Procs -> Cmd']
  BY <1>4, <1>5, <1>6 DEF TypeOK
<1> QED
  BY <1>1, <1>2, <1>3, <1>6, <1>7 DEF TypeOK

LEMMA EnvironmentTyped ==
    ASSUME TypeOK, Environment
    PROVE  TypeOK'
<1>1. ASSUME NEW h \in Hosts, NEW b \in Branches, Push(h, b)
      PROVE  TypeOK'
  <2>1. origin' \in [Branches -> SUBSET Commits]
    BY <1>1 DEF Push, TypeOK
  <2>2. since' \in [Procs -> SUBSET Branches]
    BY <1>1 DEF Push, TypeOK
  <2>3. UNCHANGED <<unchangedBeside, rescue, late, faults, cmd>>
    BY <1>1 DEF Push, unchangedBeside
  <2>4. /\ late \in SUBSET (Branches \X SUBSET Commits)
        /\ faults \in 0..MaxFaults /\ cmd \in [Procs -> Cmd]
    BY DEF TypeOK
  <2> QED
    BY <2>1, <2>2, <2>3, <2>4, QuietTyped
<1>2. ASSUME NEW h \in Hosts, NEW b \in Branches, AgentMoves(h, b)
      PROVE  TypeOK'
  <2>1. /\ out' \in [Hosts -> SUBSET Branches]
        /\ agents' \in [Hosts -> SUBSET Branches]
        /\ \A g \in Hosts : agents'[g] \subseteq out'[g]
        /\ \A g \in Hosts : out'[g] \subseteq out[g]
    <3>1. CASE agents' = [agents EXCEPT ![h] = @ \cup {b}] /\ UNCHANGED out
      BY <1>2, <3>1 DEF AgentMoves, TypeOK
    <3>2. CASE agents' = [agents EXCEPT ![h] = @ \ {b}] /\ UNCHANGED out
      BY <1>2, <3>2 DEF TypeOK
    <3>3. CASE /\ out' = [out EXCEPT ![h] = @ \ {b}]
               /\ agents' = [agents EXCEPT ![h] = @ \ {b}]
      BY <1>2, <3>3 DEF TypeOK
    <3> QED
      BY <1>2, <3>1, <3>2, <3>3 DEF AgentMoves
  <2>2. UNCHANGED <<work, merged, content, rescue, origin, local, lease,
                    late, faults, cmd, since>>
    BY <1>2 DEF AgentMoves, landing
  <2> QED
    BY <2>1, <2>2 DEF TypeOK, Cmd, Commits, Made
<1>3. ASSUME NEW b \in Branches, Land(b) PROVE TypeOK'
  <2>1. /\ content' \in SUBSET Made
        /\ merged' \in [Branches -> SUBSET Commits]
    <3>1. WorkIn(origin[b]) \subseteq Made /\ origin[b] \subseteq Commits
      BY DEF TypeOK, WorkIn, Commits, Made
    <3>2. content' \in SUBSET Made
      BY <1>3, <3>1 DEF Land, TypeOK
    <3>3. merged' \in [Branches -> SUBSET Commits]
      BY <1>3, <3>1 DEF Land, TypeOK
    <3> QED
      BY <3>2, <3>3
  <2>2. UNCHANGED <<work, rescue, origin, local, out, agents, lease, late,
                    faults, cmd, since>>
    BY <1>3 DEF Land, lanes
  <2> QED
    BY <2>1, <2>2 DEF TypeOK, Cmd, Commits, Made
<1>4. CASE Deliver
  <2>1. origin' \in [Branches -> SUBSET Commits] /\ late' \subseteq late
    BY <1>4 DEF Deliver, TypeOK
  <2> QED
    BY <1>4, <2>1, QuietTyped DEF Deliver, TypeOK, unchangedBeside
<1> QED
  BY <1>1, <1>2, <1>3, <1>4, WorkTyped DEF Environment

LEMMA AfterTyped ==
    ASSUME NEW todo, NEW standing, NEW pc \in {"read", "park"}
    PROVE  After(todo, pc, standing) \in PCs
  BY DEF After, PCs

LEMMA GatherTyped ==
    ASSUME TypeOK, NEW p \in Procs, Gather(p)
    PROVE  TypeOK'
<1> DEFINE h == HostOf[p]
           judged == [b \in Branches |-> IF b \in Held(h) THEN Tip(h, b)
                                         ELSE {}]
           c1 == [Idle EXCEPT !.pc = "acquire"]
           c2 == [Idle EXCEPT !.pc = "veto", !.todo = Held(h),
                              !.tips = judged]
<1>1. h \in Hosts /\ Held(h) \subseteq Branches
  BY DecoratedHosts DEF Held
<1>2. judged \in [Branches -> SUBSET Commits]
  BY <1>1, TipTyped
<1>3. c1 \in Cmd /\ c2 \in Cmd
  <2> HIDE DEF judged
  <2> QED
    BY <1>1, <1>2, IdleTyped DEF Cmd, PCs, Idle
<1>4. cmd' = [cmd EXCEPT ![p] = IF Held(h) = {} THEN c1 ELSE c2]
  BY DEF Gather, Become
<1> HIDE DEF c1, c2
<1>5. cmd' \in [Procs -> Cmd]
  BY <1>3, <1>4 DEF TypeOK
<1> QED
  BY <1>5, QuietTyped DEF Gather, TypeOK

LEMMA RereadTyped ==
    ASSUME TypeOK, NEW p \in Procs, NEW b \in Branches, Reread(p, b)
    PROVE  TypeOK'
<1> DEFINE c == cmd[p]
           standing == IF Tip(HostOf[p], b) = {} THEN c.standing
                       ELSE c.standing \cup {b}
           pc == After(c.todo \ {b}, "read", standing)
           pushed == IF origin[b] # {} THEN c.pushed \cup {b} ELSE c.pushed
           d == [c EXCEPT !.todo = @ \ {b}, !.standing = standing,
                          !.pc = pc, !.pushed = pushed]
<1>1. c \in Cmd
  BY DEF TypeOK
<1>2. standing \in SUBSET Branches /\ pushed \in SUBSET Branches /\ pc \in PCs
  BY <1>1, AfterTyped DEF Cmd
<1>3. cmd' = [cmd EXCEPT ![p] = d]
  BY DEF Reread, Become
<1>4. d \in Cmd
  <2> HIDE DEF c, standing, pc, pushed
  <2> QED
    BY <1>1, <1>2 DEF Cmd
<1> HIDE DEF d
<1>5. cmd' \in [Procs -> Cmd]
  BY <1>3, <1>4 DEF TypeOK
<1> QED
  BY <1>5, QuietTyped DEF Reread, TypeOK

LEMMA DropTyped ==
    ASSUME TypeOK, NEW p \in Procs, NEW b \in Branches, Drop(p, b)
    PROVE  TypeOK'
<1> DEFINE c == cmd[p]
           h == HostOf[p]
           standing == c.standing \ {b}
           pc == After(standing, "park", {})
           d == [c EXCEPT !.standing = standing, !.pushed = @ \ {b},
                          !.pc = pc]
<1>1. c \in Cmd /\ h \in Hosts
  BY DecoratedHosts DEF TypeOK
<1>2. standing \in SUBSET Branches /\ pc \in PCs
  BY <1>1, AfterTyped DEF Cmd
<1>3. cmd' = [cmd EXCEPT ![p] = d]
  BY DEF Drop, Become
<1>4. d \in Cmd
  <2> HIDE DEF c, standing, pc
  <2> QED
    BY <1>1, <1>2 DEF Cmd
<1> HIDE DEF d
<1>5. cmd' \in [Procs -> Cmd]
  BY <1>3, <1>4 DEF TypeOK
<1>6. /\ local' \in [Hosts -> [Branches -> SUBSET Commits]]
      /\ \A g \in Hosts, a \in Branches :
            local'[g][a] # local[g][a] => g = h /\ a = b /\ b \notin out[h]
  BY <1>1 DEF Drop, TypeOK
<1>7. \A g \in Hosts : \A a \in out[g] : local'[g][a] # {}
  BY <1>6 DEF TypeOK
<1>8. UNCHANGED <<work, merged, content, rescue, origin, out, agents, lease,
                  late, faults, since>>
  BY DEF Drop, landing
<1> QED
  BY <1>5, <1>6, <1>7, <1>8 DEF TypeOK, Cmd, Commits, Made

LEMMA CommandTyped ==
    ASSUME TypeOK, NEW p \in Procs, Advance(p) \/ Stop(p)
    PROVE  TypeOK'
<1>1. {"read", "delete", "drop"} \subseteq PCs /\ cmd[p] \in Cmd
  BY DEF PCs, TypeOK
<1>2. CASE Vetoed(p)
  BY <1>2, FinishTyped, QuietTyped DEF Vetoed, TypeOK
<1>3. CASE NotVetoed(p)
  <2>1. faults' \in 0..MaxFaults
    BY <1>3, FaultTyped DEF NotVetoed, TypeOK
  <2> QED
    BY <1>1, <1>3, <2>1, GotoTyped, QuietTyped DEF NotVetoed, TypeOK
<1>4. ASSUME NEW b \in Branches, RereadMoved(p, b) PROVE TypeOK'
  BY <1>4, FinishTyped, QuietTyped DEF RereadMoved, TypeOK
<1>5. ASSUME NEW b \in Branches, Park(p, b) PROVE TypeOK'
  <2>1. cmd[p].tips[b] \in SUBSET Commits
    BY <1>1 DEF Cmd
  <2>2. rescue' \in SUBSET Made
    BY <1>5, <2>1 DEF Park, TypeOK, Unlanded, WorkIn, Commits, Made
  <2>3. cmd' \in [Procs -> Cmd]
    BY <1>1, <1>5, GotoTyped DEF Park
  <2>4. UNCHANGED <<work, merged, content, origin, local, out, agents, lease,
                    late, faults, since>>
    BY <1>5 DEF Park, unchangedBeside, landing, lanes
  <2> QED
    BY <2>2, <2>3, <2>4 DEF TypeOK, Cmd, Commits, Made
<1>6. ASSUME NEW b \in Branches, Delete(p, b) PROVE TypeOK'
  <2>1. origin' \in [Branches -> SUBSET Commits]
    BY <1>6 DEF Delete, TypeOK
  <2> QED
    BY <1>1, <1>6, <2>1, GotoTyped, QuietTyped DEF Delete, TypeOK
<1>7. ASSUME NEW b \in Branches, DeleteMoved(p, b) PROVE TypeOK'
  BY <1>7, FinishTyped, QuietTyped DEF DeleteMoved, TypeOK
<1>8. ASSUME NEW b \in Branches, DeleteUnconfirmed(p, b) PROVE TypeOK'
  <2>1. <<b, cmd[p].tips[b]>> \in Branches \X SUBSET Commits
    BY <1>1 DEF Cmd
  <2>2. /\ origin' \in [Branches -> SUBSET Commits]
        /\ late' \in SUBSET (Branches \X SUBSET Commits)
    BY <1>8, <2>1 DEF DeleteUnconfirmed, TypeOK
  <2>3. faults' \in 0..MaxFaults
    BY <1>8, FaultTyped DEF DeleteUnconfirmed
  <2> QED
    BY <1>8, <2>2, <2>3, FinishTyped, QuietTyped DEF DeleteUnconfirmed
<1>9. CASE Acquire(p)
  <2>1. lease' \in Hosts \cup {Nobody}
    BY <1>9, DecoratedHosts DEF Acquire, TypeOK
  <2>2. UNCHANGED <<work, merged, content, rescue, origin, local, out,
                    agents, late, faults>>
    BY <1>9 DEF Acquire, landing, lanes
  <2>3. cmd' \in [Procs -> Cmd] /\ since' \in [Procs -> SUBSET Branches]
    BY <1>9, FinishTyped DEF Acquire
  <2> QED
    BY <2>1, <2>2, <2>3 DEF TypeOK, Cmd, Commits, Made
<1>10. CASE Stop(p)
  BY <1>10, FinishTyped, FaultTyped, QuietTyped DEF Stop, TypeOK
<1> QED
  BY <1>2, <1>3, <1>4, <1>5, <1>6, <1>7, <1>8, <1>9, <1>10,
     GatherTyped, RereadTyped, DropTyped DEF Advance

LEMMA TypeStep == TypeOK /\ Next => TypeOK'
  BY EnvironmentTyped, CommandTyped DEF Next

-----------------------------------------------------------------------------
(* What every step keeps.                                                  *)

LEMMA SafeGrows ==
    ASSUME NEW S, Safe(S), rescue \subseteq rescue', content \subseteq content'
    PROVE  WorkIn(S) \subseteq rescue' \cup content'
  BY DEF Safe

\* A command changes its own process, only deletes from the remote, and
\* lands nothing.
LEMMA CommandFrame ==
    ASSUME TypeOK, NEW p \in Procs, Advance(p) \/ Stop(p)
    PROVE  /\ rescue \subseteq rescue' /\ content' = content
           /\ \A q \in Procs \ {p} :
                 cmd'[q] = cmd[q] /\ since'[q] = since[q]
           /\ \A b \in Branches : origin'[b] \in {origin[b], {}}
<1> USE DEF TypeOK
<1>1. CASE Gather(p)
  BY <1>1 DEF Gather, Become, unchangedBeside, landing
<1>2. CASE Vetoed(p)
  BY <1>2, FinishTyped DEF Vetoed, unchangedBeside, landing
<1>3. CASE NotVetoed(p)
  BY <1>3 DEF NotVetoed, Goto, Become, unchangedBeside, landing
<1>4. ASSUME NEW b \in Branches, Reread(p, b)
      PROVE  /\ UNCHANGED <<rescue, content, since, origin>>
             /\ \A q \in Procs \ {p} : cmd'[q] = cmd[q]
  BY <1>4 DEF Reread, Become, unchangedBeside, landing
<1>5. ASSUME NEW b \in Branches, RereadMoved(p, b)
      PROVE  /\ UNCHANGED <<rescue, content, origin>>
             /\ Finish(p)
  BY <1>5 DEF RereadMoved, unchangedBeside, landing
<1>6. ASSUME NEW b \in Branches, Park(p, b)
      PROVE  /\ UNCHANGED <<content, origin, since>>
             /\ rescue \subseteq rescue'
             /\ \A q \in Procs \ {p} : cmd'[q] = cmd[q]
  BY <1>6 DEF Park, Goto, Become, unchangedBeside, landing
<1>7. ASSUME NEW b \in Branches, Delete(p, b)
      PROVE  /\ UNCHANGED <<content, rescue, since>>
             /\ \A c \in Branches : origin'[c] \in {origin[c], {}}
             /\ \A q \in Procs \ {p} : cmd'[q] = cmd[q]
  BY <1>7 DEF Delete, Goto, Become, unchangedBeside, landing
<1>8. ASSUME NEW b \in Branches, DeleteMoved(p, b)
      PROVE  /\ UNCHANGED <<rescue, content, origin>>
             /\ Finish(p)
  BY <1>8 DEF DeleteMoved, unchangedBeside, landing
<1>9. ASSUME NEW b \in Branches, DeleteUnconfirmed(p, b)
      PROVE  /\ UNCHANGED <<rescue, content>>
             /\ \A c \in Branches : origin'[c] \in {origin[c], {}}
             /\ Finish(p)
  BY <1>9 DEF DeleteUnconfirmed, unchangedBeside, landing
<1>10. ASSUME NEW b \in Branches, Drop(p, b)
       PROVE  /\ UNCHANGED <<rescue, content, since, origin>>
              /\ \A q \in Procs \ {p} : cmd'[q] = cmd[q]
  BY <1>10 DEF Drop, Become, landing
<1>11. CASE Acquire(p)
  BY <1>11, FinishTyped DEF Acquire, landing
<1>12. CASE Stop(p)
  BY <1>12, FinishTyped DEF Stop, unchangedBeside, landing
<1> QED
  BY <1>1, <1>2, <1>3, <1>4, <1>5, <1>6, <1>7, <1>8, <1>9, <1>10, <1>11,
     <1>12, FinishTyped DEF Advance

\* The lanes and the forge change no command; a branch that is pushed is
\* in the history, and no other comes to the remote.
LEMMA EnvironmentFrame ==
    ASSUME TypeOK, Environment
    PROVE  /\ UNCHANGED <<cmd, rescue>> /\ content \subseteq content'
           /\ late' \subseteq late
           /\ \A q \in Procs : since[q] \subseteq since'[q]
           /\ \A q \in Procs, b \in Branches :
                 \/ origin'[b] \in {origin[b], {}}
                 \/ b \in Judged(q) => b \in since'[q]
<1> USE DEF TypeOK
<1>1. ASSUME NEW h \in Hosts, NEW b \in Branches, Work(h, b)
      PROVE  UNCHANGED <<cmd, rescue, content, late, since, origin>>
  BY <1>1 DEF Work, landing
<1>2. ASSUME NEW h \in Hosts, NEW b \in Branches, Push(h, b)
      PROVE  /\ UNCHANGED <<cmd, rescue, content, late>>
             /\ \A q \in Procs : since'[q] = since[q] \cup ({b} \cap Judged(q))
             /\ \A c \in Branches : c = b \/ origin'[c] = origin[c]
  BY <1>2 DEF Push, landing
<1>3. ASSUME NEW h \in Hosts, NEW b \in Branches, AgentMoves(h, b)
      PROVE  UNCHANGED <<cmd, rescue, content, late, since, origin>>
  BY <1>3 DEF AgentMoves, landing
<1>4. ASSUME NEW b \in Branches, Land(b)
      PROVE  /\ UNCHANGED <<cmd, rescue, late, since, origin>>
             /\ content \subseteq content'
  BY <1>4 DEF Land
<1>5. CASE Deliver
  <2>1. UNCHANGED <<cmd, rescue, content, since>> /\ late' \subseteq late
    BY <1>5 DEF Deliver, landing
  <2>2. \A b \in Branches : origin'[b] \in {origin[b], {}}
    BY <1>5 DEF Deliver
  <2> QED
    BY <2>1, <2>2
<1> QED
  BY <1>1, <1>2, <1>3, <1>4, <1>5 DEF Environment

-----------------------------------------------------------------------------
(* Parked before deleted.                                                  *)

ParkedOf(p) ==
    \A b \in Branches :
        (At(p, "delete") \/ At(p, "drop")) /\ IsFirst(b, cmd[p].standing)
        => Safe(cmd[p].tips[b])

LEMMA ParkedKept ==
    ASSUME NEW q \in Procs, ParkedOf(q), cmd'[q] = cmd[q],
           rescue \subseteq rescue', content \subseteq content'
    PROVE  ParkedOf(q)'
  BY SafeGrows DEF ParkedOf, At, Safe, IsFirst, WorkIn

LEMMA LateKept ==
    ASSUME \A d \in late : Safe(d[2]), late' \subseteq late,
           rescue \subseteq rescue', content \subseteq content'
    PROVE  (\A d \in late : Safe(d[2]))'
  BY DEF Safe, WorkIn

LEMMA CommandParked ==
    ASSUME TypeOK, ParkedInv, NEW p \in Procs, Advance(p) \/ Stop(p)
    PROVE  ParkedInv'
<1>1. /\ cmd[p] \in Cmd /\ p \in DOMAIN cmd
      /\ rescue \subseteq rescue' /\ content \subseteq content'
      /\ \A q \in Procs \ {p} : cmd'[q] = cmd[q]
  BY CommandFrame DEF TypeOK
<1>2. ParkedOf(p) /\ \A d \in late : Safe(d[2])
  BY DEF ParkedInv, ParkedOf
<1>3. SUFFICES ParkedOf(p)' /\ (\A d \in late : Safe(d[2]))'
  BY <1>1, ParkedKept DEF ParkedInv, ParkedOf
<1>4. ASSUME Finish(p) PROVE ParkedOf(p)'
  <2>1. cmd'[p] = Idle
    BY <1>4, FinishTyped
  <2> QED
    BY <2>1 DEF ParkedOf, At, Idle
<1>5. ASSUME cmd'[p].pc \notin {"delete", "drop"} PROVE ParkedOf(p)'
  BY <1>5 DEF ParkedOf, At
<1>6. ASSUME UNCHANGED late PROVE (\A d \in late : Safe(d[2]))'
  BY <1>1, <1>2, <1>6, LateKept
<1>7. CASE Gather(p)
  BY <1>1, <1>5, <1>6, <1>7 DEF Gather, Become, Idle
<1>8. CASE Vetoed(p) \/ Stop(p) \/ Acquire(p)
  BY <1>4, <1>6, <1>8 DEF Vetoed, Stop, Acquire
<1>9. CASE NotVetoed(p)
  BY <1>1, <1>5, <1>6, <1>9 DEF NotVetoed, Goto, Become, Cmd
<1>10. ASSUME NEW b \in Branches, Reread(p, b)
       PROVE  ParkedOf(p)' /\ UNCHANGED late
  <2>1. cmd'[p].pc \in {"read", "park", "acquire"}
    BY <1>1, <1>10 DEF Reread, Become, After, Cmd
  <2> QED
    BY <1>5, <1>10, <2>1 DEF Reread
<1>11. ASSUME NEW b \in Branches, RereadMoved(p, b) \/ DeleteMoved(p, b)
       PROVE  ParkedOf(p)' /\ UNCHANGED late
  BY <1>4, <1>11 DEF RereadMoved, DeleteMoved
<1>12. ASSUME NEW b \in Branches, Park(p, b)
       PROVE  ParkedOf(p)' /\ UNCHANGED late
  <2>1. cmd'[p].tips = cmd[p].tips /\ cmd'[p].standing = cmd[p].standing
    BY <1>1, <1>12 DEF Park, Goto, Become, Cmd
  <2>2. (Safe(cmd[p].tips[b]))'
    BY <1>1, <1>12, <2>1 DEF Park, Unlanded, Safe, WorkIn
  <2>3. IsFirst(b, cmd[p].standing) /\ cmd[p].standing \in SUBSET Branches
    BY <1>1, <1>12 DEF Park, Cmd
  <2>4. ASSUME NEW c \in Branches, IsFirst(c, cmd[p].standing) PROVE c = b
    BY <2>3, <2>4, FirstUnique
  <2> QED
    BY <1>12, <2>1, <2>2, <2>4 DEF ParkedOf, IsFirst, Park
<1>13. ASSUME NEW b \in Branches, Delete(p, b)
       PROVE  ParkedOf(p)' /\ UNCHANGED late
  <2>1. cmd'[p].tips = cmd[p].tips /\ cmd'[p].standing = cmd[p].standing
    BY <1>1, <1>13 DEF Delete, Goto, Become, Cmd
  <2>2. At(p, "delete")
    BY <1>13 DEF Delete
  <2>3. UNCHANGED <<rescue, content, late>>
    BY <1>13 DEF Delete, unchangedBeside, landing
  <2> QED
    BY <1>2, <2>1, <2>2, <2>3 DEF ParkedOf, IsFirst, Safe, WorkIn
<1>14. ASSUME NEW b \in Branches, DeleteUnconfirmed(p, b)
       PROVE  ParkedOf(p)' /\ (\A d \in late : Safe(d[2]))'
  <2>1. /\ Safe(cmd[p].tips[b])
        /\ late' \subseteq late \cup {<<b, cmd[p].tips[b]>>}
    BY <1>2, <1>14 DEF DeleteUnconfirmed, ParkedOf
  <2>2. UNCHANGED <<rescue, content>>
    BY <1>14 DEF DeleteUnconfirmed, unchangedBeside, landing
  <2> QED
    BY <1>2, <1>4, <1>14, <2>1, <2>2 DEF DeleteUnconfirmed, Safe, WorkIn
<1>15. ASSUME NEW b \in Branches, Drop(p, b)
       PROVE  ParkedOf(p)' /\ UNCHANGED late
  <2>1. cmd'[p].pc \in {"park", "acquire"}
    BY <1>1, <1>15 DEF Drop, Become, After, Cmd
  <2> QED
    BY <1>5, <1>15, <2>1 DEF Drop
<1> QED
  BY <1>6, <1>7, <1>8, <1>9, <1>10, <1>11, <1>12, <1>13, <1>14, <1>15
  DEF Advance

LEMMA ParkedStep == TypeOK /\ ParkedInv /\ Next => ParkedInv'
<1>1. ASSUME TypeOK, ParkedInv, Environment PROVE ParkedInv'
  BY <1>1, EnvironmentFrame, ParkedKept, LateKept DEF ParkedInv, ParkedOf
<1> QED
  BY <1>1, CommandParked DEF Next

-----------------------------------------------------------------------------
(* Gone, unless pushed since.                                              *)

LEMMA GoneStays ==
    ASSUME NEW q \in Procs, NEW b \in Judged(q), Gone(q, b),
           cmd'[q] = cmd[q], since[q] \subseteq since'[q],
           origin'[b] \in {origin[b], {}} \/ b \in since'[q]
    PROVE  Gone(q, b)'
  BY DEF Gone, Judged

LEMMA GoneKept ==
    ASSUME NEW q \in Procs, GoneOf(q), cmd'[q] = cmd[q],
           since[q] \subseteq since'[q],
           \A b \in Judged(q) :
              origin'[b] \in {origin[b], {}} \/ b \in since'[q]
    PROVE  GoneOf(q)'
<1>1. Judged(q)' = Judged(q) /\ Ahead(q)' = Ahead(q)
  BY DEF Judged, Ahead, At, IsFirst
<1>2. \A b \in Judged(q) \ Ahead(q) : Gone(q, b)'
  BY GoneStays DEF GoneOf
<1> QED
  BY <1>1, <1>2 DEF GoneOf, At

LEMMA CommandGone ==
    ASSUME TypeOK, GoneInv, NEW p \in Procs, Advance(p) \/ Stop(p)
    PROVE  GoneInv'
<1>1. /\ cmd[p] \in Cmd /\ p \in DOMAIN cmd
      /\ \A q \in Procs \ {p} :
            cmd'[q] = cmd[q] /\ since'[q] = since[q]
      /\ \A b \in Branches : origin'[b] \in {origin[b], {}}
  BY CommandFrame DEF TypeOK
<1>2. GoneOf(p)
  BY DEF GoneInv
<1>3. ASSUME GoneOf(p)' PROVE GoneInv'
  <2>1. ASSUME NEW q \in Procs \ {p} PROVE GoneOf(q)'
    BY <1>1, GoneKept DEF GoneInv, Judged
  <2> QED
    BY <1>3, <2>1 DEF GoneInv
<1>4. ASSUME Finish(p) PROVE GoneOf(p)'
  <2>1. cmd'[p] = Idle
    BY <1>4, FinishTyped
  <2>2. Judged(p)' = {}
    BY <2>1 DEF Judged, Idle, None
  <2> QED
    BY <2>1, <2>2 DEF GoneOf, At, Idle
\* The branches judged are the same, and what is done with only grows by
\* branches that are gone.
<1>5. ASSUME cmd'[p].tips = cmd[p].tips, UNCHANGED since,
             \A b \in Judged(p) \ (Ahead(p)') :
                b \in Ahead(p) => origin'[b] = {}
      PROVE  \A b \in (Judged(p) \ Ahead(p))' : Gone(p, b)'
  <2>1. Judged(p)' = Judged(p)
    BY <1>5 DEF Judged
  <2>2. ASSUME NEW b \in Judged(p), b \notin Ahead(p)' PROVE Gone(p, b)'
    <3>1. CASE b \in Ahead(p)
      BY <1>5, <2>2, <3>1 DEF Gone, Judged
    <3>2. CASE b \notin Ahead(p)
      BY <1>1, <1>2, <1>5, <2>2, <3>2 DEF Gone, Judged, GoneOf
    <3> QED
      BY <3>1, <3>2
  <2> QED
    BY <2>1, <2>2
<1>6. CASE Gather(p)
  <2>1. CASE Held(HostOf[p]) = {}
    <3>1. cmd'[p] = [Idle EXCEPT !.pc = "acquire"]
      BY <1>1, <1>6, <2>1 DEF Gather, Become
    <3>2. /\ cmd'[p].pc = "acquire" /\ cmd'[p].todo = {}
          /\ cmd'[p].standing = {} /\ cmd'[p].tips = None
      BY <3>1 DEF Idle
    <3>3. Judged(p)' = {}
      BY <3>2 DEF Judged, None
    <3> QED
      BY <1>3, <3>2, <3>3 DEF GoneOf, At
  <2>2. CASE Held(HostOf[p]) # {}
    <3> DEFINE judged == [b \in Branches |->
                  IF b \in Held(HostOf[p]) THEN Tip(HostOf[p], b) ELSE {}]
    <3>1. cmd'[p] = [Idle EXCEPT !.pc = "veto", !.todo = Held(HostOf[p]),
                                 !.tips = judged]
      BY <1>1, <1>6, <2>2 DEF Gather, Become
    <3>2. /\ cmd'[p].pc = "veto" /\ cmd'[p].todo = Held(HostOf[p])
          /\ cmd'[p].tips = judged
      BY <3>1 DEF Idle
    <3>3. Judged(p)' \subseteq cmd'[p].todo
      BY <3>2 DEF Judged
    <3>4. (Judged(p) \ Ahead(p))' = {}
      BY <3>3 DEF Ahead
    <3> QED
      BY <1>3, <3>2, <3>4 DEF GoneOf, At
  <2> QED
    BY <2>1, <2>2
<1>7. CASE Vetoed(p) \/ Stop(p) \/ Acquire(p)
  BY <1>3, <1>4, <1>7 DEF Vetoed, Stop, Acquire
<1>8. CASE NotVetoed(p)
  <2>1. cmd'[p] = [cmd[p] EXCEPT !.pc = "read"] /\ UNCHANGED since
    BY <1>1, <1>8 DEF NotVetoed, Goto, Become
  <2>2. /\ cmd'[p].pc = "read" /\ cmd'[p].tips = cmd[p].tips
        /\ cmd'[p].todo = cmd[p].todo /\ cmd'[p].pushed = cmd[p].pushed
        /\ cmd'[p].standing = cmd[p].standing
    BY <1>1, <2>1 DEF Cmd
  <2>3. Ahead(p) \subseteq Ahead(p)'
    BY <2>2 DEF Ahead, At
  <2> QED
    BY <1>3, <1>5, <2>1, <2>2, <2>3 DEF GoneOf, At
<1>9. ASSUME NEW b \in Branches, Reread(p, b) PROVE GoneInv'
  <2> DEFINE now == Tip(HostOf[p], b)
             standing == IF now = {} THEN cmd[p].standing
                         ELSE cmd[p].standing \cup {b}
             pushed == IF origin[b] # {} THEN cmd[p].pushed \cup {b}
                       ELSE cmd[p].pushed
  <2>1. /\ cmd'[p].todo = cmd[p].todo \ {b} /\ cmd'[p].standing = standing
        /\ cmd'[p].pc = After(cmd[p].todo \ {b}, "read", standing)
        /\ cmd'[p].tips = cmd[p].tips /\ cmd'[p].pushed = pushed
        /\ UNCHANGED <<since, origin>>
    BY <1>1, <1>9 DEF Reread, Become, Cmd
  <2>2. now = {} => origin[b] = {}
    BY DEF Tip
  <2>3. ~(At(p, "drop")')
    BY <2>1 DEF At, After
  <2>4. Ahead(p)' = (cmd[p].todo \ {b}) \cup (standing \cap pushed)
    BY <2>1, <2>3 DEF Ahead
  <2>5. \A a \in Ahead(p) \ Ahead(p)' : a = b /\ origin[b] = {}
    BY <2>2, <2>4 DEF Ahead
  <2> HIDE DEF now, standing, pushed
  <2>6. \A a \in (Judged(p) \ Ahead(p))' : Gone(p, a)'
    BY <1>5, <2>1, <2>5
  <2>7. /\ (At(p, "park") \/ At(p, "delete") \/ At(p, "drop")
              => cmd[p].todo = {})'
        /\ (At(p, "acquire") => cmd[p].todo = {} /\ cmd[p].standing = {})'
    BY <2>1 DEF At, After
  <2> QED
    BY <1>3, <2>6, <2>7 DEF GoneOf
<1>10. ASSUME NEW b \in Branches, RereadMoved(p, b) \/ DeleteMoved(p, b)
                                  \/ DeleteUnconfirmed(p, b)
       PROVE  GoneInv'
  BY <1>3, <1>4, <1>10 DEF RereadMoved, DeleteMoved, DeleteUnconfirmed
<1>11. ASSUME NEW b \in Branches, Park(p, b) PROVE GoneInv'
  <2>1. /\ cmd'[p].pc = "delete" /\ cmd'[p].tips = cmd[p].tips
        /\ cmd'[p].todo = cmd[p].todo /\ cmd'[p].pushed = cmd[p].pushed
        /\ cmd'[p].standing = cmd[p].standing
        /\ UNCHANGED since /\ At(p, "park")
    BY <1>1, <1>11 DEF Park, Goto, Become, Cmd
  <2>2. Ahead(p) \subseteq Ahead(p)'
    BY <2>1 DEF Ahead, At
  <2> QED
    BY <1>2, <1>3, <1>5, <2>1, <2>2 DEF GoneOf, At
<1>12. ASSUME NEW b \in Branches, Delete(p, b) PROVE GoneInv'
  <2>1. /\ cmd'[p].pc = "drop" /\ cmd'[p].tips = cmd[p].tips
        /\ cmd'[p].todo = cmd[p].todo /\ cmd'[p].pushed = cmd[p].pushed
        /\ cmd'[p].standing = cmd[p].standing
        /\ UNCHANGED since /\ At(p, "delete")
        /\ IsFirst(b, cmd[p].standing)
    BY <1>1, <1>12 DEF Delete, Goto, Become, Cmd
  <2>2. ASSUME NEW a \in Branches, IsFirst(a, cmd[p].standing) PROVE a = b
    BY <1>1, <2>1, <2>2, FirstUnique DEF Cmd
  <2>3. b \in cmd[p].pushed => origin'[b] = {}
    BY <1>12 DEF Delete, TypeOK
  <2>4. \A a \in Ahead(p) \ Ahead(p)' : a \in Branches =>
           a = b /\ b \in cmd[p].pushed
    BY <2>1, <2>2 DEF Ahead, At, IsFirst
  <2>5. \A a \in (Judged(p) \ Ahead(p))' : Gone(p, a)'
    BY <1>5, <2>1, <2>3, <2>4 DEF Judged
  <2> QED
    BY <1>2, <1>3, <2>1, <2>5 DEF GoneOf, At
<1>13. ASSUME NEW b \in Branches, Drop(p, b) PROVE GoneInv'
  <2>1. /\ cmd'[p].tips = cmd[p].tips /\ cmd'[p].todo = cmd[p].todo
        /\ cmd'[p].standing = cmd[p].standing \ {b}
        /\ cmd'[p].pushed = cmd[p].pushed \ {b}
        /\ cmd'[p].pc = After(cmd[p].standing \ {b}, "park", {})
        /\ UNCHANGED since /\ At(p, "drop")
        /\ IsFirst(b, cmd[p].standing)
    BY <1>1, <1>13 DEF Drop, Become, Cmd
  <2>2. cmd[p].todo = {}
    BY <1>2, <2>1 DEF GoneOf
  <2>3. Ahead(p) \subseteq Ahead(p)'
    BY <2>1 DEF Ahead, At, After
  <2>4. /\ (At(p, "park") \/ At(p, "delete") \/ At(p, "drop")
              => cmd[p].todo = {})'
        /\ (At(p, "acquire") => cmd[p].todo = {} /\ cmd[p].standing = {})'
    BY <2>1, <2>2 DEF At, After
  <2> QED
    BY <1>3, <1>5, <2>1, <2>3, <2>4 DEF GoneOf
<1> QED
  BY <1>6, <1>7, <1>8, <1>9, <1>10, <1>11, <1>12, <1>13 DEF Advance

LEMMA GoneStep == TypeOK /\ GoneInv /\ Next => GoneInv'
<1>1. ASSUME TypeOK, GoneInv, Environment PROVE GoneInv'
  <2>1. ASSUME NEW q \in Procs PROVE GoneOf(q)'
    <3>1. /\ GoneOf(q) /\ cmd'[q] = cmd[q]
          /\ since[q] \subseteq since'[q]
      BY <1>1, EnvironmentFrame DEF GoneInv
    <3>2. \A b \in Branches :
             \/ origin'[b] \in {origin[b], {}}
             \/ b \in Judged(q) => b \in since'[q]
      BY <1>1, EnvironmentFrame
    <3>3. \A b \in Judged(q) :
             origin'[b] \in {origin[b], {}} \/ b \in since'[q]
      BY <3>2 DEF Judged
    <3> QED
      BY <3>1, <3>3, GoneKept
  <2> QED
    BY <2>1 DEF GoneInv
<1> QED
  BY <1>1, CommandGone DEF Next

-----------------------------------------------------------------------------
(* What a step takes away is kept elsewhere.                               *)

Kept == /\ Saved \subseteq Saved'
        /\ \A h \in Hosts, b \in Branches :
              WorkIn(local[h][b]) \subseteq local'[h][b] \cup Saved'

\* Enough: a branch is deleted on the remote only where its work is safe,
\* and from a clone only likewise.
LEMMA EnoughToKeep ==
    ASSUME rescue \subseteq rescue', content \subseteq content',
           \A b \in Branches :
              origin[b] \subseteq origin'[b] \/ Safe(origin[b]),
           \A h \in Hosts, b \in Branches :
              local[h][b] \subseteq local'[h][b] \/ Safe(local[h][b])
    PROVE  Kept
<1>1. ASSUME NEW b \in Branches PROVE WorkIn(origin[b]) \subseteq Saved'
  <2>1. CASE origin[b] \subseteq origin'[b]
    BY <2>1 DEF Saved, WorkIn
  <2>2. CASE Safe(origin[b])
    BY <2>2, SafeGrows DEF Saved
  <2> QED
    BY <2>1, <2>2
<1>2. Saved \subseteq Saved'
  <2>1. rescue \cup content \subseteq Saved'
    BY DEF Saved
  <2> QED
    BY <1>1, <2>1 DEF Saved
<1>3. ASSUME NEW h \in Hosts, NEW b \in Branches
      PROVE  WorkIn(local[h][b]) \subseteq local'[h][b] \cup Saved'
  <2>1. CASE local[h][b] \subseteq local'[h][b]
    BY <2>1 DEF WorkIn
  <2>2. CASE Safe(local[h][b])
    BY <2>2, SafeGrows DEF Saved
  <2> QED
    BY <2>1, <2>2
<1> QED
  BY <1>2, <1>3 DEF Kept

LEMMA EnvironmentSaves ==
    ASSUME TypeOK, ParkedInv, Environment
    PROVE  Kept
<1> USE DEF TypeOK
<1>1. rescue \subseteq rescue' /\ content \subseteq content'
  BY EnvironmentFrame
<1>2. ASSUME NEW h \in Hosts, NEW b \in Branches, Work(h, b)
      PROVE  /\ UNCHANGED origin
             /\ \A g \in Hosts, c \in Branches :
                   local[g][c] \subseteq local'[g][c]
  BY <1>2 DEF Work
<1>3. ASSUME NEW h \in Hosts, NEW b \in Branches, Push(h, b)
      PROVE  /\ UNCHANGED local
             /\ \A c \in Branches : origin[c] \subseteq origin'[c]
  BY <1>3 DEF Push, lanes
<1>4. ASSUME NEW h \in Hosts, NEW b \in Branches, AgentMoves(h, b)
      PROVE  UNCHANGED <<origin, local>>
  BY <1>4 DEF AgentMoves
<1>5. ASSUME NEW b \in Branches, Land(b) PROVE UNCHANGED <<origin, local>>
  BY <1>5 DEF Land, lanes
<1>6. CASE Deliver
  <2>1. UNCHANGED local
    BY <1>6 DEF Deliver, lanes
  <2>2. PICK d \in late : origin' = IF origin[d[1]] = d[2]
                          THEN [origin EXCEPT ![d[1]] = {}] ELSE origin
    BY <1>6 DEF Deliver
  <2>3. Safe(d[2])
    BY DEF ParkedInv
  <2>4. \A b \in Branches : origin[b] \subseteq origin'[b] \/ Safe(origin[b])
    BY <2>2, <2>3
  <2> QED
    BY <1>1, <2>1, <2>4, EnoughToKeep
<1> QED
  BY <1>1, <1>2, <1>3, <1>4, <1>5, <1>6, EnoughToKeep DEF Environment

LEMMA CommandSaves ==
    ASSUME TypeOK, ParkedInv, NEW p \in Procs, Advance(p) \/ Stop(p)
    PROVE  Kept
<1> USE DEF TypeOK
<1>1. rescue \subseteq rescue' /\ content \subseteq content'
  BY CommandFrame
<1>2. ASSUME UNCHANGED <<origin, local>> PROVE Kept
  BY <1>1, <1>2, EnoughToKeep
<1>3. ASSUME NEW b \in Branches, Delete(p, b) \/ DeleteUnconfirmed(p, b)
      PROVE  Kept
  <2>1. UNCHANGED local /\ Safe(cmd[p].tips[b])
    BY <1>3 DEF Delete, DeleteUnconfirmed, unchangedBeside, lanes, ParkedInv
  <2>2. \/ UNCHANGED origin
        \/ /\ origin[b] \in {{}, cmd[p].tips[b]}
           /\ origin' = [origin EXCEPT ![b] = {}]
    BY <1>3 DEF Delete, DeleteUnconfirmed
  <2>3. \A c \in Branches : origin[c] \subseteq origin'[c] \/ Safe(origin[c])
    BY <2>1, <2>2 DEF Safe, WorkIn
  <2> QED
    BY <1>1, <2>1, <2>3, EnoughToKeep
<1>4. ASSUME NEW b \in Branches, Drop(p, b) PROVE Kept
  <2>1. UNCHANGED origin /\ Safe(cmd[p].tips[b])
    BY <1>4 DEF Drop, ParkedInv
  <2>2. \/ UNCHANGED local
        \/ /\ local[HostOf[p]][b] = cmd[p].tips[b]
           /\ local' = [local EXCEPT ![HostOf[p]][b] = {}]
    BY <1>4 DEF Drop
  <2>3. \A h \in Hosts, c \in Branches :
           local[h][c] \subseteq local'[h][c] \/ Safe(local[h][c])
    BY <2>1, <2>2
  <2> QED
    BY <1>1, <2>1, <2>3, EnoughToKeep
<1> QED
  BY <1>2, <1>3, <1>4 DEF Advance, Gather, Vetoed, NotVetoed, Reread,
     RereadMoved, Park, DeleteMoved, Acquire, Stop, unchangedBeside, lanes

-----------------------------------------------------------------------------
LEMMA InitHolds == Init => IInv
<1> SUFFICES ASSUME Init PROVE IInv
  OBVIOUS
<1>1. cmd = [p \in Procs |-> Idle] /\ late = {}
  BY DEF Init
<1>2. TypeOK
  <2>1. /\ None \in [Branches -> SUBSET Commits]
        /\ {{}, {0}} \subseteq SUBSET Commits
    BY DEF Init, Commits, None
  <2>2. /\ origin \in [Branches -> SUBSET Commits]
        /\ local \in [Hosts -> [Branches -> SUBSET Commits]]
    <3>1. [Branches -> {{}, {0}}] \subseteq [Branches -> SUBSET Commits]
      BY <2>1
    <3>2. /\ origin \in [Branches -> {{}, {0}}]
          /\ local \in [Hosts -> [Branches -> {{}, {0}}]]
      BY DEF Init
    <3> QED
      BY <3>1, <3>2
  <2>3. /\ agents \in [Hosts -> SUBSET Branches]
        /\ \A h \in Hosts : agents[h] \subseteq out[h]
    <3>1. agents = out \/ agents = [h \in Hosts |-> {}]
      BY DEF Init
    <3>2. out \in [Hosts -> SUBSET Branches]
      BY DEF Init
    <3> QED
      BY <3>1, <3>2
  <2>4. cmd \in [Procs -> Cmd] /\ since \in [Procs -> SUBSET Branches]
    BY <1>1, IdleTyped DEF Init
  <2> QED
    BY <2>1, <2>2, <2>3, <2>4, DecoratedBounds DEF Init, TypeOK
<1>3. ParkedInv
  BY <1>1 DEF ParkedInv, At, Idle
<1>4. ASSUME NEW p \in Procs PROVE GoneOf(p)
  <2>1. Judged(p) = {}
    BY <1>1 DEF Judged, Idle, None
  <2> QED
    BY <1>1, <2>1 DEF GoneOf, At, Idle
<1> QED
  BY <1>2, <1>3, <1>4 DEF IInv, GoneInv

LEMMA Stutters == IInv /\ UNCHANGED vars => IInv'
<1> SUFFICES ASSUME IInv, UNCHANGED vars PROVE IInv'
  OBVIOUS
<1>1. UNCHANGED <<work, merged, content, rescue, origin, local, out, agents,
                  lease, late, faults, cmd, since>>
  BY DEF vars
<1>2. TypeOK'
  BY <1>1 DEF IInv, TypeOK, Cmd, Commits, Made
<1>3. ParkedInv'
  BY <1>1 DEF IInv, ParkedInv, At, IsFirst, Safe, WorkIn
<1>4. ASSUME NEW q \in Procs PROVE GoneOf(q)'
  BY <1>1, GoneKept DEF IInv, GoneInv, Judged
<1> QED
  BY <1>2, <1>3, <1>4 DEF IInv, GoneInv

\* The invariant holds in every behaviour.
THEOREM Invariance == Spec => []IInv
<1>1. IInv /\ [Next]_vars => IInv'
  BY TypeStep, ParkedStep, GoneStep, Stutters DEF IInv
<1> QED
  BY InitHolds, <1>1, PTL DEF Spec

\* Every takeover keeps the variables in their types, and drops no branch
\* a worktree stands on (the Drop of retireDecorated).
THEOREM TypeCorrect == Spec => []TypeOK
<1>1. IInv => TypeOK
  BY DEF IInv
<1> QED
  BY Invariance, <1>1, PTL

\* No step loses a commit: what a delete takes from the remote was parked
\* (ParkUnlanded before casDelete), and what Drop takes from a clone was
\* judged, and parked.
THEOREM NothingIsLost == Spec => NothingLost
<1> DEFINE A == /\ Saved \subseteq Saved'
                /\ \A h \in Hosts, b \in Branches :
                      WorkIn(local[h][b]) \subseteq local'[h][b] \cup Saved'
<1>1. IInv /\ Next => A
  BY EnvironmentSaves, CommandSaves DEF Next, IInv, Kept
<1>2. IInv /\ UNCHANGED vars => A
  BY DEF vars, Saved, WorkIn
<1>3. IInv /\ [Next]_vars => [A]_vars
  BY <1>1, <1>2
<1> HIDE DEF A
<1>4. Spec => [][A]_vars
  BY <1>3, Invariance, PTL DEF Spec
<1> QED
  BY <1>4 DEF A, NothingLost

\* A lease is acquired only once every branch it was judged against is
\* gone, or has been pushed since (the CAS of casDelete before Acquire).
THEOREM RivalsAreRetired == Spec => RivalsRetired
<1> DEFINE A == \A p \in Procs :
                   Acquire(p) /\ lease' # lease =>
                      \A b \in Judged(p) :
                         origin[b] # cmd[p].tips[b] \/ b \in since[p]
<1>1. IInv => A
  <2>1. ASSUME IInv, NEW p \in Procs, Acquire(p), NEW b \in Judged(p)
        PROVE  origin[b] # cmd[p].tips[b] \/ b \in since[p]
    <3>1. GoneOf(p) /\ At(p, "acquire")
      BY <2>1 DEF IInv, GoneInv, Acquire
    <3>2. cmd[p].todo = {} /\ cmd[p].standing = {}
      BY <3>1 DEF GoneOf
    <3>3. Ahead(p) = {}
      BY <3>2 DEF Ahead
    <3> QED
      BY <3>1, <3>3 DEF GoneOf, Gone
  <2> QED
    BY <2>1
<1>2. IInv /\ [Next]_vars => [A]_vars
  BY <1>1
<1> HIDE DEF A
<1>3. Spec => [][A]_vars
  BY <1>2, Invariance, PTL DEF Spec
<1> QED
  BY <1>3 DEF A, RivalsRetired
=============================================================================

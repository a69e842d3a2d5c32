----------------------------- MODULE LaneProofs -----------------------------
(***************************************************************************)
(* Theorems about Lane, for every set of machines, commands and verbs and  *)
(* every bound.  They rest on what stays true of a command between the     *)
(* gate it passed and the step it takes: what it read of the branch, that  *)
(* a session once dead stays dead, and that the lease it minted is on the  *)
(* machine's branch.                                                       *)
(***************************************************************************)
EXTENDS Lane, FiniteSetTheorems, TLAPS

-----------------------------------------------------------------------------
(* The invariant.                                                          *)

\* Tokens and minted leases are markers, and so is what a resume proves.
MarkInv ==
    /\ \A h \in Hosts : token[h] # 0 => log[token[h]].kind \in Markers
    /\ \A p \in Procs :
          /\ cmd[p].tip # 0 => log[cmd[p].tip].kind \in Markers
          /\ At(p, "resume") => MarkersIn(cmd[p].from) # {}

\* A minted lease whose agent has not started yet is nobody's session.
Unstarted(p) == At(p, "standup") \/ At(p, "agent")

SessionInv ==
    /\ \A c \in Made : log[c].sess \in Made \cup {0}
    /\ \A p \in Procs :
          Unstarted(p) =>
             /\ cmd[p].tip # 0
             /\ \A h \in Hosts : cmd[p].tip \notin agents[h]
             /\ \A c \in Made : log[c].sess # cmd[p].tip
    /\ \A p, q \in Procs :
          p # q /\ cmd[p].tip # 0 => cmd[p].tip # cmd[q].tip

\* A hold judged by its session and not by the window stays without it,
\* and carries all that the machine's branch had when it was judged.
Judged(p) == ~cmd[p].stale /\ (cmd[p].how = "seize" \/ At(p, "drop"))

JudgedInv ==
    \A p \in Procs :
        /\ Judged(p) => /\ Bound(cmd[p].from) \notin agents[HostOf[p]]
                        /\ cmd[p].read \subseteq cmd[p].from
        /\ At(p, "park") => cmd[p].how # "seize"
        /\ At(p, "seize") => cmd[p].how = "seize"

\* The lease of a lane that is being stood up is on the machine's branch.
OwnInv ==
    \A p \in Procs :
        Unstarted(p) /\ ~Resumed(p) /\ Alone(p) =>
            cmd[p].tip \in branch[HostOf[p]]

IInv == /\ TypeOK /\ MarkInv /\ SessionInv /\ JudgedInv /\ OwnInv
        /\ ParkedBeforeGone

-----------------------------------------------------------------------------
(* The greatest commit of a history.                                       *)

\* A set of numbers with no greatest one would be moved into itself, and
\* off its least, by the successor: a finite set is not.
LEMMA Greatest ==
    ASSUME NEW n \in Nat, NEW S \in SUBSET (0..n), S # {}
    PROVE  Max(S) \in S /\ \A c \in S : c <= Max(S)
<1> DEFINE Below == {c \in 0..n : \E x \in S : c <= x}
           next1 == [c \in Below |-> c + 1]
<1>1. \E x \in S : \A y \in S : x >= y
  <2> SUFFICES ASSUME \A x \in S : \E y \in S : y > x
               PROVE  FALSE
    OBVIOUS
  <2>1. 0 \in Below
    <3>1. PICK x \in S : TRUE
      OBVIOUS
    <3> QED
      BY <3>1
  <2>2. ASSUME NEW c \in Below PROVE c + 1 \in Below
    <3>1. PICK x \in S : c <= x
      OBVIOUS
    <3>2. PICK y \in S : y > x
      OBVIOUS
    <3> QED
      BY <3>1, <3>2
  <2>3. IsFiniteSet(Below)
    BY FS_BoundedSetOfNaturals
  <2>4. Below \subseteq Nat
    OBVIOUS
  <2> HIDE DEF Below
  <2>5. next1 \in Injection(Below, Below)
    BY <2>2, <2>4 DEF Injection, IsInjective
  <2>6. next1 \in Surjection(Below, Below)
    BY <2>3, <2>5, FS_Injection
  <2>7. PICK c \in Below : next1[c] = 0
    BY <2>1, <2>6 DEF Surjection
  <2> QED
    BY <2>4, <2>7
<1>2. Max(S) \in S /\ \A y \in S : Max(S) >= y
  BY <1>1 DEF Max
<1> QED
  BY <1>2

LEMMA TopMade ==
    ASSUME TypeOK, NEW S \in SUBSET Made, S # {}
    PROVE  Max(S) \in S /\ Max(S) \in Made /\ log[Max(S)] \in Commit
<1>1. next - 1 \in Nat /\ Made \subseteq 0..(next - 1) /\ Made \subseteq Ids
  BY LaneBounds DEF TypeOK, Made, Ids
<1>2. Max(S) \in S
  BY <1>1, Greatest
<1> QED
  BY <1>1, <1>2 DEF TypeOK

LEMMA GovernsMade ==
    ASSUME TypeOK, NEW S \in SUBSET Made, MarkersIn(S) # {}
    PROVE  /\ Governs(S) \in Commit
           /\ \E c \in S : c \in Made /\ Governs(S) = log[c]
<1>1. MarkersIn(S) \in SUBSET Made
  BY DEF MarkersIn
<1> QED
  BY <1>1, TopMade DEF Governs, MarkersIn

-----------------------------------------------------------------------------
(* Types.                                                                  *)

Grows == /\ Made \subseteq Made'
         /\ \A c \in Made : log'[c] = log[c]

\* What is typed over the commits made stays typed as more are made.
LEMMA CmdGrows ==
    ASSUME Made \subseteq Made'
    PROVE  Cmd \subseteq Cmd'
  BY DEF Cmd

\* A step that makes no commit and keeps every other variable typed.
LEMMA QuietTyped ==
    ASSUME TypeOK, UNCHANGED <<log, next>>,
           base' \in SUBSET Made, content' \in SUBSET Made,
           done' \in BOOLEAN, ref' \in SUBSET Made, rescue' \in SUBSET Made,
           branch' \in [Hosts -> SUBSET Made],
           wt' \in [Hosts -> Made \cup {0}],
           token' \in [Hosts -> Made \cup {0}],
           agents' \in [Hosts -> SUBSET Made],
           cmd' \in [Procs -> Cmd]
    PROVE  TypeOK' /\ Grows
  BY DEF TypeOK, Grows, Made, Cmd

LEMMA RunTyped ==
    ASSUME TypeOK, UNCHANGED unchangedByGate, NEW p \in Procs, NEW c \in Cmd,
           cmd' = [cmd EXCEPT ![p] = c]
    PROVE  TypeOK' /\ Grows
  BY QuietTyped DEF TypeOK, unchangedByGate, forgeVars, laneVars

LEMMA IdleTyped == Idle \in Cmd
  BY DEF Idle, Cmd, PCs, Verbs, Hows

LEMMA GotoTyped ==
    ASSUME TypeOK, NEW p \in Procs, NEW pc \in PCs
    PROVE  [cmd[p] EXCEPT !.pc = pc] \in Cmd
  BY DEF TypeOK, Cmd

\* Parking takes agents' commits that were made.
LEMMA ParkTyped ==
    ASSUME TypeOK, NEW S \in SUBSET Made
    PROVE  /\ ParkUnlanded(S) \in SUBSET Made
           /\ rescue \subseteq ParkUnlanded(S)
           /\ WorkIn(S) \subseteq ParkUnlanded(S) \cup content
  BY DEF TypeOK, ParkUnlanded, WorkIn

-----------------------------------------------------------------------------
(* A commit.                                                               *)

LEMMA StoreTyped ==
    ASSUME TypeOK, NEW c \in Commit, Store(c)
    PROVE  /\ log' \in [Ids -> Commit] /\ next' \in 2..(MaxCommits + 1)
           /\ Made' = Made \cup {next} /\ next \notin Made /\ next # 0
           /\ log'[next] = c
           /\ Grows
<1>1. next \in Ids /\ next \in Nat /\ next' = next + 1 /\ next >= 2
  BY LaneBounds DEF Store, TypeOK, Ids
<1>2. next' \in 2..(MaxCommits + 1)
  BY <1>1, LaneBounds DEF Store, TypeOK
<1>3. Made' = Made \cup {next} /\ next \notin Made
  BY <1>1 DEF Made
<1>4. \A d \in Made : log'[d] = log[d]
  BY <1>1, <1>3 DEF Store, TypeOK
<1> QED
  BY <1>1, <1>2, <1>3, <1>4 DEF Store, TypeOK, Grows

\* The sessions a transition of p may write into its marker.
Sessions(p) ==
    {0} \cup agents[HostOf[p]] \cup {log[c].sess : c \in Made}
        \cup {s \in {cmd[p].tip} : At(p, "handoff")}

\* A lease transition of p.
Lands(p) ==
    \E parent \in SUBSET Made, kind \in Markers, epoch \in Nat,
       host \in Hosts \cup {Nobody}, sess \in Sessions(p) :
          Transition(HostOf[p], parent, kind, epoch, host, sess)

LEMMA SessionsMade ==
    ASSUME TypeOK, SessionInv, NEW p \in Procs
    PROVE  Sessions(p) \subseteq Made \cup {0}
<1>1. agents[HostOf[p]] \subseteq Made
  BY LaneHosts DEF TypeOK
<1>2. {log[c].sess : c \in Made} \subseteq Made \cup {0}
  BY DEF SessionInv
<1>3. cmd[p].tip \in Made \cup {0}
  BY DEF TypeOK, Cmd
<1> QED
  BY <1>1, <1>2, <1>3 DEF Sessions

LEMMA LandsTyped ==
    ASSUME TypeOK, SessionInv, NEW p \in Procs, Lands(p)
    PROVE  /\ log' \in [Ids -> Commit] /\ next' \in 2..(MaxCommits + 1)
           /\ Made' = Made \cup {next} /\ next \notin Made /\ next # 0
           /\ Grows
           /\ log'[next].kind \in Markers /\ log'[next].sess \in Sessions(p)
           /\ ref' \in SUBSET Made'
           /\ branch' \in [Hosts -> SUBSET Made']
           /\ \A h \in Hosts \ {HostOf[p]} : branch'[h] = branch[h]
           /\ next \in branch'[HostOf[p]]
           /\ token' \in [Hosts -> Made' \cup {0}]
           /\ \A h \in Hosts : token'[h] \in {token[h], next}
<1>1. PICK parent \in SUBSET Made, kind \in Markers, epoch \in Nat,
           host \in Hosts \cup {Nobody}, sess \in Sessions(p) :
              Transition(HostOf[p], parent, kind, epoch, host, sess)
  BY DEF Lands
<1> DEFINE m == Marker(kind, epoch, host, sess)
<1>2. sess \in Nat /\ kind \in Kinds
  BY SessionsMade DEF Made, Kinds
<1>3. m \in Commit /\ m.kind \in Markers /\ m.sess = sess
  BY <1>2 DEF Marker, Commit
<1>4. Store(m)
  BY <1>1 DEF Transition
<1> HIDE DEF m
<1>5. /\ log' \in [Ids -> Commit] /\ next' \in 2..(MaxCommits + 1)
      /\ Made' = Made \cup {next} /\ next \notin Made /\ next # 0
      /\ log'[next] = m
      /\ Grows
  BY <1>3, <1>4, StoreTyped
<1>6. /\ ref' = parent \cup {next}
      /\ branch' = [branch EXCEPT ![HostOf[p]] = parent \cup {next}]
      /\ token' \in {[token EXCEPT ![HostOf[p]] = next], token}
  BY <1>1 DEF Transition, Set
<1>7. /\ branch \in [Hosts -> SUBSET Made] /\ HostOf[p] \in Hosts
      /\ token \in [Hosts -> Made \cup {0}]
  BY LaneHosts DEF TypeOK
<1> QED
  BY <1>3, <1>5, <1>6, <1>7

-----------------------------------------------------------------------------
(* The transitions of each verb.                                           *)

LEMMA RelayMade ==
    ASSUME TypeOK, NEW h \in Hosts,
           NEW parent \in RelayBase(h, ref)
    PROVE  parent \in SUBSET Made
  BY DEF TypeOK, RelayBase

\* A resume, a release, an unwinding and a bind go on in the epoch of a
\* lease that is there.
LEMMA RelayLands ==
    ASSUME TypeOK, NEW p \in Procs, MarkersIn(ref) # {},
           NEW kind \in Markers, NEW sess \in Sessions(p),
           NEW parent \in RelayBase(HostOf[p], ref),
           Transition(HostOf[p], parent, kind, Governs(ref).epoch,
                      HostOf[p], sess)
    PROVE  Lands(p)
<1>1. HostOf[p] \in Hosts
  BY LaneHosts
<1>2. Governs(ref).epoch \in Nat
  BY GovernsMade DEF TypeOK, Commit
<1>3. parent \in SUBSET Made
  BY <1>1, RelayMade
<1> QED
  BY <1>1, <1>2, <1>3 DEF Lands

LEMMA ProvesMarker ==
    ASSUME MarkInv, NEW h \in Hosts, Proves(token[h], ref)
    PROVE  MarkersIn(ref) # {}
  BY DEF MarkInv, Proves, MarkersIn

LEMMA AcquireLands ==
    ASSUME TypeOK, NEW p \in Procs, Acquire(p)
    PROVE  Lands(p)
<1>1. HostOf[p] \in Hosts /\ 0 \in Sessions(p) /\ "claim" \in Markers
  BY LaneHosts DEF Sessions, Markers
<1>2. CASE Transition(HostOf[p], base, "claim", 1, HostOf[p], 0)
  BY <1>1, <1>2 DEF Lands, TypeOK
<1>3. CASE /\ Released(ref)
           /\ Transition(HostOf[p], ref, "claim", log[Top(ref)].epoch + 1,
                         HostOf[p], 0)
  <2>1. log[Top(ref)].epoch + 1 \in Nat
    BY <1>3, TopMade DEF Released, Top, TypeOK, Commit
  <2> QED
    BY <1>1, <1>3, <2>1 DEF Lands, TypeOK
<1> QED
  BY <1>2, <1>3 DEF Acquire

LEMMA SeizeLands ==
    ASSUME TypeOK, NEW p \in Procs, Seize(p)
    PROVE  Lands(p)
<1>1. HostOf[p] \in Hosts /\ 0 \in Sessions(p) /\ "takeover" \in Markers
  BY LaneHosts DEF Sessions, Markers
<1>2. /\ ref = cmd[p].from /\ MarkersIn(ref) # {}
      /\ Transition(HostOf[p], ref, "takeover", Governs(ref).epoch + 1,
                    HostOf[p], 0)
  BY DEF Seize
<1>3. Governs(ref).epoch + 1 \in Nat
  BY <1>2, GovernsMade DEF TypeOK, Commit
<1> QED
  BY <1>1, <1>2, <1>3 DEF Lands, TypeOK

LEMMA ResumeLands ==
    ASSUME TypeOK, MarkInv, NEW p \in Procs, Resume(p)
    PROVE  Lands(p)
<1>1. /\ {0} \cup agents[HostOf[p]] \subseteq Sessions(p)
      /\ "beat" \in Markers
  BY DEF Sessions, Markers
<1>2. MarkersIn(ref) # {}
  BY DEF MarkInv, Resume
<1>3. PICK parent \in RelayBase(HostOf[p], ref), s \in Sessions(p) :
          Transition(HostOf[p], parent, "beat", Governs(ref).epoch,
                     HostOf[p], s)
  BY <1>1 DEF Resume
<1> QED
  BY <1>1, <1>2, <1>3, RelayLands

LEMMA ReleaseFromLands ==
    ASSUME TypeOK, NEW p \in Procs, MarkersIn(ref) # {},
           ReleaseFrom(HostOf[p])
    PROVE  Lands(p)
<1>1. 0 \in Sessions(p) /\ "release" \in Markers
  BY DEF Sessions, Markers
<1> QED
  BY <1>1, RelayLands DEF ReleaseFrom

LEMMA UnwindLands ==
    ASSUME TypeOK, MarkInv, NEW p \in Procs, Unwind(p)
    PROVE  Lands(p)
<1>1. Top(ref) \in ref /\ Top(ref) \in Made
  BY TopMade DEF Unwind, Top, TypeOK
<1>2. cmd[p].tip # 0 /\ cmd[p].tip \in ref
  BY <1>1 DEF Unwind, Made
<1>3. MarkersIn(ref) # {}
  BY <1>2 DEF MarkInv, MarkersIn
<1> QED
  BY <1>3, ReleaseFromLands DEF Unwind

LEMMA BindLands ==
    ASSUME TypeOK, NEW p \in Procs, Bind(p)
    PROVE  Lands(p)
<1>1. cmd[p].tip \in Sessions(p) /\ "beat" \in Markers
  BY DEF Sessions, Markers, Bind
<1> QED
  BY <1>1, RelayLands DEF Bind

LEMMA ReleaseLands ==
    ASSUME TypeOK, MarkInv, NEW p \in Procs, Release(p)
    PROVE  Lands(p)
<1>1. HostOf[p] \in Hosts
  BY LaneHosts
<1>2. MarkersIn(ref) # {}
  BY <1>1, ProvesMarker DEF Release
<1> QED
  BY <1>2, ReleaseFromLands DEF Release

\* The beat for a holder whose session is alive names that session.
LEMMA VetoLands ==
    ASSUME TypeOK, NEW p \in Procs, Veto(p)
    PROVE  \/ /\ Lands(p) /\ Finish(p)
              /\ UNCHANGED <<forgeVars, rescue, wt, agents>>
           \/ Goto(p, "seize") /\ UNCHANGED unchangedByGate
<1> DEFINE from == cmd[p].from
<1>1. CASE /\ \E ans \in Answers(HostOf[p]) :
                 SessionLive(HostOf[p], Bound(from), ans)
           /\ Transition(HostOf[p], from, "beat", Governs(from).epoch,
                         Governs(from).host, Governs(from).sess)
           /\ Finish(p) /\ UNCHANGED <<forgeVars, rescue, wt, agents>>
  <2>1. from \in SUBSET Made
    BY DEF TypeOK, Cmd
  <2>2. MarkersIn(from) # {}
    BY <1>1 DEF SessionLive, Bound
  <2> HIDE DEF from
  <2>3. /\ Governs(from) \in Commit
        /\ \E c \in Made : Governs(from) = log[c]
    BY <2>1, <2>2, GovernsMade
  <2>4. /\ Governs(from).epoch \in Nat
        /\ Governs(from).host \in Hosts \cup {Nobody}
        /\ Governs(from).sess \in Sessions(p)
    BY <2>3 DEF Commit, Sessions
  <2>5. "beat" \in Markers
    BY DEF Markers
  <2>6. Lands(p)
    BY <1>1, <2>1, <2>4, <2>5 DEF Lands
  <2> QED
    BY <1>1, <2>6
<1>2. CASE Goto(p, "seize") /\ UNCHANGED unchangedByGate
  BY <1>2
<1>3. \/ /\ \E ans \in Answers(HostOf[p]) :
                 SessionLive(HostOf[p], Bound(from), ans)
         /\ Transition(HostOf[p], from, "beat", Governs(from).epoch,
                       Governs(from).host, Governs(from).sess)
         /\ Finish(p) /\ UNCHANGED <<forgeVars, rescue, wt, agents>>
      \/ Goto(p, "seize") /\ UNCHANGED unchangedByGate
  BY DEF Veto, unchangedByGate, laneVars
<1> QED
  BY <1>1, <1>2, <1>3

-----------------------------------------------------------------------------
(* Every step keeps the types, and every commit what it was.               *)

LEMMA EnvironmentTyped ==
    ASSUME TypeOK, Environment
    PROVE  TypeOK' /\ Grows
<1>1. CASE Merge
  <2>1. WorkIn(ref) \subseteq Made
    BY DEF TypeOK, WorkIn
  <2> QED
    BY <1>1, <2>1, QuietTyped DEF Merge, TypeOK, laneVars
<1>2. ASSUME NEW h \in Hosts, Work(h) PROVE TypeOK' /\ Grows
  <2>1. Plain("work") \in Commit
    BY DEF Plain, Commit, Kinds
  <2>2. /\ log' \in [Ids -> Commit] /\ next' \in 2..(MaxCommits + 1)
        /\ Made' = Made \cup {next} /\ Grows
    BY <1>2, <2>1, StoreTyped DEF Work
  <2>3. branch' \in [Hosts -> SUBSET Made']
    BY <1>2, <2>2 DEF Work, Set, TypeOK
  <2>4. cmd' \in [Procs -> Cmd']
    BY <1>2, <2>2, CmdGrows DEF Work, TypeOK
  <2>5. /\ UNCHANGED <<base, content, done, ref, rescue, wt, token>>
        /\ UNCHANGED agents
    BY <1>2 DEF Work, forgeVars, laneVars
  <2> QED
    BY <2>2, <2>3, <2>4, <2>5 DEF TypeOK
<1>3. ASSUME NEW h \in Hosts, Push(h) PROVE TypeOK' /\ Grows
  BY <1>3, QuietTyped DEF Push, TypeOK, forgeVars, laneVars
<1>4. ASSUME NEW h \in Hosts, AgentEnds(h) PROVE TypeOK' /\ Grows
  <2>1. agents' \in [Hosts -> SUBSET Made]
    BY <1>4 DEF AgentEnds, Set, TypeOK
  <2> QED
    BY <1>4, <2>1, QuietTyped DEF AgentEnds, TypeOK, forgeVars, laneVars
<1> QED
  BY <1>1, <1>2, <1>3, <1>4 DEF Environment

\* A gate, and any step that only moves the command on.
LEMMA GateTyped ==
    ASSUME TypeOK, NEW p \in Procs,
           \/ \E verb \in {"claim", "start"} :
                 ResumeInside(p, verb) \/ Gate(p, verb)
           \/ Reattach(p) \/ NoLeftover(p) \/ StandUpFails(p)
           \/ HandoffFails(p) \/ ReapRead(p) \/ Stop(p)
    PROVE  TypeOK' /\ Grows
<1>1. /\ HostOf[p] \in Hosts /\ ref \in SUBSET Made
      /\ branch[HostOf[p]] \in SUBSET Made
      /\ HoldTip(HostOf[p]) \in SUBSET Made
  BY LaneHosts DEF TypeOK, HoldTip
<1>2. ASSUME NEW pc \in PCs, NEW verb \in Verbs, NEW how \in Hows,
             NEW from \in SUBSET Made, NEW stale \in BOOLEAN,
             NEW read \in SUBSET Made
      PROVE  Run(pc, verb, how, from, stale, read) \in Cmd
  BY DEF Run, Cmd
<1>3. /\ {"resume", "leftover", "acquire", "park", "foreign", "drop",
          "unwind", "teardown"} \subseteq PCs
      /\ {"claim", "start", "reap"} \subseteq Verbs
      /\ {"none", "fresh", "seize", "inside", "outside"} \subseteq Hows
  BY DEF PCs, Verbs, Hows
<1>4. ASSUME NEW verb \in {"claim", "start"}, ResumeInside(p, verb)
      PROVE  TypeOK' /\ Grows
  <2>1. Run("resume", verb, "inside", ref, FALSE, {}) \in Cmd
    BY <1>1, <1>2, <1>3
  <2> QED
    BY <1>4, <2>1, RunTyped DEF ResumeInside, Become
<1>5. ASSUME NEW verb \in {"claim", "start"}, Gate(p, verb)
      PROVE  TypeOK' /\ Grows
  <2>1. First(verb) \in PCs
    BY <1>3 DEF First
  <2>2. Held(HostOf[p]) \in BOOLEAN
    BY DEF Held
  <2>3. /\ \A stale \in {FALSE, Held(HostOf[p])} :
             Run(First(verb), verb, "seize", HoldTip(HostOf[p]), stale,
                 branch[HostOf[p]]) \in Cmd
        /\ Run(First(verb), verb, "fresh", {}, FALSE, {}) \in Cmd
    BY <1>1, <1>2, <1>3, <2>1, <2>2
  <2>4. PICK c \in Cmd : cmd' = [cmd EXCEPT ![p] = c]
    BY <1>5, <2>3 DEF Gate, Become
  <2> QED
    BY <1>5, <2>4, RunTyped DEF Gate
<1>6. CASE Reattach(p)
  <2>1. Run("resume", "start", "outside", ref, FALSE, {}) \in Cmd
    BY <1>1, <1>2, <1>3
  <2> QED
    BY <1>6, <2>1, RunTyped DEF Reattach, Become
<1>7. CASE NoLeftover(p) \/ StandUpFails(p) \/ HandoffFails(p) \/ Stop(p)
  <2>1. PICK c \in Cmd : cmd' = [cmd EXCEPT ![p] = c]
    BY <1>3, <1>7, IdleTyped, GotoTyped
       DEF NoLeftover, StandUpFails, HandoffFails, Stop, Goto, Finish,
           Become
  <2> QED
    BY <1>7, <2>1, RunTyped DEF NoLeftover, StandUpFails, HandoffFails, Stop
<1>8. CASE ReapRead(p)
  <2>1. PICK c \in Cmd : cmd' = [cmd EXCEPT ![p] = c]
    <3>1. /\ Run("park", "reap", "none", branch[HostOf[p]], FALSE, {}) \in Cmd
          /\ Run("foreign", "reap", "none", branch[HostOf[p]], FALSE, {})
                \in Cmd
          /\ \A stale \in BOOLEAN :
                Run("drop", "reap", "none", HoldTip(HostOf[p]), stale, {})
                   \in Cmd
      BY <1>1, <1>2, <1>3
    <3> QED
      BY <1>8, <3>1 DEF ReapRead, Become
  <2> QED
    BY <1>8, <2>1, RunTyped DEF ReapRead
<1> QED
  BY <1>4, <1>5, <1>6, <1>7, <1>8

\* What a lease minted by p leaves in its command.
LEMMA LeasedTyped ==
    ASSUME TypeOK, Grows, NEW p \in Procs, next \in Made', NEW pc \in PCs
    PROVE  [Idle EXCEPT !.pc = pc, !.verb = cmd[p].verb, !.tip = next,
                        !.how = IF Resumed(p) THEN cmd[p].how ELSE "fresh"]
              \in Cmd'
<1>1. cmd[p] \in Cmd /\ "fresh" \in Hows
  BY DEF TypeOK, Hows
<1> QED
  BY <1>1, IdleTyped DEF Cmd, Idle

\* How a transition leaves the command that made it.
LEMMA LandingTyped ==
    ASSUME TypeOK, SessionInv, NEW p \in Procs, Lands(p),
           UNCHANGED <<forgeVars, rescue, wt, agents>>,
           \/ UNCHANGED cmd
           \/ Finish(p)
           \/ \E pc \in PCs : Leased(p, pc)
    PROVE  TypeOK' /\ Grows
<1>1. /\ log' \in [Ids -> Commit] /\ next' \in 2..(MaxCommits + 1)
      /\ Made' = Made \cup {next} /\ Grows
      /\ ref' \in SUBSET Made'
      /\ branch' \in [Hosts -> SUBSET Made']
      /\ token' \in [Hosts -> Made' \cup {0}]
  BY LandsTyped
<1>2. cmd \in [Procs -> Cmd'] /\ Idle \in Cmd'
  BY <1>1, CmdGrows, IdleTyped DEF TypeOK
<1>3. ASSUME NEW pc \in PCs, Leased(p, pc) PROVE cmd' \in [Procs -> Cmd']
  <2> DEFINE c == [Idle EXCEPT !.pc = pc, !.verb = cmd[p].verb, !.tip = next,
                               !.how = IF Resumed(p) THEN cmd[p].how
                                       ELSE "fresh"]
  <2>1. c \in Cmd'
    BY <1>1, LeasedTyped
  <2>2. cmd' = [cmd EXCEPT ![p] = c]
    BY <1>3 DEF Leased, Become
  <2> HIDE DEF c
  <2> QED
    BY <1>2, <2>1, <2>2
<1>4. cmd' \in [Procs -> Cmd']
  BY <1>2, <1>3 DEF Finish, Become
<1> QED
  BY <1>1, <1>4 DEF TypeOK, forgeVars

LEMMA LeaseTyped ==
    ASSUME TypeOK, MarkInv, SessionInv, NEW p \in Procs,
           \/ Acquire(p) \/ Veto(p) \/ Seize(p) \/ Resume(p)
           \/ Unwind(p) \/ Bind(p) \/ Release(p)
    PROVE  TypeOK' /\ Grows
<1>1. {"standup", "agent", "seize"} \subseteq PCs
  BY DEF PCs
<1>2. CASE Acquire(p)
  BY <1>1, <1>2, AcquireLands, LandingTyped DEF Acquire
<1>3. CASE Seize(p)
  BY <1>1, <1>3, SeizeLands, LandingTyped DEF Seize
<1>4. CASE Resume(p)
  BY <1>1, <1>4, ResumeLands, LandingTyped DEF Resume
<1>5. CASE Unwind(p)
  BY <1>5, UnwindLands, LandingTyped DEF Unwind
<1>6. CASE Bind(p)
  BY <1>6, BindLands, LandingTyped DEF Bind
<1>7. CASE Release(p)
  BY <1>7, ReleaseLands, LandingTyped DEF Release
<1>8. CASE Veto(p)
  <2>1. CASE Goto(p, "seize") /\ UNCHANGED unchangedByGate
    BY <1>1, <2>1, GotoTyped, RunTyped DEF Goto, Become
  <2> QED
    BY <1>8, <2>1, VetoLands, LandingTyped
<1> QED
  BY <1>2, <1>3, <1>4, <1>5, <1>6, <1>7, <1>8

\* The steps on the machine: parking, checkouts, agents, branches.
LEMMA LocalTyped ==
    ASSUME TypeOK, SessionInv, NEW p \in Procs,
           \/ ParkLeftover(p) \/ ClearLeftover(p) \/ StandUp(p)
           \/ StartAgent(p) \/ TearDown(p) \/ Yield(p) \/ YieldTearDown(p)
           \/ ReapPark(p) \/ ReapRemove(p) \/ ReapDelete(p) \/ ReapDrop(p)
    PROVE  TypeOK' /\ Grows
<1>1. /\ HostOf[p] \in Hosts /\ branch[HostOf[p]] \in SUBSET Made
      /\ cmd[p] \in Cmd /\ cmd[p].tip \in Made \cup {0}
      /\ {"clear", "acquire", "agent", "handoff", "unwind", "yield",
          "remove", "delete"} \subseteq PCs
  BY LaneHosts DEF TypeOK, Cmd, PCs
<1>2. \A pc \in {"clear", "acquire", "agent", "handoff", "unwind",
                 "delete"} : Goto(p, pc) => cmd' \in [Procs -> Cmd]
  BY <1>1, GotoTyped DEF Goto, Become, TypeOK
<1>3. Finish(p) => cmd' \in [Procs -> Cmd]
  BY IdleTyped DEF Finish, Become, TypeOK
<1>4. RemoveWorktree(HostOf[p]) =>
        /\ wt' \in [Hosts -> Made \cup {0}]
        /\ token' \in [Hosts -> Made \cup {0}]
  BY DEF RemoveWorktree, Set, TypeOK
<1>5. CASE ParkLeftover(p)
  <2>1. rescue' \in SUBSET Made
    BY <1>1, <1>5, ParkTyped DEF ParkLeftover
  <2> QED
    BY <1>2, <1>3, <1>5, <2>1, QuietTyped
       DEF ParkLeftover, TypeOK, forgeVars, laneVars
<1>6. CASE ClearLeftover(p)
  BY <1>2, <1>4, <1>6, QuietTyped DEF ClearLeftover, TypeOK, forgeVars
<1>7. CASE StandUp(p)
  <2>1. /\ wt' \in [Hosts -> Made \cup {0}]
        /\ token' \in [Hosts -> Made \cup {0}]
        /\ branch' \in [Hosts -> SUBSET Made]
    BY <1>1, <1>7 DEF StandUp, CheckOut, Set, TypeOK
  <2> QED
    BY <1>2, <1>3, <1>7, <2>1, QuietTyped DEF StandUp, TypeOK, forgeVars
<1>8. CASE StartAgent(p)
  <2>1. cmd[p].tip \in Made
    BY <1>1, <1>8 DEF StartAgent, SessionInv, Unstarted
  <2>2. agents' \in [Hosts -> SUBSET Made]
    BY <1>1, <1>8, <2>1 DEF StartAgent, Set, TypeOK
  <2> QED
    BY <1>2, <1>8, <2>2, QuietTyped
       DEF StartAgent, TypeOK, forgeVars, laneVars
<1>9. CASE TearDown(p)
  <2>1. agents' \in [Hosts -> SUBSET Made]
    BY <1>1, <1>9 DEF TearDown, Set, TypeOK
  <2>2. /\ wt' \in [Hosts -> Made \cup {0}]
        /\ token' \in [Hosts -> Made \cup {0}]
    BY <1>4, <1>9 DEF TearDown, TypeOK
  <2> QED
    BY <1>2, <1>9, <2>1, <2>2, QuietTyped DEF TearDown, TypeOK, forgeVars
<1>10. CASE Yield(p)
  <2>1. rescue' \in SUBSET Made
    BY <1>1, <1>10 DEF Yield, WorkIn, TypeOK
  <2>2. Run("yield", "yield", "none", {}, FALSE, {}) \in Cmd
    BY <1>1 DEF Run, Cmd, Verbs, Hows
  <2>3. cmd' \in [Procs -> Cmd]
    BY <1>10, <2>2 DEF Yield, Become, TypeOK
  <2> QED
    BY <1>10, <2>1, <2>3, QuietTyped DEF Yield, TypeOK, forgeVars, laneVars
<1>11. CASE YieldTearDown(p)
  <2>1. agents' \in [Hosts -> SUBSET Made]
    BY <1>1, <1>11 DEF YieldTearDown, Set, TypeOK
  <2> QED
    BY <1>3, <1>4, <1>11, <2>1, QuietTyped
       DEF YieldTearDown, TypeOK, forgeVars
<1>12. CASE ReapPark(p)
  <2>1. rescue' \in SUBSET Made
    BY <1>1, <1>12, ParkTyped DEF ReapPark
  <2>2. [cmd[p] EXCEPT !.pc = "remove", !.read = branch[HostOf[p]]] \in Cmd
    BY <1>1 DEF Cmd
  <2>3. cmd' \in [Procs -> Cmd]
    BY <1>12, <2>2 DEF ReapPark, Become, TypeOK
  <2> QED
    BY <1>12, <2>1, <2>3, QuietTyped
       DEF ReapPark, TypeOK, forgeVars, laneVars
<1>13. CASE ReapRemove(p)
  BY <1>2, <1>3, <1>4, <1>13, QuietTyped DEF ReapRemove, TypeOK, forgeVars
<1>14. CASE ReapDelete(p)
  <2>1. branch' \in [Hosts -> SUBSET Made]
    BY <1>14 DEF ReapDelete, Set, TypeOK
  <2> QED
    BY <1>3, <1>14, <2>1, QuietTyped
       DEF ReapDelete, TypeOK, forgeVars, laneVars
<1>15. CASE ReapDrop(p)
  <2>1. branch' \in [Hosts -> SUBSET Made]
    BY <1>15 DEF ReapDrop, Set, TypeOK
  <2>2. rescue' \in SUBSET Made /\ ref' \in SUBSET Made
    BY <1>15, ParkTyped DEF ReapDrop, TypeOK
  <2> QED
    BY <1>3, <1>15, <2>1, <2>2, QuietTyped
       DEF ReapDrop, TypeOK, forgeVars, laneVars
<1> QED
  BY <1>5, <1>6, <1>7, <1>8, <1>9, <1>10, <1>11, <1>12, <1>13, <1>14, <1>15

LEMMA TypeStep ==
    ASSUME TypeOK, MarkInv, SessionInv, Next
    PROVE  TypeOK' /\ Grows
<1>1. CASE Environment
  BY <1>1, EnvironmentTyped
<1>2. ASSUME NEW p \in Procs, Command(p) PROVE TypeOK' /\ Grows
  BY <1>2, GateTyped, LeaseTyped, LocalTyped DEF Command
<1> QED
  BY <1>1, <1>2 DEF Next

LEMMA InitTyped == Init => TypeOK
<1> SUFFICES ASSUME Init PROVE TypeOK
  OBVIOUS
<1>1. next = 2 /\ Made = {1} /\ 2 \in 2..(MaxCommits + 1)
  BY LaneBounds DEF Init, Made
<1>2. log \in [Ids -> Commit]
  BY DEF Init, Plain, Commit, Kinds
<1> QED
  BY <1>1, <1>2, IdleTyped DEF Init, TypeOK, Root

-----------------------------------------------------------------------------
(* What a step does to a command, the agents, and what is kept.            *)

\* A history that is there reads the same after any step.
LEMMA HistoryStays ==
    ASSUME TypeOK, Grows, NEW S \in SUBSET Made
    PROVE  /\ (WorkIn(S))' = WorkIn(S) /\ (MarkersIn(S))' = MarkersIn(S)
           /\ (Bound(S))' = Bound(S)
<1>1. \A c \in S : log'[c] = log[c]
  BY DEF Grows
<1>2. /\ {c \in S : log'[c].kind = "work"} = {c \in S : log[c].kind = "work"}
      /\ {c \in S : log'[c].kind \in Markers}
            = {c \in S : log[c].kind \in Markers}
  BY <1>1
<1>3. MarkersIn(S) # {} => Max(MarkersIn(S)) \in S
  BY TopMade DEF MarkersIn
<1> QED
  BY <1>1, <1>2, <1>3 DEF WorkIn, MarkersIn, Bound, Governs

\* A commit is a transition of some command, or an agent's.
LEMMA CommandLands ==
    ASSUME TypeOK, MarkInv, NEW p \in Procs, Command(p)
    PROVE  Lands(p) \/ UNCHANGED <<log, next>>
<1>1. CASE \/ Acquire(p) \/ Veto(p) \/ Seize(p) \/ Resume(p)
           \/ Unwind(p) \/ Bind(p) \/ Release(p)
  BY <1>1, AcquireLands, VetoLands, SeizeLands, ResumeLands, UnwindLands,
     BindLands, ReleaseLands DEF unchangedByGate
<1>2. CASE \/ \E verb \in {"claim", "start"} :
                 ResumeInside(p, verb) \/ Gate(p, verb)
           \/ Reattach(p) \/ NoLeftover(p) \/ StandUpFails(p)
           \/ HandoffFails(p) \/ ReapRead(p) \/ Stop(p)
  BY <1>2 DEF ResumeInside, Gate, Reattach, NoLeftover, StandUpFails,
              HandoffFails, ReapRead, Stop, unchangedByGate
<1>3. CASE \/ ParkLeftover(p) \/ ClearLeftover(p) \/ StandUp(p)
           \/ StartAgent(p) \/ TearDown(p) \/ Yield(p) \/ YieldTearDown(p)
           \/ ReapPark(p) \/ ReapRemove(p) \/ ReapDelete(p) \/ ReapDrop(p)
  BY <1>3 DEF ParkLeftover, ClearLeftover, StandUp, StartAgent, TearDown,
              Yield, YieldTearDown, ReapPark, ReapRemove, ReapDelete,
              ReapDrop
<1> QED
  BY <1>1, <1>2, <1>3 DEF Command

LEMMA LogMoves ==
    ASSUME TypeOK, MarkInv, SessionInv, Next
    PROVE  \/ Made' = Made
           \/ /\ Made' = Made \cup {next} /\ next \notin Made /\ next # 0
              /\ \/ log'[next].sess = 0
                 \/ \E p \in Procs : log'[next].sess \in Sessions(p)
<1>1. CASE \E p \in Procs : Command(p)
  BY <1>1, CommandLands, LandsTyped DEF Made
<1>2. ASSUME NEW h \in Hosts, Work(h)
      PROVE  /\ Made' = Made \cup {next} /\ next \notin Made /\ next # 0
             /\ log'[next].sess = 0
  <2>1. Plain("work") \in Commit /\ Plain("work").sess = 0
    BY DEF Plain, Commit, Kinds
  <2> QED
    BY <1>2, <2>1, StoreTyped DEF Work
<1>3. CASE Merge \/ \E h \in Hosts : Push(h) \/ AgentEnds(h)
  BY <1>3 DEF Merge, Push, AgentEnds, Made
<1> QED
  BY <1>1, <1>2, <1>3 DEF Next, Environment

\* Only a session that was just started is new among the agents.
LEMMA AgentsMove ==
    ASSUME TypeOK, Next, NEW h \in Hosts, NEW s \in agents'[h] \ agents[h]
    PROVE  \E p \in Procs : StartAgent(p) /\ h = HostOf[p] /\ s = cmd[p].tip
<1>1. agents \in [Hosts -> SUBSET Made]
  BY DEF TypeOK
<1>2. CASE Environment
  BY <1>1, <1>2
     DEF Environment, Merge, Work, Push, AgentEnds, Set
<1>3. ASSUME NEW p \in Procs, Command(p), ~StartAgent(p)
      PROVE  agents'[h] \subseteq agents[h]
  <2>1. CASE TearDown(p) \/ YieldTearDown(p)
    BY <1>1, <2>1 DEF TearDown, YieldTearDown, Set
  <2>2. CASE ~TearDown(p) /\ ~YieldTearDown(p)
    BY <1>3, <2>2
       DEF Command, ResumeInside, Gate, Reattach, NoLeftover, ParkLeftover,
           ClearLeftover, Acquire, Veto, Seize, Resume, StandUp,
           StandUpFails, HandoffFails, Unwind, Bind, Release, Yield,
           ReapRead, ReapPark, ReapRemove, ReapDelete, ReapDrop, Stop,
           unchangedByGate
  <2> QED
    BY <2>1, <2>2
<1>4. ASSUME NEW p \in Procs, StartAgent(p)
      PROVE  h = HostOf[p] /\ s = cmd[p].tip
  BY <1>1, <1>4 DEF StartAgent, Set
<1> QED
  BY <1>2, <1>3, <1>4 DEF Next

\* What was parked or has landed stays so.
LEMMA SavedStays ==
    ASSUME TypeOK, Next
    PROVE  rescue \subseteq rescue' /\ content \subseteq content'
<1>1. CASE Environment
  BY <1>1 DEF Environment, Merge, Work, Push, AgentEnds, forgeVars
<1>2. ASSUME NEW p \in Procs, Command(p)
      PROVE  rescue \subseteq rescue' /\ content' = content
  <2>1. CASE ParkLeftover(p) \/ Yield(p) \/ ReapPark(p) \/ ReapDrop(p)
    BY <2>1
       DEF ParkLeftover, Yield, ReapPark, ReapDrop, ParkUnlanded, forgeVars
  <2>2. CASE ~(ParkLeftover(p) \/ Yield(p) \/ ReapPark(p) \/ ReapDrop(p))
    BY <1>2, <2>2
       DEF Command, ResumeInside, Gate, Reattach, NoLeftover,
           ClearLeftover, Acquire, Veto, Seize, Resume, StandUp,
           StandUpFails, StartAgent, HandoffFails, TearDown, Unwind, Bind,
           Release, YieldTearDown, ReapRead, ReapRemove, ReapDelete, Stop,
           unchangedByGate, forgeVars
  <2> QED
    BY <2>1, <2>2
<1> QED
  BY <1>1, <1>2 DEF Next

\* A command is changed by its own steps.
LEMMA OthersKeep ==
    ASSUME TypeOK, NEW p \in Procs,
           Environment \/ \E q \in Procs \ {p} : Command(q)
    PROVE  cmd'[p] = cmd[p]
<1>1. cmd \in [Procs -> Cmd]
  BY DEF TypeOK
<1>2. CASE Environment
  BY <1>2 DEF Environment, Merge, Work, Push, AgentEnds
<1>3. ASSUME NEW q \in Procs \ {p}, Command(q) PROVE cmd'[p] = cmd[p]
  BY <1>1, <1>3
     DEF Command, ResumeInside, Gate, Reattach, NoLeftover, ParkLeftover,
         ClearLeftover, Acquire, Veto, Seize, Resume, StandUp,
         StandUpFails, StartAgent, HandoffFails, TearDown, Unwind, Bind,
         Release, Yield, YieldTearDown, ReapRead, ReapPark, ReapRemove,
         ReapDelete, ReapDrop, Stop, Leased, Goto, Finish, Become
<1> QED
  BY <1>2, <1>3

\* The ways a command goes on.
Hops ==
    {<<"leftover", "acquire">>, <<"leftover", "clear">>,
     <<"clear", "acquire">>, <<"acquire", "seize">>,
     <<"standup", "agent">>, <<"standup", "unwind">>,
     <<"agent", "handoff">>, <<"agent", "teardown">>,
     <<"handoff", "teardown">>, <<"teardown", "unwind">>,
     <<"remove", "delete">>}

Hop(p) ==
    \E pc \in PCs :
        /\ cmd'[p] = [cmd[p] EXCEPT !.pc = pc]
        /\ <<cmd[p].pc, pc>> \in Hops
        /\ pc = "seize" => cmd[p].how = "seize"

\* A command that begins has no lease yet, and has judged the hold it is
\* about to end.
Begins(p) ==
    LET c == cmd'[p] IN
    /\ c.tip = 0
    /\ c.pc \in {"resume", "leftover", "acquire", "yield", "park",
                 "foreign", "drop"}
    /\ c.from \in SUBSET Made
    /\ c.pc = "resume" => MarkersIn(c.from) # {}
    /\ c.pc = "park" => c.how # "seize"
    /\ ~c.stale /\ (c.how = "seize" \/ c.pc = "drop") =>
          /\ Bound(c.from) \notin agents[HostOf[p]]
          /\ c.read \subseteq c.from

LEMMA GateBegins ==
    ASSUME TypeOK, MarkInv, NEW p \in Procs, NEW verb \in {"claim", "start"},
           Gate(p, verb)
    PROVE  Begins(p)
<1> DEFINE h == HostOf[p]
<1>1. /\ h \in Hosts /\ cmd \in [Procs -> Cmd]
      /\ agents[h] \in SUBSET Made /\ branch[h] \in SUBSET Made
      /\ HoldTip(h) \in SUBSET Made
  BY LaneHosts DEF TypeOK, HoldTip
<1>2. First(verb) \in {"leftover", "acquire"}
  BY DEF First
<1>3. PICK inside \in {FALSE, wt[h] # 0}, stale \in {FALSE, Held(h)},
           ans \in Answers(h) :
        /\ Open(h, inside, stale, ans)
        /\ Become(p, IF Held(h)
                     THEN Run(First(verb), verb, "seize", HoldTip(h), stale,
                              branch[h])
                     ELSE Run(First(verb), verb, "fresh", {}, FALSE, {}))
  BY DEF Gate
<1>4. CASE ~Held(h)
  <2>1. cmd'[p] = Run(First(verb), verb, "fresh", {}, FALSE, {})
    BY <1>1, <1>3, <1>4 DEF Become
  <2> QED
    BY <1>2, <2>1 DEF Begins, Run
<1>5. CASE Held(h)
  <2>1. cmd'[p] = Run(First(verb), verb, "seize", HoldTip(h), stale,
                      branch[h])
    BY <1>1, <1>3, <1>5 DEF Become
  <2>2. ~stale => Dead(h, ans) /\ ~UnparkedSuffix(h, HoldTip(h))
    BY <1>3, <1>5 DEF Open, Deserted
  <2>3. ~stale => /\ Bound(HoldTip(h)) \notin agents[h]
                  /\ branch[h] \subseteq HoldTip(h)
    BY <2>2 DEF Dead, SessionDead, UnparkedSuffix
  <2> HIDE DEF h
  <2>4. /\ cmd'[p].pc = First(verb) /\ cmd'[p].tip = 0
        /\ cmd'[p].from = HoldTip(h) /\ cmd'[p].stale = stale
        /\ cmd'[p].read = branch[h]
    BY <2>1 DEF Run
  <2> QED
    BY <1>1, <1>2, <2>3, <2>4 DEF Begins, h
<1> QED
  BY <1>4, <1>5

LEMMA OthersBegin ==
    ASSUME TypeOK, MarkInv, NEW p \in Procs,
           \/ \E verb \in {"claim", "start"} : ResumeInside(p, verb)
           \/ Reattach(p) \/ Yield(p) \/ ReapRead(p)
    PROVE  Begins(p)
<1>1. /\ HostOf[p] \in Hosts /\ cmd \in [Procs -> Cmd]
      /\ ref \in SUBSET Made /\ branch[HostOf[p]] \in SUBSET Made
      /\ agents[HostOf[p]] \in SUBSET Made
      /\ HoldTip(HostOf[p]) \in SUBSET Made
  BY LaneHosts DEF TypeOK, HoldTip
<1>2. ASSUME NEW verb \in {"claim", "start"}, ResumeInside(p, verb)
      PROVE  Begins(p)
  <2>1. cmd'[p] = Run("resume", verb, "inside", ref, FALSE, {})
    BY <1>1, <1>2 DEF ResumeInside, Become
  <2>2. MarkersIn(ref) # {}
    BY <1>1, <1>2, ProvesMarker DEF ResumeInside, ResumeToken
  <2> QED
    BY <1>1, <2>1, <2>2 DEF Begins, Run
<1>3. CASE Reattach(p)
  <2>1. cmd'[p] = Run("resume", "start", "outside", ref, FALSE, {})
    BY <1>1, <1>3 DEF Reattach, Become
  <2>2. MarkersIn(ref) # {}
    BY <1>1, <1>3, ProvesMarker DEF Reattach, LaneTokenResume
  <2> QED
    BY <1>1, <2>1, <2>2 DEF Begins, Run
<1>4. CASE Yield(p)
  <2>1. cmd'[p] = Run("yield", "yield", "none", {}, FALSE, {})
    BY <1>1, <1>4 DEF Yield, Become
  <2> QED
    BY <2>1 DEF Begins, Run
<1>5. CASE ReapRead(p)
  <2>1. CASE \E pc \in {"park", "foreign"} :
                cmd'[p] = Run(pc, "reap", "none", branch[HostOf[p]],
                              FALSE, {})
    BY <1>1, <2>1 DEF Begins, Run
  <2>2. ASSUME NEW stale \in BOOLEAN,
               stale \/ \E ans \in Answers(HostOf[p]) : Dead(HostOf[p], ans),
               cmd'[p] = Run("drop", "reap", "none", HoldTip(HostOf[p]),
                             stale, {})
        PROVE  Begins(p)
    <3>1. ~stale => Bound(HoldTip(HostOf[p])) \notin agents[HostOf[p]]
      BY <2>2 DEF Dead, SessionDead
    <3> QED
      BY <1>1, <2>2, <3>1 DEF Begins, Run
  <2> QED
    BY <1>1, <1>5, <2>1, <2>2 DEF ReapRead, Become
<1> QED
  BY <1>2, <1>3, <1>4, <1>5

\* A lease p has just minted: its marker is on the machine's branch, and
\* nobody has started under it.
Mints(p) ==
    /\ Lands(p) /\ UNCHANGED agents
    /\ cmd'[p].tip = next /\ cmd'[p].from = {} /\ cmd'[p].read = {}
    /\ cmd'[p].pc \in {"standup", "agent"}
    /\ cmd'[p].how # "seize"

LEMMA LeasedMints ==
    ASSUME TypeOK, NEW p \in Procs, NEW pc \in {"standup", "agent"},
           Lands(p), UNCHANGED agents, cmd[p].how # "seize" \/ ~Resumed(p),
           Leased(p, pc)
    PROVE  Mints(p)
<1>1. cmd \in [Procs -> Cmd]
  BY DEF TypeOK
<1>2. cmd'[p] = [Idle EXCEPT !.pc = pc, !.verb = cmd[p].verb, !.tip = next,
                             !.how = IF Resumed(p) THEN cmd[p].how
                                     ELSE "fresh"]
  BY <1>1 DEF Leased, Become
<1>3. /\ cmd'[p].tip = next /\ cmd'[p].pc = pc /\ cmd'[p].from = {}
      /\ cmd'[p].read = {}
      /\ cmd'[p].how = IF Resumed(p) THEN cmd[p].how ELSE "fresh"
  BY <1>2 DEF Idle
<1> QED
  BY <1>3 DEF Mints

\* All that a command does to its own record.
LEMMA OwnMoves ==
    ASSUME TypeOK, MarkInv, NEW p \in Procs, Command(p)
    PROVE  \/ cmd'[p] = cmd[p] \/ cmd'[p] = Idle
           \/ Begins(p) \/ Hop(p) \/ Mints(p) \/ ReapPark(p)
<1>1. cmd \in [Procs -> Cmd]
  BY DEF TypeOK
<1>2. CASE \E verb \in {"claim", "start"} :
              ResumeInside(p, verb) \/ Gate(p, verb)
  BY <1>2, GateBegins, OthersBegin
<1>3. CASE Reattach(p) \/ Yield(p) \/ ReapRead(p)
  BY <1>3, OthersBegin
<1>4. CASE Acquire(p)
  <2>1. ~Resumed(p) /\ Leased(p, "standup") /\ UNCHANGED agents
    BY <1>4 DEF Acquire, Resumed
  <2> QED
    BY <1>4, <2>1, AcquireLands, LeasedMints
<1>5. CASE Seize(p)
  <2>1. Leased(p, "standup") /\ UNCHANGED agents
    BY <1>5 DEF Seize
  <2> QED
    BY <1>5, <2>1, SeizeLands, LeasedMints DEF Resumed
<1>6. CASE Resume(p)
  <2>1. Leased(p, "agent") \/ cmd'[p] = Idle
    BY <1>1, <1>6 DEF Resume, Finish, Become
  <2>2. UNCHANGED agents
    BY <1>6 DEF Resume
  <2> QED
    BY <1>6, <2>1, <2>2, ResumeLands, LeasedMints DEF Resumed
<1>7. CASE Veto(p)
  <2>1. At(p, "acquire") /\ cmd[p].how = "seize"
    BY <1>7 DEF Veto
  <2>2. CASE Goto(p, "seize")
    BY <1>1, <2>1, <2>2 DEF Goto, Become, Hop, Hops, At, PCs
  <2> QED
    BY <1>1, <1>7, <2>2, VetoLands DEF Finish, Become
<1>8. CASE \/ NoLeftover(p) \/ ParkLeftover(p) \/ ClearLeftover(p)
           \/ StandUp(p) \/ StandUpFails(p) \/ StartAgent(p)
  BY <1>1, <1>8
     DEF NoLeftover, ParkLeftover, ClearLeftover, StandUp, StandUpFails,
         StartAgent, Goto, Finish, Become, Hop, Hops, At, PCs
<1>9. CASE HandoffFails(p) \/ TearDown(p) \/ ReapRemove(p)
  BY <1>1, <1>9
     DEF HandoffFails, TearDown, ReapRemove, Goto, Finish, Become,
         Hop, Hops, At, PCs
<1>10. CASE \/ Unwind(p) \/ Bind(p) \/ Release(p) \/ YieldTearDown(p)
            \/ ReapDelete(p) \/ ReapDrop(p) \/ Stop(p)
  BY <1>1, <1>10
     DEF Unwind, Bind, Release, YieldTearDown, ReapDelete, ReapDrop, Stop,
         Finish, Become
<1> QED
  BY <1>2, <1>3, <1>4, <1>5, <1>6, <1>7, <1>8, <1>9, <1>10 DEF Command

\* And all that happens to it.
LEMMA CmdMoves ==
    ASSUME TypeOK, MarkInv, Next, NEW p \in Procs
    PROVE  \/ cmd'[p] = cmd[p] \/ cmd'[p] = Idle
           \/ Begins(p) \/ Hop(p) \/ Mints(p) \/ ReapPark(p)
  BY OwnMoves, OthersKeep DEF Next

LEMMA HopKeeps ==
    ASSUME TypeOK, NEW p \in Procs, Hop(p)
    PROVE  /\ cmd'[p].tip = cmd[p].tip /\ cmd'[p].from = cmd[p].from
           /\ cmd'[p].how = cmd[p].how /\ cmd'[p].stale = cmd[p].stale
           /\ cmd'[p].read = cmd[p].read
           /\ <<cmd[p].pc, cmd'[p].pc>> \in Hops
           /\ cmd'[p].pc = "seize" => cmd[p].how = "seize"
  BY DEF TypeOK, Cmd, Hop

LEMMA ReapParkKeeps ==
    ASSUME TypeOK, NEW p \in Procs, ReapPark(p)
    PROVE  /\ cmd'[p].tip = cmd[p].tip /\ cmd'[p].pc = "remove"
           /\ cmd'[p].how = cmd[p].how /\ cmd'[p].from = cmd[p].from
           /\ cmd'[p].stale = cmd[p].stale
           /\ cmd'[p].read = branch[HostOf[p]]
<1>1. cmd \in [Procs -> Cmd]
  BY DEF TypeOK
<1>2. cmd'[p] = [cmd[p] EXCEPT !.pc = "remove", !.read = branch[HostOf[p]]]
  BY <1>1 DEF ReapPark, Become
<1> QED
  BY <1>1, <1>2 DEF Cmd

LEMMA TipMoves ==
    ASSUME TypeOK, MarkInv, Next, NEW p \in Procs
    PROVE  cmd'[p].tip \in {0, cmd[p].tip} \/ Mints(p)
<1>1. CASE Begins(p)
  BY <1>1 DEF Begins
<1>2. CASE Hop(p) \/ ReapPark(p)
  BY <1>2, HopKeeps, ReapParkKeeps
<1>3. CASE cmd'[p] = Idle
  BY <1>3 DEF Idle
<1> QED
  BY <1>1, <1>2, <1>3, CmdMoves

\* A lease whose agent has not started after the step had none before
\* it, or was minted by it.
LEMMA UnstartedMoves ==
    ASSUME TypeOK, MarkInv, Next, NEW p \in Procs,
           cmd'[p].pc \in {"standup", "agent"}
    PROVE  \/ /\ Unstarted(p) /\ ~StartAgent(p)
              /\ cmd'[p].tip = cmd[p].tip /\ cmd'[p].how = cmd[p].how
           \/ Mints(p)
<1>1. ~StartAgent(p)
  BY DEF StartAgent, Goto, Become, TypeOK, Cmd
<1> QED
  BY <1>1, CmdMoves, HopKeeps, ReapParkKeeps
     DEF Idle, Begins, Hops, Unstarted, At

\* A command leaves the branches of other machines alone.
LEMMA BranchesAway ==
    ASSUME TypeOK, MarkInv, SessionInv, NEW p \in Procs, Command(p),
           NEW h \in Hosts, h # HostOf[p]
    PROVE  branch'[h] = branch[h]
<1>1. branch \in [Hosts -> SUBSET Made]
  BY DEF TypeOK
<1>2. CASE \/ Acquire(p) \/ Veto(p) \/ Seize(p) \/ Resume(p)
           \/ Unwind(p) \/ Bind(p) \/ Release(p)
  BY <1>2, AcquireLands, VetoLands, SeizeLands, ResumeLands, UnwindLands,
     BindLands, ReleaseLands, LandsTyped DEF unchangedByGate
<1>3. CASE StandUp(p) \/ ReapDelete(p) \/ ReapDrop(p)
  BY <1>1, <1>3 DEF StandUp, CheckOut, ReapDelete, ReapDrop, Set
<1>4. CASE \/ \E verb \in {"claim", "start"} :
                 ResumeInside(p, verb) \/ Gate(p, verb)
           \/ Reattach(p) \/ NoLeftover(p) \/ StandUpFails(p)
           \/ HandoffFails(p) \/ ReapRead(p) \/ Stop(p)
           \/ ParkLeftover(p) \/ ClearLeftover(p) \/ StartAgent(p)
           \/ TearDown(p) \/ Yield(p) \/ YieldTearDown(p)
           \/ ReapPark(p) \/ ReapRemove(p)
  BY <1>4
     DEF ResumeInside, Gate, Reattach, NoLeftover, StandUpFails,
         HandoffFails, ReapRead, Stop, ParkLeftover, ClearLeftover,
         StartAgent, TearDown, Yield, YieldTearDown, ReapPark, ReapRemove,
         unchangedByGate
<1> QED
  BY <1>2, <1>3, <1>4 DEF Command

\* Nor does a command that stands its lane up move the branch it finds.
LEMMA BranchStands ==
    ASSUME TypeOK, NEW p \in Procs, Command(p), Unstarted(p),
           branch[HostOf[p]] # {}
    PROVE  UNCHANGED branch
<1>1. CASE \/ StandUp(p) \/ StandUpFails(p) \/ StartAgent(p)
           \/ HandoffFails(p) \/ Stop(p)
  BY <1>1
     DEF StandUp, CheckOut, StandUpFails, StartAgent, HandoffFails, Stop,
         unchangedByGate
<1>2. CASE ~(\/ StandUp(p) \/ StandUpFails(p) \/ StartAgent(p)
             \/ HandoffFails(p) \/ Stop(p))
  BY <1>2
     DEF Command, ResumeInside, Gate, Reattach, NoLeftover, ParkLeftover,
         ClearLeftover, Acquire, Veto, Seize, Resume, TearDown, Unwind,
         Bind, Release, Yield, YieldTearDown, ReapRead, ReapPark,
         ReapRemove, ReapDelete, ReapDrop, MayRun, Unstarted, At
<1> QED
  BY <1>1, <1>2

-----------------------------------------------------------------------------
(* Each part of the invariant is kept.                                     *)

LEMMA ParkedStep ==
    ASSUME TypeOK, MarkInv, SessionInv, ParkedBeforeGone, Next
    PROVE  ParkedBeforeGone'
<1> SUFFICES ASSUME NEW p \in Procs, cmd'[p].pc \in {"remove", "delete"}
             PROVE  (WorkIn(cmd[p].read))' \subseteq rescue' \cup content'
  BY DEF ParkedBeforeGone, At
<1>1. /\ Grows /\ cmd[p] \in Cmd /\ cmd[p].read \in SUBSET Made
      /\ branch[HostOf[p]] \in SUBSET Made
  BY TypeStep, LaneHosts DEF TypeOK, Cmd
<1>2. rescue \subseteq rescue' /\ content \subseteq content'
  BY SavedStays
<1>3. CASE cmd'[p].read = cmd[p].read /\ cmd[p].pc \in {"remove", "delete"}
  <2>1. WorkIn(cmd[p].read) \subseteq rescue \cup content
    BY <1>3 DEF ParkedBeforeGone, At
  <2>2. \A c \in cmd[p].read : log'[c] = log[c]
    BY <1>1 DEF Grows
  <2> QED
    BY <1>2, <1>3, <2>1, <2>2 DEF WorkIn
<1>4. CASE ReapPark(p)
  <2>1. cmd'[p].read = branch[HostOf[p]]
    BY <1>4, ReapParkKeeps
  <2>2. rescue' = ParkUnlanded(branch[HostOf[p]])
    BY <1>4 DEF ReapPark
  <2>3. WorkIn(branch[HostOf[p]]) \subseteq rescue' \cup content
    BY <1>1, <2>2, ParkTyped
  <2>4. \A c \in branch[HostOf[p]] : log'[c] = log[c]
    BY <1>1 DEF Grows
  <2> QED
    BY <1>2, <2>1, <2>3, <2>4 DEF WorkIn
<1>5. CASE Hop(p)
  <2>1. cmd'[p].read = cmd[p].read /\ cmd[p].pc = "remove"
    BY <1>5, HopKeeps DEF Hops
  <2> QED
    BY <1>3, <2>1
<1> QED
  BY <1>3, <1>4, <1>5, CmdMoves DEF Idle, Begins, Mints

LEMMA MarkStep ==
    ASSUME TypeOK, MarkInv, SessionInv, Next
    PROVE  MarkInv'
<1>1. Grows /\ TypeOK'
  BY TypeStep
<1>2. ASSUME NEW h \in Hosts, token'[h] # 0
      PROVE  log'[token'[h]].kind \in Markers
  <2>1. ASSUME NEW p \in Procs, Command(p)
        PROVE  \/ token'[h] \in {token[h], 0, cmd[p].tip}
               \/ Lands(p) /\ token'[h] = next
    <3>1. token \in [Hosts -> Made \cup {0}]
      BY DEF TypeOK
    <3>2. CASE \/ Acquire(p) \/ Veto(p) \/ Seize(p) \/ Resume(p)
               \/ Unwind(p) \/ Bind(p) \/ Release(p)
      BY <3>2, AcquireLands, VetoLands, SeizeLands, ResumeLands,
         UnwindLands, BindLands, ReleaseLands, LandsTyped
         DEF unchangedByGate, laneVars
    <3>3. CASE \/ ClearLeftover(p) \/ StandUp(p) \/ TearDown(p)
               \/ YieldTearDown(p) \/ ReapRemove(p)
      BY <3>1, <3>3
         DEF ClearLeftover, StandUp, TearDown, YieldTearDown, ReapRemove,
             RemoveWorktree, Set
    <3>4. CASE \/ \E verb \in {"claim", "start"} :
                     ResumeInside(p, verb) \/ Gate(p, verb)
               \/ Reattach(p) \/ NoLeftover(p) \/ StandUpFails(p)
               \/ HandoffFails(p) \/ ReapRead(p) \/ Stop(p)
               \/ ParkLeftover(p) \/ StartAgent(p) \/ Yield(p)
               \/ ReapPark(p) \/ ReapDelete(p) \/ ReapDrop(p)
      BY <3>4
         DEF ResumeInside, Gate, Reattach, NoLeftover, StandUpFails,
             HandoffFails, ReapRead, Stop, ParkLeftover, StartAgent, Yield,
             ReapPark, ReapDelete, ReapDrop, unchangedByGate, laneVars
    <3> QED
      BY <2>1, <3>2, <3>3, <3>4 DEF Command
  <2>2. Environment => token'[h] = token[h]
    BY DEF Environment, Merge, Work, Push, AgentEnds, laneVars
  <2>3. token[h] # 0 => token[h] \in Made /\ log[token[h]].kind \in Markers
    BY DEF TypeOK, MarkInv
  <2>4. ASSUME NEW p \in Procs, cmd[p].tip # 0
        PROVE  cmd[p].tip \in Made /\ log[cmd[p].tip].kind \in Markers
    BY <2>4 DEF TypeOK, Cmd, MarkInv
  <2>5. ASSUME NEW p \in Procs, Lands(p) PROVE log'[next].kind \in Markers
    BY <2>5, LandsTyped
  <2>6. \A c \in Made : log'[c] = log[c]
    BY <1>1 DEF Grows
  <2> QED
    BY <1>2, <2>1, <2>2, <2>3, <2>4, <2>5, <2>6 DEF Next
<1>3. ASSUME NEW p \in Procs, cmd'[p].tip # 0
      PROVE  log'[cmd'[p].tip].kind \in Markers
  <2>1. CASE cmd'[p].tip = cmd[p].tip
    <3>1. cmd[p].tip \in Made /\ log[cmd[p].tip].kind \in Markers
      BY <1>3, <2>1 DEF TypeOK, Cmd, MarkInv
    <3> QED
      BY <1>1, <2>1, <3>1 DEF Grows
  <2>2. CASE Mints(p)
    <3>1. Lands(p) /\ cmd'[p].tip = next
      BY <2>2 DEF Mints
    <3>2. log'[next].kind \in Markers
      BY <3>1, LandsTyped
    <3> QED
      BY <3>1, <3>2
  <2> QED
    BY <1>3, <2>1, <2>2, TipMoves
<1>4. ASSUME NEW p \in Procs, cmd'[p].pc = "resume"
      PROVE  (MarkersIn(cmd[p].from))' # {}
  <2>1. CASE cmd'[p] = cmd[p]
    <3>1. cmd[p].from \in SUBSET Made /\ MarkersIn(cmd[p].from) # {}
      BY <1>4, <2>1 DEF TypeOK, Cmd, MarkInv, At
    <3>2. \A c \in cmd[p].from : log'[c] = log[c]
      BY <1>1, <3>1 DEF Grows
    <3> QED
      BY <2>1, <3>1, <3>2 DEF MarkersIn
  <2>2. CASE Begins(p)
    <3>1. /\ cmd'[p].from \in SUBSET Made
          /\ MarkersIn(cmd'[p].from) # {}
      BY <1>4, <2>2 DEF Begins
    <3>2. \A c \in cmd'[p].from : log'[c] = log[c]
      BY <1>1, <3>1 DEF Grows
    <3> QED
      BY <3>1, <3>2 DEF MarkersIn
  <2> QED
    BY <1>4, <2>1, <2>2, CmdMoves, HopKeeps, ReapParkKeeps
       DEF Idle, Mints, Hops
<1> QED
  BY <1>2, <1>3, <1>4 DEF MarkInv, At

LEMMA SessionStep ==
    ASSUME TypeOK, MarkInv, SessionInv, Next
    PROVE  SessionInv'
<1>1. Grows /\ TypeOK'
  BY TypeStep
<1>2. ASSUME NEW c \in Made' \ Made
      PROVE  \/ log'[c].sess = 0
             \/ \E p \in Procs : log'[c].sess \in Sessions(p)
  BY <1>2, LogMoves
<1>3. ASSUME NEW c \in Made' PROVE log'[c].sess \in Made' \cup {0}
  <2>1. CASE c \in Made
    BY <1>1, <2>1 DEF SessionInv, Grows
  <2>2. CASE c \notin Made
    BY <1>1, <1>2, <2>2, SessionsMade DEF Grows
  <2> QED
    BY <2>1, <2>2
\* A lease without an agent is not among the sessions a marker may name.
<1>4. ASSUME NEW p \in Procs, Unstarted(p), NEW q \in Procs
      PROVE  cmd[p].tip \notin Sessions(q)
  <2>1. /\ cmd[p].tip # 0
        /\ \A h \in Hosts : cmd[p].tip \notin agents[h]
        /\ \A c \in Made : log[c].sess # cmd[p].tip
    BY <1>4 DEF SessionInv
  <2>2. At(q, "handoff") => p # q
    BY <1>4 DEF Unstarted, At
  <2>3. At(q, "handoff") => cmd[p].tip # cmd[q].tip
    BY <2>1, <2>2 DEF SessionInv
  <2> QED
    BY <2>1, <2>3, LaneHosts DEF Sessions
<1>6. ASSUME NEW p \in Procs, cmd'[p].pc \in {"standup", "agent"}
      PROVE  /\ cmd'[p].tip # 0
             /\ \A h \in Hosts : cmd'[p].tip \notin agents'[h]
             /\ \A c \in Made' : log'[c].sess # cmd'[p].tip
  <2>1. CASE Unstarted(p) /\ cmd'[p].tip = cmd[p].tip /\ ~StartAgent(p)
    <3>1. /\ cmd[p].tip # 0
          /\ \A h \in Hosts : cmd[p].tip \notin agents[h]
          /\ \A c \in Made : log[c].sess # cmd[p].tip
      BY <2>1 DEF SessionInv
    <3>2. ASSUME NEW h \in Hosts PROVE cmd[p].tip \notin agents'[h]
      <4>1. SUFFICES ASSUME cmd[p].tip \in agents'[h] \ agents[h]
                     PROVE  FALSE
        BY <3>1
      <4>2. PICK q \in Procs : StartAgent(q) /\ cmd[p].tip = cmd[q].tip
        BY <4>1, AgentsMove
      <4> QED
        BY <2>1, <3>1, <4>2 DEF SessionInv
    <3>3. ASSUME NEW c \in Made' PROVE log'[c].sess # cmd[p].tip
      <4>1. CASE c \in Made
        BY <1>1, <3>1, <4>1 DEF Grows
      <4>2. CASE c \notin Made
        BY <1>2, <1>4, <2>1, <3>1, <4>2
      <4> QED
        BY <4>1, <4>2
    <3> QED
      BY <2>1, <3>1, <3>2, <3>3
  <2>2. CASE Mints(p)
    <3>1. Lands(p) /\ UNCHANGED agents /\ cmd'[p].tip = next
      BY <2>2 DEF Mints
    <3>2. /\ Made' = Made \cup {next} /\ next \notin Made /\ next # 0
          /\ log'[next].sess \in Sessions(p)
      BY <3>1, LandsTyped
    <3>3. \A h \in Hosts : next \notin agents[h]
      BY <3>2 DEF TypeOK
    <3>4. \A c \in Made : log'[c].sess \in Made \cup {0}
      BY <1>1 DEF SessionInv, Grows
    <3>5. log'[next].sess \in Made \cup {0}
      BY <3>2, SessionsMade
    <3> QED
      BY <3>1, <3>2, <3>3, <3>4, <3>5
  <2> QED
    BY <1>6, <2>1, <2>2, UnstartedMoves
<1>7. ASSUME NEW p \in Procs, NEW q \in Procs, p # q, cmd'[p].tip # 0
      PROVE  cmd'[p].tip # cmd'[q].tip
  <2>1. ASSUME NEW r \in Procs
        PROVE  cmd'[r].tip \in {0, cmd[r].tip} \/ Mints(r)
    BY <2>1, TipMoves
  <2>2. ASSUME NEW r \in Procs, Mints(r)
        PROVE  /\ cmd'[r].tip = next /\ next \notin Made /\ next # 0
    BY <2>2, LandsTyped DEF Mints
  <2>3. ASSUME NEW r \in Procs PROVE cmd[r].tip \in Made \cup {0}
    BY <2>3 DEF TypeOK, Cmd
  <2>4. ~(Mints(p) /\ Mints(q))
    <3>1. ASSUME NEW r \in Procs, Mints(r)
          PROVE  cmd'[r] # cmd[r]
      BY <2>2, <2>3, <3>1
    <3>2. \A r, t \in Procs : Command(t) /\ r # t => cmd'[r] = cmd[r]
      BY OthersKeep
    <3>3. Environment => \A r \in Procs : cmd'[r] = cmd[r]
      BY OthersKeep
    <3> QED
      BY <1>7, <3>1, <3>2, <3>3 DEF Next
  <2>5. cmd[p].tip # 0 => cmd[p].tip # cmd[q].tip
    BY <1>7 DEF SessionInv
  <2> QED
    BY <1>7, <2>1, <2>2, <2>3, <2>4, <2>5
<1> QED
  BY <1>3, <1>6, <1>7 DEF SessionInv, Unstarted, At

LEMMA JudgedStep ==
    ASSUME TypeOK, MarkInv, SessionInv, JudgedInv, Next
    PROVE  JudgedInv'
<1>0. ASSUME NEW p \in Procs
      PROVE  /\ cmd'[p].pc = "park" => cmd'[p].how # "seize"
             /\ cmd'[p].pc = "seize" => cmd'[p].how = "seize"
  BY <1>0, CmdMoves, HopKeeps, ReapParkKeeps
     DEF Begins, Idle, Mints, Hops, JudgedInv, At
<1> SUFFICES ASSUME NEW p \in Procs, ~cmd'[p].stale,
                    cmd'[p].how = "seize" \/ cmd'[p].pc = "drop"
             PROVE  /\ (Bound(cmd[p].from))' \notin agents'[HostOf[p]]
                    /\ cmd'[p].read \subseteq cmd'[p].from
  BY <1>0 DEF JudgedInv, Judged, At
<1>1. /\ Grows /\ HostOf[p] \in Hosts /\ agents[HostOf[p]] \in SUBSET Made
      /\ cmd[p] \in Cmd /\ cmd'[p] \in Cmd'
  BY TypeStep, LaneHosts DEF TypeOK
\* A history that is there, and whose session is dead, keeps it dead.
<1>2. ASSUME NEW S \in SUBSET Made, Bound(S) \notin agents[HostOf[p]],
             cmd'[p].from = S
      PROVE  (Bound(cmd[p].from))' \notin agents'[HostOf[p]]
  <2>1. (Bound(cmd[p].from))' = Bound(S)
    <3>1. \A c \in S : log'[c] = log[c]
      BY <1>1 DEF Grows
    <3>2. {c \in S : log'[c].kind \in Markers}
             = {c \in S : log[c].kind \in Markers}
      BY <3>1
    <3>3. MarkersIn(S) # {} => Max(MarkersIn(S)) \in S
      BY TopMade DEF MarkersIn
    <3> QED
      BY <1>2, <3>1, <3>2, <3>3 DEF Bound, Governs, MarkersIn
  <2>2. Bound(S) = 0 \/ \E c \in Made : Bound(S) = log[c].sess
    BY GovernsMade DEF Bound
  <2>3. ASSUME Bound(S) \in agents'[HostOf[p]] PROVE FALSE
    <3>1. PICK q \in Procs : StartAgent(q) /\ Bound(S) = cmd[q].tip
      BY <1>1, <1>2, <2>3, AgentsMove
    <3>2. Unstarted(q)
      BY <3>1 DEF StartAgent, Unstarted
    <3> QED
      BY <2>2, <3>1, <3>2 DEF SessionInv
  <2> QED
    BY <2>1, <2>3
<1>3. CASE /\ cmd'[p].from = cmd[p].from /\ cmd'[p].read = cmd[p].read
           /\ Judged(p)
  <2>1. /\ cmd[p].from \in SUBSET Made
        /\ Bound(cmd[p].from) \notin agents[HostOf[p]]
        /\ cmd[p].read \subseteq cmd[p].from
    BY <1>1, <1>3 DEF JudgedInv, Cmd
  <2> QED
    BY <1>2, <1>3, <2>1
<1>4. CASE cmd'[p] = cmd[p]
  BY <1>3, <1>4 DEF Judged, At
<1>5. CASE Hop(p)
  <2>1. cmd'[p].pc # "drop" /\ Judged(p)
    BY <1>5, HopKeeps DEF Hops, Judged
  <2> QED
    BY <1>3, <1>5, <2>1, HopKeeps
<1>6. CASE Begins(p)
  <2>1. /\ Bound(cmd'[p].from) \notin agents[HostOf[p]]
        /\ cmd'[p].read \subseteq cmd'[p].from
        /\ cmd'[p].from \in SUBSET Made
    BY <1>6 DEF Begins
  <2> QED
    BY <1>2, <2>1
<1>7. CASE ReapPark(p)
  <2>1. At(p, "park") /\ cmd'[p].how = cmd[p].how /\ cmd'[p].pc = "remove"
    BY <1>7, ReapParkKeeps DEF ReapPark
  <2> QED
    BY <2>1 DEF JudgedInv
<1>8. ~Mints(p) /\ cmd'[p] # Idle
  BY DEF Mints, Idle
<1> QED
  BY <1>4, <1>5, <1>6, <1>7, <1>8, CmdMoves

LEMMA OwnStep ==
    ASSUME TypeOK, MarkInv, SessionInv, OwnInv, Next
    PROVE  OwnInv'
<1> SUFFICES ASSUME NEW p \in Procs, Alone(p),
                    cmd'[p].pc \in {"standup", "agent"},
                    cmd'[p].how \notin {"inside", "outside"}
             PROVE  cmd'[p].tip \in branch'[HostOf[p]]
  BY DEF OwnInv, Unstarted, Resumed, Alone, At
<1>1. HostOf[p] \in Hosts /\ branch \in [Hosts -> SUBSET Made]
  BY LaneHosts DEF TypeOK
<1>2. CASE Mints(p)
  BY <1>2, LandsTyped DEF Mints
<1>3. CASE /\ Unstarted(p) /\ cmd'[p].tip = cmd[p].tip
           /\ cmd'[p].how = cmd[p].how
  <2>1. cmd[p].tip \in branch[HostOf[p]]
    BY <1>3 DEF OwnInv, Resumed
  <2>2. CASE Environment
    BY <1>1, <1>3, <2>1, <2>2
       DEF Environment, Merge, Work, Push, AgentEnds, Set
  <2>3. ASSUME NEW q \in Procs \ {p}, Command(q)
        PROVE  branch'[HostOf[p]] = branch[HostOf[p]]
    BY <1>1, <2>3, BranchesAway DEF Alone
  <2>4. CASE Command(p)
    BY <1>3, <2>1, <2>4, BranchStands
  <2> QED
    BY <1>3, <2>1, <2>2, <2>3, <2>4 DEF Next
<1> QED
  BY <1>2, <1>3, UnstartedMoves

-----------------------------------------------------------------------------
(* The theorems.                                                           *)

LEMMA InitHolds == Init => IInv
<1> SUFFICES ASSUME Init PROVE IInv
  OBVIOUS
<1>1. TypeOK
  BY InitTyped
<1>2. Made = {1} /\ log[1] = Plain("main")
  BY LaneBounds DEF Init, Made, Ids, Root
<1>3. \A p \in Procs : cmd[p] = Idle
  BY DEF Init
<1> QED
  BY <1>1, <1>2, <1>3
     DEF IInv, Init, MarkInv, SessionInv, JudgedInv, Judged, OwnInv,
         ParkedBeforeGone, Unstarted, At, Idle, Plain

LEMMA StepHolds == IInv /\ [Next]_vars => IInv'
<1> SUFFICES ASSUME IInv, [Next]_vars PROVE IInv'
  OBVIOUS
<1>1. CASE Next
  BY <1>1, TypeStep, MarkStep, SessionStep, JudgedStep, OwnStep, ParkedStep
     DEF IInv
<1>2. CASE UNCHANGED vars
  <2>1. TypeOK'
    BY <1>2 DEF IInv, vars, TypeOK, Made, Cmd
  <2>2. MarkInv'
    BY <1>2 DEF IInv, vars, MarkInv, MarkersIn, At
  <2>3. SessionInv'
    BY <1>2 DEF IInv, vars, SessionInv, Unstarted, Made, At
  <2>4. JudgedInv'
    BY <1>2 DEF IInv, vars, JudgedInv, Judged, Bound, Governs, MarkersIn, At
  <2>5. OwnInv'
    BY <1>2 DEF IInv, vars, OwnInv, Unstarted, Resumed, Alone, At
  <2>6. ParkedBeforeGone'
    BY <1>2 DEF IInv, vars, ParkedBeforeGone, WorkIn, At
  <2> QED
    BY <2>1, <2>2, <2>3, <2>4, <2>5, <2>6 DEF IInv
<1> QED
  BY <1>1, <1>2

\* The inductive invariant, for any number of machines and commands.
THEOREM Invariance == Spec => []IInv
  BY InitHolds, StepHolds, PTL DEF Spec

\* Every variable keeps its type, and nothing names a commit nobody made.
THEOREM TypeCorrect == Spec => []TypeOK
  BY Invariance, PTL DEF IInv

\* reap has parked, or seen landed, the work of a branch before its
\* checkout and the branch go.
THEOREM ParkedFirst == Spec => []ParkedBeforeGone
  BY Invariance, PTL DEF IInv

\* No hold is taken over or dropped on the word that its session is gone
\* while that session lives on the machine that says so.
THEOREM LiveSessionsOutlast == Spec => LiveSessionOutlastsDeath
<1> DEFINE A == \A p \in Procs :
          /\ Seize(p) \/ (ReapDrop(p) /\ ref' # ref)
          /\ ~cmd[p].stale
          => Bound(ref) \notin agents[HostOf[p]]
<1>1. IInv => A
  <2> SUFFICES ASSUME IInv, NEW p \in Procs, ~cmd[p].stale,
                      Seize(p) \/ (ReapDrop(p) /\ ref' # ref)
               PROVE  Bound(ref) \notin agents[HostOf[p]]
    OBVIOUS
  <2>1. ref = cmd[p].from
    BY DEF Seize, ReapDrop
  <2>2. Judged(p)
    BY DEF IInv, JudgedInv, Judged, Seize, ReapDrop
  <2> QED
    BY <2>1, <2>2 DEF IInv, JudgedInv
<1> HIDE DEF A
<1> QED
  BY <1>1, Invariance, PTL DEF A, LiveSessionOutlastsDeath

\* A takeover that did not wait for the window strands none of the work
\* the machine's branch carried when the hold was judged.
THEOREM SuffixKept == Spec => DeadTakeoverKeepsSuffix
<1> DEFINE A == \A p \in Procs :
          At(p, "seize") /\ cmd'[p].pc = "standup" /\ ~cmd[p].stale
          => WorkIn(cmd[p].read) \subseteq branch'[HostOf[p]] \cup Saved
<1>1. IInv /\ Next => A
  <2> SUFFICES ASSUME IInv, Next, NEW p \in Procs, At(p, "seize"),
                      ~cmd[p].stale, cmd'[p].pc = "standup"
               PROVE  WorkIn(cmd[p].read) \subseteq Saved
    OBVIOUS
  <2>1. Judged(p)
    BY DEF IInv, JudgedInv, Judged
  <2>2. cmd[p].read \subseteq cmd[p].from
    BY <2>1 DEF IInv, JudgedInv
  <2>3. Command(p)
    BY OthersKeep DEF IInv, Next, At
  <2>4. Seize(p)
    <3>1. cmd \in [Procs -> Cmd]
      BY DEF IInv, TypeOK
    <3>2. ~Stop(p)
      BY <3>1 DEF Stop, Finish, Become, Idle
    <3> QED
      BY <2>3, <3>2
         DEF Command, ResumeInside, Gate, Reattach, NoLeftover,
             ParkLeftover, ClearLeftover, Acquire, Veto, Resume, StandUp,
             StandUpFails, StartAgent, HandoffFails, TearDown, Unwind,
             Bind, Release, Yield, YieldTearDown, ReapRead, ReapPark,
             ReapRemove, ReapDelete, ReapDrop, MayRun, At
  <2>5. ref = cmd[p].from
    BY <2>4 DEF Seize
  <2> QED
    BY <2>2, <2>5 DEF WorkIn, Saved
<1>2. IInv /\ [Next]_vars => [A]_vars
  BY <1>1
<1> HIDE DEF A
<1> QED
  BY <1>2, Invariance, PTL DEF A, DeadTakeoverKeepsSuffix, Spec

\* A new lane's agent starts on a branch that carries its lease, where no
\* other command runs on the machine.
THEOREM AgentsWorkOnTheirLease == Spec => AgentWorksOnItsLease
<1> DEFINE A == \A p \in Procs :
          At(p, "agent") /\ cmd'[p].pc = "handoff" /\ ~Resumed(p) /\ Alone(p)
          => cmd[p].tip \in branch[HostOf[p]]
<1>1. IInv => A
  BY DEF IInv, OwnInv, Unstarted
<1> HIDE DEF A
<1> QED
  BY <1>1, Invariance, PTL DEF A, AgentWorksOnItsLease
=============================================================================

---------------------------- MODULE MarkerProofs ----------------------------
(***************************************************************************)
(* Theorems about Lane that rest on whose marker governs the remote, for   *)
(* every set of machines, commands and verbs, every naming of the lanes,   *)
(* and every bound.  The remote is the register of WorkRef, with each      *)
(* transition of Lease in one step.  And on machines that run one command  *)
(* each, what reap read of a stranded or foreign checkout is still true    *)
(* when it removes it: what another machine puts on the remote is not this *)
(* machine's hold, and what this machine's agents push is the branch that  *)
(* was read.                                                               *)
(***************************************************************************)
EXTENDS MarkerInv, LaneProofs

-----------------------------------------------------------------------------
(* Reading a history.                                                      *)

\* A commit beyond all that was made is the greatest of its history.
LEMMA NewestOf ==
    ASSUME TypeOK, NEW T \in SUBSET (Made \cup {next}), next \in T
    PROVE  Max(T) = next
<1>1. next \in Nat /\ Made = 1..(next - 1)
  BY LaneBounds DEF TypeOK, Made
<1>2. T \in SUBSET (0..next) /\ T # {}
  BY <1>1
<1>3. Max(T) \in T /\ next <= Max(T)
  BY <1>1, <1>2, Greatest
<1>4. Max(T) \in 0..next
  BY <1>2, <1>3
<1> QED
  BY <1>1, <1>3, <1>4

LEMMA NewestMade ==
    ASSUME TypeOK, NEW S \in SUBSET Made, MarkersIn(S) # {}
    PROVE  /\ Newest(S) \in S /\ Newest(S) \in Made
           /\ Governs(S) = log[Newest(S)]
           /\ \A c \in MarkersIn(S) : c <= Newest(S)
<1>1. MarkersIn(S) \in SUBSET Made
  BY DEF MarkersIn
<1>2. next - 1 \in Nat /\ Made \subseteq 0..(next - 1)
  BY LaneBounds DEF TypeOK, Made
<1>3. /\ Max(MarkersIn(S)) \in MarkersIn(S)
      /\ \A c \in MarkersIn(S) : c <= Max(MarkersIn(S))
  <2>1. MarkersIn(S) \in SUBSET (0..(next - 1))
    BY <1>1, <1>2
  <2> QED
    BY <1>2, <2>1, Greatest
<1> QED
  BY <1>1, <1>3 DEF Newest, Governs, MarkersIn

\* What a history that is there says does not change as commits are made.
LEMMA ReadsStay ==
    ASSUME TypeOK, Grows, NEW S \in SUBSET Made
    PROVE  /\ (MarkersIn(S))' = MarkersIn(S)
           /\ (Newest(S))' = Newest(S)
           /\ (LiveHold(S))' = LiveHold(S)
           /\ MarkersIn(S) # {} => (Governs(S))' = Governs(S)
<1>1. \A c \in S : log'[c] = log[c]
  BY DEF Grows
<1>2. (MarkersIn(S))' = MarkersIn(S)
  BY <1>1 DEF MarkersIn
<1>3. (Newest(S))' = Newest(S)
  BY <1>2 DEF Newest
<1>4. (LiveHold(S))' = LiveHold(S)
  <2> DEFINE ends == {c \in MarkersIn(S) : log[c].kind # "beat"}
  <2>1. ends \in SUBSET S
    BY DEF MarkersIn
  <2>2. {c \in MarkersIn(S) : log'[c].kind # "beat"} = ends
    BY <1>1 DEF MarkersIn
  <2>3. ends # {} => Max(ends) \in S
    BY <2>1, TopMade
  <2>4. ends # {} => log'[Max(ends)] = log[Max(ends)]
    BY <1>1, <2>3
  <2>5. (LiveHold(S))' = (ends # {} /\ log'[Max(ends)].kind # "release")
    BY <1>2, <2>2 DEF LiveHold
  <2>6. LiveHold(S) = (ends # {} /\ log[Max(ends)].kind # "release")
    BY DEF LiveHold
  <2> QED
    BY <2>4, <2>5, <2>6
<1>5. MarkersIn(S) # {} => (Governs(S))' = Governs(S)
  <2>1. MarkersIn(S) # {} => Max(MarkersIn(S)) \in S
    BY TopMade DEF MarkersIn
  <2> QED
    BY <1>1, <1>2, <2>1 DEF Governs
<1> QED
  BY <1>2, <1>3, <1>4, <1>5

\* A hold that is none any more does not become one again.
LEMMA SpentStays ==
    ASSUME TypeOK, Grows, base \subseteq base', done => done',
           NEW S \in SUBSET Made, Spent(S)
    PROVE  (Spent(S))'
  BY ReadsStay DEF Spent

\* Only the forge lands anything, and what has landed stays so.
LEMMA ForgeLands ==
    ASSUME Next, ~Merge
    PROVE  base' = base /\ done' = done
<1>1. CASE \E h \in Hosts : Work(h) \/ Push(h) \/ AgentEnds(h)
  BY <1>1 DEF Work, Push, AgentEnds, forgeVars
<1>2. ASSUME NEW p \in Procs, Command(p)
      PROVE  base' = base /\ done' = done
  BY <1>2
     DEF Command, ResumeInside, Gate, Reattach, NoLeftover, ParkLeftover,
         ClearLeftover, Acquire, Veto, Seize, Resume, StandUp,
         StandUpFails, StartAgent, HandoffFails, TearDown, Unwind, Bind,
         Release, Yield, YieldTearDown, ReapRead, ReapPark, ReapRemove,
         ReapDelete, ReapDrop, Stop, unchangedByGate, forgeVars
<1> QED
  BY <1>1, <1>2 DEF Next, Environment

LEMMA ForgeStays ==
    ASSUME Next
    PROVE  base \subseteq base' /\ (done => done')
<1>1. CASE Merge
  <2>1. (base' = base \cup ref /\ done' = done) \/ (done' /\ base' = base)
    BY <1>1 DEF Merge
  <2> QED
    BY <2>1
<1> QED
  BY <1>1, ForgeLands

-----------------------------------------------------------------------------
(* The transitions of a machine name it.                                   *)

\* A history that ends in a marker is governed by it.
LEMMA TopGoverns ==
    ASSUME TypeOK, NEW S \in SUBSET Made, S # {},
           log[Top(S)].kind \in Markers
    PROVE  /\ MarkersIn(S) # {} /\ Newest(S) = Top(S)
           /\ Governs(S) = log[Top(S)]
<1>1. Top(S) \in S
  BY TopMade DEF Top
<1>2. Top(S) \in MarkersIn(S)
  BY <1>1 DEF MarkersIn
<1>3. /\ Newest(S) \in S /\ Newest(S) \in Made
      /\ Governs(S) = log[Newest(S)] /\ Top(S) <= Newest(S)
  BY <1>2, NewestMade
<1>4. Newest(S) <= Top(S)
  <2>1. next - 1 \in Nat /\ S \in SUBSET (0..(next - 1))
    BY LaneBounds DEF TypeOK, Made
  <2> QED
    BY <1>3, <2>1, Greatest DEF Top
<1>5. Newest(S) \in Int /\ Top(S) \in Int
  <2>1. Top(S) \in Made
    BY <1>1
  <2> QED
    BY <1>3, <2>1 DEF Made
<1> QED
  BY <1>2, <1>3, <1>4, <1>5

\* The holder of a lease: its token is a marker of its own machine.
LEMMA HolderNamed ==
    ASSUME TypeOK, MarkInv, NamesInv, NEW h \in Hosts, Proves(token[h], ref)
    PROVE  ref # {} /\ Governs(ref).host = h
<1>1. /\ token[h] # 0 /\ token[h] \in ref /\ ref \in SUBSET Made
      /\ log[token[h]].kind \in Markers /\ log[token[h]].host = h
  BY DEF TypeOK, MarkInv, NamesInv, Proves
<1>2. CASE token[h] = Top(ref)
  BY <1>1, <1>2, TopGoverns
<1> QED
  BY <1>1, <1>2 DEF Proves

\* A session of machine h, or none.
SessionOf(h, s) == s = 0 \/ (s \in Made /\ log[s].host = h)

\* What a transition of h's may be: an acquisition at the next epoch, on
\* the base or on what the remote has; or, by the holder, a beat or a
\* release, on what the remote has or on the machine's own branch.
EpochOf(S) == IF S = {} THEN 0 ELSE Governs(S).epoch

Acquires(parent, kind, epoch) ==
    /\ kind \in {"claim", "takeover"} /\ epoch = EpochOf(ref) + 1
    /\ parent = IF ref = {} THEN base ELSE ref

GoesOn(h, parent, kind, epoch) ==
    /\ kind \in {"beat", "release"}
    /\ MarkersIn(ref) # {} /\ epoch = EpochOf(ref) /\ Governs(ref).host = h
    /\ parent \in {ref, branch[h]} /\ ref \subseteq parent

\* A lease transition of p that names its machine.
SignsWith(p, parent, kind, epoch, sess) ==
    /\ Transition(HostOf[p], parent, kind, epoch, HostOf[p], sess)
    /\ SessionOf(HostOf[p], sess)
    /\ \/ Acquires(parent, kind, epoch)
       \/ GoesOn(HostOf[p], parent, kind, epoch)

Signs(p) ==
    \E parent \in SUBSET Made, kind \in Markers, epoch \in Nat, sess \in Nat :
        SignsWith(p, parent, kind, epoch, sess)

LEMMA SignsWrites ==
    ASSUME TypeOK, NEW p \in Procs, NEW parent \in SUBSET Made,
           NEW kind \in Markers, NEW epoch \in Nat, NEW sess \in Nat,
           SignsWith(p, parent, kind, epoch, sess)
    PROVE  /\ Made' = Made \cup {next} /\ next \notin Made /\ next # 0
           /\ Grows
           /\ log'[next] = Marker(kind, epoch, HostOf[p], sess)
           /\ ref' = parent \cup {next}
           /\ branch' = [branch EXCEPT ![HostOf[p]] = parent \cup {next}]
           /\ token' \in {[token EXCEPT ![HostOf[p]] = next], token}
<1> DEFINE m == Marker(kind, epoch, HostOf[p], sess)
<1>1. HostOf[p] \in Hosts /\ kind \in Kinds
  BY LaneHosts DEF Kinds
<1>2. m \in Commit
  BY <1>1 DEF Marker, Commit
<1>3. Store(m)
  BY DEF SignsWith, Transition
<1> HIDE DEF m
<1>4. /\ Made' = Made \cup {next} /\ next \notin Made /\ next # 0
      /\ log'[next] = m
      /\ Grows
  BY <1>2, <1>3, StoreTyped
<1>5. /\ ref' = parent \cup {next}
      /\ branch' = [branch EXCEPT ![HostOf[p]] = parent \cup {next}]
      /\ token' \in {[token EXCEPT ![HostOf[p]] = next], token}
  BY DEF SignsWith, Transition, Set
<1> QED
  BY <1>4, <1>5 DEF m

LEMMA SignsLands ==
    ASSUME TypeOK, NEW p \in Procs, Signs(p)
    PROVE  /\ Made' = Made \cup {next} /\ next \notin Made /\ next # 0
           /\ Grows
           /\ log'[next].kind \in Markers
           /\ log'[next].host = HostOf[p]
           /\ SessionOf(HostOf[p], log'[next].sess)
           /\ next \in ref' /\ ref' \in SUBSET (Made \cup {next})
           /\ ref = {} => base \subseteq ref'
           /\ ref \subseteq ref'
           /\ branch'[HostOf[p]] = ref'
           /\ \A h \in Hosts \ {HostOf[p]} : branch'[h] = branch[h]
           /\ \A h \in Hosts \ {HostOf[p]} : token'[h] = token[h]
           /\ token'[HostOf[p]] \in {token[HostOf[p]], next}
<1>1. PICK parent \in SUBSET Made, kind \in Markers, epoch \in Nat,
           sess \in Nat : SignsWith(p, parent, kind, epoch, sess)
  BY DEF Signs
<1> DEFINE m == Marker(kind, epoch, HostOf[p], sess)
<1>2. m.kind \in Markers /\ m.sess = sess /\ m.host = HostOf[p]
  BY DEF Marker
<1>3. /\ SessionOf(HostOf[p], sess)
      /\ ref = {} => parent = base \/ MarkersIn(ref) # {}
      /\ ref \subseteq parent
  BY <1>1 DEF SignsWith, Acquires, GoesOn
<1>4. ref = {} => MarkersIn(ref) = {}
  BY DEF MarkersIn
<1>5. /\ Made' = Made \cup {next} /\ next \notin Made /\ next # 0
      /\ Grows
      /\ log'[next] = m
      /\ ref' = parent \cup {next}
      /\ branch' = [branch EXCEPT ![HostOf[p]] = parent \cup {next}]
      /\ token' \in {[token EXCEPT ![HostOf[p]] = next], token}
  BY <1>1, SignsWrites
<1> HIDE DEF m
<1>6. /\ branch \in [Hosts -> SUBSET Made] /\ HostOf[p] \in Hosts
      /\ token \in [Hosts -> Made \cup {0}]
  BY LaneHosts DEF TypeOK
<1> QED
  BY <1>2, <1>3, <1>4, <1>5, <1>6

\* A resume, a release, an unwinding and a bind go on in the epoch of a
\* lease that is there, in this machine's own name.
LEMMA RelaySigns ==
    ASSUME TypeOK, NEW p \in Procs, MarkersIn(ref) # {},
           Governs(ref).host = HostOf[p],
           NEW kind \in {"beat", "release"},
           NEW sess, SessionOf(HostOf[p], sess),
           NEW parent \in RelayBase(HostOf[p], ref),
           Transition(HostOf[p], parent, kind, Governs(ref).epoch,
                      HostOf[p], sess)
    PROVE  Signs(p)
<1>1. HostOf[p] \in Hosts
  BY LaneHosts
<1>2. Governs(ref).epoch \in Nat
  BY GovernsMade DEF TypeOK, Commit
<1>3. parent \in SUBSET Made
  BY <1>1, RelayMade
<1>4. sess \in Nat
  BY DEF SessionOf, Made
<1>5. parent \in {ref, branch[HostOf[p]]} /\ ref \subseteq parent
  BY DEF RelayBase
<1>6. EpochOf(ref) = Governs(ref).epoch /\ kind \in Markers
  BY DEF EpochOf, MarkersIn, Markers
<1>7. SignsWith(p, parent, kind, Governs(ref).epoch, sess)
  BY <1>5, <1>6 DEF SignsWith, GoesOn
<1> QED
  BY <1>2, <1>3, <1>4, <1>6, <1>7 DEF Signs

LEMMA AcquireSigns ==
    ASSUME TypeOK, NEW p \in Procs, Acquire(p)
    PROVE  Signs(p)
<1>1. SessionOf(HostOf[p], 0) /\ "claim" \in Markers
  BY DEF SessionOf, Markers
<1>2. CASE ref = {} /\ Transition(HostOf[p], base, "claim", 1, HostOf[p], 0)
  <2>1. Acquires(base, "claim", 1)
    BY <1>2 DEF Acquires, EpochOf
  <2> QED
    BY <1>1, <1>2, <2>1 DEF Signs, SignsWith, TypeOK
<1>3. CASE /\ Released(ref)
           /\ Transition(HostOf[p], ref, "claim", log[Top(ref)].epoch + 1,
                         HostOf[p], 0)
  <2>1. ref # {} /\ ref \in SUBSET Made /\ log[Top(ref)].kind \in Markers
    BY <1>3 DEF Released, TypeOK, Markers
  <2>2. log[Top(ref)].epoch + 1 \in Nat
    BY <2>1, TopMade DEF Top, Commit
  <2>3. log[Top(ref)].epoch = EpochOf(ref)
    BY <2>1, TopGoverns DEF EpochOf
  <2>4. Acquires(ref, "claim", log[Top(ref)].epoch + 1)
    BY <2>1, <2>3 DEF Acquires
  <2> QED
    BY <1>1, <1>3, <2>1, <2>2, <2>4 DEF Signs, SignsWith
<1> QED
  BY <1>2, <1>3 DEF Acquire

LEMMA SeizeSigns ==
    ASSUME TypeOK, NEW p \in Procs, Seize(p)
    PROVE  Signs(p)
<1>1. SessionOf(HostOf[p], 0) /\ "takeover" \in Markers
  BY DEF SessionOf, Markers
<1>2. /\ ref = cmd[p].from /\ MarkersIn(ref) # {}
      /\ Transition(HostOf[p], ref, "takeover", Governs(ref).epoch + 1,
                    HostOf[p], 0)
  BY DEF Seize
<1>3. Governs(ref).epoch + 1 \in Nat
  BY <1>2, GovernsMade DEF TypeOK, Commit
<1>4. Acquires(ref, "takeover", Governs(ref).epoch + 1)
  BY <1>2 DEF Acquires, EpochOf, MarkersIn
<1> QED
  BY <1>1, <1>2, <1>3, <1>4 DEF Signs, SignsWith, TypeOK

\* A session seen alive in this machine's herdr was started here.
LEMMA ResumeSigns ==
    ASSUME TypeOK, MarkInv, NamesInv, NEW p \in Procs, Resume(p)
    PROVE  Signs(p)
<1>1. Governs(ref).host = HostOf[p]
  BY DEF NamesInv, Resume
<1>2. MarkersIn(ref) # {}
  BY DEF MarkInv, Resume
<1>3. \A s \in {0} \cup agents[HostOf[p]] : SessionOf(HostOf[p], s)
  BY LaneHosts DEF SessionOf, NamesInv, TypeOK
<1>4. PICK parent \in RelayBase(HostOf[p], ref),
           s \in {0} \cup agents[HostOf[p]] :
          Transition(HostOf[p], parent, "beat", Governs(ref).epoch,
                     HostOf[p], s)
  BY DEF Resume
<1> QED
  BY <1>1, <1>2, <1>3, <1>4, RelaySigns

LEMMA ReleaseFromSigns ==
    ASSUME TypeOK, NEW p \in Procs, MarkersIn(ref) # {},
           Governs(ref).host = HostOf[p], ReleaseFrom(HostOf[p])
    PROVE  Signs(p)
<1>1. SessionOf(HostOf[p], 0)
  BY DEF SessionOf
<1> QED
  BY <1>1, RelaySigns DEF ReleaseFrom

LEMMA UnwindSigns ==
    ASSUME TypeOK, MarkInv, NamesInv, NEW p \in Procs, Unwind(p)
    PROVE  Signs(p)
<1>1. /\ ref # {} /\ ref \in SUBSET Made
      /\ Top(ref) = cmd[p].tip /\ Top(ref) # 0
  BY TopMade DEF Unwind, Top, TypeOK, Made
<1>2. log[Top(ref)].kind \in Markers /\ log[Top(ref)].host = HostOf[p]
  BY <1>1 DEF MarkInv, NamesInv
<1>3. MarkersIn(ref) # {} /\ Governs(ref).host = HostOf[p]
  BY <1>1, <1>2, TopGoverns
<1> QED
  BY <1>3, ReleaseFromSigns DEF Unwind

LEMMA BindSigns ==
    ASSUME TypeOK, MarkInv, NamesInv, NEW p \in Procs, Bind(p)
    PROVE  Signs(p)
<1>1. SessionOf(HostOf[p], cmd[p].tip)
  BY DEF SessionOf, NamesInv, TypeOK, Cmd
<1>2. Governs(ref).host = HostOf[p]
  <2>1. CASE Top(ref) = cmd[p].tip
    <3>1. ref # {} /\ ref \in SUBSET Made /\ Top(ref) # 0
      BY TopMade DEF Bind, Top, TypeOK, Made, MarkersIn
    <3>2. log[Top(ref)].kind \in Markers /\ log[Top(ref)].host = HostOf[p]
      BY <2>1, <3>1 DEF MarkInv, NamesInv
    <3> QED
      BY <3>1, <3>2, TopGoverns
  <2> QED
    BY <2>1 DEF Bind
<1> QED
  BY <1>1, <1>2, RelaySigns DEF Bind

LEMMA ReleaseSigns ==
    ASSUME TypeOK, MarkInv, NamesInv, NEW p \in Procs, Release(p)
    PROVE  Signs(p)
<1>1. HostOf[p] \in Hosts
  BY LaneHosts
<1>2. MarkersIn(ref) # {} /\ Governs(ref).host = HostOf[p]
  BY <1>1, ProvesMarker, HolderNamed DEF Release
<1> QED
  BY <1>2, ReleaseFromSigns DEF Release

\* The beat for a holder whose session is alive here is for this machine.
LEMMA VetoSigns ==
    ASSUME TypeOK, SessionInv, NamesInv, NEW p \in Procs, Veto(p)
    PROVE  Signs(p) \/ UNCHANGED <<log, next, ref, branch, token>>
<1> DEFINE from == cmd[p].from
<1>1. CASE /\ \E ans \in Answers(HostOf[p]) :
                 SessionLive(HostOf[p], Bound(from), ans)
           /\ Transition(HostOf[p], from, "beat", Governs(from).epoch,
                         Governs(from).host, Governs(from).sess)
           /\ ref = from
  <2>1. from \in SUBSET Made
    BY DEF TypeOK, Cmd
  <2>2. /\ MarkersIn(from) # {} /\ Governs(from).sess # 0
        /\ Governs(from).sess \in agents[HostOf[p]]
    BY <1>1 DEF SessionLive, Bound
  <2> HIDE DEF from
  <2>3. Governs(from) \in Commit /\ \E c \in Made : Governs(from) = log[c]
    BY <2>1, <2>2, GovernsMade
  <2>4. /\ log[Governs(from).sess].host = HostOf[p]
        /\ Governs(from).sess \in Made
    BY <2>2, LaneHosts DEF NamesInv, TypeOK
  <2>5. Governs(from).host = HostOf[p]
    BY <2>2, <2>3, <2>4 DEF NamesInv
  <2>6. Governs(from).epoch \in Nat /\ Governs(from).sess \in Nat
    BY <2>3 DEF Commit
  <2>7. "beat" \in Markers /\ GoesOn(HostOf[p], from, "beat",
                                    Governs(from).epoch)
    BY <1>1, <2>2, <2>5 DEF Markers, GoesOn, EpochOf, MarkersIn
  <2>8. Transition(HostOf[p], from, "beat", Governs(from).epoch,
                   HostOf[p], Governs(from).sess)
    BY <1>1, <2>5
  <2>9. SessionOf(HostOf[p], Governs(from).sess)
    BY <2>4 DEF SessionOf
  <2> QED
    BY <2>1, <2>6, <2>7, <2>8, <2>9 DEF Signs, SignsWith
<1>2. CASE UNCHANGED <<log, next, ref, branch, token>>
  BY <1>2
<1>3. \/ /\ \E ans \in Answers(HostOf[p]) :
                 SessionLive(HostOf[p], Bound(from), ans)
         /\ Transition(HostOf[p], from, "beat", Governs(from).epoch,
                       Governs(from).host, Governs(from).sess)
         /\ ref = from
      \/ UNCHANGED <<log, next, ref, branch, token>>
  BY DEF Veto
<1> QED
  BY <1>1, <1>2, <1>3

\* A command signs a transition, or makes no commit.
LEMMA CommandSigns ==
    ASSUME TypeOK, MarkInv, SessionInv, NamesInv, NEW p \in Procs, Command(p)
    PROVE  Signs(p) \/ UNCHANGED <<log, next>>
<1>1. CASE \/ Acquire(p) \/ Veto(p) \/ Seize(p) \/ Resume(p)
           \/ Unwind(p) \/ Bind(p) \/ Release(p)
  BY <1>1, AcquireSigns, VetoSigns, SeizeSigns, ResumeSigns, UnwindSigns,
     BindSigns, ReleaseSigns
<1>2. CASE ~(\/ Acquire(p) \/ Veto(p) \/ Seize(p) \/ Resume(p)
             \/ Unwind(p) \/ Bind(p) \/ Release(p))
  BY <1>2
     DEF Command, ResumeInside, Gate, Reattach, NoLeftover, ParkLeftover,
         ClearLeftover, StandUp, StandUpFails, StartAgent, HandoffFails,
         TearDown, Yield, YieldTearDown, ReapRead, ReapPark, ReapRemove,
         ReapDelete, ReapDrop, Stop, unchangedByGate
<1> QED
  BY <1>1, <1>2

-----------------------------------------------------------------------------
(* Every marker goes on naming the machine that minted it.                 *)

\* A commit is a transition that names its machine, or an agent's.
LEMMA LogSigns ==
    ASSUME TypeOK, MarkInv, SessionInv, NamesInv, Next, NEW c \in Made' \ Made
    PROVE  log'[c].sess = 0 \/ SessionOf(log'[c].host, log'[c].sess)
<1>1. CASE \E p \in Procs : Command(p)
  BY <1>1, CommandSigns, SignsLands DEF Made
<1>2. ASSUME NEW h \in Hosts, Work(h) PROVE log'[c].sess = 0
  <2>1. Plain("work") \in Commit /\ Plain("work").sess = 0
    BY DEF Plain, Commit, Kinds
  <2> QED
    BY <1>2, <2>1, StoreTyped DEF Work
<1>3. ~(Merge \/ \E h \in Hosts : Push(h) \/ AgentEnds(h))
  BY DEF Merge, Push, AgentEnds, Made
<1> QED
  BY <1>1, <1>2, <1>3 DEF Next, Environment

\* The token of a machine's lane is moved by its own commands, to a lease
\* of theirs.
LEMMA TokenMoves ==
    ASSUME TypeOK, MarkInv, SessionInv, NamesInv, Next, NEW h \in Hosts
    PROVE  \/ token'[h] \in {token[h], 0}
           \/ \E p \in Procs : h = HostOf[p] /\ token'[h] = cmd[p].tip
           \/ \E p \in Procs : h = HostOf[p] /\ Signs(p) /\ token'[h] = next
<1>1. token \in [Hosts -> Made \cup {0}]
  BY DEF TypeOK
<1>2. ASSUME NEW p \in Procs, Command(p)
      PROVE  \/ token'[h] \in {token[h], 0}
             \/ h = HostOf[p] /\ token'[h] = cmd[p].tip
             \/ h = HostOf[p] /\ Signs(p) /\ token'[h] = next
  <2>1. CASE \/ Acquire(p) \/ Veto(p) \/ Seize(p) \/ Resume(p)
             \/ Unwind(p) \/ Bind(p) \/ Release(p)
    BY <2>1, AcquireSigns, VetoSigns, SeizeSigns, ResumeSigns,
       UnwindSigns, BindSigns, ReleaseSigns, SignsLands
  <2>2. CASE \/ ClearLeftover(p) \/ StandUp(p) \/ TearDown(p)
             \/ YieldTearDown(p) \/ ReapRemove(p)
    BY <1>1, <2>2
       DEF ClearLeftover, StandUp, TearDown, YieldTearDown, ReapRemove,
           RemoveWorktree, Set
  <2>3. CASE \/ \E verb \in {"claim", "start"} :
                   ResumeInside(p, verb) \/ Gate(p, verb)
             \/ Reattach(p) \/ NoLeftover(p) \/ StandUpFails(p)
             \/ HandoffFails(p) \/ ReapRead(p) \/ Stop(p)
             \/ ParkLeftover(p) \/ StartAgent(p) \/ Yield(p)
             \/ ReapPark(p) \/ ReapDelete(p) \/ ReapDrop(p)
    BY <2>3
       DEF ResumeInside, Gate, Reattach, NoLeftover, StandUpFails,
           HandoffFails, ReapRead, Stop, ParkLeftover, StartAgent, Yield,
           ReapPark, ReapDelete, ReapDrop, unchangedByGate, laneVars
  <2> QED
    BY <1>2, <2>1, <2>2, <2>3 DEF Command
<1>3. Environment => token'[h] = token[h]
  BY DEF Environment, Merge, Work, Push, AgentEnds, laneVars
<1> QED
  BY <1>2, <1>3 DEF Next

\* A lease being stood up was claimed or taken over, not resumed.
LEMMA StandsUpFresh ==
    ASSUME TypeOK, MarkInv, JudgedInv, NEW p \in Procs, Command(p),
           cmd'[p].pc = "standup"
    PROVE  cmd'[p].how = "fresh" \/ cmd'[p] = cmd[p]
<1>1. cmd \in [Procs -> Cmd]
  BY DEF TypeOK
<1>2. CASE Acquire(p) \/ Seize(p)
  <2>1. ~Resumed(p) /\ Leased(p, "standup")
    BY <1>2 DEF Acquire, Seize, Resumed, JudgedInv
  <2>2. cmd'[p] = [Idle EXCEPT !.pc = "standup", !.verb = cmd[p].verb,
                               !.tip = next, !.how = "fresh"]
    BY <1>1, <2>1 DEF Leased, Become
  <2> QED
    BY <2>2 DEF Idle
<1>3. CASE Resume(p)
  <2>1. Leased(p, "agent") \/ cmd'[p] = Idle
    BY <1>1, <1>3 DEF Resume, Finish, Become
  <2>2. CASE Leased(p, "agent")
    <3>1. cmd'[p] = [Idle EXCEPT !.pc = "agent", !.verb = cmd[p].verb,
                                 !.tip = next,
                                 !.how = IF Resumed(p) THEN cmd[p].how
                                         ELSE "fresh"]
      BY <1>1, <2>2 DEF Leased, Become
    <3>2. cmd'[p].pc = "agent"
      BY <3>1 DEF Idle
    <3> QED
      BY <3>2
  <2> QED
    BY <2>1, <2>2 DEF Idle
<1>4. CASE Veto(p) \/ Unwind(p) \/ Bind(p) \/ Release(p)
  <2>1. cmd'[p] = Idle \/ cmd'[p] = cmd[p] \/ Goto(p, "seize")
    BY <1>1, <1>4, VetoLands DEF Unwind, Bind, Release, Finish, Become
  <2>2. Goto(p, "seize") => cmd'[p].pc = "seize"
    BY <1>1 DEF Goto, Become, Cmd
  <2> QED
    BY <2>1, <2>2 DEF Idle
\* Any other step goes on with a lease that is being stood up.
<1>5. CASE ~(\/ Acquire(p) \/ Seize(p) \/ Resume(p)
             \/ Veto(p) \/ Unwind(p) \/ Bind(p) \/ Release(p))
  <2>1. UNCHANGED <<log, next>>
    BY <1>5
       DEF Command, ResumeInside, Gate, Reattach, NoLeftover, ParkLeftover,
           ClearLeftover, StandUp, StandUpFails, StartAgent, HandoffFails,
           TearDown, Yield, YieldTearDown, ReapRead, ReapPark, ReapRemove,
           ReapDelete, ReapDrop, Stop, unchangedByGate
  <2>2. ~Mints(p)
    <3>1. Lands(p) => next' = next + 1
      BY DEF Lands, Transition, Store
    <3>2. next \in Nat
      BY LaneBounds DEF TypeOK
    <3> QED
      BY <2>1, <3>1, <3>2 DEF Mints
  <2> QED
    BY <2>2, OwnMoves, HopKeeps, ReapParkKeeps DEF Begins, Hops, Idle
<1> QED
  BY <1>2, <1>3, <1>4, <1>5

LEMMA MintsSigns ==
    ASSUME TypeOK, MarkInv, SessionInv, NamesInv, Next, NEW p \in Procs,
           Mints(p)
    PROVE  Signs(p) /\ cmd'[p].tip = next
<1>1. /\ Made' = Made \cup {next} /\ next \notin Made /\ next # 0
      /\ cmd'[p].tip = next
  BY LandsTyped DEF Mints
<1>2. cmd[p].tip \in Made \cup {0}
  BY DEF TypeOK, Cmd
<1>3. Command(p)
  BY <1>1, <1>2, OthersKeep DEF Next
<1>4. ~UNCHANGED <<log, next>>
  BY <1>1 DEF Made
<1> QED
  BY <1>1, <1>3, <1>4, CommandSigns

\* Where a command that resumes a lane, or is reaping a checkout, comes
\* from.
LEMMA FromMoves ==
    ASSUME TypeOK, MarkInv, Next, NEW p \in Procs,
           cmd'[p].pc \in {"park", "remove", "foreign", "resume"}
    PROVE  \/ /\ cmd'[p] = cmd[p]
              /\ Environment \/ \E q \in Procs \ {p} : Command(q)
           \/ ReapRead(p) \/ ReapPark(p)
           \/ \E verb \in {"claim", "start"} : ResumeInside(p, verb)
           \/ Reattach(p)
<1>1. cmd \in [Procs -> Cmd]
  BY DEF TypeOK
<1>2. ASSUME Command(p), ~ReapRead(p), ~ReapPark(p), ~Reattach(p),
             ~\E verb \in {"claim", "start"} : ResumeInside(p, verb)
      PROVE  FALSE
  <2>1. CASE At(p, "park") \/ At(p, "remove") \/ At(p, "foreign")
    <3>1. Stop(p) \/ ReapRemove(p)
      BY <1>2, <2>1
         DEF Command, ResumeInside, Gate, Reattach, NoLeftover,
             ParkLeftover, ClearLeftover, Acquire, Veto, Seize, Resume,
             StandUp, StandUpFails, StartAgent, HandoffFails, TearDown,
             Unwind, Bind, Release, Yield, YieldTearDown, ReapDelete,
             ReapDrop, MayRun, At
    <3>2. cmd'[p] = Idle \/ cmd'[p].pc = "delete"
      BY <1>1, <3>1 DEF Stop, ReapRemove, Finish, Goto, Become, Cmd
    <3> QED
      BY <3>2 DEF Idle
  <2>2. CASE ~(At(p, "park") \/ At(p, "remove") \/ At(p, "foreign"))
    <3>1. ASSUME NEW verb \in {"claim", "start"}, Gate(p, verb)
          PROVE  FALSE
      <4>1. PICK stale \in {FALSE, Held(HostOf[p])} :
               Become(p, IF Held(HostOf[p])
                         THEN Run(First(verb), verb, "seize",
                                  HoldTip(HostOf[p]), stale,
                                  branch[HostOf[p]])
                         ELSE Run(First(verb), verb, "fresh", {}, FALSE, {}))
        BY <3>1 DEF Gate
      <4>2. \/ cmd'[p] = Run(First(verb), verb, "seize", HoldTip(HostOf[p]),
                             stale, branch[HostOf[p]])
            \/ cmd'[p] = Run(First(verb), verb, "fresh", {}, FALSE, {})
        BY <1>1, <4>1 DEF Become
      <4>3. cmd'[p].pc = First(verb)
        BY <4>2 DEF Run
      <4> QED
        BY <4>3 DEF First
    <3>2. CASE Yield(p)
      BY <1>1, <3>2 DEF Yield, Become, Run
    <3>3. CASE Acquire(p) \/ Seize(p) \/ Resume(p)
      <4>1. (\E pc \in {"standup", "agent"} : Leased(p, pc)) \/ Finish(p)
        BY <3>3 DEF Acquire, Seize, Resume
      <4>2. ASSUME NEW pc \in {"standup", "agent"}, Leased(p, pc)
            PROVE  cmd'[p].pc = pc
        <5>1. cmd'[p] = [Idle EXCEPT !.pc = pc, !.verb = cmd[p].verb,
                                     !.tip = next,
                                     !.how = IF Resumed(p) THEN cmd[p].how
                                             ELSE "fresh"]
          BY <1>1, <4>2 DEF Leased, Become
        <5> QED
          BY <5>1 DEF Idle
      <4> QED
        BY <1>1, <4>1, <4>2 DEF Finish, Become, Idle
    <3>4. CASE Veto(p)
      <4>1. Finish(p) \/ Goto(p, "seize")
        BY <3>4, VetoLands
      <4>2. Goto(p, "seize") => cmd'[p].pc = "seize"
        BY <1>1 DEF Goto, Become, Cmd
      <4> QED
        BY <1>1, <4>1, <4>2 DEF Finish, Become, Idle
    <3>5. CASE \/ NoLeftover(p) \/ ParkLeftover(p) \/ ClearLeftover(p)
               \/ StandUp(p) \/ StandUpFails(p) \/ StartAgent(p)
               \/ HandoffFails(p) \/ TearDown(p) \/ ReapRemove(p)
      <4>1. \/ Finish(p)
            \/ \E pc \in {"acquire", "clear", "agent", "unwind", "handoff",
                          "teardown", "delete"} : Goto(p, pc)
        BY <3>5
           DEF NoLeftover, ParkLeftover, ClearLeftover, StandUp,
               StandUpFails, StartAgent, HandoffFails, TearDown, ReapRemove
      <4>2. \A pc : Goto(p, pc) => cmd'[p].pc = pc
        BY <1>1 DEF Goto, Become, Cmd
      <4> QED
        BY <1>1, <4>1, <4>2 DEF Finish, Become, Idle
    <3>6. CASE \/ Unwind(p) \/ Bind(p) \/ Release(p) \/ YieldTearDown(p)
               \/ ReapDelete(p) \/ ReapDrop(p) \/ Stop(p)
      BY <1>1, <2>2, <3>6
         DEF Unwind, Bind, Release, YieldTearDown, ReapDelete, ReapDrop,
             Stop, Finish, Become, Idle, At, MayRun
    <3> QED
      BY <1>2, <3>1, <3>2, <3>3, <3>4, <3>5, <3>6 DEF Command
  <2> QED
    BY <2>1, <2>2
<1> QED
  BY <1>2, OthersKeep DEF Next

LEMMA NamesStep ==
    ASSUME TypeOK, MarkInv, SessionInv, JudgedInv, NamesInv, Next
    PROVE  NamesInv'
<1>1. Grows
  BY TypeStep
\* What was minted keeps its name.
<1>2. ASSUME NEW c \in Made PROVE log'[c] = log[c]
  BY <1>1 DEF Grows
<1>3. ASSUME NEW p \in Procs, cmd[p].tip # 0
      PROVE  cmd[p].tip \in Made /\ log'[cmd[p].tip].host = HostOf[p]
  <2>1. cmd[p].tip \in Made /\ log[cmd[p].tip].host = HostOf[p]
    BY <1>3 DEF TypeOK, Cmd, NamesInv
  <2> QED
    BY <1>2, <2>1
<1>4. ASSUME NEW h \in Hosts, token'[h] # 0
      PROVE  log'[token'[h]].host = h
  <2>1. token[h] # 0 => token[h] \in Made /\ log[token[h]].host = h
    BY DEF TypeOK, NamesInv
  <2>2. ASSUME NEW p \in Procs, Signs(p) PROVE log'[next].host = HostOf[p]
    BY <2>2, SignsLands
  <2> QED
    BY <1>2, <1>3, <1>4, <2>1, <2>2, TokenMoves
<1>5. ASSUME NEW p \in Procs, cmd'[p].tip # 0
      PROVE  log'[cmd'[p].tip].host = HostOf[p]
  <2>1. CASE Mints(p)
    BY <2>1, MintsSigns, SignsLands
  <2> QED
    BY <1>3, <1>5, <2>1, TipMoves
<1>6. ASSUME NEW h \in Hosts, NEW s \in agents'[h]
      PROVE  log'[s].host = h
  <2>1. CASE s \in agents[h]
    <3>1. s \in Made /\ log[s].host = h
      BY <2>1 DEF TypeOK, NamesInv
    <3> QED
      BY <1>2, <3>1
  <2>2. CASE s \notin agents[h]
    <3>1. PICK p \in Procs : StartAgent(p) /\ h = HostOf[p]
                             /\ s = cmd[p].tip
      BY <2>2, AgentsMove
    <3>2. cmd[p].tip # 0
      BY <3>1 DEF StartAgent, SessionInv, Unstarted
    <3> QED
      BY <1>3, <3>1, <3>2
  <2> QED
    BY <2>1, <2>2
<1>7. ASSUME NEW c \in Made', log'[c].sess # 0
      PROVE  log'[c].host = log'[log'[c].sess].host
  <2>1. CASE c \in Made
    <3>1. log'[c] = log[c]
      BY <1>2, <2>1
    <3>2. log[c].sess \in Made /\ log[c].host = log[log[c].sess].host
      BY <1>7, <2>1, <3>1 DEF SessionInv, NamesInv
    <3> QED
      BY <1>2, <3>1, <3>2
  <2>2. CASE c \notin Made
    <3>1. SessionOf(log'[c].host, log'[c].sess)
      BY <1>7, <2>2, LogSigns
    <3> QED
      BY <1>2, <1>7, <3>1 DEF SessionOf
  <2> QED
    BY <2>1, <2>2
<1>8. ASSUME NEW p \in Procs, cmd'[p].pc = "standup"
      PROVE  cmd'[p].how \notin {"inside", "outside"}
  <2>1. cmd'[p] = cmd[p] \/ cmd'[p].how = "fresh"
    BY <1>8, StandsUpFresh, OthersKeep DEF Next
  <2> QED
    BY <1>8, <2>1 DEF NamesInv, At, Resumed
\* A resume goes on from what its gate read of the machine's own lease.
<1>9. ASSUME NEW p \in Procs, cmd'[p].pc = "resume"
      PROVE  (Governs(cmd[p].from))'.host = HostOf[p]
  <2>1. /\ TypeOK /\ Grows /\ cmd \in [Procs -> Cmd] /\ HostOf[p] \in Hosts
        /\ ref \in SUBSET Made
    BY <1>1, LaneHosts DEF TypeOK
  <2>2. PICK F : F = cmd'[p].from
    OBVIOUS
  <2>3. (Governs(cmd[p].from))' = (Governs(F))'
    BY <2>2 DEF Governs, MarkersIn
  <2>4. CASE cmd'[p] = cmd[p]
    <3>1. F \in SUBSET Made /\ MarkersIn(F) # {} /\ Governs(F).host = HostOf[p]
      BY <1>9, <2>1, <2>2, <2>4 DEF Cmd, MarkInv, NamesInv, At
    <3> QED
      BY <2>1, <2>3, <3>1, ReadsStay
  <2>5. CASE \/ \E verb \in {"claim", "start"} : ResumeInside(p, verb)
             \/ Reattach(p)
    <3>1. /\ \E verb, how : cmd' = [cmd EXCEPT ![p] =
                    Run("resume", verb, how, ref, FALSE, {})]
          /\ Proves(token[HostOf[p]], ref)
      BY <2>5
         DEF ResumeInside, Reattach, ResumeToken, LaneTokenResume, Become
    <3>2. F = ref
      BY <2>1, <2>2, <3>1 DEF Run
    <3>3. MarkersIn(F) # {} /\ Governs(F).host = HostOf[p] /\ F \in SUBSET Made
      BY <2>1, <3>1, <3>2, ProvesMarker, HolderNamed
    <3> QED
      BY <2>1, <2>3, <3>3, ReadsStay
  <2>6. ~ReapRead(p) /\ ~ReapPark(p)
    BY <1>9, <2>1, ReapParkKeeps DEF ReapRead, Become, Run
  <2> QED
    BY <1>9, <2>4, <2>5, <2>6, FromMoves
<1> QED
  BY <1>4, <1>5, <1>6, <1>7, <1>8, <1>9 DEF NamesInv, At, Resumed

-----------------------------------------------------------------------------
(* What the base and the branches have of the remote's markers.            *)

\* The marker a step writes governs the history it is written on.
LEMMA WrittenGoverns ==
    ASSUME TypeOK, NEW T \in SUBSET (Made \cup {next}), next \in T,
           log'[next].kind \in Markers
    PROVE  /\ (MarkersIn(T))' # {} /\ (Newest(T))' = next
           /\ (Governs(T))' = log'[next]
<1> DEFINE marks == {c \in T : log'[c].kind \in Markers}
<1>1. (MarkersIn(T))' = marks
  BY DEF MarkersIn
<1>2. marks \in SUBSET (Made \cup {next}) /\ next \in marks
  OBVIOUS
<1> HIDE DEF marks
<1>3. Max(marks) = next
  BY <1>2, NewestOf
<1> QED
  BY <1>1, <1>2, <1>3 DEF Newest, Governs

\* A command signs a transition, or does no more to the remote and the
\* branches than delete them, and check a branch out anew: and that not
\* where machines run one command each.
LEMMA CommandMoves ==
    ASSUME TypeOK, MarkInv, SessionInv, OwnInv, NamesInv,
           NEW p \in Procs, Command(p)
    PROVE  \/ Signs(p)
           \/ /\ UNCHANGED <<log, next>> /\ ref' \in {ref, {}}
              /\ \A h \in Hosts : branch'[h] \in {branch[h], {}, base, ref}
              /\ Lonely => \A h \in Hosts : branch'[h] \in {branch[h], {}}
<1>1. branch \in [Hosts -> SUBSET Made]
  BY DEF TypeOK
<1>2. CASE \/ Acquire(p) \/ Veto(p) \/ Seize(p) \/ Resume(p)
           \/ Unwind(p) \/ Bind(p) \/ Release(p)
  BY <1>2, AcquireSigns, VetoSigns, SeizeSigns, ResumeSigns, UnwindSigns,
     BindSigns, ReleaseSigns
<1>3. CASE StandUp(p)
  <2>1. ASSUME Lonely PROVE branch[HostOf[p]] # {}
    <3>1. Unstarted(p) /\ ~Resumed(p) /\ Alone(p)
      BY <1>3, <2>1 DEF StandUp, Unstarted, NamesInv, Lonely
    <3> QED
      BY <3>1 DEF OwnInv
  <2>2. /\ UNCHANGED <<log, next, ref>>
        /\ branch[HostOf[p]] # {} => branch' = branch
        /\ \E S \in {base, ref, branch[HostOf[p]]} :
              branch' = [branch EXCEPT ![HostOf[p]] = S]
    BY <1>1, <1>3 DEF StandUp, CheckOut, Set
  <2> QED
    BY <1>1, <2>1, <2>2
<1>4. CASE ReapDelete(p) \/ ReapDrop(p)
  BY <1>1, <1>4 DEF ReapDelete, ReapDrop, Set
<1>5. CASE \/ \E verb \in {"claim", "start"} :
                 ResumeInside(p, verb) \/ Gate(p, verb)
           \/ Reattach(p) \/ NoLeftover(p) \/ StandUpFails(p)
           \/ HandoffFails(p) \/ ReapRead(p) \/ Stop(p)
           \/ ParkLeftover(p) \/ ClearLeftover(p) \/ StartAgent(p)
           \/ TearDown(p) \/ Yield(p) \/ YieldTearDown(p)
           \/ ReapPark(p) \/ ReapRemove(p)
  BY <1>5
     DEF ResumeInside, Gate, Reattach, NoLeftover, StandUpFails,
         HandoffFails, ReapRead, Stop, ParkLeftover, ClearLeftover,
         StartAgent, TearDown, Yield, YieldTearDown, ReapPark, ReapRemove,
         unchangedByGate
<1> QED
  BY <1>2, <1>3, <1>4, <1>5 DEF Command

\* The remote, the base and the branches after a step, by what they are.
LEMMA HistoryPrimed ==
    ASSUME NEW R, ref' = R, NEW D, base' = D,
           R # {} =>
              /\ (MarkersIn(R))' # {} /\ D \subseteq R
              /\ \A B : B = D \/ (\E h \in Hosts : B = branch'[h]) =>
                    ((Newest(R))' \in B => (MarkersIn(B))' = (MarkersIn(R))')
    PROVE  HistoryInv'
<1>1. /\ (MarkersIn(ref))' = (MarkersIn(R))'
      /\ (MarkersIn(base))' = (MarkersIn(D))'
  BY DEF MarkersIn
<1>2. (Newest(ref))' = (Newest(R))'
  BY <1>1 DEF Newest
<1>3. ASSUME NEW h \in Hosts, R # {}, (Newest(R))' \in branch'[h]
      PROVE  (MarkersIn(branch[h]))' = (MarkersIn(R))'
  <2>1. PICK B : B = branch'[h]
    OBVIOUS
  <2>2. (MarkersIn(B))' = (MarkersIn(R))'
    BY <1>3, <2>1
  <2>3. (MarkersIn(branch[h]))' = (MarkersIn(B))'
    BY <2>1 DEF MarkersIn
  <2> QED
    BY <2>2, <2>3
<1>4. R # {} /\ (Newest(R))' \in D => (MarkersIn(D))' = (MarkersIn(R))'
  OBVIOUS
<1>5. ref' # {} =>
        /\ (MarkersIn(ref))' # {} /\ base' \subseteq ref'
        /\ ((Newest(ref))' \in base' =>
              (MarkersIn(base))' = (MarkersIn(ref))')
        /\ \A h \in Hosts : ((Newest(ref))' \in branch'[h] =>
              (MarkersIn(branch[h]))' = (MarkersIn(ref))')
  BY <1>1, <1>2, <1>3, <1>4
<1>6. \A S \in {base'} \cup {branch'[h] : h \in Hosts} :
        (\/ S = base' \/ \E h \in Hosts : S = branch'[h])
  OBVIOUS
<1> QED
  BY <1>5, <1>6 DEF HistoryInv

\* A signed transition goes on top of what the remote has, or of the base;
\* what an agent commits is no marker; what is pushed has the markers that
\* the remote has; and what is merged into the base is the remote's tip.
LEMMA HistoryStep ==
    ASSUME IInv, NamesInv, HistoryInv, Next
    PROVE  HistoryInv'
<1>1. /\ TypeOK /\ MarkInv /\ SessionInv /\ OwnInv /\ Grows
      /\ ref \in SUBSET Made /\ base \in SUBSET Made
      /\ branch \in [Hosts -> SUBSET Made]
  BY TypeStep DEF IInv, TypeOK
<1>2. PICK S \in SUBSET Made : S = ref
  BY <1>1
<1>3. S # {} => MarkersIn(S) # {} /\ base \subseteq S
  BY <1>2 DEF HistoryInv
<1>4. ASSUME NEW B, B \in {S, {}, base} \/ \E h \in Hosts : B = branch[h]
      PROVE  /\ B \in SUBSET Made
             /\ (S # {} /\ Newest(S) \in B => MarkersIn(B) = MarkersIn(S))
  BY <1>1, <1>2, <1>4 DEF HistoryInv
<1>5. S # {} => /\ (MarkersIn(S))' = MarkersIn(S) /\ MarkersIn(S) # {}
                /\ (Newest(S))' = Newest(S)
                /\ Newest(S) \in S /\ Newest(S) \in Made
  BY <1>1, <1>3, ReadsStay, NewestMade
<1>6. ASSUME NEW p \in Procs, Signs(p) PROVE HistoryInv'
  <2>1. /\ log'[next].kind \in Markers /\ next \notin Made
        /\ next \in ref' /\ ref' \in SUBSET (Made \cup {next})
        /\ ref = {} => base \subseteq ref'
        /\ ref \subseteq ref'
        /\ branch'[HostOf[p]] = ref'
        /\ \A h \in Hosts \ {HostOf[p]} : branch'[h] = branch[h]
    BY <1>1, <1>6, SignsLands
  <2>2. PICK R \in SUBSET (Made \cup {next}) : R = ref'
    BY <2>1
  <2>3. PICK n : n = next
    OBVIOUS
  <2>4. (MarkersIn(R))' # {} /\ (Newest(R))' = n
    BY <1>1, <2>1, <2>2, <2>3, WrittenGoverns
  <2>5. PICK D \in SUBSET Made : D = base
    BY <1>1
  <2>6. base' = D
    BY <1>1, <2>1, <2>5, ForgeLands DEF Merge
  <2>7. D \subseteq R
    BY <1>2, <1>3, <2>1, <2>2, <2>5
  <2>8. ASSUME NEW B, B = D \/ (\E h \in Hosts : B = branch'[h]), n \in B
        PROVE  B = R
    <3>1. B \in SUBSET Made \/ B = R
      BY <1>1, <2>1, <2>2, <2>8
    <3> QED
      BY <2>1, <2>3, <2>8, <3>1
  <2> QED
    BY <2>2, <2>4, <2>6, <2>7, <2>8, HistoryPrimed
\* Nothing is written, and what is checked out or merged was there.
<1>7. ASSUME ref' \in {ref, {}},
             base' = base \/ (base' = ref /\ ref' = ref),
             \A h \in Hosts : branch'[h] \in {branch[h], {}, base, ref}
      PROVE  HistoryInv'
  <2>1. PICK R \in {S, {}} : R = ref'
    BY <1>2, <1>7
  <2>2. PICK D : D = base'
    OBVIOUS
  <2>3. R # {} => R = S /\ D \in {base, S} /\ D \subseteq R
    BY <1>2, <1>3, <1>7, <2>1, <2>2
  <2>4. ASSUME NEW B, B = D \/ (\E h \in Hosts : B = branch'[h]),
               R # {}, (Newest(R))' \in B
        PROVE  (MarkersIn(B))' = (MarkersIn(R))'
    <3>1. B \in {S, {}, base} \/ \E h \in Hosts : B = branch[h]
      BY <1>2, <1>7, <2>3, <2>4
    <3>2. B \in SUBSET Made /\ MarkersIn(B) = MarkersIn(S)
      BY <1>4, <1>5, <2>3, <2>4, <3>1
    <3>3. (MarkersIn(B))' = MarkersIn(B)
      BY <1>1, <3>2, ReadsStay
    <3> QED
      BY <1>5, <2>3, <2>4, <3>2, <3>3
  <2> QED
    BY <1>5, <2>1, <2>2, <2>3, <2>4, HistoryPrimed
<1>8. ASSUME NEW g \in Hosts, Work(g) PROVE HistoryInv'
  <2>1. PICK n : n = next
    OBVIOUS
  <2>2. /\ n \notin Made /\ log'[n].kind = "work"
        /\ ref' = ref /\ base' = base
        /\ branch'[g] = branch[g] \cup {n}
        /\ \A h \in Hosts \ {g} : branch'[h] = branch[h]
    <3>1. Plain("work") \in Commit /\ Plain("work").kind = "work"
      BY DEF Plain, Commit, Kinds
    <3>2. next \notin Made /\ log'[next].kind = "work"
      BY <1>1, <1>8, <3>1, StoreTyped DEF Work
    <3> QED
      BY <1>1, <1>8, <2>1, <3>2 DEF Work, Set, forgeVars
  <2>3. PICK D : D = base
    OBVIOUS
  <2>4. ASSUME NEW B, B = D \/ (\E h \in Hosts : B = branch'[h]),
               S # {}, (Newest(S))' \in B
        PROVE  (MarkersIn(B))' = (MarkersIn(S))'
    <3>1. PICK A : /\ A = base \/ \E h \in Hosts : A = branch[h]
                   /\ B = A \/ B = A \cup {n}
      BY <2>2, <2>3, <2>4
    <3>2. Newest(S) \in A
      BY <1>5, <2>2, <2>4, <3>1
    <3>3. A \in SUBSET Made /\ MarkersIn(A) = MarkersIn(S)
      BY <1>4, <2>4, <3>1, <3>2
    <3>4. (MarkersIn(A))' = MarkersIn(A)
      BY <1>1, <3>3, ReadsStay
    <3>5. (MarkersIn(B))' = (MarkersIn(A))'
      BY <2>2, <3>1 DEF MarkersIn, Markers
    <3> QED
      BY <1>5, <2>4, <3>3, <3>4, <3>5
  <2>5. ref' = S /\ base' = D
    BY <1>2, <2>2, <2>3
  <2>6. S # {} => D \subseteq S
    BY <1>3, <2>3
  <2> QED
    BY <1>5, <2>4, <2>5, <2>6, HistoryPrimed
<1>9. ASSUME NEW g \in Hosts, Push(g) PROVE HistoryInv'
  <2>1. PICK R : R = branch[g]
    OBVIOUS
  <2>2. PICK D : D = base
    OBVIOUS
  <2>3. /\ ref' = R /\ S # {} /\ S \subseteq R
        /\ branch' = branch /\ base' = D
    BY <1>2, <1>9, <2>1, <2>2 DEF Push, forgeVars
  <2>4. R \in SUBSET Made /\ MarkersIn(R) = MarkersIn(S)
    BY <1>4, <1>5, <2>1, <2>3
  <2>5. (MarkersIn(R))' = MarkersIn(S) /\ (Newest(R))' = Newest(S)
    BY <1>1, <2>4, ReadsStay DEF Newest
  <2>6. ASSUME NEW B, B = D \/ (\E h \in Hosts : B = branch'[h]),
               (Newest(R))' \in B
        PROVE  (MarkersIn(B))' = (MarkersIn(R))'
    <3>1. B \in SUBSET Made /\ MarkersIn(B) = MarkersIn(S)
      BY <1>4, <2>2, <2>3, <2>5, <2>6
    <3>2. (MarkersIn(B))' = MarkersIn(B)
      BY <1>1, <3>1, ReadsStay
    <3> QED
      BY <2>5, <3>1, <3>2
  <2>7. D \subseteq R
    BY <1>3, <2>2, <2>3
  <2> QED
    BY <1>5, <2>3, <2>5, <2>6, <2>7, HistoryPrimed
<1>10. CASE Merge \/ \E h \in Hosts : AgentEnds(h)
  <2>1. /\ ref' = ref /\ branch' = branch
        /\ base' \in {base, base \cup ref}
        /\ ref = {} => base' = base
    BY <1>10 DEF Merge, AgentEnds, forgeVars
  <2>2. ref # {} => base \cup ref = ref
    BY <1>2, <1>3
  <2> QED
    BY <1>7, <2>1, <2>2
<1>11. CASE \E p \in Procs : Command(p)
  <2>1. PICK p \in Procs : Command(p)
    BY <1>11
  <2>2. CASE Signs(p)
    BY <1>6, <2>2
  <2>3. CASE ~Signs(p)
    <3>1. /\ UNCHANGED next /\ ref' \in {ref, {}}
          /\ \A h \in Hosts : branch'[h] \in {branch[h], {}, base, ref}
      BY <1>1, <2>1, <2>3, CommandMoves
    <3>2. base' = base \/ Merge
      BY ForgeLands
    <3> QED
      BY <1>7, <1>10, <3>1, <3>2
  <2> QED
    BY <2>2, <2>3
<1> QED
  BY <1>8, <1>9, <1>10, <1>11 DEF Next, Environment

-----------------------------------------------------------------------------
(* Whose marker governs the branches.                                      *)

\* The branches after a step, by what they are.
LEMMA BranchPrimed ==
    ASSUME \A h \in Hosts : \A B : branch'[h] = B /\ B # {} =>
              (MarkersIn(B))' # {} /\ (Governs(B))'.host = h
    PROVE  BranchInv'
<1>1. ASSUME NEW h \in Hosts, branch'[h] # {}
      PROVE  (MarkersIn(branch[h]))' # {} /\ (Governs(branch[h]))'.host = h
  <2>1. PICK B : B = branch'[h]
    OBVIOUS
  <2>2. (MarkersIn(B))' # {} /\ (Governs(B))'.host = h
    BY <1>1, <2>1
  <2>3. (MarkersIn(branch[h]))' = (MarkersIn(B))'
    BY <2>1 DEF MarkersIn
  <2> QED
    BY <2>1, <2>2, <2>3 DEF Governs
<1> QED
  BY <1>1 DEF BranchInv

LEMMA BranchStep ==
    ASSUME IInv, NamesInv, Lonely, BranchInv, Next
    PROVE  BranchInv'
<1>1. /\ TypeOK /\ MarkInv /\ SessionInv /\ OwnInv /\ Grows
      /\ branch \in [Hosts -> SUBSET Made]
  BY TypeStep DEF IInv, TypeOK
\* A branch that is left, or left alone, is the machine's own.
<1>2. ASSUME NEW h \in Hosts, NEW B, B = branch[h], B # {}
      PROVE  (MarkersIn(B))' # {} /\ (Governs(B))'.host = h
  <2>1. /\ B \in SUBSET Made /\ MarkersIn(B) # {} /\ Governs(B).host = h
    BY <1>1, <1>2 DEF BranchInv
  <2> QED
    BY <1>1, <2>1, ReadsStay
<1>3. ASSUME \A h \in Hosts : branch'[h] \in {branch[h], {}}
      PROVE  BranchInv'
  BY <1>2, <1>3, BranchPrimed
\* A transition writes a marker of the machine's own.
<1>4. ASSUME NEW p \in Procs, Signs(p) PROVE BranchInv'
  <2>1. /\ log'[next].kind \in Markers /\ log'[next].host = HostOf[p]
        /\ next \in ref' /\ ref' \in SUBSET (Made \cup {next})
        /\ branch'[HostOf[p]] = ref'
        /\ \A h \in Hosts \ {HostOf[p]} : branch'[h] = branch[h]
    BY <1>1, <1>4, SignsLands
  <2>2. PICK R \in SUBSET (Made \cup {next}) : R = ref'
    BY <2>1
  <2>3. (MarkersIn(R))' # {} /\ (Governs(R))' = log'[next]
    BY <1>1, <2>1, <2>2, WrittenGoverns
  <2>4. PICK own : own = HostOf[p]
    OBVIOUS
  <2>5. (Governs(R))'.host = own
    BY <2>1, <2>3, <2>4
  <2>6. ASSUME NEW h \in Hosts, NEW B, branch'[h] = B, B # {}
        PROVE  (MarkersIn(B))' # {} /\ (Governs(B))'.host = h
    <3>1. CASE h = own
      <4>1. B = R
        BY <2>1, <2>2, <2>4, <2>6, <3>1
      <4> QED
        BY <2>3, <2>5, <3>1, <4>1
    <3>2. CASE h # own
      <4>1. B = branch[h]
        BY <2>1, <2>4, <2>6, <3>2
      <4> QED
        BY <1>2, <2>6, <4>1
    <3> QED
      BY <3>1, <3>2
  <2> QED
    BY <2>6, BranchPrimed
\* An agent's commit is no marker.
<1>5. ASSUME NEW g \in Hosts, Work(g) PROVE BranchInv'
  <2>1. PICK n : n = next
    OBVIOUS
  <2>2. /\ log'[n].kind = "work"
        /\ branch[g] # {} /\ branch'[g] = branch[g] \cup {n}
        /\ \A h \in Hosts \ {g} : branch'[h] = branch[h]
    <3>1. Plain("work") \in Commit /\ Plain("work").kind = "work"
      BY DEF Plain, Commit, Kinds
    <3>2. log'[next].kind = "work"
      BY <1>1, <1>5, <3>1, StoreTyped DEF Work
    <3> QED
      BY <1>1, <1>5, <2>1, <3>2 DEF Work, Set
  <2>3. ASSUME NEW h \in Hosts, NEW B, branch'[h] = B, B # {}
        PROVE  (MarkersIn(B))' # {} /\ (Governs(B))'.host = h
    <3>1. PICK A : A = branch[h]
      OBVIOUS
    <3>2. A # {} /\ (B = A \/ B = A \cup {n})
      BY <2>2, <2>3, <3>1
    <3>3. (MarkersIn(A))' # {} /\ (Governs(A))'.host = h
      BY <1>2, <3>1, <3>2
    <3>4. (MarkersIn(B))' = (MarkersIn(A))'
      BY <2>2, <3>2 DEF MarkersIn, Markers
    <3>5. (Governs(B))' = (Governs(A))'
      BY <3>4 DEF Governs
    <3> QED
      BY <3>3, <3>4, <3>5
  <2> QED
    BY <2>3, BranchPrimed
<1>6. CASE \E p \in Procs : Command(p)
  BY <1>1, <1>3, <1>4, <1>6, CommandMoves
<1>7. CASE Merge \/ \E h \in Hosts : Push(h) \/ AgentEnds(h)
  BY <1>3, <1>7 DEF Merge, Push, AgentEnds
<1> QED
  BY <1>5, <1>6, <1>7 DEF Next, Environment

-----------------------------------------------------------------------------
(* What reap read goes on being true.                                      *)

\* What the steps of everybody else, the agents in the lane included, may
\* do to the remote.
LEMMA RefMoves ==
    ASSUME IInv, NamesInv, Lonely, Next, NEW p \in Procs,
           Environment \/ \E q \in Procs \ {p} : Command(q)
    PROVE  \/ ref' \in {ref, {}}
           \/ \E g \in Hosts : Push(g)
           \/ \E q \in Procs : Signs(q) /\ HostOf[q] # HostOf[p]
<1>1. TypeOK /\ MarkInv /\ SessionInv /\ OwnInv
  BY DEF IInv
<1>2. CASE Environment
  BY <1>2 DEF Environment, Merge, Work, AgentEnds
<1>3. ASSUME NEW q \in Procs \ {p}, Command(q)
      PROVE  ref' \in {ref, {}} \/ (Signs(q) /\ HostOf[q] # HostOf[p])
  BY <1>1, <1>3, CommandMoves DEF Lonely, Alone
<1> QED
  BY <1>2, <1>3

\* And to the machine's branch: an agent's commit is no part of any
\* history that was there.
LEMMA BranchMoves ==
    ASSUME IInv, NamesInv, Lonely, Next, NEW p \in Procs,
           Environment \/ \E q \in Procs \ {p} : Command(q),
           NEW F \in SUBSET Made, branch'[HostOf[p]] = F
    PROVE  branch[HostOf[p]] = F
<1>1. /\ TypeOK /\ MarkInv /\ SessionInv
      /\ branch \in [Hosts -> SUBSET Made] /\ HostOf[p] \in Hosts
  BY LaneHosts DEF IInv, TypeOK
<1>2. ASSUME NEW q \in Procs \ {p}, Command(q)
      PROVE  branch'[HostOf[p]] = branch[HostOf[p]]
  <2>1. HostOf[p] # HostOf[q]
    BY DEF Lonely, Alone
  <2> QED
    BY <1>1, <1>2, <2>1, BranchesAway
<1>3. ASSUME NEW g \in Hosts, Work(g)
      PROVE  branch[HostOf[p]] = F
  <2>1. next \notin Made
    BY <1>1, LaneBounds DEF TypeOK, Made
  <2> QED
    BY <1>1, <1>3, <2>1 DEF Work, Set
<1>4. CASE Merge \/ \E h \in Hosts : Push(h) \/ AgentEnds(h)
  BY <1>4 DEF Merge, Push, AgentEnds
<1> QED
  BY <1>2, <1>3, <1>4 DEF Environment

\* What the remote says after a step, by what it is.
LEMMA RefPrimed ==
    ASSUME NEW R, ref' = R
    PROVE  /\ (Spent(ref))' = (Spent(R))'
           /\ (Governs(ref))' = (Governs(R))'
<1>1. (MarkersIn(ref))' = (MarkersIn(R))'
  BY DEF MarkersIn
<1> QED
  BY <1>1 DEF Spent, LiveHold, Governs

\* The remote does not become a hold of p's machine by what others do: it
\* is another machine's hold, or none.  It can be the machine's own only
\* where its own agents pushed its branch.
LEMMA OthersHold ==
    ASSUME IInv, NamesInv, Lonely, BranchInv, Next, NEW p \in Procs,
           Environment \/ \E q \in Procs \ {p} : Command(q)
    PROVE  \/ ref' = ref \/ ref' = {}
           \/ Push(HostOf[p])
           \/ (Governs(ref))'.host # HostOf[p]
<1>1. /\ TypeOK /\ MarkInv /\ SessionInv /\ Grows
      /\ branch \in [Hosts -> SUBSET Made]
  BY TypeStep DEF IInv, TypeOK
<1>2. ASSUME NEW g \in Hosts, g # HostOf[p], Push(g)
      PROVE  (Governs(ref))'.host = g
  <2>1. PICK R : R = branch[g]
    OBVIOUS
  <2>2. /\ ref' = R /\ R \in SUBSET Made
        /\ MarkersIn(R) # {} /\ Governs(R).host = g
    BY <1>1, <1>2, <2>1 DEF Push, BranchInv
  <2>3. (Governs(R))'.host = g
    BY <1>1, <2>2, ReadsStay
  <2>4. HostOf[p] \in Hosts
    BY LaneHosts
  <2> QED
    BY <2>2, <2>3, <2>4, RefPrimed
<1>3. ASSUME NEW q \in Procs, Signs(q)
      PROVE  (Governs(ref))'.host = HostOf[q]
  <2>1. /\ log'[next].kind \in Markers /\ log'[next].host = HostOf[q]
        /\ next \in ref' /\ ref' \in SUBSET (Made \cup {next})
    BY <1>1, <1>3, SignsLands
  <2>2. PICK R \in SUBSET (Made \cup {next}) : R = ref'
    BY <2>1
  <2>3. (Governs(R))' = log'[next]
    BY <1>1, <2>1, <2>2, WrittenGoverns
  <2>4. HostOf[q] \in Hosts
    BY LaneHosts
  <2> QED
    BY <2>1, <2>2, <2>3, <2>4, RefPrimed
<1> QED
  BY <1>2, <1>3, RefMoves

\* A foreign checkout: the machine's agents cannot have pushed, since the
\* branch has none of the marker that governs the remote.
LEMMA ForeignStays ==
    ASSUME IInv, NamesInv, HistoryInv, Lonely, BranchInv, Next,
           NEW p \in Procs,
           Environment \/ \E q \in Procs \ {p} : Command(q),
           ref = {} \/ Governs(ref).host # HostOf[p]
    PROVE  ref' = {} \/ (Governs(ref))'.host # HostOf[p]
<1>1. /\ TypeOK /\ Grows /\ HostOf[p] \in Hosts
      /\ ref \in SUBSET Made /\ branch \in [Hosts -> SUBSET Made]
  BY TypeStep, LaneHosts DEF IInv, TypeOK
<1>2. ref # {} => MarkersIn(ref) # {}
  BY DEF HistoryInv
<1>3. ~Push(HostOf[p])
  <2> SUFFICES ASSUME Push(HostOf[p]) PROVE FALSE
    OBVIOUS
  <2>1. ref # {} /\ ref \subseteq branch[HostOf[p]]
    BY DEF Push
  <2>2. Newest(ref) \in ref /\ Governs(ref) = log[Newest(ref)]
    BY <1>1, <1>2, <2>1, NewestMade
  <2>3. MarkersIn(branch[HostOf[p]]) = MarkersIn(ref)
    BY <1>1, <2>1, <2>2 DEF HistoryInv
  <2>4. Governs(branch[HostOf[p]]).host = HostOf[p]
    BY <1>1, <2>1 DEF BranchInv
  <2> QED
    BY <2>1, <2>3, <2>4 DEF Governs
<1>4. CASE ref' = ref
  <2>1. PICK S \in SUBSET Made : S = ref
    BY <1>1
  <2>2. S # {} => (Governs(S))'.host # HostOf[p]
    BY <1>1, <1>2, <2>1, ReadsStay
  <2> QED
    BY <1>1, <1>4, <2>1, <2>2, RefPrimed
<1> QED
  BY <1>3, <1>4, OthersHold

\* A stranded checkout: what its agents could have pushed is the branch
\* that was read, and that is no hold.
LEMMA StrandedStays ==
    ASSUME IInv, NamesInv, HistoryInv, Lonely, BranchInv, Next,
           NEW p \in Procs,
           Environment \/ \E q \in Procs \ {p} : Command(q),
           NEW F \in SUBSET Made, branch[HostOf[p]] = F, Spent(F),
           NotOurs(HostOf[p])
    PROVE  (Spent(F))' /\ (Spent(ref) \/ Governs(ref).host # HostOf[p])'
<1>1. /\ TypeOK /\ Grows /\ HostOf[p] \in Hosts /\ ref \in SUBSET Made
      /\ base \subseteq base' /\ (done => done')
  BY TypeStep, ForgeStays, LaneHosts DEF IInv, TypeOK
<1>2. (Spent(F))'
  BY <1>1, SpentStays
<1>3. CASE ref' = {}
  <2>1. (Spent(ref))'
    BY <1>3 DEF Spent
  <2> QED
    BY <1>2, <2>1
<1>4. CASE Push(HostOf[p])
  <2>1. ref' = F
    BY <1>4 DEF Push
  <2> QED
    BY <1>1, <1>2, <2>1, RefPrimed
<1>5. CASE ref' = ref
  <2>1. PICK S \in SUBSET Made : S = ref
    BY <1>1
  <2>2. CASE Spent(ref)
    <3>1. Spent(S)
      BY <2>1, <2>2
    <3>2. (Spent(S))'
      BY <1>1, <3>1, SpentStays
    <3> QED
      BY <1>1, <1>2, <1>5, <2>1, <3>2, RefPrimed
  <2>3. CASE ~Spent(ref)
    <3>1. S # {} /\ Governs(S).host # HostOf[p]
      BY <2>1, <2>3 DEF Spent, NotOurs
    <3>2. MarkersIn(S) # {}
      BY <2>1, <3>1 DEF HistoryInv
    <3>3. (Governs(S))'.host # HostOf[p]
      BY <1>1, <3>1, <3>2, ReadsStay
    <3> QED
      BY <1>1, <1>2, <1>5, <2>1, <3>3, RefPrimed
  <2> QED
    BY <2>2, <2>3
<1> QED
  BY <1>2, <1>3, <1>4, <1>5, OthersHold

\* What ReapRead takes for stranded or foreign is.
LEMMA ReapReadsTrue ==
    ASSUME IInv, BranchInv, NEW p \in Procs, ReapRead(p)
    PROVE  /\ cmd'[p].pc = "park" =>
                 Spent(branch[HostOf[p]]) /\ Spent(ref)
           /\ cmd'[p].pc = "foreign" =>
                 ref = {} \/ Governs(ref).host # HostOf[p]
           /\ cmd'[p].pc # "remove"
<1>1. cmd \in [Procs -> Cmd] /\ HostOf[p] \in Hosts
  BY LaneHosts DEF IInv, TypeOK
<1>2. CASE /\ Stranded(HostOf[p])
           /\ Become(p, Run("park", "reap", "none", branch[HostOf[p]],
                            FALSE, {}))
  <2>1. cmd'[p].pc = "park"
    BY <1>1, <1>2 DEF Become, Run
  <2>2. Holds(HostOf[p]) = {}
    BY <1>2 DEF Stranded
  <2> HIDE <1>2
  <2>3. Spent(branch[HostOf[p]]) /\ Spent(ref)
    <3>1. SUFFICES ASSUME ~done
                   PROVE  Spent(branch[HostOf[p]]) /\ Spent(ref)
      BY DEF Spent
    <3>2. {S \in {ref, branch[HostOf[p]]} :
              LiveHold(S) /\ ~(S \subseteq base)} = {}
      BY <2>2, <3>1 DEF Holds
    <3> QED
      BY <3>2 DEF Spent
  <2> QED
    BY <2>1, <2>3
<1>3. CASE /\ Foreign(HostOf[p])
           /\ Become(p, Run("foreign", "reap", "none", branch[HostOf[p]],
                            FALSE, {}))
  <2>1. cmd'[p].pc = "foreign"
    BY <1>1, <1>3 DEF Become, Run
  <2>2. /\ Holds(HostOf[p]) # {} /\ Holds(HostOf[p]) \subseteq
                {S \in {ref, branch[HostOf[p]]} : LiveHold(S)}
    BY <1>3 DEF Foreign, Held, Holds
  <2>3. CASE ref \in Holds(HostOf[p])
    BY <1>3, <2>1, <2>3 DEF Foreign, LaneOf
  <2>4. CASE ref \notin Holds(HostOf[p])
    <3>1. LiveHold(branch[HostOf[p]])
      BY <2>2, <2>4
    <3>2. branch[HostOf[p]] # {}
      BY <3>1 DEF LiveHold, MarkersIn
    <3>3. Governs(branch[HostOf[p]]).host = HostOf[p]
      BY <1>1, <3>2 DEF BranchInv
    <3> QED
      BY <1>3, <2>4, <3>3 DEF Foreign, LaneOf
  <2> QED
    BY <2>1, <2>3, <2>4
<1>4. CASE \E stale \in BOOLEAN :
              Become(p, Run("drop", "reap", "none", HoldTip(HostOf[p]),
                            stale, {}))
  BY <1>1, <1>4 DEF Become, Run
<1> QED
  BY <1>2, <1>3, <1>4 DEF ReapRead

LEMMA EvidenceStep ==
    ASSUME IInv, NamesInv, HistoryInv, Lonely, BranchInv, EvidenceInv, Next
    PROVE  EvidenceInv'
<1>1. TypeOK /\ MarkInv /\ Grows
  BY TypeStep DEF IInv
<1> SUFFICES ASSUME NEW p \in Procs,
                    cmd'[p].pc \in {"park", "remove", "foreign"}
             PROVE  /\ /\ cmd'[p].pc \in {"park", "remove"}
                       /\ branch'[HostOf[p]] = cmd'[p].from
                       => /\ (Spent(cmd[p].from))'
                          /\ (Spent(ref) \/ Governs(ref).host # HostOf[p])'
                    /\ cmd'[p].pc = "foreign" =>
                          ref' = {} \/ (Governs(ref))'.host # HostOf[p]
  BY DEF EvidenceInv, NotOurs, At
<1>2. PICK F : F = cmd'[p].from
  OBVIOUS
<1>3. (Spent(cmd[p].from))' = (Spent(F))'
  <2>1. (MarkersIn(cmd[p].from))' = (MarkersIn(F))'
    BY <1>2 DEF MarkersIn
  <2> QED
    BY <1>2, <2>1 DEF Spent, LiveHold
<1>4. CASE /\ cmd'[p] = cmd[p]
           /\ Environment \/ \E q \in Procs \ {p} : Command(q)
  <2>1. CASE cmd'[p].pc = "foreign"
    <3>1. ref = {} \/ Governs(ref).host # HostOf[p]
      BY <1>4, <2>1 DEF EvidenceInv, At
    <3> QED
      BY <1>4, <2>1, <3>1, ForeignStays
  <2>2. CASE /\ cmd'[p].pc \in {"park", "remove"}
             /\ branch'[HostOf[p]] = F
    <3>1. F = cmd[p].from /\ F \in SUBSET Made
      BY <1>1, <1>2, <1>4 DEF TypeOK, Cmd
    <3>2. branch[HostOf[p]] = F
      BY <1>4, <2>2, <3>1, BranchMoves
    <3>3. Spent(F) /\ NotOurs(HostOf[p])
      BY <1>4, <2>2, <3>1, <3>2 DEF EvidenceInv, At
    <3>4. (Spent(F))' /\ (Spent(ref) \/ Governs(ref).host # HostOf[p])'
      BY <1>4, <3>1, <3>2, <3>3, StrandedStays
    <3> QED
      BY <1>3, <2>2, <3>4
  <2> QED
    BY <1>2, <2>1, <2>2
<1>5. CASE ReapRead(p) \/ ReapPark(p)
  <2>1. UNCHANGED <<log, base, done, ref, branch>>
    BY <1>5 DEF ReapRead, ReapPark, unchangedByGate, forgeVars
  <2>2. \A S : (MarkersIn(S))' = MarkersIn(S)
    BY <2>1 DEF MarkersIn
  <2>3. /\ (MarkersIn(ref))' = MarkersIn(ref)
        /\ (Governs(ref))' = Governs(ref)
        /\ (Spent(ref))' = Spent(ref)
        /\ (Spent(F))' = Spent(F)
    BY <2>1, <2>2 DEF MarkersIn, Governs, Spent, LiveHold
  <2>4. CASE ReapRead(p)
    BY <1>2, <1>3, <2>1, <2>3, <2>4, ReapReadsTrue
  <2>5. CASE ReapPark(p)
    <3>1. cmd[p].pc = "park" /\ cmd'[p].pc = "remove" /\ F = cmd[p].from
      BY <1>1, <1>2, <2>5, ReapParkKeeps DEF ReapPark, At
    <3>2. branch[HostOf[p]] = F => Spent(F) /\ NotOurs(HostOf[p])
      BY <3>1 DEF EvidenceInv, At
    <3> QED
      BY <1>2, <1>3, <2>1, <2>3, <3>1, <3>2 DEF NotOurs
  <2> QED
    BY <1>5, <2>4, <2>5
<1> QED
  <2>1. ~Reattach(p) /\ ~\E verb \in {"claim", "start"} : ResumeInside(p, verb)
    BY <1>1 DEF Reattach, ResumeInside, Become, Run, TypeOK
  <2> QED
    BY <1>1, <1>4, <1>5, <2>1, FromMoves

-----------------------------------------------------------------------------
(* The theorems.                                                           *)

LEMMA SignedInit == Init => SignedInv
<1> SUFFICES ASSUME Init PROVE SignedInv
  OBVIOUS
<1>1. Made = {1} /\ log[1] = Plain("main")
  BY LaneBounds DEF Init, Made, Ids, Root
<1>2. \A p \in Procs : cmd[p] = Idle
  BY DEF Init
<1>3. NamesInv
  BY <1>1, <1>2 DEF Init, NamesInv, At, Idle, Plain
<1>6. HistoryInv
  BY DEF Init, HistoryInv
<1>4. BranchInv
  BY DEF Init, BranchInv
<1>5. EvidenceInv
  BY <1>2 DEF EvidenceInv, At, Idle
<1> QED
  BY <1>3, <1>4, <1>5, <1>6 DEF SignedInv

LEMMA SignedStep == IInv /\ SignedInv /\ [Next]_vars => SignedInv'
<1> SUFFICES ASSUME IInv, SignedInv, [Next]_vars PROVE SignedInv'
  OBVIOUS
<1>1. Lonely' <=> Lonely
  BY DEF Lonely, Alone
<1>2. CASE Next
  <2>1. NamesInv'
    BY <1>2, NamesStep DEF IInv, SignedInv
  <2>2. HistoryInv'
    BY <1>2, HistoryStep DEF SignedInv
  <2>3. Lonely => BranchInv' /\ EvidenceInv'
    BY <1>2, BranchStep, EvidenceStep DEF SignedInv
  <2> QED
    BY <1>1, <2>1, <2>2, <2>3 DEF SignedInv
<1>3. CASE UNCHANGED vars
  <2>1. NamesInv'
    <3>1. UNCHANGED <<log, next, token, agents, cmd>>
      BY <1>3 DEF vars
    <3>2. ASSUME NEW p \in Procs
          PROVE  (Governs(cmd[p].from))' = Governs(cmd[p].from)
      <4>1. (MarkersIn(cmd[p].from))' = MarkersIn(cmd[p].from)
        BY <3>1 DEF MarkersIn
      <4> QED
        BY <3>1, <4>1 DEF Governs
    <3> QED
      BY <3>1, <3>2 DEF SignedInv, NamesInv, Made, At, Resumed
  <2>2. HistoryInv' /\ (BranchInv => BranchInv')
    <3>1. UNCHANGED <<log, ref, base, branch>>
      BY <1>3 DEF vars
    <3>2. /\ (MarkersIn(ref))' = MarkersIn(ref)
          /\ \A S : (MarkersIn(S))' = MarkersIn(S)
          /\ \A h \in Hosts :
                (MarkersIn(branch[h]))' = MarkersIn(branch[h])
      BY <3>1 DEF MarkersIn
    <3>3. HistoryInv'
      BY <3>1, <3>2 DEF SignedInv, HistoryInv, Newest
    <3> QED
      BY <3>1, <3>2, <3>3 DEF BranchInv, Governs
  <2>3. EvidenceInv => EvidenceInv'
    <3>1. UNCHANGED <<log, base, done, ref, branch, cmd>>
      BY <1>3 DEF vars
    <3>2. /\ (Governs(ref))' = Governs(ref) /\ (Spent(ref))' = Spent(ref)
          /\ \A p \in Procs :
                (Spent(cmd[p].from))' = Spent(cmd[p].from)
      <4>1. (MarkersIn(ref))' = MarkersIn(ref)
        BY <3>1 DEF MarkersIn
      <4>2. ASSUME NEW p \in Procs
            PROVE  (MarkersIn(cmd[p].from))' = MarkersIn(cmd[p].from)
        BY <3>1 DEF MarkersIn
      <4> QED
        BY <3>1, <4>1, <4>2 DEF Governs, Spent, LiveHold
    <3> QED
      BY <3>1, <3>2 DEF EvidenceInv, NotOurs, At
  <2> QED
    BY <1>1, <2>1, <2>2, <2>3 DEF SignedInv
<1> QED
  BY <1>2, <1>3

\* Every marker names the machine that minted it; the base and the clones
\* have the remote's newest marker only with all the remote's markers; and
\* where machines run one command each, their branches are governed by
\* their own markers, and reap's evidence is still true when it acts on it.
THEOREM SignedInvariance == Spec => []SignedInv
<1>1. Init => IInv /\ SignedInv
  BY InitHolds, SignedInit
<1>2. (IInv /\ SignedInv) /\ [Next]_vars => (IInv /\ SignedInv)'
  BY StepHolds, SignedStep
<1> QED
  BY <1>1, <1>2, PTL DEF Spec

\* reap does not remove the checkout of a lane that holds the lease, unless
\* somebody committed in it meanwhile, where machines run one command each.
THEOREM ReapSpares == Spec => ReapSparesTheHolder
<1> DEFINE A == \A p \in Procs :
          LET h == HostOf[p] IN
          /\ ReapRemove(p) /\ branch[h] = cmd[p].from
          /\ \A q \in Procs : Alone(q)
          => ~(ref \in Holds(h) /\ Proves(token[h], ref))
<1>1. IInv /\ SignedInv => A
  <2> SUFFICES ASSUME IInv, SignedInv, NEW p \in Procs, ReapRemove(p),
                      branch[HostOf[p]] = cmd[p].from,
                      \A q \in Procs : Alone(q),
                      ref \in Holds(HostOf[p]),
                      Proves(token[HostOf[p]], ref)
               PROVE  FALSE
    OBVIOUS
  <2>1. ref # {} /\ Governs(ref).host = HostOf[p]
    BY HolderNamed, LaneHosts DEF IInv, SignedInv
  <2>2. ~Spent(ref)
    BY DEF Holds, Spent
  <2>3. EvidenceInv /\ (At(p, "remove") \/ At(p, "foreign"))
    BY DEF SignedInv, Lonely, ReapRemove
  <2> QED
    BY <2>1, <2>2, <2>3 DEF EvidenceInv, NotOurs
<1> HIDE DEF A
<1> QED
  BY <1>1, Invariance, SignedInvariance, PTL DEF A, ReapSparesTheHolder

-----------------------------------------------------------------------------
(* The remote is the register of WorkRef.                                  *)

PhaseOf(S) ==
    IF S = {} THEN "absent" ELSE IF LiveHold(S) THEN "held" ELSE "released"

HolderOf(S) == IF S = {} THEN Nobody ELSE Governs(S).host

Ends(S) == {c \in MarkersIn(S) : log[c].kind # "beat"}

LEMMA EndsHold ==
    ASSUME NEW S
    PROVE  LiveHold(S) <=> Ends(S) # {} /\ log[Max(Ends(S))].kind # "release"
  BY DEF LiveHold, Ends

\* The register after a step, by what the remote is.
LEMMA RegisterPrimed ==
    ASSUME NEW R, ref' = R
    PROVE  /\ (PhaseOf(ref))' = (PhaseOf(R))'
           /\ (EpochOf(ref))' = (EpochOf(R))'
           /\ (HolderOf(ref))' = (HolderOf(R))'
<1>1. (MarkersIn(ref))' = (MarkersIn(R))'
  BY DEF MarkersIn
<1> QED
  BY <1>1 DEF PhaseOf, EpochOf, HolderOf, LiveHold, Governs

\* The register is what WorkRef names of the remote.
LEMMA RegisterReads ==
    /\ Register!reg = <<PhaseOf(ref), EpochOf(ref), HolderOf(ref)>>
    /\ (Register!reg)' = <<PhaseOf(ref), EpochOf(ref), HolderOf(ref)>>'
    /\ Register!Lease <=> /\ (EpochOf(ref))' = EpochOf(ref) + 1
                          /\ (PhaseOf(ref))' = "held"
                          /\ (HolderOf(ref))' \in Hosts
    /\ Register!Release <=>
          /\ PhaseOf(ref) = "held" /\ (PhaseOf(ref))' = "released"
          /\ (EpochOf(ref))' = EpochOf(ref)
          /\ (HolderOf(ref))' = HolderOf(ref)
    /\ ref # {} /\ ref' = {} => Register!Delete
  BY DEF Register!reg, Register!Lease, Register!Release, Register!Delete,
         Register!Absent, PhaseOf, EpochOf, HolderOf

\* Another history with the markers of the remote reads as the remote.
LEMMA SameMarkersRead ==
    ASSUME TypeOK, Grows, NEW S \in SUBSET Made, S = ref,
           S # {} => MarkersIn(S) # {},
           NEW R \in SUBSET Made, ref' = R, MarkersIn(R) = MarkersIn(S),
           R = {} <=> S = {}
    PROVE  UNCHANGED Register!reg
<1>1. /\ (MarkersIn(R))' = MarkersIn(R) /\ (LiveHold(R))' = LiveHold(R)
      /\ R # {} => (Governs(R))' = Governs(R)
  BY ReadsStay
<1>2. Governs(R) = Governs(S) /\ LiveHold(R) = LiveHold(S)
  BY DEF Governs, LiveHold
<1>3. /\ (PhaseOf(R))' = PhaseOf(S) /\ (EpochOf(R))' = EpochOf(S)
      /\ (HolderOf(R))' = HolderOf(S)
  BY <1>1, <1>2 DEF PhaseOf, EpochOf, HolderOf
<1> QED
  BY <1>3, RegisterPrimed, RegisterReads

\* A history whose newest marker ends the lease, or begins one.
LEMMA WrittenEnds ==
    ASSUME TypeOK, NEW T \in SUBSET (Made \cup {next}), next \in T,
           log'[next].kind \in Markers, log'[next].kind # "beat"
    PROVE  (LiveHold(T))' <=> log'[next].kind # "release"
<1> DEFINE ends == {c \in T : /\ log'[c].kind \in Markers
                              /\ log'[c].kind # "beat"}
<1>1. (Ends(T))' = ends
  BY DEF Ends, MarkersIn
<1>2. ends \in SUBSET (Made \cup {next}) /\ next \in ends
  OBVIOUS
<1>3. (LiveHold(T))' <=> ends # {} /\ log'[Max(ends)].kind # "release"
  BY <1>1 DEF LiveHold, Ends
<1> HIDE DEF ends
<1>4. Max(ends) = next
  BY <1>2, NewestOf
<1> QED
  BY <1>2, <1>3, <1>4

\* A beat goes on with what it is written on.
LEMMA BeatReads ==
    ASSUME TypeOK, Grows, NEW P \in SUBSET Made, NEW n,
           log'[n].kind = "beat", NEW T, T = P \cup {n}
    PROVE  (LiveHold(T))' <=> LiveHold(P)
<1>1. (LiveHold(P))' <=> LiveHold(P)
  BY ReadsStay
<1>2. (Ends(T))' = (Ends(P))'
  BY DEF Ends, MarkersIn
<1>3. /\ (LiveHold(T))' <=>
            (Ends(T))' # {} /\ log'[Max((Ends(T))')].kind # "release"
      /\ (LiveHold(P))' <=>
            (Ends(P))' # {} /\ log'[Max((Ends(P))')].kind # "release"
  BY DEF LiveHold, Ends
<1> QED
  BY <1>1, <1>2, <1>3

\* A signed transition is an acquisition of the register, a release, or no
\* step of it.
LEMMA SignsRegister ==
    ASSUME TypeOK, HistoryInv, NEW p \in Procs, Signs(p)
    PROVE  Register!Next \/ UNCHANGED Register!reg
<1>1. PICK parent \in SUBSET Made, kind \in Markers, epoch \in Nat,
           sess \in Nat : SignsWith(p, parent, kind, epoch, sess)
  BY DEF Signs
<1>2. /\ HostOf[p] \in Hosts /\ ref \in SUBSET Made
      /\ branch \in [Hosts -> SUBSET Made]
  BY LaneHosts DEF TypeOK
<1>3. PICK n : n = next
  OBVIOUS
<1>4. /\ Grows /\ ref' = parent \cup {n}
      /\ log'[n] = Marker(kind, epoch, HostOf[p], sess)
  <2>1. /\ Grows /\ ref' = parent \cup {next}
        /\ log'[next] = Marker(kind, epoch, HostOf[p], sess)
    BY <1>1, SignsWrites DEF Marker
  <2> QED
    BY <1>3, <2>1
<1>5. /\ log'[n].kind = kind /\ log'[n].epoch = epoch
      /\ log'[n].host = HostOf[p]
  BY <1>4 DEF Marker
<1>6. PICK R \in SUBSET (Made \cup {next}) : R = parent \cup {n}
  BY <1>3
<1>7. ref' = R /\ next \in R /\ R # {}
  BY <1>3, <1>4, <1>6
<1>8. (Governs(R))' = log'[n]
  BY <1>3, <1>5, <1>7, WrittenGoverns
<1>9. (EpochOf(ref))' = epoch /\ (HolderOf(ref))' = HostOf[p]
  BY <1>5, <1>7, <1>8, RegisterPrimed DEF EpochOf, HolderOf
<1>10. (PhaseOf(ref))' = IF (LiveHold(R))' THEN "held" ELSE "released"
  BY <1>7, RegisterPrimed DEF PhaseOf
<1>11. kind # "beat" => ((LiveHold(R))' <=> kind # "release")
  BY <1>3, <1>5, <1>7, WrittenEnds
<1>12. CASE Acquires(parent, kind, epoch)
  <2>1. Register!Lease
    BY <1>2, <1>9, <1>10, <1>11, <1>12, RegisterReads DEF Acquires
  <2> QED
    BY <2>1 DEF Register!Next
<1>13. CASE GoesOn(HostOf[p], parent, kind, epoch)
  <2>1. /\ kind \in {"beat", "release"} /\ MarkersIn(ref) # {}
        /\ epoch = EpochOf(ref) /\ Governs(ref).host = HostOf[p]
        /\ parent \in {ref, branch[HostOf[p]]} /\ ref \subseteq parent
    BY <1>13 DEF GoesOn
  <2>2. ref # {}
    BY <2>1 DEF MarkersIn
  <2>3. EpochOf(ref) = epoch /\ HolderOf(ref) = HostOf[p]
    BY <2>1, <2>2 DEF HolderOf
  <2>4. MarkersIn(parent) = MarkersIn(ref)
    <3>1. Newest(ref) \in parent
      BY <1>2, <2>1, NewestMade
    <3> QED
      BY <1>2, <2>1, <2>2, <3>1 DEF HistoryInv
  <2>5. LiveHold(parent) <=> LiveHold(ref)
    BY <2>4 DEF LiveHold
  <2>6. CASE kind = "beat"
    <3>1. (LiveHold(R))' <=> LiveHold(parent)
      BY <1>4, <1>5, <1>6, <2>6, BeatReads
    <3>2. (PhaseOf(ref))' = PhaseOf(ref)
      BY <1>10, <2>2, <2>5, <3>1 DEF PhaseOf
    <3> QED
      BY <1>9, <2>3, <3>2, RegisterReads
  <2>7. CASE kind = "release"
    <3>1. (PhaseOf(ref))' = "released"
      BY <1>10, <1>11, <2>7
    <3>2. PhaseOf(ref) \in {"held", "released"}
      BY <2>2 DEF PhaseOf
    <3>3. CASE PhaseOf(ref) = "held"
      <4>1. Register!Release
        BY <1>9, <2>3, <3>1, <3>3, RegisterReads
      <4> QED
        BY <4>1 DEF Register!Next
    <3>4. CASE PhaseOf(ref) = "released"
      BY <1>9, <2>3, <3>1, <3>4, RegisterReads
    <3> QED
      BY <3>2, <3>3, <3>4
  <2> QED
    BY <2>1, <2>6, <2>7
<1> QED
  BY <1>1, <1>12, <1>13 DEF SignsWith

\* Every step of a lane is a step of the register or leaves it alone.
LEMMA RegisterStep ==
    ASSUME IInv, NamesInv, HistoryInv, Next
    PROVE  Register!Next \/ UNCHANGED Register!reg
<1>1. /\ TypeOK /\ MarkInv /\ SessionInv /\ OwnInv /\ Grows
      /\ ref \in SUBSET Made /\ branch \in [Hosts -> SUBSET Made]
  BY TypeStep DEF IInv, TypeOK
<1>2. PICK S \in SUBSET Made : S = ref
  BY <1>1
<1>3. S # {} => MarkersIn(S) # {}
  BY <1>2 DEF HistoryInv
<1>4. CASE ref' = ref
  BY <1>1, <1>2, <1>3, <1>4, SameMarkersRead
<1>5. CASE ref # {} /\ ref' = {}
  BY <1>5, RegisterReads DEF Register!Next
<1>6. CASE \E p \in Procs : Signs(p)
  BY <1>1, <1>6, SignsRegister
<1>7. ASSUME NEW g \in Hosts, Push(g)
      PROVE  UNCHANGED Register!reg
  <2>1. PICK R : R = branch[g]
    OBVIOUS
  <2>2. /\ ref' = R /\ R \in SUBSET Made /\ S # {} /\ S \subseteq R
    BY <1>1, <1>2, <1>7, <2>1 DEF Push
  <2>3. Newest(S) \in R
    BY <1>1, <1>3, <2>2, NewestMade
  <2>4. MarkersIn(R) = MarkersIn(S)
    BY <1>2, <2>1, <2>2, <2>3 DEF HistoryInv
  <2>5. R # {}
    BY <2>2
  <2> QED
    BY <1>1, <1>2, <1>3, <2>2, <2>4, <2>5, SameMarkersRead
<1>8. CASE Environment
  BY <1>4, <1>7, <1>8 DEF Environment, Merge, Work, AgentEnds
<1>9. ASSUME NEW p \in Procs, Command(p)
      PROVE  Signs(p) \/ ref' \in {ref, {}}
  BY <1>1, <1>9, CommandMoves
<1> QED
  BY <1>4, <1>5, <1>6, <1>8, <1>9 DEF Next

\* The verbs implement the register of WorkRef, over every interleaving of
\* machines, agents and forge, and however many commands a machine runs:
\* the work ref is acquired at the next epoch only, changes its holder only
\* with the epoch, and comes back from a release or a delete only by a new
\* acquisition.
THEOREM LaneImplements == Spec => ImplementsWorkRef
<1>1. Init => Register!Absent
  BY DEF Init, Register!Absent
<1>2. (IInv /\ SignedInv) /\ [Next]_vars => [Register!Next]_(Register!reg)
  <2> SUFFICES ASSUME IInv, SignedInv, [Next]_vars
               PROVE  Register!Next \/ UNCHANGED Register!reg
    OBVIOUS
  <2>1. CASE Next
    BY <2>1, RegisterStep DEF SignedInv
  <2>2. CASE UNCHANGED vars
    BY <2>2 DEF vars, Register!reg, MarkersIn, Governs, LiveHold
  <2> QED
    BY <2>1, <2>2
<1> QED
  BY <1>1, <1>2, Invariance, SignedInvariance, PTL
     DEF Spec, ImplementsWorkRef, Register!Spec

\* So whenever the remote ref moves, it moves as the register may.
THEOREM RefMovesAsRegister == Spec => RegisterMoves
<1> DEFINE A == ref' # ref => Register!Next \/ UNCHANGED Register!reg
<1>1. IInv /\ SignedInv /\ [Next]_vars => [A]_vars
  BY RegisterStep DEF SignedInv
<1> HIDE DEF A
<1> QED
  BY <1>1, Invariance, SignedInvariance, PTL DEF A, Spec, RegisterMoves
=============================================================================

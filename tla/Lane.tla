-------------------------------- MODULE Lane --------------------------------
(***************************************************************************)
(* A plan's lane: the checkout, branch, token and agent a machine keeps    *)
(* for ONE plan, under claim, start, release, yield and reap (cmd/frit).   *)
(*                                                                         *)
(* Lease takes the lease transitions apart, push by push.  Here each of    *)
(* them is one compare-and-swap of the work ref, and what is taken apart   *)
(* are the verbs around it: the gate read, the leftover cleared, the lease *)
(* minted, the lane stood up, the agent started, the session bound, and    *)
(* the unwinding of each.  Other commands, the agents at work in the lane, *)
(* the forge and herdr may act between any two of these steps.             *)
(*                                                                         *)
(* A ref is the set of commits reachable from it, {} when it is absent, so *)
(* "is an ancestor of" is \subseteq.  An agent's herdr session is named    *)
(* for the lease tip it was started under; 0 stands for no session.        *)
(***************************************************************************)
EXTENDS Integers, FiniteSets, FiniteSetsExt

CONSTANTS
    Hosts,       \* machines, each with a clone of the repository
    Headless,    \* those of them without herdr
    Procs,       \* frit commands that may run
    HostOf,      \* the machine each runs on
    VerbsOf,     \* bound: the verbs each of them may run
    LanePath,    \* where each machine's naming convention puts the lane
    MaxCommits,  \* bound: commits that may ever be made
    MaxWork      \* bound: how many of them are the agents' own

ASSUME LaneHosts  == Headless \subseteq Hosts /\ HostOf \in [Procs -> Hosts]
ASSUME LaneVerbs  ==
    VerbsOf \in [Procs -> SUBSET {"claim", "start", "release", "yield", "reap"}]
ASSUME LaneBounds == MaxCommits \in Nat \ {0} /\ MaxWork \in Nat

VARIABLES
    log,      \* the commits made, by id
    next,     \* the id of the next one
    base,     \* commits reachable from the default branch
    content,  \* agents' commits whose content has landed there
    done,     \* the default branch's copy of the plan says done
    ref,      \* the work ref on the remote
    rescue,   \* agents' commits parked under rescue refs
    branch,   \* per host: the clone's own copy of the work ref
    wt,       \* per host: the tip the lane's worktree was stood up for, or 0
    token,    \* per host: the token in that worktree's git dir, or 0
    agents,   \* per host: sessions of the agents alive in the lane's panes
    cmd       \* per process: the command it is running

vars == <<log, next, base, content, done, ref, rescue,
          branch, wt, token, agents, cmd>>

forgeVars == <<base, content, done>>
laneVars  == <<wt, token>>

-----------------------------------------------------------------------------
Ids     == 1..MaxCommits
Made    == 1..(next - 1)
Root    == 1
Markers == {"claim", "beat", "release", "takeover"}
Kinds   == Markers \cup {"none", "main", "work"}
Nobody  == "nobody"

Commit == [kind : Kinds, epoch : Nat, host : Hosts \cup {Nobody}, sess : Nat]

Plain(kind) == [kind |-> kind, epoch |-> 0, host |-> Nobody, sess |-> 0]

Top(S)       == Max(S)
WorkIn(S)    == {c \in S : log[c].kind = "work"}
MarkersIn(S) == {c \in S : log[c].kind \in Markers}
Governs(S)   == log[Max(MarkersIn(S))]
Bound(S)     == IF MarkersIn(S) = {} THEN 0 ELSE Governs(S).sess

Released(S) == S # {} /\ log[Top(S)].kind = "release"

LiveHold(S) ==
    LET terminals == {c \in MarkersIn(S) : log[c].kind # "beat"} IN
    terminals # {} /\ log[Max(terminals)].kind # "release"

Proves(t, S) ==
    /\ t # 0 /\ t \in S
    /\ \/ t = Top(S)
       \/ /\ log[t].kind \in Markers
          /\ Governs(S).kind # "release"
          /\ Governs(S).epoch = log[t].epoch
          /\ Governs(S).host = log[t].host

-----------------------------------------------------------------------------
(* What a command reads.                                                   *)

\* The live holds of the plan in a clone that has just fetched: merged,
\* landed and released refs are not holds.
Holds(h) ==
    IF done THEN {}
    ELSE {S \in {ref, branch[h]} : LiveHold(S) /\ ~(S \subseteq base)}

Held(h)    == Holds(h) # {}
HoldTip(h) == IF ref # {} THEN ref ELSE branch[h]

\* herdr answers for its own machine, and any one call may go unanswered:
\* then nothing is read as live, and nothing as dead.
Answers(h) == IF h \in Headless THEN {FALSE} ELSE BOOLEAN

SessionLive(h, s, ans) == ans /\ s # 0 /\ s \in agents[h]

\* Mutant of SessionDead: no answer reads as an empty pane list.
SessionDeadSilent(h, s, ans) == s # 0 /\ ~(ans /\ s \in agents[h])

SessionDead(h, s, ans) == ans /\ s # 0 /\ s \notin agents[h]

Dead(h, ans) == Held(h) /\ SessionDead(h, Bound(HoldTip(h)), ans)

\* An agent's pane is rooted in the lane as long as the checkout stands.
LiveLane(h, ans) == ans /\ wt[h] # 0 /\ agents[h] # {}

\* Where the host a marker names keeps the lane.
LaneOf(S) == LanePath[Governs(S).host]

UnparkedSuffix(h, S) == branch[h] # {} /\ ~(branch[h] \subseteq S)

ResumeToken(h, ans) ==
    wt[h] # 0 /\ Proves(token[h], ref) /\ ~SessionLive(h, Bound(ref), ans)

\* The resume from outside: the lane its marker names holds the token, and
\* herdr shows nobody in it.
LaneTokenResume(h) ==
    /\ Held(h) /\ wt[h] # 0 /\ Proves(token[h], ref)
    /\ LaneOf(ref) = LanePath[h]
    /\ TRUE \in Answers(h) /\ agents[h] = {}

\* Mutant of Stranded: a checkout with nobody in it reads as stranded.
StrandedUnattended(h) == wt[h] # 0 /\ agents[h] = {}

\* lanes.Find, for this plan's one lane.
Stranded(h)  == wt[h] # 0 /\ Holds(h) = {}
Unstaffed(h) == wt[h] = 0 /\ Held(h)
Foreign(h) ==
    /\ wt[h] # 0 /\ Held(h)
    /\ LaneOf(IF ref \in Holds(h) THEN ref ELSE branch[h]) # LanePath[h]

-----------------------------------------------------------------------------
(* A running command: how it comes by the lease, the history it is CASed   *)
(* from, the marker minted, whether the window had matured, and the branch *)
(* as the command read it.                                                 *)

PCs   == {"idle", "leftover", "clear", "acquire", "seize", "resume",
          "standup", "agent", "handoff", "teardown", "unwind",
          "yield", "park", "remove", "delete", "foreign", "drop"}
Verbs == {"none", "claim", "start", "yield", "reap"}
Hows  == {"none", "fresh", "seize", "inside", "outside"}

Cmd == [pc : PCs, verb : Verbs, how : Hows, from : SUBSET Made,
        tip : Made \cup {0}, stale : BOOLEAN, read : SUBSET Made]

Idle == [pc |-> "idle", verb |-> "none", how |-> "none", from |-> {},
         tip |-> 0, stale |-> FALSE, read |-> {}]

Run(pc, verb, how, from, stale, read) ==
    [pc |-> pc, verb |-> verb, how |-> how, from |-> from,
     tip |-> 0, stale |-> stale, read |-> read]

At(p, pc)   == cmd[p].pc = pc
MayRun(p, verb) == At(p, "idle") /\ verb \in VerbsOf[p]
Resumed(p)  == cmd[p].how \in {"inside", "outside"}
Become(p, c) == cmd' = [cmd EXCEPT ![p] = c]
Goto(p, pc)  == Become(p, [cmd[p] EXCEPT !.pc = pc])
Finish(p)    == Become(p, Idle)
Set(f, h, v) == [f EXCEPT ![h] = v]

Store(c) ==
    /\ next <= MaxCommits
    /\ log' = [log EXCEPT ![next] = c]
    /\ next' = next + 1

Marker(kind, epoch, host, sess) ==
    [kind |-> kind, epoch |-> epoch, host |-> host, sess |-> sess]

\* Mutant of Transition: the clone's own branch is left behind.
TransitionNoSync(h, parent, kind, epoch, host, sess) ==
    /\ Store(Marker(kind, epoch, host, sess))
    /\ ref' = parent \cup {next}
    /\ token' = IF wt[h] # 0 /\ kind # "release" THEN Set(token, h, next)
                ELSE token
    /\ UNCHANGED branch

\* A transition that lands moves the remote, then the clone's copy, and
\* then the lane's token where a worktree stands to keep it.
Transition(h, parent, kind, epoch, host, sess) ==
    /\ Store(Marker(kind, epoch, host, sess))
    /\ ref' = parent \cup {next}
    /\ branch' = Set(branch, h, parent \cup {next})
    /\ token' = IF wt[h] # 0 /\ kind # "release" THEN Set(token, h, next)
                ELSE token

\* relayBase: the lane's own fast-forward is carried along, a branch
\* beside the tip refused.
RelayBase(h, from) ==
    IF branch[h] # {} /\ from \subseteq branch[h] THEN {branch[h]}
    ELSE IF branch[h] \subseteq from THEN {from}
    ELSE {}

ParkUnlanded(S) ==
    IF WorkIn(S) \subseteq content THEN rescue ELSE rescue \cup WorkIn(S)

\* The types, and that nothing names a commit nobody has made: no ref,
\* worktree, token, session or running command.
TypeOK ==
    /\ log \in [Ids -> Commit]
    /\ next \in 2..(MaxCommits + 1)
    /\ base \in SUBSET Made
    /\ content \in SUBSET Made
    /\ done \in BOOLEAN
    /\ ref \in SUBSET Made
    /\ rescue \in SUBSET Made
    /\ branch \in [Hosts -> SUBSET Made]
    /\ wt \in [Hosts -> Made \cup {0}]
    /\ token \in [Hosts -> Made \cup {0}]
    /\ agents \in [Hosts -> SUBSET Made]
    /\ cmd \in [Procs -> Cmd]

Init ==
    /\ log = [c \in Ids |-> IF c = Root THEN Plain("main") ELSE Plain("none")]
    /\ next = 2
    /\ base = {Root} /\ content = {} /\ done = FALSE
    /\ ref = {} /\ rescue = {}
    /\ branch = [h \in Hosts |-> {}]
    /\ wt = [h \in Hosts |-> 0]
    /\ token = [h \in Hosts |-> 0]
    /\ agents = [h \in Hosts |-> {}]
    /\ cmd = [p \in Procs |-> Idle]

-----------------------------------------------------------------------------
(* The environment.                                                        *)

\* Somebody in the lane commits; git keeps it on the checked-out branch.
Work(h) ==
    /\ wt[h] # 0 /\ branch[h] # {}
    /\ Cardinality(WorkIn(Made)) < MaxWork
    /\ Store(Plain("work"))
    /\ branch' = Set(branch, h, branch[h] \cup {next})
    /\ UNCHANGED <<forgeVars, ref, rescue, laneVars, agents, cmd>>

\* A plain git push, which the remote takes only as a fast-forward.
Push(h) ==
    /\ ref # {} /\ ref \subseteq branch[h] /\ ref # branch[h]
    /\ ref' = branch[h]
    /\ UNCHANGED <<log, next, forgeVars, rescue, branch, laneVars,
                   agents, cmd>>

\* The forge lands the work ref: by a merge, or by a squash that closes
\* the plan.
Merge ==
    /\ ref # {} /\ ~(WorkIn(ref) \subseteq content)
    /\ content' = content \cup WorkIn(ref)
    /\ \/ base' = base \cup ref /\ UNCHANGED done
       \/ done' = TRUE /\ UNCHANGED base
    /\ UNCHANGED <<log, next, ref, rescue, branch, laneVars, agents, cmd>>

\* An agent ends or its pane is closed; its session never comes back.
AgentEnds(h) ==
    /\ \E s \in agents[h] : agents' = Set(agents, h, agents[h] \ {s})
    /\ UNCHANGED <<log, next, forgeVars, ref, rescue, branch, laneVars,
                   cmd>>

-----------------------------------------------------------------------------
(* claim and start: the gate, from the gathered facts and this machine's   *)
(* herdr.  Maturity of the window is the observer's verdict, free here.    *)

unchangedByGate == <<log, next, forgeVars, ref, rescue, branch, laneVars,
                     agents>>

\* Run from inside the lane, on its own token.
ResumeInside(p, verb) ==
    /\ MayRun(p, verb)
    /\ \E ans \in Answers(HostOf[p]) : ResumeToken(HostOf[p], ans)
    /\ Become(p, Run("resume", verb, "inside", ref, FALSE, {}))
    /\ UNCHANGED unchangedByGate

\* start <id> from anywhere, on the token the marker's lane holds.
Reattach(p) ==
    LET h == HostOf[p] IN
    /\ MayRun(p, "start")
    /\ LaneTokenResume(h) /\ ~UnparkedSuffix(h, ref)
    /\ Become(p, Run("resume", "start", "outside", ref, FALSE, {}))
    /\ UNCHANGED unchangedByGate

\* Mutant of Deserted: the unpushed suffix is not looked at.
DesertedInsideOnly(h, inside) == inside

\* desertedRefusal and parkFirstRefusal, of a hold read as dead.
Deserted(h, inside) == inside \/ UnparkedSuffix(h, HoldTip(h))

\* Neither refused nor, from inside the lane, resumed: the plan is free,
\* or its hold has matured or died, and start sees nobody in the lane.
Open(h, inside, stale, ans) ==
    /\ inside => ~ResumeToken(h, ans)
    /\ Dead(h, ans) /\ ~stale => ~Deserted(h, inside)
    /\ ~done
    /\ Held(h) => stale \/ Dead(h, ans)

First(verb) == IF verb = "start" THEN "leftover" ELSE "acquire"

Gate(p, verb) ==
    LET h == HostOf[p] IN
    /\ MayRun(p, verb)
    /\ \E inside \in {FALSE, wt[h] # 0}, stale \in {FALSE, Held(h)},
          ans, again \in Answers(h) :
          /\ Open(h, inside, stale, ans)
          /\ ~(verb = "start" /\ Held(h) /\ LiveLane(h, again))
          /\ Become(p,
                IF Held(h)
                THEN Run(First(verb), verb, "seize", HoldTip(h), stale,
                         branch[h])
                ELSE Run(First(verb), verb, "fresh", {}, FALSE, {}))
    /\ UNCHANGED unchangedByGate

-----------------------------------------------------------------------------
(* start: reconcileLeftoverWorktree, ahead of a lease that is not resumed. *)

NoLeftover(p) ==
    /\ At(p, "leftover") /\ wt[HostOf[p]] = 0
    /\ Goto(p, "acquire")
    /\ UNCHANGED unchangedByGate

\* Nobody is on the leftover, so its unlanded work is parked; without
\* herdr nobody can tell, so the start ends there.
ParkLeftover(p) ==
    LET h == HostOf[p] IN
    /\ At(p, "leftover") /\ wt[h] # 0
    /\ \/ h \in Headless /\ Finish(p)
       \/ TRUE \in Answers(h) /\ agents[h] = {} /\ Goto(p, "clear")
    /\ rescue' = ParkUnlanded(branch[h])
    /\ UNCHANGED <<log, next, forgeVars, ref, branch, laneVars, agents>>

RemoveWorktree(h) ==
    /\ wt[h] # 0
    /\ wt' = Set(wt, h, 0)
    /\ token' = Set(token, h, 0)

\* git worktree remove takes the checkout, never its branch.
ClearLeftover(p) ==
    /\ At(p, "clear")
    /\ RemoveWorktree(HostOf[p])
    /\ Goto(p, "acquire")
    /\ UNCHANGED <<log, next, forgeVars, ref, rescue, branch, agents>>

-----------------------------------------------------------------------------
(* The lease: mintOrTakeOver, or the resume.                               *)

Leased(p, pc) ==
    Become(p, [Idle EXCEPT !.pc = pc, !.verb = cmd[p].verb, !.tip = next,
                           !.how = IF Resumed(p) THEN cmd[p].how ELSE "fresh"])

\* Acquire an absent ref on the base, or a released one on its release.
Acquire(p) ==
    LET h == HostOf[p] IN
    /\ At(p, "acquire") /\ cmd[p].how = "fresh"
    /\ \/ /\ ref = {} /\ ~UnparkedSuffix(h, base)
          /\ Transition(h, base, "claim", 1, h, 0)
       \/ /\ Released(ref)
          /\ Transition(h, ref, "claim", log[Top(ref)].epoch + 1, h, 0)
    /\ Leased(p, "standup")
    /\ UNCHANGED <<forgeVars, rescue, wt, agents>>

\* The live-session veto, asked of the marker the takeover would replace;
\* the vetoed command beats for the holder unless the ref has moved or
\* the clone's branch is beside or beyond it.
Veto(p) ==
    LET h == HostOf[p]
        from == cmd[p].from
        m == Governs(from)
    IN
    /\ At(p, "acquire") /\ cmd[p].how = "seize"
    /\ \/ /\ \E ans \in Answers(h) : SessionLive(h, Bound(from), ans)
          /\ ref = from /\ branch[h] \subseteq from
          /\ Transition(h, from, "beat", m.epoch, m.host, m.sess)
          /\ Finish(p)
       \/ /\ \E ans \in Answers(h) : ~SessionLive(h, Bound(from), ans)
          /\ Goto(p, "seize")
          /\ UNCHANGED <<log, next, ref, branch, token>>
    /\ UNCHANGED <<forgeVars, rescue, wt, agents>>

\* Takeover: a child of exactly the tip the verdict was about.
Seize(p) ==
    LET h == HostOf[p]
        from == cmd[p].from
    IN
    /\ At(p, "seize") /\ ref = from /\ MarkersIn(from) # {}
    /\ Transition(h, from, "takeover", Governs(from).epoch + 1, h, 0)
    /\ Leased(p, "standup")
    /\ UNCHANGED <<forgeVars, rescue, wt, agents>>

\* A resume names a session only from inside, where the pane is the lane's.
Resume(p) ==
    LET h == HostOf[p] IN
    /\ At(p, "resume") /\ ref = cmd[p].from
    /\ \E parent \in RelayBase(h, ref),
          s \in IF cmd[p].how = "inside" THEN {0} \cup agents[h] ELSE {0} :
          Transition(h, parent, "beat", Governs(ref).epoch, h, s)
    /\ IF cmd[p].verb = "claim" \/ h \in Headless THEN Finish(p)
       ELSE Leased(p, "agent")
    /\ UNCHANGED <<forgeVars, rescue, wt, agents>>

-----------------------------------------------------------------------------
(* Standing the lane up, and unwinding what could not be.                  *)

\* worktree create checks the branch out, making it anew where it is gone.
CheckOut(h, tip) ==
    /\ wt[h] = 0
    /\ wt' = Set(wt, h, tip)
    /\ IF branch[h] # {} THEN UNCHANGED branch
       ELSE \E S \in {base, ref} \ {{}} : branch' = Set(branch, h, S)

\* Mutant of StandUp: the token names the commit to come, not the tip
\* the lease was minted at.
StandUpNextToken(p) ==
    LET h == HostOf[p] IN
    /\ At(p, "standup") /\ CheckOut(h, cmd[p].tip)
    /\ token' = Set(token, h, next)
    /\ IF cmd[p].verb = "claim" \/ h \in Headless THEN Finish(p)
       ELSE Goto(p, "agent")
    /\ UNCHANGED <<log, next, forgeVars, ref, rescue, agents>>

\* The checkout, and the token in it.
StandUp(p) ==
    LET h == HostOf[p] IN
    /\ At(p, "standup") /\ CheckOut(h, cmd[p].tip)
    /\ token' = Set(token, h, cmd[p].tip)
    /\ IF cmd[p].verb = "claim" \/ h \in Headless THEN Finish(p)
       ELSE Goto(p, "agent")
    /\ UNCHANGED <<log, next, forgeVars, ref, rescue, agents>>

StandUpFails(p) ==
    /\ At(p, "standup")
    /\ Goto(p, "unwind")
    /\ UNCHANGED unchangedByGate

StartAgent(p) ==
    LET h == HostOf[p] IN
    /\ At(p, "agent")
    /\ agents' = Set(agents, h, agents[h] \cup {cmd[p].tip})
    /\ Goto(p, "handoff")
    /\ UNCHANGED <<log, next, forgeVars, ref, rescue, branch, laneVars>>

\* The agent, its prompt or the focus fails: a resumed lane keeps its
\* lease, any other is torn down.
HandoffFails(p) ==
    /\ At(p, "agent") \/ At(p, "handoff")
    /\ IF Resumed(p) THEN Finish(p) ELSE Goto(p, "teardown")
    /\ UNCHANGED unchangedByGate

\* herdr removes the workspace it created, its panes with it.  A teardown
\* that fails is named in the error and the lease still released.
TearDown(p) ==
    LET h == HostOf[p] IN
    /\ At(p, "teardown")
    /\ \/ /\ wt[h] = cmd[p].tip /\ RemoveWorktree(h)
          /\ agents' = Set(agents, h, agents[h] \ {cmd[p].tip})
       \/ UNCHANGED <<wt, token, agents>>
    /\ Goto(p, "unwind")
    /\ UNCHANGED <<log, next, forgeVars, ref, rescue, branch>>

ReleaseFrom(h) ==
    \E parent \in RelayBase(h, ref) :
        Transition(h, parent, "release", Governs(ref).epoch, h, 0)

\* releaseLease: fenced when the ref has moved on, and then reported.
Unwind(p) ==
    /\ At(p, "unwind") /\ ref # {} /\ Top(ref) = cmd[p].tip
    /\ ReleaseFrom(HostOf[p])
    /\ Finish(p)
    /\ UNCHANGED <<forgeVars, rescue, wt, agents>>

\* bindSession: a beat from the minted tip, or from where this lane's own
\* commits have taken the ref since.
Bind(p) ==
    LET h == HostOf[p] IN
    /\ At(p, "handoff") /\ MarkersIn(ref) # {}
    /\ \/ Top(ref) = cmd[p].tip
       \/ Governs(ref).host = h
    /\ \E parent \in RelayBase(h, ref) :
          Transition(h, parent, "beat", Governs(ref).epoch, h, cmd[p].tip)
    /\ Finish(p)
    /\ UNCHANGED <<forgeVars, rescue, wt, agents>>

-----------------------------------------------------------------------------
(* release and yield.                                                      *)

Release(p) ==
    LET h == HostOf[p] IN
    /\ MayRun(p, "release") /\ Held(h)
    /\ wt[h] # 0 /\ Proves(token[h], ref)
    /\ ReleaseFrom(h)
    /\ UNCHANGED <<forgeVars, rescue, wt, agents, cmd>>

\* yield parks the whole branch of a lane the remote's tip has left.
Yield(p) ==
    LET h == HostOf[p] IN
    /\ MayRun(p, "yield") /\ branch[h] # {} /\ branch[h] # ref
    /\ rescue' = rescue \cup WorkIn(branch[h])
    /\ Become(p, Run("yield", "yield", "none", {}, FALSE, {}))
    /\ UNCHANGED <<log, next, forgeVars, ref, branch, laneVars, agents>>

\* The teardown is for the lane yield is run in; the branch stays.
YieldTearDown(p) ==
    LET h == HostOf[p] IN
    /\ At(p, "yield")
    /\ RemoveWorktree(h)
    /\ agents' = Set(agents, h, {})
    /\ Finish(p)
    /\ UNCHANGED <<log, next, forgeVars, ref, rescue, branch>>

-----------------------------------------------------------------------------
(* reap --go: the evidence is read once, then acted on by name.            *)

ReapRead(p) ==
    LET h == HostOf[p] IN
    /\ MayRun(p, "reap")
    /\ \/ /\ Stranded(h)
          /\ Become(p, Run("park", "reap", "none", branch[h], FALSE, {}))
       \/ /\ Foreign(h)
          /\ Become(p, Run("foreign", "reap", "none", branch[h], FALSE, {}))
       \/ \E stale \in BOOLEAN :
             /\ Unstaffed(h)
             /\ stale \/ \E ans \in Answers(h) : Dead(h, ans)
             /\ Become(p, Run("drop", "reap", "none", HoldTip(h), stale, {}))
    /\ UNCHANGED unchangedByGate

\* Mutant of ReapPark: the remote's copy is parked for the branch.
ReapParkRemote(p) ==
    LET h == HostOf[p] IN
    /\ At(p, "park")
    /\ rescue' = ParkUnlanded(ref)
    /\ Become(p, [cmd[p] EXCEPT !.pc = "remove", !.read = branch[h]])
    /\ UNCHANGED <<log, next, forgeVars, ref, branch, laneVars, agents>>

ReapPark(p) ==
    LET h == HostOf[p] IN
    /\ At(p, "park")
    /\ rescue' = ParkUnlanded(branch[h])
    /\ Become(p, [cmd[p] EXCEPT !.pc = "remove", !.read = branch[h]])
    /\ UNCHANGED <<log, next, forgeVars, ref, branch, laneVars, agents>>

ReapRemove(p) ==
    /\ At(p, "remove") \/ At(p, "foreign")
    /\ RemoveWorktree(HostOf[p])
    /\ IF At(p, "remove") THEN Goto(p, "delete") ELSE Finish(p)
    /\ UNCHANGED <<log, next, forgeVars, ref, rescue, branch, agents>>

\* git branch -D, which refuses a branch checked out again.
ReapDelete(p) ==
    LET h == HostOf[p] IN
    /\ At(p, "delete") /\ wt[h] = 0
    /\ branch' = Set(branch, h, {})
    /\ Finish(p)
    /\ UNCHANGED <<log, next, forgeVars, ref, rescue, laneVars, agents>>

\* Scavenge: parked, then deleted where it still is what was judged.
ReapDrop(p) ==
    LET h == HostOf[p] IN
    /\ At(p, "drop")
    /\ \/ ref = cmd[p].from /\ rescue' = ParkUnlanded(ref) /\ ref' = {}
       \/ ref = {} /\ UNCHANGED <<ref, rescue>>
    /\ branch' = IF wt[h] # 0 THEN branch ELSE Set(branch, h, {})
    /\ Finish(p)
    /\ UNCHANGED <<log, next, forgeVars, laneVars, agents>>

\* A command is refused, loses its race, fails a step or is killed.
Stop(p) ==
    /\ ~At(p, "idle")
    /\ Finish(p)
    /\ UNCHANGED unchangedByGate

-----------------------------------------------------------------------------
Environment ==
    \/ Merge
    \/ \E h \in Hosts :
          Work(h) \/ Push(h) \/ AgentEnds(h)

Command(p) ==
    \/ \E verb \in {"claim", "start"} : ResumeInside(p, verb) \/ Gate(p, verb)
    \/ Reattach(p) \/ NoLeftover(p) \/ ParkLeftover(p) \/ ClearLeftover(p)
    \/ Acquire(p) \/ Veto(p) \/ Seize(p) \/ Resume(p)
    \/ StandUp(p) \/ StandUpFails(p) \/ StartAgent(p) \/ HandoffFails(p)
    \/ TearDown(p) \/ Unwind(p) \/ Bind(p)
    \/ Release(p) \/ Yield(p) \/ YieldTearDown(p)
    \/ ReapRead(p) \/ ReapPark(p) \/ ReapRemove(p) \/ ReapDelete(p)
    \/ ReapDrop(p) \/ Stop(p)

Next == Environment \/ \E p \in Procs : Command(p)

Spec == Init /\ [][Next]_vars

-----------------------------------------------------------------------------
(* What the verbs promise.                                                 *)

\* Agents' commits that the remote would give back.
Saved == rescue \cup content \cup WorkIn(ref)

\* Park before delete (reapStranded): once reap removes a checkout, and
\* until it has deleted the branch, the work it read there is parked or
\* landed, whatever the agents, the forge and other machines do meanwhile.
ParkedBeforeGone ==
    \A p \in Procs :
        At(p, "remove") \/ At(p, "delete") =>
            WorkIn(cmd[p].read) \subseteq rescue \cup content

\* SessionDead's "only a herdr that actually answered": a hold bound to
\* an agent alive on the very machine is never taken over, nor dropped by
\* reap, on the word that its session is gone; only a matured window can
\* end it.
LiveSessionOutlastsDeath ==
    [][\A p \in Procs :
          /\ Seize(p) \/ (ReapDrop(p) /\ ref' # ref)
          /\ ~cmd[p].stale
          => Bound(ref) \notin agents[HostOf[p]]]_vars

\* The park-first guard (S77): a takeover that does not wait for the
\* window leaves none of the commits the machine's branch carried at the
\* gate off the branch, unless they are on the remote.
DeadTakeoverKeepsSuffix ==
    [][\A p \in Procs :
          At(p, "seize") /\ cmd'[p].pc = "standup" /\ ~cmd[p].stale
          => WorkIn(cmd[p].read) \subseteq branch'[HostOf[p]] \cup Saved]_vars

\* No other command runs on the same machine.
Alone(p) == \A q \in Procs \ {p} : HostOf[q] # HostOf[p]

\* "An agent's commits land on the marker" (docs/claiming.md): the branch
\* start hands to a new lane's agent carries the lease it was started for,
\* whatever other machines do to the ref meanwhile.  A reap on the very
\* machine can drop the lease before the lane stands.
AgentWorksOnItsLease ==
    [][\A p \in Procs :
          At(p, "agent") /\ cmd'[p].pc = "handoff" /\ ~Resumed(p) /\ Alone(p)
          => cmd[p].tip \in branch[HostOf[p]]]_vars

\* A stranded checkout is removed "only when frit's own evidence confirms
\* the branch landed" (docs/reaping.md): reap never removes the checkout
\* of a lane that holds the lease, whatever the forge and the other
\* machines did since it read its evidence, unless somebody committed in
\* the lane meanwhile.  Where machines run two commands, a claim can lose
\* its checkout.
ReapSparesTheHolder ==
    [][\A p \in Procs :
          LET h == HostOf[p] IN
          /\ ReapRemove(p) /\ branch[h] = cmd[p].from
          /\ \A q \in Procs : Alone(q)
          => ~(ref \in Holds(h) /\ Proves(token[h], ref))]_vars

\* What Lease takes push by push is one step here, and either way the
\* remote ref is the register of WorkRef: acquired at the next epoch only,
\* its holder changed only together with the epoch, whatever the machines
\* read before, and whatever becomes of their lanes.
Register == INSTANCE WorkRef WITH
    Holders  <- Hosts,
    NoHolder <- Nobody,
    phase    <- IF ref = {} THEN "absent"
                ELSE IF LiveHold(ref) THEN "held" ELSE "released",
    epoch    <- IF ref = {} THEN 0 ELSE Governs(ref).epoch,
    holder   <- IF ref = {} THEN Nobody ELSE Governs(ref).host

ImplementsWorkRef == Register!Spec

\* The same of the steps alone, for checking: a step that moves the remote
\* ref is one of the register's, or leaves it saying what it said (a beat,
\* a push of an agent's commits, a release of what is released).
RegisterMoves ==
    [][ref' # ref => Register!Next \/ UNCHANGED Register!reg]_vars
=============================================================================

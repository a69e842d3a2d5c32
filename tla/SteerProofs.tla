---------------------------- MODULE SteerProofs ----------------------------
(***************************************************************************)
(* Theorems about Steer, for every roster of hosts, set of runs, TTL and   *)
(* bound.  They rest on what a run knows when it acts: which of the panes  *)
(* that are there now it has seen, and which were opened since it looked.  *)
(***************************************************************************)
EXTENDS Steer, TLAPS

-----------------------------------------------------------------------------
(* The invariant.                                                          *)

\* A machine gives an id to one pane at a time.
PanesInv ==
    \A q, r \in panes : q.host = r.host /\ q.id = r.id => q = r

\* A snapshot of a host shows its own panes only, and, if it was read at
\* all, every pane still there that is older than it.
Faithful(there, h, s) ==
    /\ \A q \in s.panes : q.host = h
    /\ s.seen => \A q \in there :
                    q.host = h => q \in s.panes \/ q.since >= s.at

CacheInv ==
    \A h \in Remotes :
        /\ Faithful(panes, h, cache[h])
        /\ \A p \in Askers : Faithful(panes, h, cmd[p].cache[h])

\* A run that has looked at this machine saw each id once, and every pane
\* that is still there and was not opened since.
Looked(there, c) ==
    /\ \A q \in c.local : q.host = Here
    /\ \A q, r \in c.local : q.id = r.id => q = r
    /\ \A q \in there :
          q.host = Here =>
             q \in c.local \/ (q.since >= c.at /\ q.serial > c.horizon)

LookInv == \A p \in Askers : At(p, "probe") => Looked(panes, cmd[p])

\* The pane a run is about to prompt is the lane it found, or was opened
\* after it looked.
Aimed(there, c) ==
    \A q \in there :
        q.host = Here /\ q.id = c.target.id =>
            q.lane \/ q.serial > c.horizon

AimInv ==
    \A p \in Askers :
        At(p, "pose") \/ At(p, "send") => Aimed(panes, cmd[p])

\* Only a run that poses an ask carries one, from the posing to the send.
AskInv ==
    \A p \in Askers :
        /\ cmd[p].rec.ask # 0 <=> At(p, "send") /\ cmd[p].verb = "ask"
        /\ At(p, "pose") => cmd[p].verb = "ask"

IInv == /\ TypeOK /\ PanesInv /\ CacheInv /\ LookInv /\ AimInv
        /\ AskInv /\ OwedIsAsked

-----------------------------------------------------------------------------
(* Types, which only grow as the clock and the counters do.                *)

Grows == /\ now \in Nat /\ now' \in Nat /\ now <= now'
         /\ opened \in Nat /\ opened' \in Nat /\ opened <= opened'
         /\ posed \in Nat /\ posed' \in Nat /\ posed <= posed'

LEMMA TypesGrow ==
    ASSUME Grows
    PROVE  /\ Pane \subseteq Pane' /\ Snapshot \subseteq Snapshot'
           /\ Record \subseteq Record' /\ Cmd \subseteq Cmd'
<1>1. /\ 0..now \subseteq 0..now' /\ 1..opened \subseteq 1..opened'
      /\ 0..opened \subseteq 0..opened' /\ 0..posed \subseteq 0..posed'
  BY DEF Grows
<1>2. Pane \subseteq Pane'
  BY <1>1 DEF Pane
<1>3. Snapshot \subseteq Snapshot'
  BY <1>1, <1>2 DEF Snapshot
<1>4. Record \subseteq Record'
  BY <1>1 DEF Record
<1>5. Cmd \subseteq Cmd'
  <2>1. [Remotes -> Snapshot] \subseteq [Remotes -> Snapshot']
    BY <1>3
  <2> QED
    BY <1>1, <1>2, <1>4, <2>1 DEF Cmd
<1> QED
  BY <1>2, <1>3, <1>4, <1>5

LEMMA Unchanged ==
    ASSUME TypeOK, UNCHANGED <<now, opened, posed>>
    PROVE  Grows
  BY SteerBounds DEF TypeOK, Grows

LEMMA IdleTyped ==
    ASSUME TypeOK
    PROVE  Idle \in Cmd /\ Cold \in [Remotes -> Snapshot] /\ None \in Record
<1>1. 0 \in 0..now /\ 0 \in 0..opened /\ 0 \in 0..posed
  BY SteerBounds DEF TypeOK
<1>2. None \in Record
  BY <1>1 DEF None, Record
<1>3. Cold \in [Remotes -> Snapshot]
  BY <1>1 DEF Cold, Unseen, Snapshot
<1> QED
  BY <1>1, <1>2, <1>3 DEF Idle, Cmd, PCs, Verbs

\* What the presence read makes of the cache is a cache.
LEMMA PresenceTyped ==
    ASSUME TypeOK, NEW p \in Runs
    PROVE  Presence(p) \in [Remotes -> Snapshot]
<1>1. cmd[p] \in Cmd
  BY DEF TypeOK
<1>2. ASSUME NEW h \in Remotes
      PROVE  Reconcile(cmd[p].cache[h], h, cmd[p].at) \in Snapshot
  <2>1. cmd[p].cache[h] \in Snapshot /\ cmd[p].at \in 0..now
    BY <1>1 DEF Cmd
  <2>2. Probed(h, cmd[p].at) \in Snapshot
    BY <2>1 DEF Probed, PanesOn, Snapshot, TypeOK
  <2> QED
    BY <2>1, <2>2 DEF Reconcile
<1> QED
  BY <1>2 DEF Presence

\* A step that changes one run, and at most the cache.
LEMMA RunTyped ==
    ASSUME TypeOK, Grows, NEW p \in Runs, NEW c \in Cmd',
           cmd' = [cmd EXCEPT ![p] = c]
    PROVE  cmd' \in [Runs -> Cmd']
  BY TypesGrow DEF TypeOK

LEMMA InitTyped == Init => TypeOK
<1> SUFFICES ASSUME Init PROVE TypeOK
  OBVIOUS
<1>1. now = 0 /\ opened = 0 /\ posed = 0
  BY DEF Init
<1>2. 0 \in 0..now /\ 0 \in 0..opened /\ 0 \in 0..posed
  BY <1>1
<1>3. None \in Record
  BY <1>2 DEF None, Record
<1>4. Cold \in [Remotes -> Snapshot]
  BY <1>2 DEF Cold, Unseen, Snapshot
<1>5. Idle \in Cmd
  BY <1>2, <1>3, <1>4 DEF Idle, Cmd, PCs, Verbs
<1> QED
  BY <1>1, <1>3, <1>4, <1>5, SteerBounds DEF Init, TypeOK

LEMMA EnvironmentTyped ==
    ASSUME TypeOK, Environment
    PROVE  TypeOK'
<1>1. CASE Tick
  <2>1. Grows /\ now' \in 0..MaxTime
    BY <1>1, SteerBounds DEF Tick, TypeOK, Grows, paneVars, askVars
  <2>2. panes' \in SUBSET Pane' /\ opened' \in 0..MaxPanes
    BY <1>1, <2>1, TypesGrow DEF Tick, paneVars, TypeOK
  <2>3. cache' \in [Remotes -> Snapshot'] /\ cmd' \in [Runs -> Cmd']
    BY <1>1, <2>1, TypesGrow DEF Tick, TypeOK
  <2>4. rec' \in Record' /\ posed' \in 0..MaxAsks
        /\ inbox' \in SUBSET (1..posed')
    BY <1>1, <2>1, TypesGrow DEF Tick, askVars, TypeOK
  <2> QED
    BY <1>1, <2>1, <2>2, <2>3, <2>4 DEF Tick, TypeOK
<1>2. ASSUME NEW h \in Remotes, Reach(h) PROVE TypeOK'
  BY <1>2
     DEF Reach, TypeOK, paneVars, askVars, Pane, Snapshot, Record, Cmd
<1>3. ASSUME NEW h \in Machines, NEW i \in PaneIds, NEW lane \in BOOLEAN,
             OpenPane(h, i, lane)
      PROVE  TypeOK'
  <2>1. Grows /\ opened' \in 0..MaxPanes
    BY <1>3, SteerBounds DEF OpenPane, TypeOK, Grows, askVars
  <2>2. [host |-> h, id |-> i, lane |-> lane, since |-> now,
         serial |-> opened + 1] \in Pane'
    BY <1>3, <2>1 DEF OpenPane, Pane, TypeOK, Grows
  <2>3. panes' \in SUBSET Pane'
    BY <1>3, <2>1, <2>2, TypesGrow DEF OpenPane, TypeOK
  <2>4. cache' \in [Remotes -> Snapshot'] /\ cmd' \in [Runs -> Cmd']
    BY <1>3, <2>1, TypesGrow DEF OpenPane, TypeOK
  <2>5. rec' \in Record' /\ posed' \in 0..MaxAsks
        /\ inbox' \in SUBSET (1..posed')
    BY <1>3, <2>1, TypesGrow DEF OpenPane, askVars, TypeOK
  <2> QED
    BY <1>3, <2>1, <2>3, <2>4, <2>5 DEF OpenPane, TypeOK
<1>4. ASSUME NEW q \in panes, ClosePane(q) PROVE TypeOK'
  BY <1>4 DEF ClosePane, TypeOK, askVars, Pane, Snapshot, Record, Cmd
<1>5. CASE Clear
  BY <1>5, IdleTyped
     DEF Clear, RemoveAsk, TypeOK, paneVars, Pane, Snapshot, Record, Cmd
<1> QED
  BY <1>1, <1>2, <1>3, <1>4, <1>5 DEF Environment

\* The steps of a run, and what they leave alone.
ReadsOn(p) == Found(p) \/ NoLane(p) \/ Refused(p) \/ List(p)
Ends(p)    == /\ NoLane(p) \/ Refused(p) \/ List(p)
                 \/ Focus(p) \/ Prompt(p) \/ SendFails(p)

\* A run that ends forgets what it saw and carried.
LEMMA EndsIdle ==
    ASSUME NEW p, Ends(p)
    PROVE  cmd' = [cmd EXCEPT ![p] = Idle]
  BY DEF Ends, NoLane, Refused, List, Focus, Prompt, SendFails, Finish, Become

LEMMA FoundPane ==
    ASSUME NEW p, Found(p)
    PROVE  \E q \in LaneFirst(LanesIn(p, Presence(p))) :
              /\ cmd[p].verb # "open" => LaneReaches(q)
              /\ cmd' = [cmd EXCEPT ![p] =
                    [cmd[p] EXCEPT !.pc = Then(cmd[p].verb), !.target = q,
                                   !.at = 0, !.local = {}, !.cache = Cold]]
  BY DEF Found, Become

\* A pane that counts as a lane was shown by this machine's herdr, or by
\* the snapshot of its host.
LEMMA LaneTyped ==
    ASSUME TypeOK, NEW p \in Runs,
           NEW q \in LaneFirst(LanesIn(p, Presence(p)))
    PROVE  /\ q \in Pane /\ q.lane
           /\ \/ q \in cmd[p].local
              \/ \E h \in Remotes : q \in Presence(p)[h].panes
<1>1. q \in LanesIn(p, Presence(p))
  BY DEF LaneFirst
<1>2. /\ cmd[p].local \in SUBSET Pane
      /\ \A h \in Remotes : Presence(p)[h].panes \in SUBSET Pane
  BY PresenceTyped DEF TypeOK, Cmd, Snapshot
<1> QED
  BY <1>1, <1>2 DEF LanesIn, Resolves

LEMMA SteerTyped ==
    ASSUME TypeOK, AskInv, NEW p \in Askers, Steer(p)
    PROVE  TypeOK'
<1>1. p \in Runs /\ cmd[p] \in Cmd /\ Idle \in Cmd
  BY IdleTyped DEF Runs, TypeOK
<1>2. ASSUME NEW verb \in VerbsOf[p], Look(p, verb) PROVE TypeOK'
  <2>1. Grows
    BY <1>2, Unchanged DEF Look, paneVars, askVars
  <2>2. verb \in Verbs
    BY SteerVerbs DEF Verbs
  <2>3. [Idle EXCEPT !.pc = "probe", !.verb = verb, !.at = now,
                     !.horizon = opened, !.local = PanesOn(Here),
                     !.cache = cache] \in Cmd
    <3>1. now \in 0..now /\ opened \in 0..opened
      BY <2>1 DEF Grows
    <3>2. PanesOn(Here) \in SUBSET Pane
      BY DEF TypeOK, PanesOn
    <3>3. cache \in [Remotes -> Snapshot]
      BY DEF TypeOK
    <3> QED
      BY <1>1, <2>2, <3>1, <3>2, <3>3 DEF Cmd, PCs
  <2>4. cmd' \in [Runs -> Cmd']
    BY <1>1, <1>2, <2>1, <2>3, RunTyped, TypesGrow DEF Look, Become
  <2> QED
    BY <1>2, <2>4
       DEF Look, TypeOK, paneVars, askVars, Pane, Snapshot, Record
<1>3. CASE ReadsOn(p)
  <2>1. /\ UNCHANGED <<now, up, paneVars, askVars>>
        /\ cache' = Presence(p)
    BY <1>3 DEF ReadsOn, Found, NoLane, Refused, List, Save
  <2>2. Grows
    BY <2>1, Unchanged DEF paneVars, askVars
  <2>3. cache' \in [Remotes -> Snapshot']
    BY <1>1, <2>1, <2>2, PresenceTyped, TypesGrow
  <2>4. cmd' \in [Runs -> Cmd']
    <3>1. CASE Found(p)
      <4>1. PICK q \in LaneFirst(LanesIn(p, Presence(p))) :
                cmd' = [cmd EXCEPT ![p] =
                    [cmd[p] EXCEPT !.pc = Then(cmd[p].verb), !.target = q,
                                   !.at = 0, !.local = {}, !.cache = Cold]]
        BY <3>1, FoundPane
      <4>2. q \in Pane
        BY <1>1, LaneTyped
      <4>3. Then(cmd[p].verb) \in PCs
        BY DEF Then, PCs
      <4>4. 0 \in 0..now
        BY <2>2 DEF Grows
      <4>5. [cmd[p] EXCEPT !.pc = Then(cmd[p].verb), !.target = q,
                           !.at = 0, !.local = {}, !.cache = Cold] \in Cmd
        BY <1>1, <4>2, <4>3, <4>4, IdleTyped DEF Cmd
      <4> QED
        BY <1>1, <2>2, <4>1, <4>5, RunTyped, TypesGrow
    <3>2. CASE Ends(p)
      BY <1>1, <2>2, <3>2, EndsIdle, RunTyped, TypesGrow
    <3> QED
      BY <1>3, <3>1, <3>2 DEF ReadsOn, Ends
  <2> QED
    BY <2>1, <2>3, <2>4
       DEF TypeOK, paneVars, askVars, Pane, Snapshot, Record
<1>4. CASE Focus(p) \/ SendFails(p)
  <2>1. /\ UNCHANGED <<now, up, paneVars, cache, posed, inbox>>
        /\ rec' \in {rec, None}
    BY <1>4 DEF Focus, SendFails, askVars, RemoveAsk
  <2>2. Grows
    BY <2>1, Unchanged DEF paneVars
  <2>3. cmd' \in [Runs -> Cmd']
    BY <1>1, <1>4, <2>2, EndsIdle, RunTyped, TypesGrow DEF Ends
  <2>4. rec' \in Record'
    BY <2>1, <2>2, IdleTyped, TypesGrow DEF TypeOK
  <2> QED
    BY <2>1, <2>3, <2>4 DEF TypeOK, paneVars, Pane, Snapshot
<1>5. CASE Pose(p)
  <2>1. /\ Grows /\ posed' = posed + 1 /\ posed' \in 0..MaxAsks
        /\ UNCHANGED <<now, opened>>
    BY <1>5, SteerBounds DEF Pose, TypeOK, Grows, paneVars
  <2>2. rec' \in Record'
    BY <1>5, <2>1 DEF Pose, WriteAsk, Record, Grows
  <2>3. cmd[p] \in Cmd'
    BY <1>1, <2>1, TypesGrow
  <2>4. [cmd[p] EXCEPT !.pc = "send", !.rec = rec'] \in Cmd'
    BY <2>2, <2>3 DEF Cmd, PCs
  <2>5. cmd' \in [Runs -> Cmd']
    BY <1>1, <1>5, <2>1, <2>4, RunTyped DEF Pose, Become
  <2>6. /\ panes' \in SUBSET Pane' /\ cache' \in [Remotes -> Snapshot']
        /\ inbox' \in SUBSET (1..posed')
    BY <1>5, <2>1, TypesGrow DEF Pose, paneVars, TypeOK
  <2> QED
    BY <1>5, <2>1, <2>2, <2>5, <2>6 DEF Pose, TypeOK, paneVars
<1>6. ASSUME Prompt(p) PROVE TypeOK'
  <2>1. UNCHANGED <<now, up, paneVars, cache, rec, posed>>
    BY <1>6 DEF Prompt
  <2>2. Grows
    BY <2>1, Unchanged DEF paneVars
  <2>3. cmd' \in [Runs -> Cmd']
    BY <1>1, <1>6, <2>2, EndsIdle, RunTyped, TypesGrow DEF Ends
  <2>4. inbox' \in SUBSET (1..posed)
    <3>1. cmd[p].rec.ask \in 0..posed
      BY <1>1 DEF Cmd, Record
    <3>2. cmd[p].verb = "ask" => cmd[p].rec.ask # 0
      BY <1>6 DEF AskInv, Prompt, At
    <3>3. posed \in Nat
      BY <2>2 DEF Grows
    <3>4. cmd[p].verb = "ask" => cmd[p].rec.ask \in 1..posed
      BY <3>1, <3>2, <3>3
    <3>5. /\ inbox \in SUBSET (1..posed)
          /\ inbox' = IF cmd[p].verb = "ask"
                      THEN inbox \cup {cmd[p].rec.ask} ELSE inbox
      BY <1>6 DEF Prompt, TypeOK
    <3> QED
      BY <3>4, <3>5
  <2> QED
    BY <2>1, <2>3, <2>4 DEF TypeOK, paneVars, Pane, Snapshot, Record
<1> QED
  BY <1>2, <1>3, <1>4, <1>5, <1>6 DEF Steer, ReadsOn

LEMMA ReplyTyped ==
    ASSUME TypeOK, NEW r \in Repliers, Reply(r)
    PROVE  TypeOK'
<1>1. r \in Runs /\ cmd[r] \in Cmd /\ Idle \in Cmd
  BY IdleTyped DEF Runs, TypeOK
<1>2. CASE ReplyReads(r)
  <2>1. Grows
    BY <1>2, Unchanged DEF ReplyReads, paneVars, askVars
  <2>2. [Idle EXCEPT !.pc = "answer", !.verb = "reply", !.rec = rec] \in Cmd
    BY <1>1 DEF TypeOK, Cmd, PCs, Verbs
  <2>3. cmd' \in [Runs -> Cmd']
    BY <1>1, <1>2, <2>1, <2>2, RunTyped, TypesGrow DEF ReplyReads, Become
  <2> QED
    BY <1>2, <2>3
       DEF ReplyReads, TypeOK, paneVars, askVars, Pane, Snapshot, Record
<1>3. CASE Answer(r)
  <2>1. Grows
    BY <1>3, Unchanged DEF Answer, paneVars
  <2>2. rec' \in Record
    BY <1>1, <1>3 DEF Answer, WriteAsk, Cmd, Record
  <2>3. cmd' \in [Runs -> Cmd']
    BY <1>1, <1>3, <2>1, RunTyped, TypesGrow DEF Answer, Finish, Become
  <2> QED
    BY <1>3, <2>2, <2>3
       DEF Answer, TypeOK, paneVars, Pane, Snapshot, Record
<1> QED
  BY <1>2, <1>3 DEF Reply

-----------------------------------------------------------------------------
(* Panes come and go; what was seen of them stays true.                    *)

\* The panes after a step are panes that were there, or one opened by it,
\* with a free id.
LEMMA PanesMove ==
    ASSUME TypeOK, PanesInv, Next
    PROVE  /\ \A q \in panes' \ panes :
                 /\ q.since = now /\ q.serial = opened + 1
                 /\ \A r \in panes' : r.host = q.host /\ r.id = q.id => r = q
           /\ PanesInv'
<1>1. CASE panes' \subseteq panes
  BY <1>1 DEF PanesInv
<1>2. ASSUME NEW h \in Machines, NEW i \in PaneIds, NEW lane \in BOOLEAN,
             OpenPane(h, i, lane)
      PROVE  /\ \A q \in panes' \ panes :
                   /\ q.since = now /\ q.serial = opened + 1
                   /\ \A r \in panes' :
                         r.host = q.host /\ r.id = q.id => r = q
             /\ PanesInv'
  <2> DEFINE n == [host |-> h, id |-> i, lane |-> lane, since |-> now,
                   serial |-> opened + 1]
  <2>1. panes' = panes \cup {n}
    BY <1>2 DEF OpenPane
  <2>2. \A r \in panes : ~(r.host = n.host /\ r.id = n.id)
    BY <1>2 DEF OpenPane
  <2>3. n.since = now /\ n.serial = opened + 1
    OBVIOUS
  <2> HIDE DEF n
  <2> QED
    BY <2>1, <2>2, <2>3 DEF PanesInv
<1>3. ASSUME NEW p \in Askers, Steer(p) PROVE panes' = panes
  BY <1>3
     DEF Steer, Look, Found, NoLane, Refused, List, Focus, Pose, Prompt,
         SendFails, paneVars
<1>4. ASSUME NEW r \in Repliers, Reply(r) PROVE panes' = panes
  BY <1>4 DEF Reply, ReplyReads, Answer, paneVars
<1> QED
  BY <1>1, <1>2, <1>3, <1>4
     DEF Next, Environment, Tick, Reach, ClosePane, Clear, paneVars

\* A faithful snapshot stays faithful: what opens now is no older than it.
LEMMA FaithfulStays ==
    ASSUME TypeOK, PanesInv, Next, NEW h \in Remotes, NEW s \in Snapshot,
           Faithful(panes, h, s)
    PROVE  Faithful(panes', h, s)
<1>1. \A q \in panes' \ panes : q.since = now
  BY PanesMove
<1>2. s.at \in 0..now /\ now \in Nat
  BY SteerBounds DEF Snapshot, TypeOK
<1>3. \A q \in panes' \ panes : q.since >= s.at
  BY <1>1, <1>2
<1> QED
  BY <1>3 DEF Faithful

\* So does what a run has seen of this machine.
LEMMA LookedStays ==
    ASSUME TypeOK, PanesInv, Next, NEW c \in Cmd, Looked(panes, c)
    PROVE  Looked(panes', c)
<1>1. \A q \in panes' \ panes : q.since = now /\ q.serial = opened + 1
  BY PanesMove
<1>2. /\ c.at \in 0..now /\ now \in Nat
      /\ c.horizon \in 0..opened /\ opened \in Nat
  BY SteerBounds DEF Cmd, TypeOK
<1>3. \A q \in panes' \ panes : q.since >= c.at /\ q.serial > c.horizon
  BY <1>1, <1>2
<1> QED
  BY <1>3 DEF Looked

LEMMA AimedStays ==
    ASSUME TypeOK, PanesInv, Next, NEW c \in Cmd, Aimed(panes, c)
    PROVE  Aimed(panes', c)
<1>1. \A q \in panes' \ panes : q.serial = opened + 1
  BY PanesMove
<1>2. c.horizon \in 0..opened /\ opened \in Nat
  BY SteerBounds DEF Cmd, TypeOK
<1>3. \A q \in panes' \ panes : q.serial > c.horizon
  BY <1>1, <1>2
<1> QED
  BY <1>3 DEF Aimed

-----------------------------------------------------------------------------
(* What a step does to a run.                                              *)

\* A run's own record changes only by its own steps, to one of these.
LEMMA CmdMoves ==
    ASSUME TypeOK, Next, NEW p \in Askers
    PROVE  \/ cmd'[p] = cmd[p]
           \/ cmd'[p] = Idle
           \/ \E verb \in VerbsOf[p] : Look(p, verb)
           \/ Found(p)
           \/ Pose(p)
<1>1. cmd \in [Runs -> Cmd] /\ p \in Runs
  BY DEF TypeOK, Runs
<1>2. ASSUME Environment PROVE cmd' = cmd
  BY <1>2 DEF Environment, Tick, Reach, OpenPane, ClosePane, Clear
<1>3. ASSUME NEW r \in Askers, Steer(r), r # p PROVE cmd'[p] = cmd[p]
  BY <1>1, <1>3
     DEF Steer, Look, Found, NoLane, Refused, List, Focus, Pose, Prompt,
         SendFails, Finish, Become
<1>4. ASSUME NEW r \in Repliers, Reply(r) PROVE cmd'[p] = cmd[p]
  BY <1>1, <1>4, SteerHosts DEF Reply, ReplyReads, Answer, Finish, Become
<1>5. ASSUME Ends(p) PROVE cmd'[p] = Idle
  BY <1>1, <1>5, EndsIdle
<1> QED
  BY <1>2, <1>3, <1>4, <1>5 DEF Next, Steer, Ends

\* What the five steps leave in it.
LEMMA LookLeaves ==
    ASSUME TypeOK, NEW p \in Askers, NEW verb \in VerbsOf[p], Look(p, verb)
    PROVE  /\ cmd'[p].pc = "probe" /\ cmd'[p].verb = verb
           /\ cmd'[p].at = now /\ cmd'[p].horizon = opened
           /\ cmd'[p].local = PanesOn(Here) /\ cmd'[p].cache = cache
           /\ cmd'[p].rec = None
           /\ panes' = panes /\ cache' = cache
  BY DEF TypeOK, Runs, Look, Become, Idle, paneVars

LEMMA FoundLeaves ==
    ASSUME TypeOK, NEW p \in Askers, Found(p)
    PROVE  \E q \in LaneFirst(LanesIn(p, Presence(p))) :
              /\ cmd[p].verb # "open" => LaneReaches(q)
              /\ cmd'[p].target = q /\ cmd'[p].pc = Then(cmd[p].verb)
              /\ cmd'[p].verb = cmd[p].verb /\ cmd'[p].cache = Cold
              /\ cmd'[p].horizon = cmd[p].horizon
              /\ cmd'[p].rec = cmd[p].rec
              /\ panes' = panes /\ cmd[p].pc = "probe"
<1>1. cmd \in [Runs -> Cmd] /\ p \in Runs
  BY DEF TypeOK, Runs
<1>2. PICK q \in LaneFirst(LanesIn(p, Presence(p))) :
          /\ cmd[p].verb # "open" => LaneReaches(q)
          /\ cmd' = [cmd EXCEPT ![p] =
                [cmd[p] EXCEPT !.pc = Then(cmd[p].verb), !.target = q,
                               !.at = 0, !.local = {}, !.cache = Cold]]
  BY FoundPane
<1>3. cmd'[p] = [cmd[p] EXCEPT !.pc = Then(cmd[p].verb), !.target = q,
                               !.at = 0, !.local = {}, !.cache = Cold]
  BY <1>1, <1>2
<1>4. cmd[p] \in Cmd
  BY <1>1
<1>5. /\ cmd'[p].target = q /\ cmd'[p].pc = Then(cmd[p].verb)
      /\ cmd'[p].verb = cmd[p].verb /\ cmd'[p].cache = Cold
      /\ cmd'[p].horizon = cmd[p].horizon /\ cmd'[p].rec = cmd[p].rec
  BY <1>3, <1>4 DEF Cmd
<1>6. panes' = panes /\ cmd[p].pc = "probe"
  BY DEF Found, At, paneVars
<1> QED
  BY <1>2, <1>5, <1>6

LEMMA PoseLeaves ==
    ASSUME TypeOK, NEW p \in Askers, Pose(p)
    PROVE  /\ cmd'[p].pc = "send" /\ cmd'[p].verb = cmd[p].verb
           /\ cmd'[p].rec = rec' /\ cmd'[p].target = cmd[p].target
           /\ cmd'[p].horizon = cmd[p].horizon
           /\ cmd'[p].cache = cmd[p].cache
           /\ cmd[p].pc = "pose" /\ panes' = panes /\ cache' = cache
           /\ rec' = [ask |-> posed + 1, answer |-> {}]
<1>1. cmd \in [Runs -> Cmd] /\ p \in Runs
  BY DEF TypeOK, Runs
<1>2. cmd'[p] = [cmd[p] EXCEPT !.pc = "send", !.rec = rec']
  BY <1>1 DEF Pose, Become
<1>3. cmd[p] \in Cmd
  BY <1>1
<1> QED
  BY <1>2, <1>3 DEF Cmd, Pose, At, WriteAsk, paneVars

-----------------------------------------------------------------------------
(* Each part of the invariant is kept.                                     *)

LEMMA ColdFaithful ==
    ASSUME NEW h \in Remotes, NEW there
    PROVE  Faithful(there, h, Cold[h]) /\ Faithful(there, h, Idle.cache[h])
  BY DEF Faithful, Cold, Unseen, Idle

\* A probe shows what is there; anything else it keeps was faithful.
LEMMA PresenceFaithful ==
    ASSUME TypeOK, CacheInv, NEW p \in Askers, NEW h \in Remotes
    PROVE  Faithful(panes, h, Presence(p)[h])
<1>1. Faithful(panes, h, cmd[p].cache[h])
  BY DEF CacheInv
<1>2. Faithful(panes, h, Probed(h, cmd[p].at))
  BY DEF Faithful, Probed, PanesOn
<1> QED
  BY <1>1, <1>2 DEF Presence, Reconcile

\* The cache file is replaced by a run's reading, or not at all.
LEMMA CacheMoves ==
    ASSUME Next
    PROVE  cache' = cache \/ \E p \in Askers : cache' = Presence(p)
  BY DEF Next, Environment, Tick, Reach, OpenPane, ClosePane, Clear,
         Steer, Look, Found, NoLane, Refused, List, Focus, Pose, Prompt,
         SendFails, Save, Reply, ReplyReads, Answer

LEMMA CacheStep ==
    ASSUME TypeOK, PanesInv, CacheInv, Next
    PROVE  CacheInv'
<1> SUFFICES ASSUME NEW h \in Remotes
             PROVE  /\ Faithful(panes', h, cache'[h])
                    /\ \A p \in Askers :
                          Faithful(panes', h, cmd'[p].cache[h])
  BY DEF CacheInv
<1>1. Faithful(panes', h, cache[h])
  <2>1. cache[h] \in Snapshot /\ Faithful(panes, h, cache[h])
    BY DEF TypeOK, CacheInv
  <2> QED
    BY <2>1, FaithfulStays
<1>2. ASSUME NEW p \in Askers
      PROVE  Faithful(panes', h, cmd[p].cache[h])
  <2>1. cmd[p] \in Cmd
    BY DEF TypeOK, Runs
  <2>2. cmd[p].cache[h] \in Snapshot /\ Faithful(panes, h, cmd[p].cache[h])
    BY <2>1 DEF Cmd, CacheInv
  <2> QED
    BY <2>2, FaithfulStays
<1>3. ASSUME NEW p \in Askers
      PROVE  Faithful(panes', h, Presence(p)[h])
  <2>1. Presence(p)[h] \in Snapshot
    BY PresenceTyped DEF Runs
  <2> QED
    BY <2>1, PresenceFaithful, FaithfulStays
<1>4. Faithful(panes', h, cache'[h])
  BY <1>1, <1>3, CacheMoves
<1>5. ASSUME NEW p \in Askers
      PROVE  Faithful(panes', h, cmd'[p].cache[h])
  <2>1. CASE cmd'[p] = cmd[p]
    BY <1>2, <2>1
  <2>2. CASE cmd'[p] = Idle
    BY <2>2, ColdFaithful
  <2>3. ASSUME NEW verb \in VerbsOf[p], Look(p, verb)
        PROVE  Faithful(panes', h, cmd'[p].cache[h])
    BY <1>1, <2>3, LookLeaves
  <2>4. CASE Found(p)
    BY <2>4, FoundLeaves, ColdFaithful
  <2>5. CASE Pose(p)
    BY <1>2, <2>5, PoseLeaves
  <2> QED
    BY <2>1, <2>2, <2>3, <2>4, <2>5, CmdMoves
<1> QED
  BY <1>4, <1>5

LEMMA LookStep ==
    ASSUME TypeOK, PanesInv, LookInv, Next
    PROVE  LookInv'
<1> SUFFICES ASSUME NEW p \in Askers, cmd'[p].pc = "probe"
             PROVE  Looked(panes', cmd'[p])
  BY DEF LookInv, At
<1>1. CASE cmd'[p] = cmd[p]
  <2>1. cmd[p] \in Cmd /\ Looked(panes, cmd[p])
    BY <1>1 DEF TypeOK, Runs, LookInv, At
  <2> QED
    BY <1>1, <2>1, LookedStays
<1>2. CASE cmd'[p] = Idle
  BY <1>2 DEF Idle
<1>3. ASSUME NEW verb \in VerbsOf[p], Look(p, verb)
      PROVE  Looked(panes', cmd'[p])
  <2>1. cmd'[p].local = PanesOn(Here) /\ panes' = panes
    BY <1>3, LookLeaves
  <2> QED
    BY <2>1 DEF Looked, PanesOn, PanesInv
<1>4. CASE Found(p)
  BY <1>4, FoundLeaves DEF Then
<1>5. CASE Pose(p)
  BY <1>5, PoseLeaves
<1> QED
  BY <1>1, <1>2, <1>3, <1>4, <1>5, CmdMoves

\* The lane a prompt goes to is on this machine, so it was seen there, and
\* no other pane that was seen there has its id.
LEMMA FoundIsAimed ==
    ASSUME TypeOK, CacheInv, LookInv, NEW p \in Askers, At(p, "probe"),
           NEW q \in LaneFirst(LanesIn(p, Presence(p))), LaneReaches(q),
           NEW r \in panes, r.host = Here, r.id = q.id
    PROVE  r.lane \/ r.serial > cmd[p].horizon
<1>1. Looked(panes, cmd[p])
  BY DEF LookInv
<1>2. q.host = Here /\ q.lane
  BY LaneTyped DEF LaneReaches, Runs
<1>3. q \in cmd[p].local
  <2>1. ASSUME NEW h \in Remotes, q \in Presence(p)[h].panes
        PROVE  FALSE
    <3>1. q.host = h
      BY <2>1, PresenceFaithful DEF Faithful
    <3> QED
      BY <1>2, <3>1, SteerHosts
  <2> QED
    BY <2>1, LaneTyped DEF Runs
<1> QED
  BY <1>1, <1>2, <1>3 DEF Looked

LEMMA AimStep ==
    ASSUME TypeOK, PanesInv, CacheInv, LookInv, AimInv, Next
    PROVE  AimInv'
<1> SUFFICES ASSUME NEW p \in Askers,
                    cmd'[p].pc = "pose" \/ cmd'[p].pc = "send"
             PROVE  Aimed(panes', cmd'[p])
  BY DEF AimInv, At
<1>1. CASE cmd'[p] = cmd[p]
  <2>1. cmd[p] \in Cmd /\ Aimed(panes, cmd[p])
    BY <1>1 DEF TypeOK, Runs, AimInv, At
  <2> QED
    BY <1>1, <2>1, AimedStays
<1>2. CASE cmd'[p] = Idle
  BY <1>2 DEF Idle
<1>3. ASSUME NEW verb \in VerbsOf[p], Look(p, verb)
      PROVE  Aimed(panes', cmd'[p])
  BY <1>3, LookLeaves
<1>4. CASE Found(p)
  <2>1. PICK q \in LaneFirst(LanesIn(p, Presence(p))) :
            /\ cmd[p].verb # "open" => LaneReaches(q)
            /\ cmd'[p].target = q /\ cmd'[p].pc = Then(cmd[p].verb)
            /\ cmd'[p].horizon = cmd[p].horizon
            /\ panes' = panes /\ cmd[p].pc = "probe"
    BY <1>4, FoundLeaves
  <2>2. LaneReaches(q)
    BY <2>1 DEF Then
  <2>3. At(p, "probe")
    BY <2>1 DEF At
  <2> QED
    BY <2>1, <2>2, <2>3, FoundIsAimed DEF Aimed
<1>5. CASE Pose(p)
  <2>1. Aimed(panes, cmd[p])
    BY <1>5, PoseLeaves DEF AimInv, At
  <2> QED
    BY <1>5, <2>1, PoseLeaves DEF Aimed
<1> QED
  BY <1>1, <1>2, <1>3, <1>4, <1>5, CmdMoves

LEMMA AskStep ==
    ASSUME TypeOK, AskInv, Next
    PROVE  AskInv'
<1> SUFFICES ASSUME NEW p \in Askers
             PROVE  /\ cmd'[p].rec.ask # 0
                          <=> cmd'[p].pc = "send" /\ cmd'[p].verb = "ask"
                    /\ cmd'[p].pc = "pose" => cmd'[p].verb = "ask"
  BY DEF AskInv, At
<1>1. CASE cmd'[p] = cmd[p]
  BY <1>1 DEF AskInv, At
<1>2. CASE cmd'[p] = Idle
  BY <1>2 DEF Idle, None
<1>3. ASSUME NEW verb \in VerbsOf[p], Look(p, verb)
      PROVE  cmd'[p].rec.ask = 0 /\ cmd'[p].pc = "probe"
  BY <1>3, LookLeaves DEF None
<1>4. CASE Found(p)
  <2>1. /\ cmd'[p].pc = Then(cmd[p].verb) /\ cmd'[p].verb = cmd[p].verb
        /\ cmd'[p].rec = cmd[p].rec /\ cmd[p].pc = "probe"
    BY <1>4, FoundLeaves
  <2>2. cmd[p].rec.ask = 0
    BY <2>1 DEF AskInv, At
  <2> QED
    BY <2>1, <2>2 DEF Then
<1>5. CASE Pose(p)
  <2>1. posed + 1 # 0
    BY SteerBounds DEF TypeOK
  <2>2. /\ cmd'[p].pc = "send" /\ cmd'[p].verb = cmd[p].verb
        /\ cmd'[p].rec = [ask |-> posed + 1, answer |-> {}]
        /\ cmd[p].pc = "pose"
    BY <1>5, PoseLeaves
  <2>3. cmd[p].verb = "ask"
    BY <2>2 DEF AskInv, At
  <2> QED
    BY <2>1, <2>2, <2>3
<1> QED
  BY <1>1, <1>2, <1>3, <1>4, <1>5, CmdMoves

-----------------------------------------------------------------------------
(* The ask.                                                                *)

\* A run that is about to send goes on holding its ask until it does.
LEMMA OthersKeep ==
    ASSUME TypeOK, NEW p \in Askers,
           NEW r \in Askers, Steer(r), r # p
    PROVE  cmd'[p] = cmd[p]
<1>1. cmd \in [Runs -> Cmd] /\ p \in Runs
  BY DEF TypeOK, Runs
<1> QED
  BY <1>1
     DEF Steer, Look, Found, NoLane, Refused, List, Focus, Pose, Prompt,
         SendFails, Finish, Become

LEMMA OwedStep ==
    ASSUME TypeOK, AskInv, OwedIsAsked, Next
    PROVE  OwedIsAsked'
<1> SUFFICES ASSUME Pending(rec')
             PROVE  \/ rec'.ask \in inbox'
                    \/ \E p \in Askers : /\ cmd'[p].pc = "send"
                                         /\ cmd'[p].rec.ask = rec'.ask
  BY DEF OwedIsAsked, At, Pending
<1>1. Pending(rec) => \/ rec.ask \in inbox
                      \/ \E p \in Askers : /\ cmd[p].pc = "send"
                                           /\ cmd[p].rec.ask = rec.ask
  BY DEF OwedIsAsked, At
<1>2. rec' # None
  BY DEF Pending, None
<1>3. CASE Environment
  <2>1. UNCHANGED <<rec, inbox, cmd>>
    BY <1>2, <1>3
       DEF Environment, Tick, Reach, OpenPane, ClosePane, Clear, RemoveAsk,
           askVars
  <2> QED
    BY <1>1, <2>1
<1>4. ASSUME NEW r \in Repliers, Reply(r)
      PROVE  UNCHANGED <<rec, inbox>> /\ \A p \in Askers : cmd'[p] = cmd[p]
  <2>1. ReplyReads(r)
    <3>1. ASSUME Answer(r) PROVE rec'.answer = {r}
      <4>1. cmd[r] \in Cmd
        BY DEF TypeOK, Runs
      <4> QED
        BY <3>1, <4>1 DEF Answer, WriteAsk, Cmd, Record
    <3> QED
      BY <1>4, <3>1 DEF Reply, Pending
  <2>2. r \in Runs /\ \A p \in Askers : p \in Runs /\ p # r
    BY SteerHosts DEF Runs
  <2>3. cmd \in [Runs -> Cmd]
    BY DEF TypeOK
  <2> QED
    BY <2>1, <2>2, <2>3 DEF ReplyReads, Become, askVars
<1>5. ASSUME NEW r \in Askers, Steer(r)
      PROVE  \/ rec'.ask \in inbox'
             \/ \E p \in Askers : /\ cmd'[p].pc = "send"
                                  /\ cmd'[p].rec.ask = rec'.ask
  <2>1. CASE Pose(r)
    BY <2>1, PoseLeaves
  <2>2. CASE SendFails(r)
    <3>1. cmd[r].verb # "ask" /\ rec' = rec /\ inbox' = inbox
          /\ cmd[r].pc = "send"
      BY <1>2, <2>2 DEF SendFails, RemoveAsk, At
    <3>2. cmd[r].rec.ask = 0
      BY <3>1 DEF AskInv, At
    <3> QED
      BY <1>1, <1>5, <3>1, <3>2, OthersKeep DEF Pending
  <2>3. CASE Prompt(r)
    <3>1. /\ rec' = rec /\ inbox \subseteq inbox'
          /\ cmd[r].verb = "ask" => cmd[r].rec.ask \in inbox'
      BY <2>3 DEF Prompt
    <3>2. cmd[r].rec.ask # 0 => cmd[r].verb = "ask"
      BY DEF AskInv
    <3> QED
      BY <1>1, <1>5, <3>1, <3>2, OthersKeep DEF Pending
  <2>4. CASE ~Pose(r) /\ ~SendFails(r) /\ ~Prompt(r)
    <3>1. rec' = rec /\ inbox' = inbox /\ cmd[r].pc # "send"
      BY <1>5, <2>4
         DEF Steer, Look, Found, NoLane, Refused, List, Focus, At, askVars
    <3> QED
      BY <1>1, <1>5, <3>1, OthersKeep
  <2> QED
    BY <2>1, <2>2, <2>3, <2>4
<1> QED
  BY <1>1, <1>3, <1>4, <1>5 DEF Next

-----------------------------------------------------------------------------
(* The theorems.                                                           *)

\* The invariant holds of every state Steer reaches.
THEOREM Invariance == Spec => []IInv
<1>1. Init => IInv
  <2> SUFFICES ASSUME Init PROVE IInv
    OBVIOUS
  <2>1. TypeOK
    BY InitTyped
  <2>2. /\ panes = {} /\ cache = Cold /\ rec = None
        /\ \A p \in Askers : cmd[p] = Idle
    BY DEF Init, Runs
  <2>3. CacheInv
    BY <2>2, ColdFaithful DEF CacheInv
  <2>4. PanesInv /\ LookInv /\ AimInv /\ AskInv
    BY <2>2 DEF PanesInv, LookInv, AimInv, AskInv, At, Idle, None
  <2>5. OwedIsAsked
    BY <2>2 DEF OwedIsAsked, Pending, None
  <2> QED
    BY <2>1, <2>3, <2>4, <2>5 DEF IInv
<1>2. IInv /\ [Next]_vars => IInv'
  <2>1. ASSUME IInv, Next PROVE IInv'
    <3> USE <2>1
    <3>1. TypeOK'
      BY EnvironmentTyped, SteerTyped, ReplyTyped DEF IInv, Next
    <3>2. PanesInv' /\ CacheInv' /\ LookInv' /\ AimInv'
      BY PanesMove, CacheStep, LookStep, AimStep DEF IInv
    <3>3. AskInv' /\ OwedIsAsked'
      BY AskStep, OwedStep DEF IInv
    <3> QED
      BY <3>1, <3>2, <3>3 DEF IInv
  <2>2. ASSUME IInv, UNCHANGED vars PROVE IInv'
    <3>1. /\ UNCHANGED <<now, up, panes, opened, cache, rec, posed, inbox>>
          /\ UNCHANGED cmd
      BY <2>2 DEF vars
    <3>2. TypeOK'
      BY <2>2, <3>1 DEF IInv, TypeOK, Pane, Snapshot, Record, Cmd
    <3>3. PanesInv' /\ CacheInv' /\ LookInv' /\ AimInv'
      BY <2>2, <3>1 DEF IInv, PanesInv, CacheInv, LookInv, AimInv, At
    <3>4. AskInv' /\ OwedIsAsked'
      BY <2>2, <3>1 DEF IInv, AskInv, OwedIsAsked, At, Pending
    <3> QED
      BY <3>2, <3>3, <3>4 DEF IInv
  <2> QED
    BY <2>1, <2>2
<1> QED
  BY <1>1, <1>2, PTL DEF Spec

\* Every variable keeps its type, and nothing is from the future.
THEOREM TypeCorrect == Spec => []TypeOK
<1>1. IInv => TypeOK
  BY DEF IInv
<1> QED
  BY <1>1, Invariance, PTL

\* promptMessage: a pending ask has reached a pane, or its run is about to
\* send it.
THEOREM OwedOnlyWhenAsked == Spec => []OwedIsAsked
<1>1. IInv => OwedIsAsked
  BY DEF IInv
<1> QED
  BY <1>1, Invariance, PTL

\* laneReaches: the pane that gets the text is the plan's lane, unless it
\* was opened after the run looked.
THEOREM PromptsReachTheLane == Spec => PromptReachesTheLane
<1>1. ASSUME IInv, NEW p \in Askers, Prompt(p),
             NEW q \in PaneAt(cmd[p].target.id)
      PROVE  q.lane \/ q.serial > cmd[p].horizon
  <2>1. Aimed(panes, cmd[p])
    BY <1>1 DEF IInv, AimInv, Prompt
  <2> QED
    BY <2>1 DEF Aimed, PaneAt, PanesOn
<1> DEFINE Reaches ==
        \A p \in Askers :
            Prompt(p) => \A q \in PaneAt(cmd[p].target.id) :
                            q.lane \/ q.serial > cmd[p].horizon
<1>2. IInv => [Reaches]_vars
  BY <1>1
<1>3. Spec => [][Reaches]_vars
  BY <1>2, Invariance, PTL
<1> QED
  BY <1>3 DEF PromptReachesTheLane

\* A reading served for a reachable host is younger than the TTL.
LEMMA ServedIsFresh ==
    ASSUME TypeOK, NEW p \in Askers, NEW h \in Remotes \cap up
    PROVE  Presence(p)[h].at > cmd[p].at - TTL
<1>1. cmd[p] \in Cmd
  BY DEF TypeOK, Runs
<1>2. cmd[p].at \in 0..now /\ cmd[p].cache[h].at \in 0..now /\ now \in Nat
  BY <1>1, SteerBounds DEF Cmd, Snapshot, TypeOK
<1>3. CASE Fresh(cmd[p].cache[h], cmd[p].at)
  BY <1>2, <1>3, SteerBounds DEF Fresh, Presence, Reconcile
<1>4. CASE ~Fresh(cmd[p].cache[h], cmd[p].at)
  <2>1. Presence(p)[h].at = cmd[p].at
    BY <1>4 DEF Presence, Reconcile, Probed
  <2> QED
    BY <1>2, <2>1, SteerBounds
<1> QED
  BY <1>3, <1>4

\* fleetPresence: "no live lane" is never said over a lane that was there,
\* within reach, a TTL before the run looked.
THEOREM OverlookedWhileFresh == Spec => OverlookedOnlyWhileFresh
<1>1. ASSUME IInv, NEW p \in Askers, NoLane(p), NEW q \in panes,
             q.lane, q.host \in up \cup {Here}
      PROVE  q.since > cmd[p].at - TTL
  <2>1. /\ TypeOK /\ CacheInv /\ Looked(panes, cmd[p])
        /\ cmd[p] \in Cmd /\ q \in Pane
    BY <1>1 DEF IInv, LookInv, NoLane, TypeOK, Runs
  <2>2. /\ cmd[p].at \in 0..now /\ q.since \in 0..now /\ now \in Nat
    BY <2>1, SteerBounds DEF Cmd, Pane, TypeOK
  <2>3. /\ q \notin cmd[p].local
        /\ \A h \in Remotes : q \notin Presence(p)[h].panes
    BY <1>1 DEF NoLane, LanesIn, Resolves
  <2>4. CASE q.host = Here
    <3>1. q.since >= cmd[p].at
      BY <2>1, <2>3, <2>4 DEF Looked
    <3> QED
      BY <2>2, <3>1, SteerBounds
  <2>5. CASE q.host \in up
    <3>1. q.host \in Remotes \cap up
      BY <2>1, <2>5 DEF TypeOK
    <3> DEFINE h == q.host
    <3>2. Presence(p)[h].seen
      BY <1>1, <3>1 DEF NoLane, PresenceUnknown, Unread
    <3>3. q.since >= Presence(p)[h].at
      BY <2>1, <2>3, <3>1, <3>2, PresenceFaithful DEF Faithful
    <3>4. Presence(p)[h] \in Snapshot
      BY <2>1, <3>1, PresenceTyped DEF Runs
    <3>5. Presence(p)[h].at \in 0..now
      BY <3>4 DEF Snapshot
    <3>6. Presence(p)[h].at > cmd[p].at - TTL
      BY <2>1, <3>1, ServedIsFresh
    <3> HIDE DEF h
    <3> QED
      BY <2>2, <3>3, <3>5, <3>6, SteerBounds
  <2> QED
    BY <1>1, <2>4, <2>5
<1> DEFINE Overlooks ==
        \A p \in Askers :
            NoLane(p) => \A q \in panes :
                q.lane /\ q.host \in up \cup {Here} =>
                    q.since > cmd[p].at - TTL
<1>2. IInv => [Overlooks]_vars
  BY <1>1
<1>3. Spec => [][Overlooks]_vars
  BY <1>2, Invariance, PTL
<1> QED
  BY <1>3 DEF OverlookedOnlyWhileFresh
=============================================================================

------------------------------- MODULE Steer -------------------------------
(***************************************************************************)
(* Steering a plan's lane: the presence read behind open, nudge, message   *)
(* and who, and the ask that message --ask poses and reply answers         *)
(* (cmd/frit/dispatch.go, cmd/frit/reply.go, internal/presence,            *)
(* internal/ask), for ONE plan.                                            *)
(*                                                                         *)
(* herdr knows the panes of its own machine; the other machines of the     *)
(* roster are read over ssh, through a cache file that every run of frit   *)
(* loads, and replaces whole.  A pane id is unique on its own machine      *)
(* only.  The ask is one file in the lane's clone, read and replaced by    *)
(* everybody with no lock.                                                 *)
(* A run that is killed is one that takes no further step.                 *)
(***************************************************************************)
EXTENDS Integers, FiniteSets

CONSTANTS
    Remotes,   \* the configured hosts, read over ssh
    PaneIds,   \* pane ids, the same on every machine
    Askers,    \* runs of open, nudge, message and who on this machine
    VerbsOf,   \* bound: the verbs each of them may run
    Repliers,  \* runs of reply in the lane
    TTL,       \* how long a host's snapshot is served without a probe
    MaxTime,   \* bound: the clock
    MaxPanes,  \* bound: panes ever opened
    MaxAsks    \* bound: asks ever posed

Here == "here"

ASSUME SteerHosts  == Here \notin Remotes /\ Askers \cap Repliers = {}
ASSUME SteerVerbs  ==
    VerbsOf \in [Askers -> SUBSET {"open", "prompt", "ask", "who"}]
ASSUME SteerBounds == /\ TTL \in Nat \ {0} /\ MaxTime \in Nat
                      /\ MaxPanes \in Nat /\ MaxAsks \in Nat

VARIABLES
    now,     \* the clock
    up,      \* the hosts ssh reaches
    panes,   \* per machine: the panes with an agent in them
    opened,  \* how many panes were ever opened
    cache,   \* presence.json: per host its last snapshot
    rec,     \* the plan's ask record
    posed,   \* how many asks were ever posed
    inbox,   \* asks that reached a pane
    cmd      \* per run: what it is doing

vars == <<now, up, panes, opened, cache, rec, posed, inbox, cmd>>

paneVars == <<panes, opened>>
askVars  == <<rec, posed, inbox>>

-----------------------------------------------------------------------------
Machines == Remotes \cup {Here}
Runs     == Askers \cup Repliers

\* A pane: its machine and id, whether its worktree is on one of the
\* plan's hold branches in the plan's own repository, when it was opened.
Pane == [host : Machines, id : PaneIds, lane : BOOLEAN,
         since : 0..now, serial : 1..opened]

NoPane == [host |-> Here, id |-> CHOOSE i \in PaneIds : TRUE, lane |-> FALSE,
           since |-> 0, serial |-> 0]

Snapshot == [seen : BOOLEAN, panes : SUBSET Pane, at : 0..now]
Unseen   == [seen |-> FALSE, panes |-> {}, at |-> 0]

Record == [ask : 0..posed, answer : SUBSET Repliers]
None   == [ask |-> 0, answer |-> {}]

Pending(r) == r.ask # 0 /\ r.answer = {}

PCs   == {"idle", "probe", "focus", "pose", "send", "answer"}
Verbs == {"none", "open", "prompt", "ask", "who", "reply"}

Cmd == [pc : PCs, verb : Verbs, at : 0..now, horizon : 0..opened,
        local : SUBSET Pane, cache : [Remotes -> Snapshot],
        target : Pane \cup {NoPane}, rec : Record]

Cold == [h \in Remotes |-> Unseen]
Idle == [pc |-> "idle", verb |-> "none", at |-> 0, horizon |-> 0,
         local |-> {}, cache |-> Cold, target |-> NoPane, rec |-> None]

At(p, pc)    == cmd[p].pc = pc
Become(p, c) == cmd' = [cmd EXCEPT ![p] = c]
Finish(p)    == Become(p, Idle)

PanesOn(h) == {q \in panes : q.host = h}

\* The types, and that nothing is from the future: no snapshot or look
\* later than the clock, no pane or ask that was never opened or posed.
TypeOK ==
    /\ now \in 0..MaxTime
    /\ up \in SUBSET Remotes
    /\ panes \in SUBSET Pane
    /\ opened \in 0..MaxPanes
    /\ cache \in [Remotes -> Snapshot]
    /\ rec \in Record
    /\ posed \in 0..MaxAsks
    /\ inbox \in SUBSET (1..posed)
    /\ cmd \in [Runs -> Cmd]

Init ==
    /\ now = 0
    /\ up = Remotes
    /\ panes = {} /\ opened = 0
    /\ cache = Cold
    /\ rec = None /\ posed = 0
    /\ inbox = {}
    /\ cmd = [p \in Runs |-> Idle]

-----------------------------------------------------------------------------
(* The environment: the clock, the network, and the agents' panes.         *)

Tick ==
    /\ now < MaxTime
    /\ now' = now + 1
    /\ UNCHANGED <<up, paneVars, cache, askVars, cmd>>

\* A machine goes out of ssh's reach, or comes back.
Reach(h) ==
    /\ up' = IF h \in up THEN up \ {h} ELSE up \cup {h}
    /\ UNCHANGED <<now, paneVars, cache, askVars, cmd>>

\* An agent elsewhere that is not on the plan changes nothing here, so
\* other work opens panes on this machine only.
OpenPane(h, i, lane) ==
    /\ opened < MaxPanes
    /\ h = Here \/ lane
    /\ ~\E q \in panes : q.host = h /\ q.id = i
    /\ opened' = opened + 1
    /\ panes' = panes \cup {[host |-> h, id |-> i, lane |-> lane,
                             since |-> now, serial |-> opened + 1]}
    /\ UNCHANGED <<now, up, cache, askVars, cmd>>

ClosePane(q) ==
    /\ panes' = panes \ {q}
    /\ UNCHANGED <<now, up, opened, cache, askVars, cmd>>

-----------------------------------------------------------------------------
(* The presence read: fleetPresence, presence.Read.                        *)

Fresh(s, at) == s.seen /\ at - s.at < TTL

\* A host's panes, as ssh to its herdr shows them.
Probed(h, at) == [seen |-> TRUE, panes |-> PanesOn(h), at |-> at]

\* "prompt" is nudge, and message without --ask; "ask" is message --ask.
\* This machine's panes, then the cache file and the clock.  A herdr that
\* does not answer, or is not installed, ends the verb before any of it.
Look(p, verb) ==
    /\ At(p, "idle")
    /\ Become(p, [Idle EXCEPT !.pc = "probe", !.verb = verb, !.at = now,
                              !.horizon = opened, !.local = PanesOn(Here),
                              !.cache = cache])
    /\ UNCHANGED <<now, up, paneVars, cache, askVars>>

\* Mutant of Reconcile: a failed probe renews the snapshot it falls back
\* to, so a host out of reach is never probed again.
ReconcileRenewed(prior, h, at) ==
    IF Fresh(prior, at) THEN prior
    ELSE IF h \in up THEN Probed(h, at)
    ELSE [prior EXCEPT !.at = at]

\* Mutant of Reconcile: the expiry is kept where the read time belongs.
ReconcileExpiry(prior, h, at) ==
    IF Fresh(prior, at) THEN prior
    ELSE IF h \in up THEN Probed(h, at + TTL)
    ELSE prior

\* A young snapshot is served as it is; otherwise the host is probed, and
\* what it last showed stands in for one that does not answer.
Reconcile(prior, h, at) ==
    IF Fresh(prior, at) THEN prior
    ELSE IF h \in up THEN Probed(h, at)
    ELSE prior

Presence(p) ==
    [h \in Remotes |-> Reconcile(cmd[p].cache[h], h, cmd[p].at)]

\* The cache file is replaced whole.
Save(read) == cache' = read

\* Only a host with neither a live read nor a snapshot is unread.
Unread(read)          == {h \in Remotes : ~read[h].seen}
PresenceUnknown(read) == Unread(read) # {}

\* A pane's directory is resolved by the git of its own machine, so a pane
\* ssh cannot follow is in no lane.
Resolves(q) == q.lane /\ q.host \in up \cup {Here}

LanesIn(p, read) ==
    {q \in cmd[p].local \cup UNION {read[h].panes : h \in Remotes} :
        Resolves(q)}

\* Mutant of LaneReaches: a lane on any machine is prompted.
LaneReachesAny(q) == TRUE

LaneReaches(q) == q.host = Here

LaneFirst(lanes) ==
    IF \E q \in lanes : q.host = Here
    THEN {q \in lanes : q.host = Here}
    ELSE lanes

Then(verb) ==
    CASE verb = "open" -> "focus"
      [] verb = "ask"  -> "pose"
      [] OTHER         -> "send"

\* The verb goes on with the first live lane; open does so whatever was
\* unread, and wherever the lane is.
Found(p) ==
    LET read == Presence(p) IN
    /\ At(p, "probe") /\ cmd[p].verb # "who"
    /\ \E q \in LaneFirst(LanesIn(p, read)) :
          /\ cmd[p].verb # "open" =>
                ~PresenceUnknown(read) /\ LaneReaches(q)
          /\ Become(p, [cmd[p] EXCEPT !.pc = Then(cmd[p].verb), !.target = q,
                                      !.at = 0, !.local = {}, !.cache = Cold])
    /\ Save(read)
    /\ UNCHANGED <<now, up, paneVars, askVars>>

\* "No live lane": nothing was found, and presence was read.
NoLane(p) ==
    LET read == Presence(p) IN
    /\ At(p, "probe") /\ cmd[p].verb # "who"
    /\ ~PresenceUnknown(read) /\ LanesIn(p, read) = {}
    /\ Save(read)
    /\ Finish(p)
    /\ UNCHANGED <<now, up, paneVars, askVars>>

\* Nothing found with a host unread; or, unless the verb is open, a host
\* unread, a lane on another host, a dry run, or a pane whose status, as
\* herdr then reports it, forbids the prompt.
Refused(p) ==
    LET read == Presence(p) IN
    /\ At(p, "probe") /\ cmd[p].verb # "who"
    /\ IF LanesIn(p, read) = {} THEN PresenceUnknown(read)
       ELSE cmd[p].verb # "open"
    /\ Save(read)
    /\ Finish(p)
    /\ UNCHANGED <<now, up, paneVars, askVars>>

\* who lists every lane it could read, and refuses nothing.
List(p) ==
    /\ At(p, "probe") /\ cmd[p].verb = "who"
    /\ Save(Presence(p))
    /\ Finish(p)
    /\ UNCHANGED <<now, up, paneVars, askVars>>

-----------------------------------------------------------------------------
(* Acting on the lane, through this machine's herdr, by pane id alone.     *)

WriteAsk(r) == rec' = r
RemoveAsk   == rec' = None

PaneAt(i) == {q \in PanesOn(Here) : q.id = i}

Focus(p) ==
    /\ At(p, "focus")
    /\ Finish(p)
    /\ UNCHANGED <<now, up, paneVars, cache, askVars>>

\* The ask is recorded before it is sent, replacing whatever was there.
Pose(p) ==
    /\ At(p, "pose") /\ posed < MaxAsks
    /\ posed' = posed + 1
    /\ WriteAsk([ask |-> posed + 1, answer |-> {}])
    /\ Become(p, [cmd[p] EXCEPT !.pc = "send", !.rec = rec'])
    /\ UNCHANGED <<now, up, paneVars, cache, inbox>>

Prompt(p) ==
    /\ At(p, "send") /\ PaneAt(cmd[p].target.id) # {}
    /\ inbox' = IF cmd[p].verb = "ask" THEN inbox \cup {cmd[p].rec.ask}
                ELSE inbox
    /\ Finish(p)
    /\ UNCHANGED <<now, up, paneVars, cache, rec, posed>>

\* Mutant of SendFails: the ask that never reached the lane is left.
SendFailsKept(p) ==
    /\ At(p, "send")
    /\ Finish(p)
    /\ UNCHANGED <<now, up, paneVars, cache, askVars>>

\* The pane is gone or herdr does not answer: the ask is withdrawn by
\* removing the file, whatever it holds by then.
SendFails(p) ==
    /\ At(p, "send")
    /\ IF cmd[p].verb = "ask" THEN RemoveAsk ELSE UNCHANGED rec
    /\ Finish(p)
    /\ UNCHANGED <<now, up, paneVars, cache, posed, inbox>>

-----------------------------------------------------------------------------
(* The answer.                                                             *)

\* reply answers what is pending when it reads, in the lane that was
\* asked; Answer then writes back the record it read.
ReplyReads(r) ==
    /\ At(r, "idle") /\ inbox # {} /\ Pending(rec)
    /\ Become(r, [Idle EXCEPT !.pc = "answer", !.verb = "reply", !.rec = rec])
    /\ UNCHANGED <<now, up, paneVars, cache, askVars>>

Answer(r) ==
    /\ At(r, "answer")
    /\ WriteAsk([cmd[r].rec EXCEPT !.answer = {r}])
    /\ Finish(r)
    /\ UNCHANGED <<now, up, paneVars, cache, posed, inbox>>

\* release, yield and a fresh claim or start end the lane and its ask.
Clear ==
    /\ rec # None
    /\ RemoveAsk
    /\ UNCHANGED <<now, up, paneVars, cache, posed, inbox, cmd>>

-----------------------------------------------------------------------------
Environment ==
    \/ Tick
    \/ \E h \in Remotes : Reach(h)
    \/ \E h \in Machines, i \in PaneIds, lane \in BOOLEAN :
          OpenPane(h, i, lane)
    \/ \E q \in panes : ClosePane(q)
    \/ Clear

Steer(p) ==
    \/ \E verb \in VerbsOf[p] : Look(p, verb)
    \/ Found(p) \/ NoLane(p) \/ Refused(p) \/ List(p)
    \/ Focus(p) \/ Pose(p) \/ Prompt(p) \/ SendFails(p)

Reply(r) == ReplyReads(r) \/ Answer(r)

Next ==
    \/ Environment
    \/ \E p \in Askers : Steer(p)
    \/ \E r \in Repliers : Reply(r)

Spec == Init /\ [][Next]_vars

-----------------------------------------------------------------------------
(* What steering promises.                                                 *)

\* "so the lane never owes a reply to a question it never saw"
\* (promptMessage): a pending ask has reached a pane, or its own run is
\* about to send it, or was killed just then, whatever other asks,
\* replies, withdrawals and lane ends come in between.
OwedIsAsked ==
    Pending(rec) =>
        \/ rec.ask \in inbox
        \/ \E p \in Askers : At(p, "send") /\ cmd[p].rec.ask = rec.ask

\* The wrong-lane hazard (laneReaches): a pane id means another pane on
\* every machine, and the pane that gets the text is the plan's lane,
\* unless it was opened after the run looked.
PromptReachesTheLane ==
    [][\A p \in Askers :
          Prompt(p) => \A q \in PaneAt(cmd[p].target.id) :
                          q.lane \/ q.serial > cmd[p].horizon]_vars

\* A snapshot is served for TTL and no longer: "no live lane" is never
\* said over a lane that was there, on a machine within reach, a TTL
\* before the run looked, whichever runs replaced the cache meanwhile.
OverlookedOnlyWhileFresh ==
    [][\A p \in Askers :
          NoLane(p) => \A q \in panes :
              q.lane /\ q.host \in up \cup {Here} =>
                  q.since > cmd[p].at - TTL]_vars
=============================================================================

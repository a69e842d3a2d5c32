# Verification of frit

frit coordinates agents that work on *plans* (markdown files in git repositories) from several
machines. It has no server: the only shared state is the git remote, and the only arbiter is the
remote's compare-and-swap on a ref. This directory holds TLA+ models of the parts of frit where
that matters, the TLC configurations that check them, and TLAPS proofs of their main properties.

Source paths below are relative to `src/`.

## 1. The system: components, state, operations

| component | state it keeps | operations | hard behaviour |
|---|---|---|---|
| lease protocol (`internal/claim/lease.go`, `claim.go`) | `refs/heads/plan/<id>` on the remote, the clone's copy of it, marker commits, rescue refs | Acquire, Renew, BeatFor, RenewToBind, Takeover, Release, Scavenge, Yield, ParkUnlanded | CAS races, lost answers, late pushes, crash between steps |
| lane token (`internal/claim/token.go`) | one file in the lane worktree's git dir | ReadToken, WriteToken | old tokens, worktree gone |
| verbs (`cmd/frit/claim.go`, `start.go`, `release.go`, `yield.go`) | none of their own; they sequence the above, worktrees and herdr panes | claim, start, release, yield | stand-up that fails half way, unwinding, acting on an old gather |
| fleet gather (`internal/fleet`) | none; reads the clone's tracking refs after a fetch that may fail | Gather | stale views |
| staleness observer (`internal/observe`, `internal/discovery/stale.go`, `observeHolds` in `cmd/frit/main.go`) | a per-host JSON file of windows | observeHolds, resetWindow | load/save races, missed fetches, backoff arithmetic |
| decorated holds (`internal/claim/decorated.go`) | legacy branches `plan/<id>-<slug>` | TakeoverDecorated | several CAS deletes, then an acquire |
| reap (`cmd/frit/reap.go`, `internal/reap`) | none; deletes worktrees and branches | reapStranded, reapUnstaffed, reapPruned | read tip, park, delete by name |
| ask and reply, dispatch (`internal/ask`, `cmd/frit/reply.go`, `cmd/frit/dispatch.go`) | one record file per plan | Pose, Answer, Clear, Withdraw | read-modify-write races |
| presence cache (`internal/presence`) | per-host pane snapshots | Read, Reconcile | TTL, stale fallback |
| discovery, lanes, index, planmeta | none, pure | ready/blocked/picked plans, orphan lanes, which copy of a plan wins | subtle joins |
| herdr, git access, configuration, reports, doctor, drift, skills, scaffold | external programs, files, text | – | I/O, no protocol state |

Interaction: every verb first *gathers* (fetch, read refs, fold the observer's windows), then
decides, then performs lease transitions (push, confirming read, local sync, token), then touches
worktrees and panes. Verbs of one host share the clone, the token files and the observation file
with no lock; hosts share only the remote.

`PROJECT.json` lists each component with its status, and under `hazards` what is hard to test,
at the line where it bites.

## 2. Modules

```
WorkRef     abstract register: absent / held / released / void, epoch, holder
   ^ implemented by Lease and by Lane (Register in each)
Lease       one plan's lease, push by push: clones, commands, worktrees, tokens
LeaseInv    its inductive invariant             LeaseProofs     theorems
RegisterInv the invariant of its refinement     RegisterProofs  Lease implements WorkRef
Observer    one host's staleness window for one plan
ObserverInv its inductive invariant             ObserverProofs  theorems
Lane        one plan's lane: the verbs step by step, agents, reap
                                                LaneProofs      theorems
MarkerInv   whose marker governs what, and      MarkerProofs    Lane implements WorkRef,
            what reap's evidence is worth                       and reap spares the holder
Steer       one plan's steering: presence cache, prompts, ask and reply
                                                SteerProofs     theorems
Fleet       many plans: index, gather, discovery, pick --go, and progress
                                                FleetProofs     theorems
Decorated   one plan's legacy branches and the takeover that migrates them
                                                DecoratedProofs theorems
MC*         constants for TLC; one .cfg per run
```

The modules are layers, each taking one step of the layer above apart. A start is one step in
Fleet; in Lane it is a gate, a lease, a stand-up, an agent and a bind, each lease transition one
compare-and-swap; in Lease a transition is a mint, a push, a confirming read, a sync and a token. The
verdict "stale" is free in Lane, in Lease and in Decorated, a bit per plan in Fleet, and computed in
Observer. Decorated stands beside Lease: it is the plan before it has a work ref, and ends where Lease
begins.

### Lease

*State.* `commits` is the object store. A commit id is its rank in time (the order `git log`
walks); `anc` is its history, `tree` the agents' commits whose content its tree carries; marker
commits have the kind, epoch and holder of their trailers. `remote`, `local[h]` and `main` are the
work ref on the remote, each clone's copy and the base branch. `wt[h]` and `token[h]` are the lane
worktree and its token. `rescue` is the content parked under rescue refs. `proc[p]` is a running
command: `from` the tip it CASes from, `seen` the local value read before minting, `marker` what
it minted. `net` holds pushes whose client gave up.

*Actions.* Each transition is split where the code gives up control: mint (`ClaimMint`, `Advance`,
`Takeover`), push (`PushAcked`, `PushUnacked`, `PushFailed`, `PushAbandoned`; `casPush`,
`casDelete`), the confirming read (`Confirm`, `Unconfirmed`; `pushThenConfirm`), `Sync`
(`syncLocalRef`), `Persist` (`persistToken`), then the verb's own steps: `StandUp`, `Bind`,
`Rebind` (`RenewToBind`), `HandoffFails`, `Unwind`, `ClearLeftover`, `Yield`, `Scavenge`, `Park`,
`DeleteLocal`. `Stop` ends a command anywhere: a refusal, a failed step or a kill. The environment
commits, fast-forwards and pushes in lanes with plain git (`Work`, `FastForward`, `PushWork`), lands
work on the forge by merge or squash, and delivers late pushes.

*Abstractions.* Tracking refs are not state: a gather's view is the remote's tip or, with
`StaleViews`, any tip at all, which over-approximates failed fetches. The evidence that is not the
lease's own (hold stale, session dead, plan marked done) is a free choice of the acting command,
restricted where the code restricts it: a plan is done only on a base with landed work. Rescue refs
are create-only and content-addressed, so they are modelled by the content they keep. The holder
identity is the clone: two commands of one host share holder and lane path. Recreating a deleted
work ref with plain git is left out: the protocol trusts lanes not to do so. Beats name a session
living on the holder's own host, so `BeatFor` runs there.

### Observer

*State.* The host's clock, the remote tip with the time it appeared and the takeovers in its chain,
the clone's tracking copy, the window in the state file, and the verbs running on the host. Tips
are used once. *Actions* follow `gatherFleetOpts` and `observeHolds`: `Gather` (fetch here,
elsewhere in the fleet only, or nowhere), `ReadClock`, `Fold` (load and `Observe`), `Save`
(replace the file, or fail), then for claim and start `Takeover`, `BeatForHolder` (veto) or
`TakeoverLost` and `ResetWindow`. `LoseStore` is a lost or unreadable file. The `reached` field of
a window is a history variable that no action reads. Takeovers for a session that herdr confirms
dead need no window and are outside this module; Lane covers them. The host's clock does not step.

### Lane

*State.* Refs are sets of commits, so ancestry is inclusion: `base` (the default branch), `content`
(agents' commits landed on it, by merge or squash), `done` (its copy of the plan says done), `ref`
(the work ref), `rescue`; per host the clone's `branch`, the lane's worktree `wt`, its `token`, and
`agents`, the herdr sessions alive in its panes. A session is named for the lease tip it was started
under. `cmd[p]` is a running command.

*Actions.* The gate of claim and start with its refusals (`Gate`, `ResumeInside`, `Reattach`; the
conditions are `Open`, `Deserted`, `ResumeToken`, `LaneTokenResume`), the leftover lane
(`ParkLeftover`, `ClearLeftover`), the lease (`Acquire`, `Veto`, `Seize`, `Resume`), `StandUp`,
`StartAgent`, `Bind`, and the unwinding (`HandoffFails`, `TearDown`, `Unwind`); `Release`; `Yield` and
`YieldTearDown`; reap's `ReapRead`, `ReapPark`, `ReapRemove`, `ReapDelete`, `ReapDrop`. `Stop` ends a
command anywhere. Agents commit, push and end; the forge merges.

*Abstractions.* A lease transition is one step, since Lease takes it apart; gathers are fresh when
they are read and old when they are acted on. Any herdr call may go unanswered; a machine in
`Headless` has no herdr. Whether the window has matured is free.

### Steer

*State.* A clock, the hosts ssh reaches, the panes with agents (a pane id is unique on its own
machine only), the presence cache file, the plan's ask record, which asks reached a pane, and the
runs. `serial`, `opened`, `posed` and `inbox` are history variables for the properties, except that
reply needs an ask to have arrived.

*Actions.* `Look` (this machine's panes, the cache, the clock), then with the reconciled cache saved:
`Found`, `NoLane`, `Refused` or `List`; `Focus`, `Pose`, `Prompt`, `SendFails` (`Withdraw`);
`ReplyReads` and `Answer`; `Clear`. Two runs of frit and a reply interleave at each of these. A run that
is killed is one that takes no further step. Text, envelopes and status tables are left out; which
statuses forbid a prompt is free (`Refused`).

### Fleet

*State.* `tree[r][p]` is the copy of plan p's file on ref r (status and number of open phases), `lane`
the work refs, `agent` the host a lease's agent is alive on, `aged` the tips whose window has matured,
and `pick[h]` the walk of a pick --go. A walk keeps of its view what it acts on: per candidate its
place, whether it has an open phase, how its hold was read, and whether its tip is still the one it
saw. `ledger` (dependencies and phases) is fixed in the initial state. `faults` bounds what may go wrong.

*Actions.* `Gather` builds the view: `Primary` picks the authoritative copy (`rank`), `HeldPlans` the
holds, `Candidates` and `Before` the order. Then each candidate in turn: `NoOpenPhase`, `Refused`,
`Veto`, `Lost`, `LostToLanded` (`scavengeLanded`), `Start`, `StartFails`. `StartByName` is a start on
another host. Agents close phases, forget to close the plan, vanish or release; branches land; people
repair or supersede a plan.

### Decorated

*State.* A branch's history is the set of the agents' commits on it, with 0 for its claim marker;
`origin` and `local[h]` are the remote's and each clone's branches `plan/<id>-<slug>`, `out[h]` those a
worktree stands on, `agents[h]` those with an agent's pane, `merged` and `content` what has landed by
merge or by content, `rescue` what is parked, `lease` the holder of the id-only work ref, and `late` the
deletes whose client gave up. `cmd[p]` is a takeover: the tips its window matured on, the branches still
to be read, and those that stand and are not yet retired. `since` is a history variable.

*Actions.* `Gather` and the veto (`Vetoed`, `NotVetoed`; `mintOrTakeOver`, `decoratedLaneLive`); then
`TakeoverDecorated` a branch at a time, in the order of their names: `Reread` or `RereadMoved`, `Park`,
`Delete`, `DeleteMoved` or `DeleteUnconfirmed`, `Drop`, and at last `Acquire`. `Stop` ends it anywhere.
Lanes commit and push with plain git, agents come and go, the forge lands branches, and the remote
applies late deletes (`Deliver`).

*Abstractions.* Gathers are fresh when they are read and old when they are acted on. A herdr that does
not answer counts as a fault. Worktrees for the legacy branches can be removed but not added, so the
look for a worktree and the delete after it are one step (`Drop`). A park is create-only and named by
content, so `rescue` keeps the content. Once the plan is leased it is Lease's.

## 3. Properties and runs

| run | instance | checks |
|---|---|---|
| `lease_two_clones` | 2 clones, 1 command each, gathers that act on any older tip, late push | TypeOK, OneProvenHolder, IInv, RegInv, AppendOnly, SavedStaysSaved, SyncKeepsLocalWork, ImplementsWorkRef |
| `lease_faults` | 3 commands in 2 clones (two racing in one), late push | OneProvenHolder, AppendOnly, SavedStaysSaved, ImplementsWorkRef |
| `observer_race` | 2 verbs on one state file, counting takeovers may fail | StaleOnManyLooks, TakenAfterWindow |
| `observer_backoff` | 1 verb, 7 instants, chains with takeovers | IInv, TakenAfterWindow |
| `lane` | a machine with herdr running every verb, one without running start; 5 commits, 2 by agents | TypeOK, ParkedBeforeGone, SignedInv, LiveSessionOutlastsDeath, DeadTakeoverKeepsSuffix, AgentWorksOnItsLease, ReapSparesTheHolder, RegisterMoves |
| `steer` | this machine and one remote, one run of who/open/nudge, one of message --ask, one reply | TypeOK, OwedIsAsked, PromptReachesTheLane, OverlookedOnlyWhileFresh |
| `fleet` | 2 plans (a chain of 2 + 1 phases, or both free), one host picking, one starting by name, 1 fault | TypeOK, DependenciesFirst, SettledStaysDown, EveryPlanSettles |
| `decorated` | 2 branches (one with a lane), a claim on each of 2 machines, 1 commit, 2 faults | TypeOK, NothingLost, RivalsRetired, EndsInALease |

* **OneProvenHolder** – no two clones have tokens that both prove the remote's tip.
* **AppendOnly** – a tip is replaced only by its descendant; only a delete removes history.
* **SavedStaysSaved** – what an agent's work reached on the remote (work ref, rescue, base) stays
  recoverable from it through takeovers, scavenges, late deletes and kills.
* **SyncKeepsLocalWork** – the local ref update after a holder's transition never moves the branch
  off an agent's commit.
* **ImplementsWorkRef** – the remote ref, read through its markers, is the register of WorkRef:
  it is acquired at the next epoch only, and the holder changes only together with the epoch. In Lease it
  holds for as long as no marker is in the base branch's history. docs/research/lease-protocol.md:516
  counts on this ("beats never land: the PR squashes them out"); where a landing keeps the history of the
  work ref, the register is *void*, which is where WorkRef's promise ends. The third disagreement without
  a run, below, is what happens there.
* **RegisterMoves** – the same of Lane, where a transition is one step: a step that moves the remote ref is
  a step of the register or leaves what it says. It holds for either way of landing. Lane's own
  `ImplementsWorkRef` is that with the steps that do not move the ref; TLC takes nearly five minutes to
  check it on the `lane` instance, finds it to hold, and the run checks RegisterMoves instead.
* **TakenAfterWindow** – a takeover for staleness displaces only a tip that was the remote's for
  more than (k+1)·T.
* **StaleOnManyLooks** – a stale verdict needs more than T/S_max looks after the first.

* **ParkedBeforeGone** – from the moment reap removes a checkout until it has deleted the branch, the
  work it read there is parked or landed. A commit made after reap has read the branch is not covered:
  `git branch -D` deletes by name.
* **LiveSessionOutlastsDeath** – a hold bound to an agent alive on the machine is not taken over or
  dropped on the word that its session is gone.
* **DeadTakeoverKeepsSuffix** – a takeover that does not wait for the window never leaves unpushed
  commits of the machine's branch behind (the park-first guard).
* **AgentWorksOnItsLease** – the branch start hands to a new agent carries the lease it was started for.
* **ReapSparesTheHolder** – reap never removes the checkout of a lane that holds the lease, unless
  somebody committed in the lane after reap had read its evidence (a commit on a merged branch, once
  pushed, makes the lane a hold again). Like the previous one it is stated for machines on which no
  other command runs: with two, the code does allow a claim between reap's evidence and its removal
  (and a drop between a lease and its lane). The other properties of Lane hold for any number of
  commands on a machine; section 4 proves them.
* **OwedIsAsked** – a pending ask has reached a pane, or its run is about to send it.
* **PromptReachesTheLane** – the pane that gets a prompt is the plan's lane, or was opened after the
  run looked.
* **OverlookedOnlyWhileFresh** – "no live lane" is never said over a lane that has been there for a TTL
  on a machine within reach.
* **DependenciesFirst** – no plan is begun before everything it depends on has landed as done, with
  views out of date, the resume tail and finished work that is not merged.
* **SettledStaysDown** – old copies on old lanes never bring a settled plan back into a walk.
* **EveryPlanSettles** – every plan is eventually done or dropped, or waits on one that was dropped.
* **NothingLost** – no step takes a commit from the remote that is not parked or landed there, or from a
  clone's branch one that the remote does not have, whatever races, fails half way or arrives late.
* **RivalsRetired** – no lease is acquired while a branch it was to retire stands on the remote at the
  judged tip, unless it was pushed since.
* **EndsInALease** – takeovers that failed half way do not stop the next: once the legacy agents stay
  away, the plan is leased.
* Each **TypeOK** says more than types: nothing names a commit, pane or ask not yet made (Lane, Steer),
  a walk's order is strict (Fleet), and no clone loses the branch a worktree stands on (Decorated).

*Bounds.* Lease, Observer, Lane and Steer have one plan: plans do not share refs, tokens, windows or ask
files. Lease: two clones and one or two commands in each give every pairwise race; three commits besides
the root allow claim, work and takeover or landing, or claim, release and re-claim (the proofs are for
any number); one late push suffices to interleave it with any transition. Observer: three tips and T = S_max = 1 let a window
mature, be taken from and mature again with the backoff; `observer_race` uses two tips and four instants
to afford two verbs. Lane: four commits besides the root allow a claim, an agent's commit, a takeover and
its bind, or a claim, work, release and the next claim; two of them may be the agents', because a commit
after a merge makes a landed lane a hold again; one machine has every verb, so that every verb
meets a start elsewhere. Steer: the clock outlasts the TTL, so a snapshot can be fresh, stand in for a
host out of reach, and expire; with two panes the same id can be the lane on one machine and something
else on the other; two asks let one overtake the other's answer. Fleet: two plans are enough for a
dependency, a tie, a walk that is blocked by its first candidate, and copies that outnumber the default
branch's; one fault at a time. Decorated: two branches are enough for a loss between two retirements; one
is only on the remote or gone and the other may be local, pushed or both, with a worktree on one of the two
machines; the commit may be pushed before or after its branch was judged; two faults are a delete that
arrives late and a takeover that dies beside it. The proofs below do not depend on any of these bounds.

*Fairness.* Only Fleet and Decorated state any. In Fleet, a host running pick --go keeps doing so and each of its runs takes its
next step (a supervisor's loop around a sequential command). An agent with a live lease closes a phase, a
tip that nobody moves ages through the window (Observer says what that takes), a branch with closed
phases is landed, and a plan whose phases have all landed without its status is closed by somebody. These are the
things frit leaves to people and agents, and without any one of them the fleet can stop; nothing is
assumed of starts by name, of releases or of faults. The fairness is weak and on whole steps of a host, so
a host may lose every race. Verbs of the other modules run when somebody calls them, so those modules
promise no next step and state no liveness. In Decorated one machine keeps claiming and each of its
claims takes its next step; the other may stop anywhere, and that a hold nobody moves reads matured is
assumed there too. A branch the forge protects for ever, or a rescue ref somebody moved by hand, would
stop every takeover: such lasting refusals are not among the bounded faults.

*Deadlock* is not an error (`CHECK_DEADLOCK FALSE`): when commits, time or plans run out and every
command has ended, nothing is left to do.

### Disagreements between the code and its documentation

Each is a run that TLC violates, with a quoted line in `PROJECT.json`:

* `scavenge_local_branch` – when the remote ref is gone, `Scavenge` deletes the clone's own branch
  with nothing parked; `frit release` on an unpushed hand-made branch does so.
* `bind_on_release` – `ownHold` ignores the marker's kind, so a session bind that lost to this
  lane's own release beats on top of it, and the token proves a released lease.
* `yield_of_holder` – `Yield` compares tips only: a live holder with an unpushed commit is torn
  down instead of refused (its work is parked).
* `observer_outage` – looks at a tracking ref that no fetch refreshed count as samples, so an
  outage matures windows instead of resetting them.

Three more were met without a run: docs/claiming.md gives the backoff as k·T where `observeHolds`
computes (k+1)·T; and docs/claiming.md asks for a matured window before a scavenge on the ✅ glyph,
which `scavengeGlyph` checks and `releaseUnheld` does not; and docs/claiming.md:58 has the epoch of the
current holder always outrank, which a landing that keeps history can undo: a claim whose push is applied
late, minted on the base before another lease's markers were merged into it, is fast-forwarded over
them by its lane and pushed, and the remote then names another holder at the same epoch (7 commits, two of
them the agents'; more than a run can afford).

## 4. Proofs

`LeaseProofs` (constants: any sets `Hosts`, `Procs`, any `HostOf`, any bounds; assumptions are the
four named ones in Lease) proves `Spec => []IInv` and from it TypeOK, OneProvenHolder, AppendOnly,
SavedStaysSaved and SyncKeepsLocalWork.

The invariant has to speak about what is in flight. A push that is applied later is safe because of
what was true when it was minted, so `Pending(from, marker)` is kept for every command at its push
and for every message in `net`: the marker descends from `from`, and a delete (`marker = 0`) has all
of `from`'s content in the rescue refs or on the base already (park comes before the delete). Then
applying it under the CAS `remote = from` preserves AppendOnly and SavedStaysSaved, however late.
`GraphInv` makes ancestry usable: histories are transitively closed in content, and content enters a
history only with a commit that is not a marker, which is why `HasWork` being false means that
nothing is lost. `TokenInv` and `Mine` say a clone holds only tokens and markers minted in its own
name; together with the rule that a token proves a tip only when the governing marker has the same
holder, this gives OneProvenHolder. `Carrying` records that a holder's marker contains what the local
branch had when it was minted, for SyncKeepsLocalWork.

`ObserverProofs` (any verbs, any T, S_max) proves `Spec => []IInv`, TakenAfterWindow and
StaleOnManyLooks. The invariant says of every window, stored or carried by a verb that has not yet
saved it: it starts no earlier than its tip became the remote's (tips do not come back, so this
survives every overwrite of the file), and its span is at most (samples − 1)·S_max.

`FleetProofs` (any plans and hosts, any dependency graph and phases, any bound on faults) proves
`Spec => []IInv`, TypeOK, DependenciesFirst and SettledStaysDown. IInv adds to the types WalksLanded: a
candidate that a walk would begin afresh had its dependencies landed when the walk looked, and landed
is for ever (`MainOutranks`: a copy that is done on the default branch outranks every copy on a lane;
`DoneIsFinal`: no step takes it back). That is why a walk that acts on an old view may be wrong about
holds but not about dependencies.

`SteerProofs` (any machines, panes, runs, any TTL) proves `Spec => []IInv`, TypeOK, OwedIsAsked,
PromptReachesTheLane and OverlookedOnlyWhileFresh. The invariant says what an old observation is still
true of: a snapshot, a look or an aimed prompt that names a pane id is about the pane that has the id
now, or that pane was opened later (`Faithful`, `Looked`, `Aimed`; pane serials only grow), and a
snapshot used for a host within reach is younger than the TTL, however the runs replaced each other's
cache file. AskInv says who carries the pending ask.

`LaneProofs` (any machines, commands, verbs, any placement of lanes, any bounds) proves
`Spec => []IInv`, TypeOK, ParkedBeforeGone, LiveSessionOutlastsDeath, DeadTakeoverKeepsSuffix and
AgentWorksOnItsLease. What has to be strengthened is what a command knows between its gate and its
step. JudgedInv: a hold that was judged by its session, not by the window, still has no live session
when it is ended, because a session that is gone never returns, and it carries everything the branch
had at the gate. The first half needs SessionInv: a lease whose agent has not started yet is named by
no marker and is nobody's session, so no agent started later can be the dead one. OwnInv: until its
agent starts, a minted lease is on the machine's branch; for this the other commands must run on other
machines, and a checkout must find the branch rather than make it anew. MarkInv says tokens and minted
leases are markers, without which a resume or an unwinding would not know an epoch. `Greatest` (a
finite set of commits has a greatest, by counting and without induction) is what makes "the governing
marker" well defined.

`DecoratedProofs` (any branches, machines, claims and lanes, any bounds) proves `Spec => []IInv`, TypeOK,
NothingLost and RivalsRetired. As in Lease the invariant speaks of what is in flight: the branch a
takeover is about to delete or drop, and every late delete, names a tip whose work is parked or landed
already (`ParkedInv`), so a delete loses nothing whenever it is applied, the CAS making sure that it
takes that tip and no other. `GoneInv` splits the judged branches into those still ahead of the takeover
and those it is done with; the latter stay off their judged tip until somebody pushes, and at the acquire
nothing is ahead. Retirements go in the order of the names, which is all that is needed of the order.

`RegisterProofs` (the constants of Lease) proves `Spec => []RegInv` and from it the refinement,
`Spec => ImplementsWorkRef`. That an acquisition raises the epoch by one is plain when it is minted; the
difficulty is that it is applied later, by a push that may have been given up, onto a ref others have moved,
or not at all, and that lanes carry markers about by fast-forwards and plain pushes. RegInv says where a
marker can be. While it is on its way it is in nobody's history but its own (`Public`); a clone that is
ahead of the remote has added no marker of its own to what the remote has (`Follows`); a marker on its way
adds itself, and nothing else, to the markers of the tip it is CASed from, by exactly one step of the
register (`Reads`, `OnTip`, `OnBranch`); and it is on its way once (`OnceInv`). Histories are nested
(`Nested`). Then a CAS that applies, however late, applies the step it was minted for, and a plain push
applies none.

`MarkerProofs` (the constants of Lane) proves `Spec => []SignedInv`, that Lane implements WorkRef, and
ReapSparesTheHolder. SignedInv has four parts. NamesInv: tokens, minted leases, sessions and the markers that
record them name the machine they were made on, so a transition that "goes on" with a lease is its holder's.
HistoryInv: the base holds nothing the remote ref lacks, and whatever history contains the marker governing
the remote has the very markers the remote has; so carrying the lane's own branch along (`RelayBase`) and a
plain push add no marker. These two need no condition and give the refinement. Where machines run one
command each, BranchInv (a branch is governed by its own machine's marker) and EvidenceInv follow: what reap
read of a stranded or foreign checkout is still true when it removes it, because what another machine puts
on the remote is not this machine's hold, and what this machine's agents can push is the branch that was
read. EvidenceInv alone is not inductive: without HistoryInv a push from a foreign checkout could make the
remote the machine's own again.

*Only model-checked.* EveryPlanSettles and EndsInALease, since liveness under fairness is out of the
prover's reach; and the four disagreements above, which are counterexamples. Every safety invariant and
action property that a run checks has a theorem.

## 5. Not modelled, and the plan

Next, in this order:

1. **Fleet is never stuck** – the safety half of EveryPlanSettles as a lemma: while a plan that waits on
   nothing dropped is unsettled, some plan is ready or held.
2. **Observer liveness** – a deserted hold matures under bounded stalls of the verbs; Fleet assumes it.
3. **Larger fleets** – three plans in a diamond of dependencies, two pickers.

Left out for good: reports and rendering, the parsing of plan files, doctor, drift, skills and scaffold
(sequential I/O and text), configuration loading, and the herdr and git subprocess wrappers, whose
answers are inputs of the models.

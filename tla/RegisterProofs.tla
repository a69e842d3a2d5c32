--------------------------- MODULE RegisterProofs ---------------------------
(***************************************************************************)
(* Lease implements WorkRef, for every set of clones and commands and      *)
(* every bound: RegInv is inductive relative to IInv, and under it every   *)
(* step of the protocol is a step of the register or leaves it alone.      *)
(***************************************************************************)
EXTENDS RegisterInv, LeaseProofs

-----------------------------------------------------------------------------
(* Commits that exist.                                                     *)

Born(c) == c \in CommitIds /\ c < next

\* What a commit says, and the markers it is read through, never change.
LEMMA BornStays ==
    ASSUME IInv, Grows, NEW c, Born(c)
    PROVE  /\ Anc(c)' = Anc(c) /\ MarkersOf(c)' = MarkersOf(c)
           /\ IsMarker(c)' = IsMarker(c) /\ commits'[c] = commits[c]
           /\ HasMarker(c)' = HasMarker(c)
           /\ HasMarker(c) => Governs(c)' = Governs(c)
           /\ TerminalsOf(c)' = TerminalsOf(c) /\ LiveHold(c)' = LiveHold(c)
<1>1. commits'[c] = commits[c] /\ Anc(c)' = Anc(c) /\ IsMarker(c)' = IsMarker(c)
  BY DEF Born, Grows, Anc, IsMarker
<1>2. \A a \in Anc(c) : a \in CommitIds /\ a < next
  BY Exists DEF Born
<1>3. \A a \in Anc(c) : commits'[a] = commits[a]
  BY <1>2 DEF Grows
<1>4. MarkersOf(c)' = MarkersOf(c)
  BY <1>1, <1>3 DEF MarkersOf, IsMarker
<1>5. LatestMarker(c)' = LatestMarker(c)
  BY <1>4 DEF LatestMarker
<1>6. HasMarker(c) => Governs(c)' = Governs(c)
  <2>1. HasMarker(c) => LatestMarker(c) \in Anc(c)
    BY GovernsIs DEF IInv, Born
  <2> QED
    BY <1>3, <1>5, <2>1 DEF Governs
<1>7. TerminalsOf(c)' = TerminalsOf(c) /\ TerminalsOf(c) \subseteq Anc(c)
  BY <1>3, <1>4 DEF TerminalsOf, MarkersOf
<1>8. LiveHold(c)' = LiveHold(c)
  <2>1. TerminalsOf(c) # {} => Max(TerminalsOf(c)) \in Anc(c)
    <3>1. TerminalsOf(c) \in SUBSET CommitIds
      BY <1>2, <1>7
    <3> QED
      BY <1>7, <3>1, MaxIs
  <2> QED
    BY <1>3, <1>7, <2>1 DEF LiveHold
<1> QED
  BY <1>1, <1>4, <1>6, <1>7, <1>8 DEF HasMarker

\* A born commit is the newest of its own history, and so is a marker of
\* the markers there.
LEMMA BornIs ==
    ASSUME IInv, NEW c, Born(c)
    PROVE  /\ c \in Anc(c) /\ c \in CommitIds /\ c \in Nat /\ c # 0 /\ c \in Tips
           /\ \A a \in Anc(c) : Born(a) /\ a <= c
           /\ IsMarker(c) => /\ c \in MarkersOf(c) /\ HasMarker(c)
                             /\ Governs(c) = commits[c]
<1>1. c \in Anc(c) /\ \A a \in Anc(c) : a \in CommitIds /\ a <= c /\ a < next
  <2>1. c \in Anc(c)
    BY DEF Born, IInv, GraphInv
  <2> QED
    BY <2>1, Exists DEF Born
<1>2. IsMarker(c) => HasMarker(c) /\ Governs(c) = commits[c]
  BY MarkerGovernsItself DEF Born, Governs
<1> QED
  BY <1>1, <1>2, Ids DEF Born, MarkersOf

\* The refs, a command's fields and the pushes name commits that exist.
LEMMA TipsBorn ==
    ASSUME IInv
    PROVE  /\ remote # 0 => Born(remote)
           /\ \A h \in Hosts : local[h] # 0 => Born(local[h])
           /\ Born(main)
           /\ \A b \in Bases : Born(b) /\ Anc(b) # {} /\ b \in Anc(main)
           /\ \A c \in Known : Born(c)
           /\ \A s \in Pushes : /\ s.from # 0 => Born(s.from)
                                /\ s.marker # 0 => Born(s.marker)
           /\ \A m \in Unsent : m # 0 /\ Born(m)
           /\ \A p \in Procs : /\ proc[p].from # 0 => Born(proc[p].from)
                               /\ proc[p].parent # 0 => Born(proc[p].parent)
                               /\ proc[p].marker # 0 => Born(proc[p].marker)
<1>1. \A c \in Tips : c # 0 => c \in CommitIds
  BY Ids
<1>2. \A h \in Hosts : local[h] # 0 => Born(local[h])
  BY <1>1 DEF IInv, TypeOK, RefsInv, Born
<1>3. \A p \in Procs : /\ proc[p].from # 0 => Born(proc[p].from)
                       /\ proc[p].parent # 0 => Born(proc[p].parent)
                       /\ proc[p].marker # 0 => Born(proc[p].marker)
  BY RunFacts DEF RunInv, Born
<1>4. \A m \in net : /\ m.from # 0 => Born(m.from)
                     /\ m.marker # 0 => Born(m.marker)
  BY <1>1 DEF IInv, TypeOK, NetInv, Pending, Born
<1>5. \A b \in Bases : Born(b) /\ b \in Anc(main)
  BY BasesExist DEF Born
<1>6. \A b \in Bases : Anc(b) # {}
  BY <1>5, BornIs
<1>7. Born(main) /\ (remote # 0 => Born(remote))
  BY <1>1 DEF IInv, TypeOK, RefsInv, Born
<1>8. \A c \in Known : Born(c)
  BY <1>2, <1>3 DEF Known
<1>9. \A s \in Pushes : /\ s.from # 0 => Born(s.from)
                        /\ s.marker # 0 => Born(s.marker)
  BY <1>3, <1>4 DEF Pushes, Sending
<1>10. \A m \in Unsent : m # 0 /\ Born(m)
  BY <1>9 DEF Unsent
<1> QED
  BY <1>2, <1>3, <1>5, <1>6, <1>7, <1>8, <1>9, <1>10

\* What nests in a history brings its markers along.
LEMMA NestedMarkers ==
    ASSUME IInv, Nested, NEW c, Born(c), NEW a \in Anc(c)
    PROVE  Anc(a) \subseteq Anc(c) /\ MarkersOf(a) \subseteq MarkersOf(c)
  BY DEF Nested, MarkersOf, Born

-----------------------------------------------------------------------------
(* The graph: histories nest, and squashed landings bring no markers.      *)

\* A step that mints puts one commit on top of a nested set of commits.
LEMMA NestedStore ==
    ASSUME IInv, IInv', Grows, Nested, NEW A \in SUBSET CommitIds,
           \A a \in A : a < next /\ Anc(a) \subseteq A,
           next \in CommitIds, next' = next + 1, commits'[next].anc = A \cup {next}
    PROVE  Nested'
<1> SUFFICES ASSUME NEW c \in CommitIds, NEW a \in Anc(c)'
             PROVE  Anc(a)' \subseteq Anc(c)'
  BY DEF Nested
<1>1. next \in Nat /\ c \in Nat
  BY Ids DEF IInv, TypeOK
<1>2. CASE c < next
  <2>1. Born(c) /\ a \in Anc(c) /\ Born(a)
    BY <1>2, BornStays, BornIs DEF Born
  <2> QED
    BY <2>1, BornStays DEF Nested, Born
<1>3. CASE c = next
  <2>1. Anc(c)' = A \cup {next}
    BY <1>3 DEF Anc
  <2>2. CASE a = next
    BY <1>3, <2>2
  <2>3. CASE a \in A
    <3>1. Born(a)
      BY <2>3 DEF Born
    <3> QED
      BY <2>1, <2>3, <3>1, BornStays
  <2> QED
    BY <2>1, <2>2, <2>3
<1>4. CASE c > next
  <2>1. Anc(c)' = {}
    BY <1>1, <1>4 DEF IInv, GraphInv, Unborn, Plain, Anc
  <2> QED
    BY <2>1
<1> QED
  BY <1>1, <1>2, <1>3, <1>4

-----------------------------------------------------------------------------
(* What the minting transitions mint.                                      *)

\* A marker's kind, parent and epoch, by the transition that mints it.
Mints(p, kind, parent, epoch, from) ==
    \/ /\ kind = "claim" /\ proc[p].pc = "mint"
       /\ from = proc[p].from /\ parent = proc[p].parent
       /\ epoch = ClaimEpoch(from)
    \/ /\ kind = "takeover" /\ from # 0 /\ HasMarker(from) /\ parent = from
       /\ epoch = Governs(from).epoch + 1
    \/ /\ kind \in {"beat", "release"} /\ from # 0 /\ HasMarker(from)
       /\ epoch = Governs(from).epoch
       /\ Governs(from).holder = HostOf[p]
       /\ \/ parent = from
          \/ /\ parent = local[HostOf[p]] /\ parent # 0
             /\ from \in Anc(parent)

\* A command mints: the whole of what its step does.
MintsNow(p) ==
    /\ proc[p].pc # "push"
    /\ UNCHANGED <<serverVars, local, laneVars>>
    /\ \E kind \in Markers, parent, from \in CommitIds \cup {0}, epoch \in Nat, op \in Ops :
          /\ Born(parent) /\ (from # 0 => Born(from))
          /\ Mints(p, kind, parent, epoch, from)
          /\ Store(Marker(kind, parent, epoch, HostOf[p]))
          /\ Become(p, Run("push", op, from, 0, local[HostOf[p]], next))

\* advance on a lease the clone holds.
LEMMA AdvanceMints ==
    ASSUME IInv, NEW p \in Procs, NEW op \in Ops, NEW kind \in {"beat", "release"},
           NEW from \in CommitIds, proc[p].pc # "push",
           Governs(from).holder = HostOf[p],
           Advance(p, op, kind, from, HostOf[p], RelayBase(HostOf[p], from))
             \/ Advance(p, op, kind, from, HostOf[p], HolderBase(HostOf[p], from))
    PROVE  MintsNow(p)
<1>1. HasMarker(from) /\ HostOf[p] \in Hosts
  BY HostAssumption DEF Advance
<1>2. Governs(from).epoch \in Nat /\ Born(from)
  BY <1>1, GovernsIs, Exists DEF Commit, IInv, HasMarker, MarkersOf, Born
<1>3. PICK parent \in RelayBase(HostOf[p], from) \cup HolderBase(HostOf[p], from) :
         /\ Store(Marker(kind, parent, Governs(from).epoch, HostOf[p]))
         /\ Become(p, Run("push", op, from, 0, local[HostOf[p]], next))
  BY DEF Advance
<1>4. Born(parent)
  BY <1>1, <1>2, BasesDescend DEF Born
<1>5. \/ parent = from
      \/ parent = local[HostOf[p]] /\ parent # 0 /\ from \in Anc(parent)
  BY DEF RelayBase, HolderBase
<1>6. Mints(p, kind, parent, Governs(from).epoch, from)
  BY <1>1, <1>5, Ids DEF Mints
<1>7. UNCHANGED <<serverVars, local, laneVars>> /\ kind \in Markers
  BY DEF Advance, Markers
<1>8. parent \in CommitIds \cup {0} /\ from \in CommitIds \cup {0}
  BY <1>4 DEF Born
<1>9. PICK e \in Nat : e = Governs(from).epoch
  BY <1>2
<1>10. /\ Born(parent) /\ (from # 0 => Born(from))
       /\ Mints(p, kind, parent, e, from)
       /\ Store(Marker(kind, parent, e, HostOf[p]))
       /\ Become(p, Run("push", op, from, 0, local[HostOf[p]], next))
  BY <1>2, <1>3, <1>4, <1>6, <1>9
<1> QED
  BY <1>7, <1>8, <1>10 DEF MintsNow

\* Every holder's transition acts on a lease whose governing marker names
\* its own clone.
LEMMA HolderMints ==
    ASSUME IInv, NEW p \in Procs,
           Renew(p) \/ Release(p) \/ BeatFor(p) \/ Bind(p) \/ Rebind(p) \/ Unwind(p)
    PROVE  MintsNow(p)
<1>1. HostOf[p] \in Hosts /\ {"renew", "release", "beatfor", "bind", "rebind"} \subseteq Ops
  BY HostAssumption DEF Ops
<1>2. OwnToken(HostOf[p]) =>
         remote \in CommitIds /\ Governs(remote).holder = HostOf[p]
  BY <1>1, ProvenIsHolder, Ids DEF OwnToken, TokenProves, IInv, TypeOK
<1>3. proc[p].pc \in {"stood", "leased", "abort"} =>
         /\ proc[p].marker \in CommitIds
         /\ Governs(proc[p].marker).holder = HostOf[p]
  <2> SUFFICES ASSUME proc[p].pc \in {"stood", "leased", "abort"}
               PROVE  /\ proc[p].marker \in CommitIds
                      /\ Governs(proc[p].marker).holder = HostOf[p]
    OBVIOUS
  <2>1. proc[p].marker # 0 /\ Mine(HostOf[p], proc[p].marker)
    BY RunFacts DEF RunInv, Pushing
  <2>2. Born(proc[p].marker)
    BY <2>1, TipsBorn
  <2> QED
    BY <2>1, <2>2, BornIs DEF Mine
<1>4. CASE Renew(p)
  BY <1>1, <1>2, <1>4, AdvanceMints DEF Renew, IsIdle
<1>5. CASE Release(p)
  BY <1>1, <1>2, <1>5, AdvanceMints DEF Release, IsIdle
<1>6. CASE BeatFor(p)
  BY <1>1, <1>6, AdvanceMints DEF BeatFor, OwnHold, IsIdle
<1>7. CASE Bind(p)
  BY <1>1, <1>3, <1>7, AdvanceMints DEF Bind, At
<1>8. CASE Rebind(p)
  <2>1. proc[p].from \in CommitIds
    BY <1>8, RunFacts DEF Rebind, At, RunInv
  <2> QED
    BY <1>1, <1>8, <2>1, AdvanceMints DEF Rebind, OwnHold, At
<1>9. CASE Unwind(p)
  BY <1>1, <1>3, <1>9, AdvanceMints DEF Unwind, At
<1> QED
  BY <1>4, <1>5, <1>6, <1>7, <1>8, <1>9

\* A takeover and a claim.
LEMMA AcquisitionMints ==
    ASSUME IInv, NEW p \in Procs, Takeover(p) \/ ClaimMint(p)
    PROVE  MintsNow(p)
<1>1. {"claim", "takeover"} \subseteq Ops /\ {"claim", "takeover"} \subseteq Markers
  BY DEF Ops, Markers
<1>2. CASE Takeover(p)
  <2>1. PICK from \in CommitIds :
           /\ HasMarker(from)
           /\ Store(Marker("takeover", from, Governs(from).epoch + 1, HostOf[p]))
           /\ Become(p, Run("push", "takeover", from, 0, local[HostOf[p]], next))
    BY <1>2 DEF Takeover
  <2>2. Governs(from).epoch + 1 \in Nat /\ Born(from)
    BY <2>1, GovernsIs, Exists DEF Commit, IInv, HasMarker, MarkersOf, Born
  <2>3. Mints(p, "takeover", from, Governs(from).epoch + 1, from)
    BY <2>1, Ids DEF Mints
  <2>4. PICK e \in Nat : e = Governs(from).epoch + 1
    BY <2>2
  <2> QED
    BY <1>1, <1>2, <2>1, <2>2, <2>3, <2>4 DEF MintsNow, Takeover, IsIdle
<1>3. CASE ClaimMint(p)
  <2>1. /\ proc[p].parent \in CommitIds /\ Born(proc[p].parent)
        /\ proc[p].from \in CommitIds \cup {0}
        /\ proc[p].from # 0 => Born(proc[p].from)
        /\ proc[p].pc = "mint"
    BY <1>3, RunFacts, TipsBorn, Ids DEF ClaimMint, At, RunInv
  <2>2. ClaimEpoch(proc[p].from) \in Nat
    BY <2>1 DEF ClaimEpoch, IInv, TypeOK, Commit
  <2>3. Mints(p, "claim", proc[p].parent, ClaimEpoch(proc[p].from), proc[p].from)
    BY <2>1 DEF Mints
  <2>4. PICK e \in Nat, parent \in CommitIds, from \in CommitIds \cup {0} :
           e = ClaimEpoch(proc[p].from) /\ parent = proc[p].parent /\ from = proc[p].from
    BY <2>1, <2>2
  <2> QED
    BY <1>1, <1>3, <2>1, <2>3, <2>4 DEF MintsNow, ClaimMint
<1> QED
  BY <1>2, <1>3

\* What the store holds after a mint.
LEMMA MarkerStored ==
    ASSUME IInv, NEW kind \in Markers, NEW parent, Born(parent), NEW epoch, NEW h,
           NEW n, n = next, Store(Marker(kind, parent, epoch, h))
    PROVE  /\ n \in CommitIds /\ n \in Nat /\ n # 0 /\ next' = n + 1
           /\ Anc(n)' = Anc(parent) \cup {n} /\ IsMarker(n)'
           /\ commits'[n].kind = kind /\ commits'[n].epoch = epoch
           /\ commits'[n].holder = h
           /\ \A a \in Anc(parent) : Born(a) /\ a # n
<1>1. n \in CommitIds /\ n \in Nat /\ n # 0 /\ next' = n + 1
  BY Ids DEF Store, IInv, TypeOK
<1>2. commits'[n] = Marker(kind, parent, epoch, h)
  BY <1>1 DEF Store, IInv, TypeOK
<1>3. \A a \in Anc(parent) : Born(a) /\ a # n
  BY <1>1, BornIs DEF Born
<1>4. /\ commits'[n].anc = Anc(parent) \cup {n}
      /\ commits'[n].kind = kind /\ commits'[n].epoch = epoch
      /\ commits'[n].holder = h
  BY <1>2 DEF Marker
<1> QED
  BY <1>1, <1>3, <1>4 DEF Anc, IsMarker

\* A command that mints nothing leaves the graph alone.
LEMMA CommandMints ==
    ASSUME IInv, NEW p \in Procs, Command(p)
    PROVE  MintsNow(p) \/ UNCHANGED <<graphVars, main>>
<1>1. CASE \/ Renew(p) \/ Release(p) \/ BeatFor(p) \/ Bind(p) \/ Rebind(p)
           \/ Unwind(p) \/ Takeover(p) \/ ClaimMint(p)
  BY <1>1, HolderMints, AcquisitionMints
<1>2. CASE ~ ( \/ Renew(p) \/ Release(p) \/ BeatFor(p) \/ Bind(p) \/ Rebind(p)
               \/ Unwind(p) \/ Takeover(p) \/ ClaimMint(p) )
  BY <1>2 DEF Command, Acquire, PushAcked, PushUnacked, PushFailed,
     PushAbandoned, Confirm, Unconfirmed, Sync, Persist, StandUp, HandoffFails,
     ClearLeftover, Yield, Scavenge, Park, DeleteLocal, Stop, serverVars
<1> QED
  BY <1>1, <1>2

\* Histories stay nested.
LEMMA NestedStep ==
    ASSUME IInv, Nested, Next
    PROVE  Nested'
<1>1. IInv' /\ Grows
  BY StepIInv
<1>2. CASE UNCHANGED graphVars
  BY <1>2 DEF Nested, graphVars, Anc
<1>3. ASSUME NEW A \in SUBSET CommitIds, NEW c, c.anc = A \cup {next}, Store(c),
             \A a \in A : a < next /\ Anc(a) \subseteq A
      PROVE  Nested'
  <2>1. next \in CommitIds /\ next' = next + 1 /\ commits'[next] = c
    BY <1>3, Ids DEF Store, IInv, TypeOK
  <2> QED
    BY <1>1, <1>3, <2>1, NestedStore
<1>4. ASSUME NEW d, Born(d)
      PROVE  /\ Anc(d) \in SUBSET CommitIds
             /\ \A a \in Anc(d) : a < next /\ Anc(a) \subseteq Anc(d)
  BY <1>4, BornIs DEF Born, Nested
<1>5. ASSUME NEW h \in Hosts, Work(h) PROVE Nested'
  <2>1. PICK on \in IF local[h] = 0 THEN Bases ELSE {local[h]} :
           Store(Plain("work", Anc(on) \cup {next}, Tree(on) \cup {next}))
    BY <1>5 DEF Work
  <2>2. Born(on)
    BY <2>1, TipsBorn
  <2> DEFINE c == Plain("work", Anc(on) \cup {next}, Tree(on) \cup {next})
  <2>3. c.anc = Anc(on) \cup {next}
    BY DEF Plain
  <2> HIDE DEF c
  <2> QED
    BY <1>3, <1>4, <2>1, <2>2, <2>3 DEF c
<1>6. ASSUME NEW H \in {Anc(remote), {}}, remote # 0, Land(H) PROVE Nested'
  <2> DEFINE A == Anc(main) \cup H
             c == Plain("main", A \cup {next}, Tree(main) \cup Tree(remote))
  <2>1. A \in SUBSET CommitIds /\ \A a \in A : a < next /\ Anc(a) \subseteq A
    BY <1>4, <1>6, TipsBorn
  <2>2. Store(c) /\ c.anc = A \cup {next}
    BY <1>6 DEF Land, Plain
  <2> HIDE DEF A, c
  <2> QED
    BY <1>3, <2>1, <2>2
<1>7. ASSUME NEW p \in Procs, MintsNow(p) PROVE Nested'
  <2>1. PICK kind \in Markers, parent \in CommitIds \cup {0}, epoch \in Nat :
           Born(parent) /\ Store(Marker(kind, parent, epoch, HostOf[p]))
    BY <1>7 DEF MintsNow
  <2> DEFINE c == Marker(kind, parent, epoch, HostOf[p])
  <2>2. c.anc = Anc(parent) \cup {next}
    BY DEF Marker
  <2> HIDE DEF c
  <2> QED
    BY <1>3, <1>4, <2>1, <2>2 DEF c
<1>8. CASE Environment
  BY <1>2, <1>5, <1>6, <1>8
     DEF Environment, FastForward, PushWork, LandMerge, LandSquash, Deliver
<1>9. CASE \E p \in Procs : Command(p)
  BY <1>2, <1>7, <1>9, CommandMints
<1> QED
  BY <1>8, <1>9 DEF Next

\* The base's history only grows, so a base that carries no markers never
\* did.
LEMMA SquashedBack ==
    ASSUME IInv, Next, Squashed'
    PROVE  Squashed
<1>1. Grows
  BY StepIInv
<1>2. Born(main) /\ main \in Nat
  BY TipsBorn, BornIs
<1>3. CASE UNCHANGED main
  BY <1>1, <1>2, <1>3, BornStays DEF Squashed
<1>4. ASSUME NEW H \in {Anc(remote), {}}, remote # 0, Land(H) PROVE Squashed
  <2>1. PICK n : n = next
    OBVIOUS
  <2>2. /\ n \in CommitIds /\ main' = n
        /\ commits'[n].anc = Anc(main) \cup H \cup {n}
    BY <1>4, <2>1, Ids DEF Land, Store, IInv, TypeOK, Plain
  <2>3. Anc(main) \subseteq Anc(n)'
    BY <2>2 DEF Anc
  <2>4. MarkersOf(main) \subseteq MarkersOf(n)'
    <3>1. \A a \in Anc(main) : IsMarker(a)' = IsMarker(a)
      BY <1>1, <1>2, BornIs, BornStays
    <3> QED
      BY <2>3, <3>1 DEF MarkersOf
  <2>5. ~HasMarker(n)'
    BY <2>2 DEF Squashed, HasMarker, MarkersOf, IsMarker, Anc
  <2> QED
    BY <2>4, <2>5 DEF Squashed, HasMarker
<1>5. CASE Environment
  BY <1>3, <1>4, <1>5
     DEF Environment, Work, FastForward, PushWork, LandMerge, LandSquash, Deliver,
         serverVars
<1>6. CASE \E p \in Procs : Command(p)
  <2>1. UNCHANGED main
    BY <1>6, CommandMints DEF MintsNow, serverVars
  <2> QED
    BY <1>3, <2>1
<1> QED
  BY <1>5, <1>6 DEF Next

-----------------------------------------------------------------------------
(* What keeps a tip's place behind the remote while the remote moves.      *)

\* The remote stays, is deleted, moves to a descendant, or moves to a
\* commit that is not in c's history.
Onward(c) ==
    \/ remote' \in {remote, 0}
    \/ /\ Born(remote')
       /\ (remote # 0 /\ remote \in Anc(remote')) \/ remote' \notin Anc(c)

\* Only a marker minted in this step starts to be on its way.
UnsentGrows == \A m \in Unsent' : m \in Unsent \/ m = next

\* Following the remote outlasts its moves.
LEMMA FollowsStays ==
    ASSUME IInv, Grows, Nested, NEW c, Born(c), NEW S, Follows(S, c), Onward(c)
    PROVE  remote' # 0 /\ remote' \in Anc(c)' => S \subseteq Anc(remote)'
<1>1. Anc(c)' = Anc(c)
  BY BornStays
<1>2. CASE remote' = remote
  <2>1. remote # 0 => Anc(remote)' = Anc(remote)
    BY <1>2, TipsBorn, BornStays DEF Anc
  <2> QED
    BY <1>1, <1>2, <2>1 DEF Follows
<1>3. ASSUME Born(remote'), remote # 0, remote \in Anc(remote'), remote' \in Anc(c)
      PROVE  S \subseteq Anc(remote)'
  <2>1. PICK v \in CommitIds : v = remote' /\ Born(v)
    BY <1>3 DEF Born
  <2>2. Anc(v)' = Anc(v) /\ Anc(remote)' = Anc(v)'
    BY <2>1, BornStays DEF Anc
  <2>3. remote \in Anc(v) /\ v \in Anc(c)
    BY <1>3, <2>1
  <2>4. Anc(remote) \subseteq Anc(v) /\ remote \in Anc(c)
    BY <2>1, <2>3 DEF Nested, Born
  <2> QED
    BY <1>3, <2>2, <2>4 DEF Follows
<1> QED
  BY <1>1, <1>2, <1>3 DEF Onward

\* A tip that is public and follows the remote goes on doing so.
LEMMA TipStays ==
    ASSUME IInv, Grows, Nested, UnsentGrows, NEW c, Born(c), Onward(c),
           Public(c), Follows(MarkersOf(c), c)
    PROVE  Public(c)' /\ Follows(MarkersOf(c), c)'
<1>1. Anc(c)' = Anc(c) /\ MarkersOf(c)' = MarkersOf(c)
  BY BornStays
<1>2. next \notin Anc(c)
  BY BornIs, Ids DEF Born, IInv, TypeOK
<1>3. Public(c)'
  BY <1>1, <1>2 DEF Public, UnsentGrows
<1>4. remote' # 0 /\ remote' \in Anc(c)' => MarkersOf(c) \subseteq Anc(remote)'
  BY FollowsStays
<1> QED
  BY <1>1, <1>3, <1>4 DEF Follows

\* So does a marker on its way keep its place.
LEMMA ExtendsStays ==
    ASSUME IInv, Grows, Nested, UnsentGrows, NEW m, Born(m), NEW from,
           from # 0 => Born(from), Extends(from, m), OnBranch(from, m) => Onward(m)
    PROVE  Extends(from, m)'
<1>1. /\ Anc(m)' = Anc(m) /\ MarkersOf(m)' = MarkersOf(m) /\ commits'[m] = commits[m]
      /\ next \notin Anc(m)
  BY BornStays, BornIs, Ids DEF Born, IInv, TypeOK
<1>2. from # 0 => /\ HasMarker(from)' = HasMarker(from)
                  /\ MarkersOf(from)' = MarkersOf(from)
                  /\ HasMarker(from) => Governs(from)' = Governs(from)
  BY BornStays
<1>3. Reads(from, m)'
  BY <1>1, <1>2 DEF Extends, Reads
<1>4. CASE OnTip(from, m)
  BY <1>1, <1>2, <1>3, <1>4 DEF OnTip, Others, Extends
<1>5. CASE OnBranch(from, m)
  <2>1. Others(m)' = Others(m)
    BY <1>1 DEF Others
  <2>2. remote' # 0 /\ remote' \in Anc(m)' => Others(m) \subseteq Anc(remote)'
    BY <1>5, FollowsStays DEF OnBranch
  <2>3. Follows(Others(m), m)'
    BY <2>1, <2>2 DEF Follows
  <2>4. Anc(m)' \cap Unsent' \subseteq {m}
    BY <1>1, <1>5 DEF OnBranch, UnsentGrows
  <2>5. OnBranch(from, m)'
    BY <1>5, <2>3, <2>4 DEF OnBranch
  <2> QED
    BY <1>3, <2>5 DEF Extends
<1> QED
  BY <1>4, <1>5 DEF Extends

-----------------------------------------------------------------------------
(* Tips that are public and follow the remote.                             *)

\* The remote's own tip, a base, and whatever a clone has.
Old(c) == c = remote \/ c \in Known \/ c \in Bases

\* A marker on its way is a marker.
LEMMA UnsentMarker ==
    ASSUME MarkersInv, NEW m \in Unsent
    PROVE  IsMarker(m) /\ \E from : Extends(from, m)
<1>1. \E from : Extends(from, m)
  BY DEF MarkersInv, SendInv, Unsent
<1> QED
  BY <1>1 DEF Extends, Reads, IsMarker, Markers

\* A history with no markers is public, and is not ahead of the remote.
LEMMA UnmarkedTip ==
    ASSUME IInv, Nested, MarkersInv, NEW c, Born(c), ~HasMarker(c)
    PROVE  Public(c) /\ Follows(MarkersOf(c), c)
<1>1. Public(c)
  BY UnsentMarker DEF Public, HasMarker, MarkersOf
<1>2. remote # 0 => remote \notin Anc(c)
  <2>1. ASSUME remote # 0, remote \in Anc(c) PROVE FALSE
    <3>1. MarkersOf(remote) \subseteq MarkersOf(c)
      BY <2>1, NestedMarkers
    <3> QED
      BY <2>1, <3>1 DEF MarkersInv, RemoteInv, HasMarker
  <2> QED
    BY <2>1
<1> QED
  BY <1>1, <1>2 DEF Follows

\* A squashed base has no markers in its history.
LEMMA BaseUnmarked ==
    ASSUME IInv, Nested, Squashed, NEW b \in Bases
    PROVE  Born(b) /\ ~HasMarker(b)
<1>1. Born(b) /\ b \in Anc(main) /\ Born(main)
  BY TipsBorn
<1>2. MarkersOf(b) \subseteq MarkersOf(main)
  BY <1>1, NestedMarkers
<1> QED
  BY <1>1, <1>2 DEF Squashed, HasMarker

\* Every tip a clone may take is public and follows the remote.
LEMMA OldTip ==
    ASSUME IInv, Nested, Squashed, MarkersInv, NEW c, c # 0, Old(c)
    PROVE  Born(c) /\ Public(c) /\ Follows(MarkersOf(c), c)
<1>1. CASE c = remote
  <2>1. Born(c) /\ Public(c)
    BY <1>1, TipsBorn DEF MarkersInv, RemoteInv
  <2>2. MarkersOf(c) \subseteq Anc(remote)
    BY <1>1 DEF MarkersOf
  <2> QED
    BY <2>1, <2>2 DEF Follows
<1>2. CASE c \in Known
  BY <1>2, TipsBorn DEF MarkersInv, KnownInv
<1>3. CASE c \in Bases
  BY <1>3, BaseUnmarked, UnmarkedTip
<1> QED
  BY <1>1, <1>2, <1>3 DEF Old

-----------------------------------------------------------------------------
(* Frames.                                                                 *)

\* A tip a clone has stays public and behind the remote.
FineNext(c) == Public(c)' /\ Follows(MarkersOf(c), c)'

\* The invariant survives a step that moves the remote only onward of every
\* tip, adds only fine tips, and sends only sound markers.
LEMMA MarkersFrame ==
    ASSUME IInv, Grows, Nested, Squashed, MarkersInv, UnsentGrows,
           \A c : c # 0 /\ Old(c) => Onward(c),
           \A m \in Unsent \cap Unsent' : \A from :
              OnBranch(from, m) => Onward(m),
           \A c \in Known' : Old(c) \/ FineNext(c),
           \A s \in Pushes' :
              s \in Pushes \/ s.marker = 0 \/ Extends(s.from, s.marker)',
           RemoteInv', OnceInv', MintInv'
    PROVE  MarkersInv'
<1>1. KnownInv'
  <2> SUFFICES ASSUME NEW c \in Known' PROVE FineNext(c)
    BY DEF KnownInv, FineNext
  <2>1. c # 0
    BY DEF Known
  <2>2. CASE Old(c)
    BY <2>1, <2>2, OldTip, TipStays DEF FineNext
  <2> QED
    BY <2>2
<1>2. ASSUME NEW s \in Pushes, s \in Pushes', s.marker # 0
      PROVE  Extends(s.from, s.marker)'
  <2>1. PICK from, m : from = s.from /\ m = s.marker
    OBVIOUS
  <2>2. /\ m \in Unsent \cap Unsent' /\ Born(m) /\ (from # 0 => Born(from))
        /\ Extends(from, m)
    BY <1>2, <2>1, TipsBorn DEF Unsent, MarkersInv, SendInv
  <2>3. Extends(from, m)'
    BY <2>2, ExtendsStays
  <2> QED
    BY <2>1, <2>3
<1>3. SendInv'
  BY <1>2 DEF SendInv
<1> QED
  BY <1>1, <1>3 DEF MarkersInv

\* A remote that does not move stays public.
LEMMA RemoteStays ==
    ASSUME IInv, Grows, Nested, Squashed, MarkersInv, UnsentGrows, UNCHANGED remote
    PROVE  RemoteInv'
<1> SUFFICES ASSUME remote # 0 PROVE HasMarker(remote)' /\ Public(remote)'
  BY DEF RemoteInv
<1>1. PICK c : c = remote
  OBVIOUS
<1>2. Born(c) /\ Public(c) /\ Follows(MarkersOf(c), c) /\ HasMarker(c) /\ Onward(c)
  BY <1>1, OldTip DEF Old, MarkersInv, RemoteInv, Onward
<1>3. Public(c)' /\ HasMarker(c)'
  BY <1>2, TipStays, BornStays
<1> QED
  BY <1>1, <1>3 DEF Public, HasMarker, MarkersOf, Anc, IsMarker

\* A command about to mint a claim still builds on what it read.
LEMMA MintStays ==
    ASSUME IInv, Grows, MarkersInv,
           \A q \in Procs : proc'[q] = proc[q] \/ proc'[q].pc # "mint"
    PROVE  MintInv'
<1> SUFFICES ASSUME NEW p \in Procs, proc'[p].pc = "mint"
             PROVE  IF proc'[p].from = 0 THEN ~HasMarker(proc[p].parent)'
                    ELSE IsMarker(proc[p].from)'
  BY DEF MintInv
<1>1. PICK f, d : f = proc'[p].from /\ d = proc'[p].parent
  OBVIOUS
<1>2. proc'[p] = proc[p] /\ d # 0
  BY <1>1, RunFacts DEF RunInv
<1>3. IF f = 0 THEN Born(d) /\ ~HasMarker(d) ELSE Born(f) /\ IsMarker(f)
  BY <1>1, <1>2, TipsBorn DEF MarkersInv, MintInv
<1>4. IF f = 0 THEN ~HasMarker(d)' ELSE IsMarker(f)'
  BY <1>3, BornStays
<1> QED
  BY <1>1, <1>4 DEF HasMarker, MarkersOf, Anc, IsMarker

\* A record that sends nothing, and whose tips are old ones.
Still(r) ==
    /\ r.pc = "push" => r.marker = 0
    /\ r.pc \in Applied => Old(r.marker)
    /\ r.pc = "mint" => IF r.from = 0 THEN Born(r.parent) /\ ~HasMarker(r.parent)
                        ELSE Born(r.from) /\ IsMarker(r.from)

\* The remote stands and nothing new is sent.
LEMMA StillStep ==
    ASSUME IInv, Grows, Nested, Squashed, MarkersInv, UNCHANGED <<remote, net>>,
           \A q \in Procs : proc'[q] = proc[q] \/ Still(proc'[q]),
           \A h \in Hosts : \A c : c = local'[h] /\ c # 0 => Old(c) \/ FineNext(c)
    PROVE  MarkersInv'
<1>1. \A p \in Sending' :
        (p \in Sending /\ proc'[p] = proc[p]) \/ proc'[p].marker = 0
  BY DEF Sending, Still
<1>2. \A s \in Pushes' : s \in Pushes \/ s.marker = 0
  BY <1>1 DEF Pushes
<1>3. UnsentGrows
  BY <1>2 DEF UnsentGrows, Unsent
<1>4. \A c : Onward(c)
  BY DEF Onward
<1>5. \A c \in Known' : Old(c) \/ FineNext(c)
  <2>1. ASSUME NEW q \in Procs, proc'[q].pc \in Applied, proc'[q].marker # 0
        PROVE  Old(proc'[q].marker)
    BY <2>1 DEF Still, Old, Known
  <2> QED
    BY <2>1 DEF Known
<1>6. RemoteInv'
  BY <1>3, RemoteStays
<1>7. OnceInv'
  BY <1>1 DEF OnceInv, MarkersInv
<1>8. MintInv'
  <2> SUFFICES ASSUME NEW p \in Procs, proc'[p].pc = "mint"
               PROVE  IF proc'[p].from = 0 THEN ~HasMarker(proc[p].parent)'
                      ELSE IsMarker(proc[p].from)'
    BY DEF MintInv
  <2>1. PICK f, d : f = proc'[p].from /\ d = proc'[p].parent
    OBVIOUS
  <2>2. IF f = 0 THEN Born(d) /\ ~HasMarker(d) ELSE Born(f) /\ IsMarker(f)
    <3>1. CASE proc'[p] = proc[p]
      <4>1. d # 0
        BY <2>1, <3>1, RunFacts DEF RunInv
      <4> QED
        BY <2>1, <3>1, <4>1, TipsBorn DEF MarkersInv, MintInv
    <3>2. CASE Still(proc'[p])
      BY <2>1, <3>2 DEF Still
    <3> QED
      BY <3>1, <3>2
  <2>3. IF f = 0 THEN ~HasMarker(d)' ELSE IsMarker(f)'
    BY <2>2, BornStays
  <2> QED
    BY <2>1, <2>3 DEF HasMarker, MarkersOf, Anc, IsMarker
<1> QED
  BY <1>2, <1>3, <1>4, <1>5, <1>6, <1>7, <1>8, MarkersFrame

-----------------------------------------------------------------------------
(* The transitions that mint, push, and deliver.                           *)

\* The minted marker extends the tip it will be pushed from.
LEMMA MintExtends ==
    ASSUME IInv, Grows, Nested, Squashed, MarkersInv, UnsentGrows, UNCHANGED remote,
           NEW p \in Procs, NEW kind \in Markers, NEW parent, Born(parent),
           NEW epoch \in Nat, NEW from, from # 0 => Born(from), NEW n, n = next,
           Mints(p, kind, parent, epoch, from),
           Store(Marker(kind, parent, epoch, HostOf[p]))
    PROVE  Extends(from, n)'
<1>1. /\ n \in CommitIds /\ n \in Nat /\ n # 0 /\ next' = n + 1
      /\ Anc(n)' = Anc(parent) \cup {n} /\ IsMarker(n)'
      /\ commits'[n].kind = kind /\ commits'[n].epoch = epoch
      /\ commits'[n].holder = HostOf[p]
      /\ \A a \in Anc(parent) : Born(a) /\ a # n
      /\ Anc(parent)' = Anc(parent) /\ HostOf[p] \in Hosts
  BY MarkerStored, BornStays, HostAssumption
<1>2. from # 0 /\ HasMarker(from) => HasMarker(from)' /\ Governs(from)' = Governs(from)
  BY BornStays
<1>3. CASE /\ kind = "claim" /\ proc[p].pc = "mint"
           /\ from = proc[p].from /\ parent = proc[p].parent
           /\ epoch = ClaimEpoch(from)
  <2>1. CASE from = 0
    <3>1. ~HasMarker(parent) /\ epoch = 1
      BY <1>3, <2>1 DEF MarkersInv, MintInv, ClaimEpoch
    <3>2. MarkersOf(n)' \subseteq {n}
      <4>1. \A a \in Anc(parent) : ~IsMarker(a)'
        BY <1>1, <3>1, BornStays DEF HasMarker, MarkersOf
      <4> QED
        BY <1>1, <4>1 DEF MarkersOf
    <3> QED
      BY <1>1, <1>3, <2>1, <3>1, <3>2 DEF Extends, Reads, OnTip, Others
  <2>2. CASE from # 0
    <3>1. parent = from /\ IsMarker(from)
      BY <1>3, <2>2, RunFacts DEF MarkersInv, MintInv, RunInv
    <3>2. HasMarker(from) /\ Governs(from) = commits[from]
      BY <2>2, <3>1, BornIs
    <3>3. epoch = Governs(from).epoch + 1
      BY <1>3, <2>2, <3>2 DEF ClaimEpoch
    <3>4. Reads(from, n)'
      BY <1>1, <1>2, <1>3, <2>2, <3>2, <3>3 DEF Reads
    <3>5. Others(n)' = MarkersOf(from)'
      BY <1>1, <3>1 DEF Others, MarkersOf
    <3> QED
      BY <2>2, <3>4, <3>5 DEF Extends, OnTip
  <2> QED
    BY <2>1, <2>2
<1>4. CASE /\ from # 0 /\ HasMarker(from)
           /\ \/ kind = "takeover" /\ parent = from /\ epoch = Governs(from).epoch + 1
              \/ /\ kind \in {"beat", "release"} /\ epoch = Governs(from).epoch
                 /\ Governs(from).holder = HostOf[p]
                 /\ \/ parent = from
                    \/ /\ parent = local[HostOf[p]] /\ parent # 0
                       /\ from \in Anc(parent)
  <2>1. Reads(from, n)'
    BY <1>1, <1>2, <1>4 DEF Reads
  <2>2. CASE parent = from
    <3>1. Others(n)' = MarkersOf(from)'
      BY <1>1, <2>2 DEF Others, MarkersOf
    <3> QED
      BY <1>4, <2>1, <3>1 DEF Extends, OnTip
  <2>3. CASE parent = local[HostOf[p]] /\ parent # 0
    <3>1. Public(parent) /\ Follows(MarkersOf(parent), parent)
      BY <2>3, OldTip, HostAssumption DEF Old, Known
    <3>2. Anc(n)' \cap Unsent' \subseteq {n}
      BY <1>1, <3>1 DEF Public, UnsentGrows
    <3>3. MarkersOf(parent)' = MarkersOf(parent) /\ Anc(parent)' = Anc(parent)
      BY BornStays
    <3>4. Others(n)' = MarkersOf(parent)
      BY <1>1, <3>3 DEF Others, MarkersOf
    <3>5. remote # n
      BY <1>1, TipsBorn DEF Born
    <3>6. remote # 0 => Anc(remote)' = Anc(remote)
      <4>1. PICK c : c = remote
        OBVIOUS
      <4>2. remote # 0 => Anc(c)' = Anc(c)
        BY <4>1, TipsBorn, BornStays
      <4> QED
        BY <4>1, <4>2 DEF Anc
    <3>7. Follows(Others(n), n)'
      BY <1>1, <3>1, <3>4, <3>5, <3>6 DEF Follows
    <3> QED
      BY <1>4, <2>1, <3>2, <3>7 DEF Extends, OnBranch
  <2> QED
    BY <1>4, <2>2, <2>3
<1> QED
  BY <1>3, <1>4 DEF Mints

\* A mint preserves the invariant.
LEMMA MintKeeps ==
    ASSUME IInv, Grows, Nested, Squashed, MarkersInv, NEW p \in Procs, MintsNow(p)
    PROVE  MarkersInv'
<1>1. PICK n : n = next
  OBVIOUS
<1>2. PICK kind \in Markers, parent \in CommitIds \cup {0}, from \in CommitIds \cup {0},
           epoch \in Nat, op \in Ops :
          /\ Born(parent) /\ (from # 0 => Born(from))
          /\ Mints(p, kind, parent, epoch, from)
          /\ Store(Marker(kind, parent, epoch, HostOf[p]))
          /\ Become(p, Run("push", op, from, 0, local[HostOf[p]], n))
  BY <1>1 DEF MintsNow
<1>3. n \in CommitIds /\ n \in Nat /\ n # 0
  BY <1>1, <1>2, MarkerStored
<1>4. /\ proc'[p].pc = "push" /\ proc'[p].from = from /\ proc'[p].marker = n
      /\ \A q \in Procs : q # p => proc'[q] = proc[q]
      /\ proc[p].pc # "push"
      /\ UNCHANGED <<remote, net, local>>
  BY <1>2 DEF MintsNow, Become, Run, IInv, TypeOK, serverVars
<1>5. /\ \A s \in Pushes' : s \in Pushes \/ (s.from = from /\ s.marker = n)
      /\ Sending' \subseteq Sending \cup {p}
  BY <1>4 DEF Pushes, Sending
<1>6. UnsentGrows
  BY <1>1, <1>5 DEF UnsentGrows, Unsent
<1>7. Extends(from, n)'
  BY <1>1, <1>2, <1>4, <1>6, MintExtends
<1>8. \A c \in Known' : Old(c)
  BY <1>4 DEF Known, Applied, Old
<1>9. \A c : Onward(c)
  BY <1>4 DEF Onward
<1>10. RemoteInv'
  BY <1>4, <1>6, RemoteStays
<1>11. MintInv'
  BY <1>4, MintStays
<1>12. OnceInv'
  <2>1. \A s \in Pushes : s.marker # n
    BY <1>1, <1>3, TipsBorn DEF Born
  <2>2. (\A m \in net : m.marker # n) /\ (\A q \in Sending : proc[q].marker # n)
    <3>1. ASSUME NEW q \in Sending PROVE proc[q].marker # n
      <4>1. PICK s \in Pushes : s = [from |-> proc[q].from, marker |-> proc[q].marker]
        BY DEF Pushes
      <4> QED
        BY <2>1, <4>1
    <3> QED
      BY <2>1, <3>1 DEF Pushes
  <2> QED
    BY <1>4, <1>5, <2>2 DEF OnceInv, MarkersInv, Sending
<1> QED
  BY <1>5, <1>6, <1>7, <1>8, <1>9, <1>10, <1>11, <1>12, MarkersFrame

\* The remote applies a push: its tip becomes the marker.
LEMMA CasKeeps ==
    ASSUME IInv, Grows, Nested, Squashed, MarkersInv,
           UNCHANGED <<graphVars, main>>,
           NEW s \in Pushes, s.from = remote, remote' = s.marker,
           Pushes' \subseteq Pushes, s.marker \notin Unsent',
           \A c \in Known' : c \in Known \/ c = s.marker,
           OnceInv', MintInv'
    PROVE  MarkersInv'
<1>1. Unsent' \subseteq Unsent /\ UnsentGrows
  BY DEF Unsent, UnsentGrows
<1>2. PICK m : m = s.marker
  OBVIOUS
<1>3. CASE m = 0
  <2>1. \A c : Onward(c)
    BY <1>2, <1>3 DEF Onward
  <2>2. RemoteInv' /\ \A c \in Known' : Old(c)
    BY <1>2, <1>3 DEF RemoteInv, Known, Old
  <2> QED
    BY <1>1, <2>1, <2>2, MarkersFrame
<1>4. CASE m # 0
  <2>1. m \in Unsent /\ m \notin Unsent' /\ Born(m)
    BY <1>2, <1>4, TipsBorn DEF Unsent
  <2>2. Extends(remote, m) /\ IsMarker(m) /\ m \in Anc(m) /\ HasMarker(m)
    BY <1>2, <1>4, <2>1, UnsentMarker, BornIs DEF MarkersInv, SendInv
  <2>3. /\ Anc(m)' = Anc(m) /\ HasMarker(m)' /\ MarkersOf(m)' = MarkersOf(m)
        /\ remote' = m /\ Anc(remote)' = Anc(m)' /\ HasMarker(remote)' = HasMarker(m)'
    BY <1>2, <2>1, <2>2, BornStays DEF Anc, HasMarker, MarkersOf, IsMarker
  <2>4. Born(remote')
    BY <2>1, <2>3
  <2>5. ASSUME NEW c, c # 0, Old(c) PROVE Onward(c)
    <3>1. m \notin Anc(c)
      BY <2>1, <2>5, OldTip DEF Public
    <3> QED
      BY <2>3, <2>4, <3>1 DEF Onward
  <2>6. ASSUME NEW d \in Unsent \cap Unsent', NEW from, OnBranch(from, d)
        PROVE  Onward(d)
    <3>1. m \notin Anc(d)
      BY <2>1, <2>6 DEF OnBranch
    <3> QED
      BY <2>3, <2>4, <3>1 DEF Onward
  <2>7. Public(m)'
    <3> SUFFICES ASSUME NEW u \in Unsent', u \in Anc(m) PROVE FALSE
      BY <2>3 DEF Public
    <3>1. u \in Unsent /\ u # m /\ IsMarker(u)
      BY <1>1, <2>1, UnsentMarker
    <3>2. u \in Others(m)
      BY <3>1 DEF Others, MarkersOf
    <3>3. CASE OnTip(remote, m)
      <4>1. remote # 0 /\ u \in Anc(remote)
        BY <3>2, <3>3 DEF OnTip, MarkersOf
      <4> QED
        BY <3>1, <4>1 DEF MarkersInv, RemoteInv, Public
    <3>4. CASE OnBranch(remote, m)
      BY <3>1, <3>4 DEF OnBranch
    <3> QED
      BY <2>2, <3>3, <3>4 DEF Extends
  <2>8. Follows(MarkersOf(m), m)'
    BY <2>3 DEF Follows, MarkersOf
  <2>9. RemoteInv'
    <3>1. Public(remote)'
      BY <2>3, <2>7 DEF Public
    <3> QED
      BY <2>3, <3>1 DEF RemoteInv
  <2>10. \A c \in Known' : Old(c) \/ FineNext(c)
    BY <1>2, <2>7, <2>8 DEF Old, FineNext
  <2> QED
    BY <1>1, <2>5, <2>6, <2>9, <2>10, MarkersFrame
<1> QED
  BY <1>3, <1>4

\* What a push in a command's record is.
LEMMA SendingPush ==
    ASSUME NEW p \in Sending
    PROVE  \E s \in Pushes : s.from = proc[p].from /\ s.marker = proc[p].marker
<1>1. [from |-> proc[p].from, marker |-> proc[p].marker] \in Pushes
  BY DEF Pushes
<1> QED
  BY <1>1

\* A push that was applied is not on its way any more (casPush).
LEMMA PushKeeps ==
    ASSUME IInv, Grows, Nested, Squashed, MarkersInv, NEW p \in Procs,
           PushAcked(p) \/ PushUnacked(p)
    PROVE  MarkersInv'
<1>1. /\ proc[p].pc = "push" /\ remote = proc[p].from /\ remote' = proc[p].marker
      /\ UNCHANGED <<graphVars, main, rescue, net, local, laneVars>>
      /\ Goto(p, Outcome(p)) \/ Goto(p, "confirm")
  BY DEF PushAcked, PushUnacked, At
<1>2. p \in Sending
  BY <1>1 DEF Sending
<1>3. /\ proc'[p].pc \in {"delete", "sync", "confirm"}
      /\ proc'[p].marker = proc[p].marker /\ proc'[p].from = proc[p].from
      /\ \A q \in Procs : q # p => proc'[q] = proc[q]
  BY <1>1 DEF Goto, Become, Outcome, IInv, TypeOK, Proc
<1>4. PICK s \in Pushes : s.from = proc[p].from /\ s.marker = proc[p].marker
  BY <1>2, SendingPush
<1>5. Sending' = Sending \ {p} /\ net' = net
      /\ \A q \in Sending' : q \in Sending /\ q # p /\ proc'[q] = proc[q]
  BY <1>1, <1>3 DEF Sending
<1>6. Pushes' \subseteq Pushes
  BY <1>5 DEF Pushes
<1>7. s.marker \notin Unsent'
  <2>1. s.marker # 0 => \A q \in Sending' : proc'[q].marker # s.marker
    BY <1>2, <1>4, <1>5 DEF MarkersInv, OnceInv
  <2>2. s.marker # 0 => \A m \in net' : m.marker # s.marker
    BY <1>2, <1>4, <1>5 DEF MarkersInv, OnceInv
  <2> QED
    BY <2>1, <2>2 DEF Unsent, Pushes
<1>8. \A c \in Known' : c \in Known \/ c = s.marker
  BY <1>1, <1>3, <1>4 DEF Known
<1>9. OnceInv'
  BY <1>5 DEF MarkersInv, OnceInv
<1>10. MintInv'
  BY <1>3, MintStays
<1> QED
  BY <1>1, <1>4, <1>6, <1>7, <1>8, <1>9, <1>10, CasKeeps

\* The remote gets to an abandoned push, or finds it outdated.
LEMMA DeliverKeeps ==
    ASSUME IInv, Grows, Nested, Squashed, MarkersInv, NEW m \in net, Deliver(m)
    PROVE  MarkersInv'
<1>1. /\ net' = net \ {m}
      /\ UNCHANGED <<graphVars, main, local, proc>>
  BY DEF Deliver
<1>2. m \in Pushes /\ Pushes' \subseteq Pushes /\ Sending' = Sending
  BY <1>1 DEF Pushes, Sending
<1>3. OnceInv'
  BY <1>1, <1>2 DEF MarkersInv, OnceInv
<1>4. MintInv'
  BY <1>1, MintStays
<1>5. Known' = Known
  BY <1>1 DEF Known
<1>6. CASE remote = m.from
  <2>1. m.marker \notin Unsent'
    <3>1. m.marker # 0 => /\ \A q \in Sending : proc[q].marker # m.marker
                          /\ \A d \in net' : d.marker # m.marker
      BY <1>1 DEF MarkersInv, OnceInv
    <3> QED
      BY <1>1, <1>2, <3>1 DEF Unsent, Pushes
  <2>2. remote' = m.marker
    BY <1>6 DEF Deliver
  <2> QED
    BY <1>1, <1>2, <1>3, <1>4, <1>5, <1>6, <2>1, <2>2, CasKeeps
<1>7. CASE remote # m.from
  <2>1. UNCHANGED remote
    BY <1>7 DEF Deliver
  <2>2. UnsentGrows
    BY <1>2 DEF UnsentGrows, Unsent
  <2>3. RemoteInv'
    BY <2>1, <2>2, RemoteStays
  <2>4. (\A c : Onward(c)) /\ \A c \in Known' : Old(c)
    BY <1>5, <2>1 DEF Onward, Old
  <2> QED
    BY <1>2, <1>3, <1>4, <2>2, <2>3, <2>4, MarkersFrame
<1> QED
  BY <1>6, <1>7

\* The client gives up on a push that is still on its way.
LEMMA AbandonKeeps ==
    ASSUME IInv, Grows, Nested, Squashed, MarkersInv, NEW p \in Procs, PushAbandoned(p)
    PROVE  MarkersInv'
<1>1. PICK e : e = [from |-> proc[p].from, marker |-> proc[p].marker]
  OBVIOUS
<1>2. /\ proc[p].pc = "push" /\ net' = net \cup {e}
      /\ e.marker = proc[p].marker
      /\ UNCHANGED <<graphVars, main, remote, local>>
      /\ Goto(p, "confirm")
  BY <1>1 DEF PushAbandoned, At
<1>3. /\ proc'[p].pc = "confirm"
      /\ \A q \in Procs : q # p => proc'[q] = proc[q]
  BY <1>2 DEF Goto, Become, IInv, TypeOK, Proc
<1>4. p \in Sending /\ e \in Pushes
  BY <1>1, <1>2 DEF Sending, Pushes
<1>5. \A q \in Sending' : q \in Sending /\ q # p /\ proc'[q] = proc[q]
  BY <1>3 DEF Sending
<1>6. Pushes' \subseteq Pushes
  BY <1>2, <1>4, <1>5 DEF Pushes
<1>7. OnceInv'
  BY <1>2, <1>4, <1>5 DEF MarkersInv, OnceInv
<1>8. UnsentGrows
  BY <1>6 DEF UnsentGrows, Unsent
<1>9. RemoteInv' /\ MintInv'
  BY <1>2, <1>3, <1>8, RemoteStays, MintStays
<1>10. (\A c : Onward(c)) /\ \A c \in Known' : Old(c)
  BY <1>2, <1>3 DEF Onward, Old, Known, Applied
<1> QED
  BY <1>6, <1>7, <1>8, <1>9, <1>10, MarkersFrame

\* An agent pushes a branch that is ahead of the remote: its markers are
\* the remote's.
LEMMA PushWorkKeeps ==
    ASSUME IInv, Grows, Nested, Squashed, MarkersInv, NEW h \in Hosts, PushWork(h)
    PROVE  MarkersInv'
<1>1. PICK c : c = local[h]
  OBVIOUS
<1>2. /\ c # 0 /\ remote # 0 /\ remote \in Anc(c) /\ remote' = c
      /\ UNCHANGED <<graphVars, main, net, local, proc>>
  BY <1>1 DEF PushWork
<1>3. c \in Known /\ Born(c)
  BY <1>1, <1>2, TipsBorn DEF Known
<1>4. Public(c) /\ MarkersOf(remote) \subseteq MarkersOf(c) /\ HasMarker(remote)
  BY <1>2, <1>3, NestedMarkers DEF MarkersInv, KnownInv, RemoteInv
<1>5. HasMarker(c)' /\ Public(c)'
  BY <1>2, <1>4
     DEF HasMarker, MarkersOf, IsMarker, Public, Anc, Unsent, Pushes, Sending, graphVars
<1>6. RemoteInv'
  BY <1>2, <1>5 DEF RemoteInv, HasMarker, Public, MarkersOf, IsMarker, Anc
<1>7. \A d : Onward(d)
  BY <1>2, <1>3 DEF Onward
<1>8. /\ Pushes' = Pushes /\ Sending' = Sending /\ Known' = Known
  BY <1>2 DEF Pushes, Sending, Known
<1>9. UnsentGrows /\ \A d \in Known' : Old(d)
  BY <1>8 DEF UnsentGrows, Unsent, Old
<1>10. OnceInv' /\ MintInv'
  BY <1>2, <1>8, MintStays DEF OnceInv, MarkersInv
<1> QED
  BY <1>6, <1>7, <1>8, <1>9, <1>10, MarkersFrame

-----------------------------------------------------------------------------
(* Every other transition leaves the remote where it is and sends nothing. *)

\* A clone's branch moves to a tip it may take.
LEMMA LocalFine ==
    ASSUME IInv, NEW h \in Hosts, NEW v, v = 0 \/ Old(v) \/ FineNext(v),
           local' = Set(local, h, v)
    PROVE  \A g \in Hosts : \A c : c = local'[g] /\ c # 0 => Old(c) \/ FineNext(c)
<1> SUFFICES ASSUME NEW g \in Hosts, NEW c, c = local'[g], c # 0
             PROVE  Old(c) \/ FineNext(c)
  OBVIOUS
<1>1. CASE g = h
  <2>1. c = v
    BY <1>1 DEF Set, IInv, TypeOK
  <2> QED
    BY <2>1
<1>2. CASE g # h
  <2>1. c = local[g]
    BY <1>2 DEF Set, IInv, TypeOK
  <2> QED
    BY <2>1 DEF Old, Known
<1> QED
  BY <1>1, <1>2

\* A branch nobody moves is a known tip.
LEMMA LocalSame ==
    ASSUME UNCHANGED local
    PROVE  \A g \in Hosts : \A c : c = local'[g] /\ c # 0 => Old(c)
  BY DEF Old, Known

\* One command moves to a still record.
LEMMA StillMove ==
    ASSUME IInv, NEW p \in Procs, NEW r, Become(p, r), Still(r)
    PROVE  \A q \in Procs : proc'[q] = proc[q] \/ Still(proc'[q])
  BY DEF Become, IInv, TypeOK

\* A command that moves on without minting or sending: the record it has
\* next sends nothing, and names an applied marker only as it knew it.
LEMMA StillGoto ==
    ASSUME IInv, NEW p \in Procs, NEW pc \in PCs \ {"mint"}, Goto(p, pc),
           pc = "push" => proc[p].marker = 0,
           pc \in Applied => proc[p].marker # 0 /\ Old(proc[p].marker)
    PROVE  \A q \in Procs : proc'[q] = proc[q] \/ Still(proc'[q])
<1>1. PICK r \in Proc : /\ Become(p, r)
                        /\ r.pc = pc /\ r.marker = proc[p].marker
  BY GotoIs
<1>2. Still(r)
  BY <1>1 DEF Still
<1> QED
  BY <1>1, <1>2, StillMove

\* A command that ends.
LEMMA StillFinish ==
    ASSUME IInv, NEW p \in Procs, Finish(p)
    PROVE  \A q \in Procs : proc'[q] = proc[q] \/ Still(proc'[q])
<1>1. Still(Idle)
  BY DEF Still, Idle, Run, Applied
<1> QED
  BY <1>1, StillMove DEF Finish

\* Acquire reads the ref: a claim of an absent one will be built on a base
\* no marker precedes, one of a released one on the release.
LEMMA AcquireKeeps ==
    ASSUME IInv, Grows, Nested, Squashed, MarkersInv, NEW p \in Procs, Acquire(p)
    PROVE  MarkersInv'
<1>1. UNCHANGED <<remote, net, local>>
  BY DEF Acquire, serverVars
<1>2. ASSUME NEW b \in Bases, Become(p, Run("mint", "claim", 0, b, 0, 0))
      PROVE  \A q \in Procs : proc'[q] = proc[q] \/ Still(proc'[q])
  <2>1. Still(Run("mint", "claim", 0, b, 0, 0))
    BY BaseUnmarked DEF Still, Run, Applied
  <2> QED
    BY <1>2, <2>1, StillMove
<1>3. ASSUME remote # 0, Released(remote),
             Become(p, Run("mint", "claim", remote, remote, 0, 0))
      PROVE  \A q \in Procs : proc'[q] = proc[q] \/ Still(proc'[q])
  <2>1. IsMarker(remote) /\ Born(remote)
    BY <1>3, TipsBorn DEF Released, IsMarker, Markers
  <2>2. Still(Run("mint", "claim", remote, remote, 0, 0))
    BY <1>3, <2>1 DEF Still, Run, Applied
  <2> QED
    BY <1>3, <2>2, StillMove
<1>4. ASSUME Become(p, Run("lost", "claim", remote, 0, 0, 0))
      PROVE  \A q \in Procs : proc'[q] = proc[q] \/ Still(proc'[q])
  <2>1. Still(Run("lost", "claim", remote, 0, 0, 0))
    BY DEF Still, Run, Applied
  <2> QED
    BY <1>4, <2>1, StillMove
<1>5. \A q \in Procs : proc'[q] = proc[q] \/ Still(proc'[q])
  BY <1>2, <1>3, <1>4 DEF Acquire
<1> QED
  BY <1>1, <1>5, LocalSame, StillStep

\* A push that fails, and the confirming read.
LEMMA ConfirmKeeps ==
    ASSUME IInv, Grows, Nested, Squashed, MarkersInv, NEW p \in Procs,
           PushFailed(p) \/ Confirm(p) \/ Unconfirmed(p) \/ Stop(p)
    PROVE  MarkersInv'
<1>1. UNCHANGED <<remote, net, local>>
  BY DEF PushFailed, Confirm, Unconfirmed, Stop, serverVars
<1>2. CASE Finish(p)
  BY <1>1, <1>2, StillFinish, LocalSame, StillStep
<1>3. CASE Goto(p, "confirm")
  BY <1>1, <1>3, StillGoto, LocalSame, StillStep DEF PCs, Applied
<1>4. CASE Confirm(p) /\ remote = proc[p].marker /\ Goto(p, Outcome(p))
  <2>1. proc[p].op = "scavenge" <=> proc[p].marker = 0
    BY <1>4, RunFacts DEF Confirm, At, RunInv, Pushing, Deleting
  <2>2. CASE proc[p].op = "scavenge"
    BY <1>1, <1>4, <2>2, StillGoto, LocalSame, StillStep DEF PCs, Applied, Outcome
  <2>3. CASE proc[p].op # "scavenge"
    <3>1. Goto(p, "sync") /\ Old(proc[p].marker) /\ proc[p].marker # 0
      BY <1>4, <2>1, <2>3 DEF Outcome, Old
    <3> QED
      BY <1>1, <3>1, StillGoto, LocalSame, StillStep DEF PCs
  <2> QED
    BY <2>2, <2>3
<1>5. ASSUME Become(p, Run("lost", proc[p].op, remote, 0, 0, 0))
      PROVE  MarkersInv'
  <2>1. Still(Run("lost", proc[p].op, remote, 0, 0, 0))
    BY DEF Still, Run, Applied
  <2> QED
    BY <1>1, <1>5, <2>1, StillMove, LocalSame, StillStep
<1> QED
  BY <1>2, <1>3, <1>4, <1>5 DEF PushFailed, Confirm, Unconfirmed, Stop

\* The clone catches up with its own applied marker: the local ref, the
\* token, the lane.
LEMMA SyncKeeps ==
    ASSUME IInv, Grows, Nested, Squashed, MarkersInv, NEW p \in Procs,
           Sync(p) \/ Persist(p) \/ StandUp(p) \/ HandoffFails(p)
    PROVE  MarkersInv'
<1>1. UNCHANGED <<remote, net>> /\ HostOf[p] \in Hosts
  BY HostAssumption DEF Sync, Persist, StandUp, HandoffFails, serverVars
<1>2. /\ proc[p].marker # 0 /\ proc[p].marker \in Known /\ Old(proc[p].marker)
  <2>1. proc[p].pc \in Applied /\ proc[p].marker # 0
    BY RunFacts
       DEF Sync, Persist, StandUp, HandoffFails, At, Applied, RunInv, Pushing
  <2> QED
    BY <2>1 DEF Known, Old
<1>3. \A q \in Procs : proc'[q] = proc[q] \/ Still(proc'[q])
  <2>1. CASE Finish(p)
    BY <2>1, StillFinish
  <2>2. ASSUME NEW pc \in {"leased", "stood", "abort"}, Goto(p, pc)
        PROVE  \A q \in Procs : proc'[q] = proc[q] \/ Still(proc'[q])
    BY <1>2, <2>2, StillGoto DEF PCs
  <2>3. ASSUME Become(p, Run("persist", proc[p].op, 0, 0, 0, proc[p].marker))
        PROVE  \A q \in Procs : proc'[q] = proc[q] \/ Still(proc'[q])
    <3>1. Still(Run("persist", proc[p].op, 0, 0, 0, proc[p].marker))
      BY <1>2 DEF Still, Run
    <3> QED
      BY <2>3, <3>1, StillMove
  <2> QED
    BY <2>1, <2>2, <2>3 DEF Sync, AfterSync, Persist, StandUp, HandoffFails
<1>4. \/ UNCHANGED local
      \/ \E v : Old(v) /\ local' = Set(local, HostOf[p], v)
  BY <1>2 DEF Sync, Persist, StandUp, HandoffFails, Old
<1>5. \A g \in Hosts : \A c : c = local'[g] /\ c # 0 => Old(c) \/ FineNext(c)
  BY <1>1, <1>4, LocalSame, LocalFine
<1> QED
  BY <1>1, <1>3, <1>5, StillStep

\* Teardown, and a scavenge up to its push, which deletes and so sends no
\* marker.
LEMMA TearDownKeeps ==
    ASSUME IInv, Grows, Nested, Squashed, MarkersInv, NEW p \in Procs,
           ClearLeftover(p) \/ Yield(p) \/ Scavenge(p) \/ Park(p) \/ DeleteLocal(p)
    PROVE  MarkersInv'
<1>1. UNCHANGED <<remote, net>> /\ HostOf[p] \in Hosts
  BY HostAssumption
     DEF ClearLeftover, Yield, Scavenge, Park, DeleteLocal, serverVars
<1>2. \A q \in Procs : proc'[q] = proc[q] \/ Still(proc'[q])
  <2>1. CASE ClearLeftover(p) \/ Yield(p)
    BY <2>1 DEF ClearLeftover, Yield
  <2>2. CASE Scavenge(p)
    <3>1. \E pc \in {"delete", "park"} : \E tip :
             Become(p, Run(pc, "scavenge", tip, 0, 0, 0))
      BY <2>2 DEF Scavenge
    <3>2. ASSUME NEW pc \in {"delete", "park"}, NEW tip
          PROVE  Still(Run(pc, "scavenge", tip, 0, 0, 0))
      BY DEF Still, Run, Applied
    <3> QED
      BY <3>1, <3>2, StillMove
  <2>3. CASE Park(p)
    <3>1. proc[p].marker = 0 /\ Goto(p, "push")
      BY <2>3, RunFacts DEF Park, At, RunInv
    <3> QED
      BY <3>1, StillGoto DEF PCs, Applied
  <2>4. CASE DeleteLocal(p)
    BY <2>4, StillFinish DEF DeleteLocal
  <2> QED
    BY <2>1, <2>2, <2>3, <2>4
<1>3. \/ UNCHANGED local
      \/ local' = Set(local, HostOf[p], 0)
  BY DEF ClearLeftover, Yield, Scavenge, Park, DeleteLocal
<1>4. \A g \in Hosts : \A c : c = local'[g] /\ c # 0 => Old(c) \/ FineNext(c)
  BY <1>1, <1>3, LocalSame, LocalFine
<1> QED
  BY <1>1, <1>2, <1>4, StillStep

\* An agent commits on a branch, or takes the base into it.
LEMMA AgentKeeps ==
    ASSUME IInv, Grows, Nested, Squashed, MarkersInv, NEW h \in Hosts,
           Work(h) \/ FastForward(h)
    PROVE  MarkersInv'
<1>1. UNCHANGED <<remote, net, proc>>
  BY DEF Work, FastForward, serverVars
<1>2. CASE FastForward(h)
  <2>1. PICK b \in Bases : local' = Set(local, h, b)
    BY <1>2 DEF FastForward
  <2>2. \A g \in Hosts : \A c : c = local'[g] /\ c # 0 => Old(c) \/ FineNext(c)
    BY <2>1, LocalFine DEF Old
  <2> QED
    BY <1>1, <2>2, StillStep
<1>3. CASE Work(h)
  <2>1. PICK n : n = next
    OBVIOUS
  <2>2. PICK on \in IF local[h] = 0 THEN Bases ELSE {local[h]} :
           Store(Plain("work", Anc(on) \cup {next}, Tree(on) \cup {next}))
    BY <1>3 DEF Work
  <2>3. Old(on) /\ on # 0
    <3>1. \A b \in Bases : b # 0
      BY BasesExist, Ids
    <3> QED
      BY <2>2, <3>1 DEF Old, Known
  <2>4. Born(on) /\ Public(on) /\ Follows(MarkersOf(on), on)
    BY <2>3, OldTip
  <2>5. /\ n \in CommitIds /\ next' = n + 1
        /\ commits'[n] = Plain("work", Anc(on) \cup {n}, Tree(on) \cup {n})
    BY <2>1, <2>2, Ids DEF Store, IInv, TypeOK
  <2>6. Anc(n)' = Anc(on) \cup {n} /\ ~IsMarker(n)'
    BY <2>5 DEF Plain, Anc, IsMarker, Markers
  <2>7. Anc(on)' = Anc(on) /\ MarkersOf(on)' = MarkersOf(on)
    BY <2>4, BornStays
  <2>8. MarkersOf(n)' = MarkersOf(on)
    BY <2>6, <2>7 DEF MarkersOf
  <2>9. Unsent' = Unsent /\ n \notin Unsent
    <3>1. Unsent' = Unsent
      BY <1>1 DEF Unsent, Pushes, Sending
    <3>2. n \in Nat
      BY <2>5, Ids
    <3> QED
      BY <2>1, <3>1, <3>2, TipsBorn DEF Born
  <2>10. Public(n)'
    BY <2>4, <2>6, <2>9 DEF Public
  <2>11. Follows(MarkersOf(n), n)'
    <3>1. PICK c : c = remote
      OBVIOUS
    <3>2. c # 0 => c # n /\ Anc(c)' = Anc(c)
      BY <2>1, <2>5, <3>1, TipsBorn, BornStays, Ids DEF Born
    <3>3. remote' = c /\ (c # 0 => Anc(remote)' = Anc(c)')
      BY <1>1, <3>1 DEF Anc
    <3> QED
      BY <2>4, <2>6, <2>8, <3>1, <3>2, <3>3 DEF Follows
  <2>12. \A g \in Hosts : \A c : c = local'[g] /\ c # 0 => Old(c) \/ FineNext(c)
    <3>1. local' = Set(local, h, n) /\ FineNext(n)
      BY <1>3, <2>1, <2>10, <2>11 DEF Work, FineNext
    <3> QED
      BY <3>1, LocalFine
  <2> QED
    BY <1>1, <2>12, StillStep
<1> QED
  BY <1>2, <1>3

\* A landing that keeps the branch's history ends the promise; a squash
\* concerns the base alone.
LEMMA LandKeeps ==
    ASSUME IInv, Grows, Nested, Squashed, MarkersInv, LandMerge \/ LandSquash
    PROVE  Squashed' => MarkersInv'
<1>1. UNCHANGED <<remote, net, local, proc>> /\ remote # 0
  BY DEF LandMerge, LandSquash, Land
<1>2. CASE LandSquash
  BY <1>1, LocalSame, StillStep
<1>3. CASE LandMerge
  <2>1. PICK n : n = next
    OBVIOUS
  <2>2. /\ n \in CommitIds /\ main' = n
        /\ commits'[n].anc = Anc(main) \cup Anc(remote) \cup {n}
    BY <1>3, <2>1, Ids DEF LandMerge, Land, Store, IInv, TypeOK, Plain
  <2>3. PICK m : m \in MarkersOf(remote)
    BY <1>1 DEF MarkersInv, RemoteInv, HasMarker
  <2>4. Born(m) /\ IsMarker(m) /\ m \in Anc(remote)
    BY <1>1, <2>3, TipsBorn, BornIs DEF MarkersOf
  <2>5. IsMarker(m)' /\ m \in commits'[n].anc
    BY <2>2, <2>4, BornStays
  <2>6. HasMarker(main)'
    BY <2>2, <2>5 DEF HasMarker, MarkersOf, Anc, IsMarker
  <2> QED
    BY <2>6 DEF Squashed
<1> QED
  BY <1>2, <1>3

-----------------------------------------------------------------------------
(* The invariant is inductive.                                             *)

\* Nothing is on its way, and no clone has a branch.
LEMMA InitRegInv == Init => RegInv
<1> SUFFICES ASSUME Init PROVE RegInv
  OBVIOUS
<1>1. IInv
  BY InitIInv
<1>2. Root \in CommitIds /\ \A p \in Procs : proc[p].pc = "idle"
  BY Ids DEF Init, Idle, Run
<1>3. \A c \in CommitIds : Anc(c) = IF c = Root THEN {Root} ELSE {}
  BY <1>2 DEF Init, Anc, Plain, Unborn
<1>4. Nested
  BY <1>2, <1>3 DEF Nested
<1>5. Sending = {} /\ Pushes = {} /\ Unsent = {} /\ Known = {} /\ remote = 0
  BY <1>2 DEF Init, Sending, Pushes, Unsent, Known, Applied
<1>6. MarkersInv
  BY <1>2, <1>5, TipsBorn, <1>1
     DEF Init, MarkersInv, KnownInv, RemoteInv, OnceInv, SendInv, MintInv
<1> QED
  BY <1>4, <1>6 DEF RegInv

\* Every step preserves it.
LEMMA StepRegInv ==
    ASSUME IInv, RegInv, Next
    PROVE  RegInv'
<1>1. Nested /\ Nested' /\ Grows
  BY NestedStep, StepIInv DEF RegInv
<1> SUFFICES ASSUME Squashed' PROVE MarkersInv'
  BY <1>1 DEF RegInv
<1>2. Squashed /\ MarkersInv
  BY SquashedBack DEF RegInv
<1>3. CASE Environment
  BY <1>1, <1>2, <1>3, AgentKeeps, PushWorkKeeps, LandKeeps, DeliverKeeps
     DEF Environment
<1>4. ASSUME NEW p \in Procs, Command(p) PROVE MarkersInv'
  <2>1. CASE \/ Renew(p) \/ Release(p) \/ BeatFor(p) \/ Bind(p) \/ Rebind(p)
             \/ Unwind(p) \/ Takeover(p) \/ ClaimMint(p)
    <3>1. MintsNow(p)
      BY <2>1, HolderMints, AcquisitionMints
    <3> QED
      BY <1>1, <1>2, <3>1, MintKeeps
  <2>2. CASE ~ ( \/ Renew(p) \/ Release(p) \/ BeatFor(p) \/ Bind(p) \/ Rebind(p)
                 \/ Unwind(p) \/ Takeover(p) \/ ClaimMint(p) )
    BY <1>1, <1>2, <1>4, <2>2, AcquireKeeps, PushKeeps, AbandonKeeps, ConfirmKeeps,
       SyncKeeps, TearDownKeeps
       DEF Command
  <2> QED
    BY <2>1, <2>2
<1> QED
  BY <1>3, <1>4 DEF Next

\* Stuttering preserves it.
LEMMA StutterRegInv ==
    ASSUME IInv, RegInv, UNCHANGED vars
    PROVE  RegInv'
<1>1. Grows /\ UNCHANGED <<commits, main, remote, net, local, proc>>
  BY StoreStays DEF vars, graphVars
<1>2. Nested' /\ (Squashed' => Squashed)
  BY <1>1 DEF RegInv, Nested, Squashed, HasMarker, MarkersOf, IsMarker, Anc
<1>3. Squashed => MarkersInv'
  BY <1>1, LocalSame, StillStep DEF RegInv
<1> QED
  BY <1>2, <1>3 DEF RegInv

\* RegInv holds in every reachable state of the protocol.
THEOREM RegInvariance == Spec => []RegInv
  BY InitRegInv, StepRegInv, StutterRegInv, Invariance, PTL DEF Spec

-----------------------------------------------------------------------------
(* The refinement.                                                         *)

\* A tip is read through its markers, and nothing else.
LEMMA SameMarkers ==
    ASSUME NEW a, NEW b, MarkersOf(a) = MarkersOf(b)
    PROVE  Governs(a) = Governs(b) /\ LiveHold(a) = LiveHold(b)
  BY DEF Governs, LatestMarker, LiveHold, TerminalsOf

\* What was minted last says what the tip is, unless it is a beat; a beat
\* leaves it to the markers before it.
LEMMA TopMarker ==
    ASSUME IInv, NEW m, Born(m), IsMarker(m)
    PROVE  /\ Governs(m) = commits[m]
           /\ commits[m].kind # "beat" =>
                (LiveHold(m) <=> commits[m].kind # "release")
           /\ commits[m].kind = "beat" =>
                TerminalsOf(m) = {d \in Others(m) : commits[d].kind # "beat"}
<1>1. /\ m \in MarkersOf(m) /\ Governs(m) = commits[m]
      /\ \A a \in Anc(m) : a \in CommitIds /\ a <= m /\ a \in Nat
      /\ m \in Nat
  BY BornIs DEF Born
<1>2. TerminalsOf(m) \in SUBSET CommitIds /\ \A d \in TerminalsOf(m) : m >= d
  BY <1>1 DEF TerminalsOf, MarkersOf
<1>3. CASE commits[m].kind # "beat"
  <2>1. m \in TerminalsOf(m)
    BY <1>1, <1>3 DEF TerminalsOf
  <2>2. Max(TerminalsOf(m)) = m
    BY <1>2, <2>1, MaxIs
  <2> QED
    BY <1>1, <1>3, <2>1, <2>2 DEF LiveHold
<1>4. CASE commits[m].kind = "beat"
  BY <1>1, <1>4 DEF TerminalsOf, Others
<1> QED
  BY <1>3, <1>4

\* The remote's tip after the step, by a name that does not change.
LEMMA RemoteNamed ==
    ASSUME NEW c, remote' = c
    PROVE  Governs(remote)' = Governs(c)' /\ LiveHold(remote)' = LiveHold(c)'
  BY DEF Governs, LatestMarker, LiveHold, TerminalsOf, MarkersOf, IsMarker, Anc

\* The remote is moved by a push that was on its way or by an agent's.
LEMMA RemoteMover ==
    ASSUME IInv, Next, remote' # remote
    PROVE  /\ UNCHANGED <<graphVars, main>> /\ Pending(remote, remote')
           /\ \/ \E s \in Pushes : s.from = remote /\ s.marker = remote'
              \/ \E h \in Hosts : PushWork(h)
<1>1. UNCHANGED <<graphVars, main>> /\ Pending(remote, remote')
  BY RemoteMoves
<1>2. ASSUME NEW m \in net, Deliver(m)
      PROVE  \E s \in Pushes : s.from = remote /\ s.marker = remote'
  BY <1>2 DEF Deliver, Pushes
<1>3. ASSUME NEW p \in Procs, PushAcked(p) \/ PushUnacked(p)
      PROVE  \E s \in Pushes : s.from = remote /\ s.marker = remote'
  <2>1. /\ p \in Sending /\ proc[p].from = remote
        /\ proc[p].marker = remote'
    BY <1>3 DEF PushAcked, PushUnacked, At, Sending
  <2> QED
    BY <2>1, SendingPush
<1>4. CASE Environment
  BY <1>1, <1>2, <1>4
     DEF Environment, Work, FastForward, LandMerge, LandSquash, Land, serverVars
<1>5. ASSUME NEW p \in Procs, Command(p), ~PushAcked(p), ~PushUnacked(p)
      PROVE  FALSE
  BY <1>5 DEF Command, Acquire, ClaimMint, Renew, Release, BeatFor, Takeover, Bind,
     Rebind, Unwind, Advance, PushFailed, PushAbandoned, Confirm, Unconfirmed, Sync,
     Persist, StandUp, HandoffFails, ClearLeftover, Yield, Scavenge, Park,
     DeleteLocal, Stop, serverVars
<1> QED
  BY <1>1, <1>3, <1>4, <1>5 DEF Next

\* The remote's new tip is read as the old one was.
LEMMA ReadAsBefore ==
    ASSUME Squashed, Squashed', NEW c, remote' = c, c # 0, remote # 0,
           Governs(c)'.epoch = Governs(remote).epoch,
           Governs(c)'.holder = Governs(remote).holder,
           LiveHold(c)' = LiveHold(remote)
    PROVE  UNCHANGED Register!reg
  BY RemoteNamed DEF Register!reg

\* An agent's push changes nothing in the register.
LEMMA PushWorkRegister ==
    ASSUME IInv, Grows, Nested, Squashed, MarkersInv, Squashed', NEW h \in Hosts, PushWork(h)
    PROVE  UNCHANGED Register!reg
<1>1. PICK c : c = local[h]
  OBVIOUS
<1>2. c # 0 /\ remote # 0 /\ remote \in Anc(c) /\ remote' = c
  BY <1>1 DEF PushWork
<1>3. c \in Known /\ Born(c) /\ Born(remote)
  BY <1>1, <1>2, TipsBorn DEF Known
<1>4. MarkersOf(c) \subseteq Anc(remote) /\ MarkersOf(remote) \subseteq MarkersOf(c)
  BY <1>2, <1>3, NestedMarkers DEF MarkersInv, KnownInv, Follows
<1>5. MarkersOf(c) = MarkersOf(remote)
  BY <1>4 DEF MarkersOf
<1>6. Governs(c) = Governs(remote) /\ LiveHold(c) = LiveHold(remote) /\ HasMarker(c)
  BY <1>2, <1>5, SameMarkers DEF MarkersInv, RemoteInv, HasMarker
<1>7. Governs(c)' = Governs(c) /\ LiveHold(c)' = LiveHold(c)
  BY <1>3, <1>6, BornStays
<1> QED
  BY <1>2, <1>6, <1>7, ReadAsBefore

\* A push that is applied leases, releases or deletes the register, or
\* beats, which leaves it alone.
LEMMA CasRegister ==
    ASSUME IInv, Grows, Nested, Squashed, MarkersInv, Squashed', UNCHANGED graphVars,
           remote' # remote, Pending(remote, remote'),
           NEW s \in Pushes, s.from = remote, s.marker = remote'
    PROVE  Register!Next \/ UNCHANGED Register!reg
<1>1. PICK m : m = s.marker /\ remote' = m
  OBVIOUS
<1>2. CASE m = 0
  <2>1. Register!Delete
    BY <1>1, <1>2 DEF Register!Delete, Register!Absent
  <2> QED
    BY <2>1 DEF Register!Next
<1>3. CASE m # 0
  <2>1. m \in Unsent /\ Born(m) /\ IsMarker(m) /\ Extends(remote, m)
    BY <1>1, <1>3, TipsBorn, UnsentMarker DEF Unsent, MarkersInv, SendInv
  <2>2. /\ Governs(m) = commits[m] /\ HasMarker(m)
        /\ commits[m].kind # "beat" =>
                (LiveHold(m) <=> commits[m].kind # "release")
        /\ commits[m].kind = "beat" =>
                TerminalsOf(m) = {d \in Others(m) : commits[d].kind # "beat"}
    BY <2>1, TopMarker, BornIs
  <2>3. /\ Governs(remote)' = commits[m] /\ LiveHold(remote)' = LiveHold(m)
        /\ Governs(m)' = commits[m] /\ LiveHold(m)' = LiveHold(m)
    BY <1>1, <2>1, <2>2, RemoteNamed, BornStays
  <2>4. /\ commits[m].holder \in Hosts
        /\ \/ /\ commits[m].kind \in {"claim", "takeover"}
              /\ commits[m].epoch =
                    IF remote = 0 THEN 1 ELSE Governs(remote).epoch + 1
           \/ /\ remote # 0 /\ commits[m].kind \in {"beat", "release"}
              /\ commits[m].epoch = Governs(remote).epoch
              /\ commits[m].holder = Governs(remote).holder
    BY <2>1 DEF Extends, Reads
  <2>5. CASE commits[m].kind \in {"claim", "takeover"}
    <3>1. LiveHold(m)
      BY <2>2, <2>5
    <3>2. commits[m].epoch = IF remote = 0 THEN 1 ELSE Governs(remote).epoch + 1
      BY <2>4, <2>5
    <3>3. Register!Lease
      BY <1>1, <1>3, <2>3, <2>4, <3>1, <3>2 DEF Register!Lease
    <3> QED
      BY <3>3 DEF Register!Next
  <2>6. CASE remote # 0 /\ commits[m].kind = "release"
    <3>1. /\ ~LiveHold(m)
          /\ commits[m].epoch = Governs(remote).epoch
          /\ commits[m].holder = Governs(remote).holder
      BY <2>2, <2>4, <2>6
    <3>2. CASE LiveHold(remote)
      <4>1. Register!Release
        BY <1>1, <1>3, <2>3, <2>6, <3>1, <3>2 DEF Register!Release
      <4> QED
        BY <4>1 DEF Register!Next
    <3>3. CASE ~LiveHold(remote)
      <4>1. LiveHold(m)' = LiveHold(remote)
        BY <2>3, <3>1, <3>3 DEF LiveHold
      <4> QED
        BY <1>1, <1>3, <2>3, <2>6, <3>1, <4>1, ReadAsBefore
    <3> QED
      BY <3>2, <3>3
  <2>7. CASE remote # 0 /\ commits[m].kind = "beat"
    <3>1. remote \in Anc(m) /\ Born(remote) /\ m \notin Anc(remote)
      BY <1>1, <1>3, <2>1, <2>7, TipsBorn
         DEF Pending, MarkersInv, RemoteInv, Public
    <3>2. MarkersOf(remote) \subseteq Others(m)
      BY <2>1, <3>1, NestedMarkers DEF Others, MarkersOf
    <3>3. Others(m) = MarkersOf(remote)
      <4>1. CASE OnTip(remote, m)
        BY <2>7, <4>1 DEF OnTip
      <4>2. CASE OnBranch(remote, m)
        <5>1. Others(m) \subseteq Anc(remote)
          BY <2>7, <3>1, <4>2 DEF OnBranch, Follows
        <5> QED
          BY <3>2, <5>1 DEF Others, MarkersOf
      <4> QED
        BY <2>1, <4>1, <4>2 DEF Extends
    <3>4. TerminalsOf(m) = TerminalsOf(remote)
      BY <2>2, <2>7, <3>3 DEF TerminalsOf
    <3>5. LiveHold(m) = LiveHold(remote)
      BY <3>4 DEF LiveHold
    <3> QED
      BY <1>1, <1>3, <2>3, <2>4, <2>7, <3>5, ReadAsBefore
  <2> QED
    BY <2>4, <2>5, <2>6, <2>7
<1> QED
  BY <1>2, <1>3

\* Every step of the protocol is a step of the register or leaves it alone.
LEMMA StepRegister ==
    ASSUME IInv, RegInv, Next
    PROVE  Register!Next \/ UNCHANGED Register!reg
<1>1. Nested /\ Grows
  BY StepIInv DEF RegInv
<1>2. CASE ~Squashed'
  <2>1. Register!Lapse
    BY <1>2 DEF Register!Lapse
  <2> QED
    BY <2>1 DEF Register!Next
<1>3. CASE Squashed'
  <2>1. Squashed /\ MarkersInv
    BY <1>3, SquashedBack DEF RegInv
  <2>2. CASE remote' = remote
    <3>1. PICK c : c = remote
      OBVIOUS
    <3>2. CASE c = 0
      BY <1>3, <2>1, <2>2, <3>1, <3>2 DEF Register!reg
    <3>3. CASE c # 0
      <4>1. Born(c) /\ HasMarker(c)
        BY <2>1, <3>1, <3>3, TipsBorn DEF MarkersInv, RemoteInv
      <4>2. Governs(c)' = Governs(c) /\ LiveHold(c)' = LiveHold(c)
        BY <1>1, <4>1, BornStays
      <4> QED
        BY <1>3, <2>1, <2>2, <3>1, <3>3, <4>2, ReadAsBefore
    <3> QED
      BY <3>2, <3>3
  <2>3. CASE remote' # remote
    BY <1>1, <1>3, <2>1, <2>3, RemoteMover, CasRegister, PushWorkRegister
  <2> QED
    BY <2>2, <2>3
<1> QED
  BY <1>2, <1>3

\* The protocol implements the register: for as long as landings are
\* squashed, the work ref is acquired at the next epoch only, changes
\* holder only with its epoch, and comes back from a release or a delete
\* only by a new acquisition; whatever is pushed late, twice or blindly.
THEOREM ImplementsRegister == Spec => ImplementsWorkRef
<1>1. Init => Register!Absent
  <2> SUFFICES ASSUME Init PROVE Register!Absent
    OBVIOUS
  <2>1. Squashed
    <3>1. main = Root /\ commits[Root] = Plain("main", {Root}, {})
      BY Ids DEF Init
    <3> QED
      BY <3>1 DEF Squashed, HasMarker, MarkersOf, Anc, IsMarker, Plain, Markers
  <2> QED
    BY <2>1 DEF Init, Register!Absent
<1>2. IInv /\ RegInv /\ [Next]_vars => [Register!Next]_(Register!reg)
  <2> SUFFICES ASSUME IInv, RegInv, [Next]_vars
               PROVE  Register!Next \/ UNCHANGED Register!reg
    OBVIOUS
  <2>1. CASE Next
    BY <2>1, StepRegister
  <2>2. CASE UNCHANGED vars
    BY <2>2 DEF vars, Register!reg, Squashed, HasMarker, MarkersOf, IsMarker, Anc,
       Governs, LatestMarker, LiveHold, TerminalsOf
  <2> QED
    BY <2>1, <2>2
<1> QED
  BY <1>1, <1>2, Invariance, RegInvariance, PTL
     DEF Spec, ImplementsWorkRef, Register!Spec
=============================================================================

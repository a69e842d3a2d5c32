---------------------------- MODULE LeaseProofs ----------------------------
(***************************************************************************)
(* Theorems about Lease, for every set of clones and commands and every    *)
(* bound.  All of them rest on IInv of LeaseInv being inductive; the last  *)
(* section derives the properties of the protocol from it.                 *)
(***************************************************************************)
EXTENDS LeaseInv, WellFoundedInduction, TLAPS

-----------------------------------------------------------------------------
(* Commit ids, and the newest of a set of them.                            *)

\* A commit id is a positive number, a tip is an id or 0, and the next id
\* is one as long as the bound leaves room for it.
LEMMA Ids ==
    /\ CommitIds \subseteq Nat \ {0}
    /\ Tips \subseteq Nat
    /\ Root \in CommitIds
    /\ Tips = CommitIds \cup {0}
    /\ \A n \in 2..(MaxCommits + 1) : n <= MaxCommits => n \in CommitIds
    /\ \A n \in 2..(MaxCommits + 1) : n \in Nat /\ n >= 2
  BY BoundAssumption DEF Root, CommitIds, Tips

\* A nonempty set of bounded numbers has a greatest element.
LEMMA MaxExists ==
    ASSUME NEW N \in Nat, NEW S \in SUBSET (1..N), S # {}
    PROVE  \E x \in S : \A y \in S : x >= y
<1> DEFINE T == {N - m : m \in S}
<1>1. \A m \in S : m \in Int /\ m <= N /\ N - m \in Nat
  OBVIOUS
<1>2. T \subseteq Nat
  BY <1>1
<1>3. T # {}
  OBVIOUS
<1>4. PICK x \in T : \A y \in T : ~(<<y, x>> \in OpToRel(<, Nat))
  BY <1>2, <1>3, NatLessThanWellFounded, WFMin
<1>5. \A y \in T : ~(y < x)
  BY <1>2, <1>4 DEF OpToRel
<1>6. PICK m \in S : x = N - m
  BY <1>4
<1>7. ASSUME NEW y \in S PROVE m >= y
  <2>1. ~(N - y < N - m)
    BY <1>5, <1>6
  <2>2. y \in Int /\ m \in Int
    BY <1>1
  <2> QED
    BY <2>1, <2>2
<1> QED
  BY <1>7

\* Max is the greatest element, and the only one.
LEMMA MaxIs ==
    ASSUME NEW S \in SUBSET CommitIds, S # {}
    PROVE  /\ Max(S) \in S
           /\ \A y \in S : Max(S) >= y
           /\ \A m \in S : (\A y \in S : m >= y) => Max(S) = m
<1>1. Max(S) \in S /\ \A y \in S : Max(S) >= y
  BY MaxExists, BoundAssumption DEF Max, CommitIds
<1>2. ASSUME NEW m \in S, \A y \in S : m >= y PROVE Max(S) = m
  <2>1. Max(S) >= m /\ m >= Max(S)
    BY <1>1, <1>2
  <2>2. Max(S) \in Nat /\ m \in Nat
    BY <1>1, Ids
  <2> QED
    BY <2>1, <2>2
<1> QED
  BY <1>1, <1>2

\* The marker that governs a tip is a marker of the tip's history.
LEMMA GovernsIs ==
    ASSUME TypeOK, NEW c \in CommitIds, HasMarker(c)
    PROVE  /\ LatestMarker(c) \in Anc(c)
           /\ LatestMarker(c) \in CommitIds
           /\ IsMarker(LatestMarker(c))
           /\ Governs(c) \in Commit
<1>1. Anc(c) \subseteq CommitIds
  BY DEF TypeOK, Anc, Commit
<1>2. MarkersOf(c) \in SUBSET CommitIds /\ MarkersOf(c) # {}
  BY <1>1 DEF MarkersOf, HasMarker
<1>3. LatestMarker(c) \in MarkersOf(c)
  BY <1>2, MaxIs DEF LatestMarker
<1> QED
  BY <1>1, <1>3 DEF MarkersOf, Governs, TypeOK

\* A commit that has a history exists, and so does all of its history.
LEMMA Exists ==
    ASSUME IInv, NEW c \in CommitIds, Anc(c) # {}
    PROVE  /\ c < next
           /\ c \in Anc(c)
           /\ \A a \in Anc(c) : a \in CommitIds /\ a <= c /\ a < next
<1>1. next \in Nat /\ c \in Nat
  BY Ids DEF IInv, TypeOK
<1>2. c < next
  BY <1>1 DEF IInv, GraphInv, Unborn, Plain, Anc
<1>3. c \in Anc(c) /\ Anc(c) \subseteq 1..c
  BY <1>2 DEF IInv, GraphInv
<1>4. Anc(c) \subseteq CommitIds
  BY DEF IInv, TypeOK, Anc, Commit
<1> QED
  BY <1>1, <1>2, <1>3, <1>4

\* A marker that governs a tip that is itself a marker is that tip.
LEMMA MarkerGovernsItself ==
    ASSUME IInv, NEW c \in CommitIds, IsMarker(c), c < next
    PROVE  HasMarker(c) /\ LatestMarker(c) = c
<1>1. c \in Anc(c) /\ Anc(c) \subseteq CommitIds /\ Anc(c) \subseteq 1..c
  BY DEF IInv, TypeOK, GraphInv, Anc, Commit
<1>2. MarkersOf(c) \in SUBSET CommitIds /\ c \in MarkersOf(c)
  BY <1>1 DEF MarkersOf
<1>3. \A y \in MarkersOf(c) : c >= y
  BY <1>1, Ids DEF MarkersOf
<1> QED
  BY <1>2, <1>3, MaxIs DEF HasMarker, LatestMarker

\* A marker is a commit that exists.
LEMMA MarkerExists ==
    ASSUME IInv, NEW c \in CommitIds, IsMarker(c)
    PROVE  c < next
<1>1. next \in Nat /\ c \in Nat
  BY Ids DEF IInv, TypeOK
<1>2. c >= next => commits[c] = Unborn
  BY DEF IInv, GraphInv
<1>3. Unborn.kind \notin Markers
  BY DEF Unborn, Plain, Markers
<1> QED
  BY <1>1, <1>2, <1>3 DEF IsMarker

\* A base is a commit that exists.
LEMMA BasesExist ==
    ASSUME IInv, NEW b \in Bases
    PROVE  b \in CommitIds /\ b < next /\ b \in Anc(main) /\ ~IsMarker(b)
<1>1. b \in Anc(main) /\ commits[b].kind = "main" /\ main \in CommitIds
  BY DEF Bases, IInv, TypeOK
<1> QED
  BY <1>1, Exists DEF IsMarker, Markers

-----------------------------------------------------------------------------
(* What a step leaves alone.                                               *)

\* The object store only grows, and nothing kept is given up.
Grows ==
    /\ next <= next'
    /\ \A c \in CommitIds : c < next => commits'[c] = commits[c]
    /\ Kept \subseteq Kept'

\* A push and a command that were sound stay so while the store grows.
LEMMA PendingGrows ==
    ASSUME TypeOK, TypeOK', Grows,
           NEW from \in Tips, NEW marker \in Tips, Pending(from, marker)
    PROVE  Pending(from, marker)'
<1>1. next \in Nat /\ next' \in Nat /\ from \in Nat /\ marker \in Nat
  BY Ids DEF TypeOK
<1>2. from < next' /\ marker < next'
  BY <1>1 DEF Pending, Grows
<1>3. from # 0 => Tree(from)' = Tree(from)
  BY Ids DEF Pending, Grows, Tree
<1>4. marker # 0 => Anc(marker)' = Anc(marker)
  BY Ids DEF Pending, Grows, Anc
<1> QED
  BY <1>2, <1>3, <1>4 DEF Pending, Grows

\* A marker stays its holder's when the object store grows.
LEMMA MineGrows ==
    ASSUME Grows, NEW h, NEW c, Mine(h, c), c < next
    PROVE  Mine(h, c)'
  BY DEF Grows, Mine, IsMarker

\* What is true of a command's record stays true when the store grows.
LEMMA RunGrows ==
    ASSUME TypeOK, TypeOK', Grows, NEW h, NEW r \in Proc, RunInv(h, r)
    PROVE  RunInv(h, r)'
<1>1. /\ r.from \in Tips /\ r.parent \in Tips /\ r.seen \in Tips /\ r.marker \in Tips
      /\ r.from \in Nat /\ r.parent \in Nat /\ r.seen \in Nat /\ r.marker \in Nat
  BY Ids DEF Proc
<1>2. next \in Nat /\ next' \in Nat /\ next <= next'
  BY Ids DEF TypeOK, Grows
<1>3. r.from < next' /\ r.parent < next' /\ r.seen < next' /\ r.marker < next'
  BY <1>1, <1>2 DEF RunInv
<1>4. r.marker # 0 => Mine(h, r.marker)'
  BY MineGrows DEF RunInv
<1>5. r.pc = "push" => Pending(r.from, r.marker)'
  BY <1>1, PendingGrows DEF RunInv
<1>6. Carrying(r) => Tree(r.seen)' \subseteq Tree(r.marker)'
  <2>1. Carrying(r) => r.marker # 0 /\ r.seen # 0
    BY DEF Carrying, RunInv, Pushing, Deleting
  <2>2. r.seen # 0 => Tree(r.seen)' = Tree(r.seen)
    BY <1>1, Ids DEF RunInv, Grows, Tree
  <2>3. r.marker # 0 => Tree(r.marker)' = Tree(r.marker)
    BY <1>1, Ids DEF RunInv, Grows, Tree
  <2> QED
    BY <2>1, <2>2, <2>3 DEF RunInv
<1> QED
  BY <1>3, <1>4, <1>5, <1>6 DEF RunInv, Carrying

\* One command moves to the record r, the store grows, and the rest of
\* the invariant is known to hold.
LEMMA Frame ==
    ASSUME IInv, TypeOK', Grows, NEW p \in Procs, NEW r,
           proc' = [proc EXCEPT ![p] = r], RunInv(HostOf[p], r)',
           GraphInv', RefsInv', TokenInv', NetInv'
    PROVE  IInv'
<1>1. ASSUME NEW q \in Procs PROVE RunInv(HostOf[q], proc[q])'
  <2>1. proc \in [Procs -> Proc] /\ TypeOK /\ proc[q] \in Proc
    BY DEF IInv, TypeOK
  <2>2. CASE q = p
    BY <2>1, <2>2
  <2>3. CASE q # p
    <3>1. proc'[q] = proc[q]
      BY <2>1, <2>3
    <3>2. RunInv(HostOf[q], proc[q])
      BY DEF IInv, ProcInv
    <3> DEFINE s == proc[q]
    <3> HIDE DEF s
    <3> QED
      BY <2>1, <3>1, <3>2, RunGrows
  <2> QED
    BY <2>2, <2>3
<1> QED
  BY <1>1 DEF IInv, ProcInv

\* No command moves.
LEMMA EnvFrame ==
    ASSUME IInv, TypeOK', Grows, proc' = proc,
           GraphInv', RefsInv', TokenInv', NetInv'
    PROVE  IInv'
<1>1. ASSUME NEW q \in Procs PROVE RunInv(HostOf[q], proc[q])'
  BY RunGrows DEF IInv, TypeOK, ProcInv
<1> QED
  BY <1>1 DEF IInv, ProcInv

\* The parts of the invariant that mention no command survive a step that
\* leaves what they mention alone.
LEMMA NetGrows ==
    ASSUME IInv, TypeOK', Grows, net' \subseteq net
    PROVE  NetInv'
<1> SUFFICES ASSUME NEW m \in net' PROVE Pending(m.from, m.marker)'
  BY DEF NetInv
<1>1. m \in net /\ m.from \in Tips /\ m.marker \in Tips
  BY DEF IInv, TypeOK
<1> QED
  BY <1>1, PendingGrows DEF IInv, NetInv

\* Tokens stay sound when only the store grows.
LEMMA TokenGrows ==
    ASSUME IInv, TypeOK', Grows, token' = token
    PROVE  TokenInv'
<1> SUFFICES ASSUME NEW h \in Hosts, token[h] # 0 PROVE Mine(h, token[h])'
  BY DEF TokenInv
<1>1. Mine(h, token[h])
  BY DEF IInv, TokenInv
<1>2. token[h] < next
  BY <1>1, MarkerExists DEF Mine
<1> QED
  BY <1>1, <1>2, MineGrows

\* A step that mints nothing leaves the graph as it was.
LEMMA GraphSame ==
    ASSUME IInv, UNCHANGED graphVars
    PROVE  GraphInv' /\ \A c : Anc(c)' = Anc(c) /\ Tree(c)' = Tree(c) /\ IsMarker(c)' = IsMarker(c)
  BY DEF IInv, GraphInv, graphVars, Anc, Tree, IsMarker

\* The store takes a commit on top of a set A of commits that exist, with
\* at least their content; a marker adds no content of its own.
LEMMA StoreGraph ==
    ASSUME IInv, NEW c \in Commit, NEW A \in SUBSET CommitIds, Store(c),
           c.anc = A \cup {next},
           \A a \in A : a < next /\ Tree(a) \subseteq c.tree,
           c.kind \notin Markers
             \/ \A w \in c.tree : \E a \in A : ~IsMarker(a) /\ w \in Tree(a)
    PROVE  /\ GraphInv'
           /\ next \in CommitIds /\ next' = next + 1 /\ next' \in 2..(MaxCommits + 1)
           /\ commits' \in [CommitIds -> Commit]
           /\ commits'[next] = c
           /\ \A a \in CommitIds : a < next => commits'[a] = commits[a]
<1>1. /\ next \in 2..(MaxCommits + 1) /\ next <= MaxCommits
      /\ commits \in [CommitIds -> Commit]
  BY DEF IInv, TypeOK, Store
<1>2. next \in CommitIds /\ next \in Nat /\ next' = next + 1 /\ next' \in 2..(MaxCommits + 1)
  BY <1>1, Ids, BoundAssumption DEF Store
<1>3. /\ commits' \in [CommitIds -> Commit]
      /\ commits'[next] = c
      /\ \A a \in CommitIds : a # next => commits'[a] = commits[a]
  BY <1>1, <1>2 DEF Store
<1>4. CommitIds \subseteq Nat \ {0}
  BY Ids
<1>5. \A a \in CommitIds : a < next => commits'[a] = commits[a]
  BY <1>2, <1>3, <1>4
<1>6. \A a \in CommitIds : a >= next' => commits'[a] = Unborn
  BY <1>2, <1>3, <1>4 DEF IInv, GraphInv
<1>7. ASSUME NEW a \in CommitIds, a < next'
      PROVE  a \in Anc(a)' /\ Anc(a)' \subseteq 1..a
  <2>1. CASE a = next
    <3>1. Anc(a)' = A \cup {a}
      BY <1>3, <2>1 DEF Anc
    <3>2. a \in 1..a /\ A \subseteq 1..a
      BY <1>2, <1>4, <2>1
    <3> QED
      BY <3>1, <3>2
  <2>2. CASE a # next
    <3>1. a < next
      BY <1>2, <1>4, <1>7, <2>2
    <3> QED
      BY <1>3, <2>2, <3>1 DEF IInv, GraphInv, Anc
  <2> QED
    BY <2>1, <2>2
<1>8. ASSUME NEW d \in CommitIds, d # next
      PROVE  /\ Anc(d)' = Anc(d) /\ Tree(d)' = Tree(d) /\ IsMarker(d)' = IsMarker(d)
             /\ next \notin Anc(d)
             /\ Anc(d) \subseteq CommitIds
  <2>1. Anc(d)' = Anc(d) /\ Tree(d)' = Tree(d) /\ IsMarker(d)' = IsMarker(d)
    BY <1>3, <1>8 DEF Anc, Tree, IsMarker
  <2>2. \A a \in Anc(d) : a < next /\ a \in CommitIds
    BY Exists
  <2> QED
    BY <1>2, <2>1, <2>2
<1>9. ASSUME NEW d \in CommitIds, NEW a \in Anc(d)' PROVE Tree(a)' \subseteq Tree(d)'
  <2>1. CASE d # next
    BY <1>8, <2>1 DEF IInv, GraphInv
  <2>2. CASE d = next
    <3>1. a \in A \cup {next} /\ Tree(d)' = c.tree
      BY <1>3, <2>2 DEF Anc, Tree
    <3>2. CASE a = next
      BY <3>2, <2>2
    <3>3. CASE a \in A
      <4>1. a # next /\ Tree(a) \subseteq c.tree
        BY <1>2, <3>3
      <4> QED
        BY <1>8, <3>1, <3>3, <4>1
    <3> QED
      BY <3>1, <3>2, <3>3
  <2> QED
    BY <2>1, <2>2
<1>10. ASSUME NEW d \in CommitIds, NEW w \in Tree(d)'
       PROVE  \E a \in Anc(d)' : ~IsMarker(a)' /\ w \in Tree(a)'
  <2>1. CASE d # next
    <3>1. PICK a \in Anc(d) : ~IsMarker(a) /\ w \in Tree(a)
      BY <1>8, <2>1 DEF IInv, GraphInv
    <3>2. a \in CommitIds /\ a # next
      BY <1>8, <2>1
    <3> QED
      BY <1>8, <2>1, <3>1, <3>2
  <2>2. CASE d = next
    <3>1. w \in c.tree /\ Anc(d)' = A \cup {d} /\ Tree(d)' = c.tree
      BY <1>3, <2>2 DEF Anc, Tree
    <3>2. CASE c.kind \notin Markers
      <4>1. ~IsMarker(d)'
        BY <1>3, <2>2, <3>2 DEF IsMarker
      <4> QED
        BY <3>1, <4>1
    <3>3. CASE \A v \in c.tree : \E a \in A : ~IsMarker(a) /\ v \in Tree(a)
      <4>1. PICK a \in A : ~IsMarker(a) /\ w \in Tree(a)
        BY <3>1, <3>3
      <4>2. a \in CommitIds /\ a # next
        BY <1>2, <4>1
      <4> QED
        BY <1>8, <3>1, <4>1, <4>2
    <3> QED
      BY <3>2, <3>3
  <2> QED
    BY <2>1, <2>2
<1>11. GraphInv'
  BY <1>6, <1>7, <1>9, <1>10 DEF GraphInv
<1> QED
  BY <1>2, <1>3, <1>5, <1>11

\* Refs that do not move still point at commits that exist.
LEMMA RefsGrow ==
    ASSUME IInv, next' \in Nat, next <= next', UNCHANGED <<main, remote, local>>
    PROVE  RefsInv'
<1>1. /\ next \in Nat /\ main \in Nat /\ remote \in Nat
      /\ \A h \in Hosts : local[h] \in Nat
  BY Ids DEF IInv, TypeOK
<1> QED
  BY <1>1 DEF IInv, RefsInv

\* Nothing kept is lost while the base stands and rescue refs only
\* gather.
LEMMA BaseStays ==
    ASSUME IInv, next <= next', UNCHANGED main, rescue \subseteq rescue',
           \A c \in CommitIds : c < next => commits'[c] = commits[c]
    PROVE  Grows
<1>1. main \in CommitIds /\ main < next
  BY DEF IInv, TypeOK, RefsInv
<1>2. Tree(main)' = Tree(main)
  BY <1>1 DEF Tree
<1> QED
  BY <1>2 DEF Grows, Kept

\* The same for a step that mints nothing.
LEMMA StoreStays ==
    ASSUME IInv, UNCHANGED <<graphVars, main>>, rescue \subseteq rescue'
    PROVE  Grows
<1>1. next \in Nat
  BY Ids DEF IInv, TypeOK
<1> QED
  BY <1>1, BaseStays DEF graphVars

-----------------------------------------------------------------------------
(* Every minting transition: a marker on a parent that descends from the   *)
(* tip the push expects.                                                   *)

\* mintMarker makes a well-formed commit.
LEMMA MarkerCommit ==
    ASSUME IInv, NEW kind \in Markers, NEW parent \in CommitIds,
           NEW epoch \in Nat, NEW h \in Hosts, next \in CommitIds
    PROVE  Marker(kind, parent, epoch, h) \in Commit
<1>1. Anc(parent) \subseteq CommitIds /\ Tree(parent) \subseteq CommitIds
  BY DEF IInv, TypeOK, Anc, Tree, Commit
<1> QED
  BY <1>1 DEF Marker, Commit, Kinds

\* mintMarker on a parent that descends from the tip it is CASed from:
\* the new push is Pending and the record's marker is the clone's own.
LEMMA Mint ==
    ASSUME IInv, NEW p \in Procs, NEW op \in Ops \ {"scavenge"},
           NEW kind \in Markers, NEW epoch \in Nat,
           NEW parent \in CommitIds, parent < next,
           NEW from \in Tips, from = 0 \/ from \in Anc(parent),
           NEW seen \in Tips, seen < next,
           \/ op \in {"claim", "takeover"}
           \/ seen # 0 => Tree(seen) \subseteq Tree(parent),
           Store(Marker(kind, parent, epoch, HostOf[p])),
           Become(p, Run("push", op, from, 0, seen, next)),
           UNCHANGED <<serverVars, local, laneVars>>
    PROVE  IInv' /\ Grows
<1>1. /\ HostOf[p] \in Hosts /\ TypeOK
      /\ next \in 2..(MaxCommits + 1) /\ next <= MaxCommits
      /\ local \in [Hosts -> Tips]
  BY HostAssumption DEF IInv, TypeOK, Store
<1>2. next \in CommitIds /\ next \in Nat
  BY <1>1, Ids
<1>3. PICK c \in Commit : c = Marker(kind, parent, epoch, HostOf[p])
  BY <1>1, <1>2, MarkerCommit
<1>4. /\ c.kind = kind /\ c.holder = HostOf[p]
      /\ c.anc = Anc(parent) \cup {next} /\ c.tree = Tree(parent)
  BY <1>3 DEF Marker
<1>5. Anc(parent) \in SUBSET CommitIds /\ \A a \in Anc(parent) : a < next
  <2>1. Anc(parent) \in SUBSET CommitIds
    BY DEF IInv, TypeOK, Anc, Commit
  <2> QED
    BY <2>1, Exists
<1>6. /\ \A a \in Anc(parent) : Tree(a) \subseteq c.tree
      /\ \A w \in c.tree : \E a \in Anc(parent) : ~IsMarker(a) /\ w \in Tree(a)
  BY <1>4 DEF IInv, GraphInv
<1>7. /\ GraphInv' /\ next' = next + 1 /\ next' \in 2..(MaxCommits + 1)
      /\ commits' \in [CommitIds -> Commit]
      /\ commits'[next] = c
      /\ \A a \in CommitIds : a < next => commits'[a] = commits[a]
  BY <1>3, <1>4, <1>5, <1>6, StoreGraph
<1>8. next' \in Nat /\ next <= next' /\ next < next'
  BY <1>2, <1>7
<1>9. Grows
  BY <1>7, <1>8, BaseStays DEF serverVars
<1>10. PICK r \in Proc : r = Run("push", op, from, 0, seen, next)
  BY <1>1, <1>2, Ids DEF Run, Proc, PCs, Ops
<1>11. TypeOK'
  <2>1. proc' \in [Procs -> Proc]
    BY <1>1, <1>10 DEF Become, TypeOK
  <2> QED
    BY <1>1, <1>7, <2>1 DEF TypeOK, serverVars, laneVars
<1>12. from < next /\ from \in Nat
  BY <1>2, <1>5, Ids
<1>13. RunInv(HostOf[p], r)'
  <2>1. PICK n \in CommitIds : n = next
    BY <1>2
  <2>2. /\ r.pc = "push" /\ r.op = op /\ r.from = from /\ r.parent = 0
        /\ r.seen = seen /\ r.marker = n
    BY <1>10, <2>1 DEF Run
  <2>3. n < next' /\ n # 0 /\ from < next' /\ seen < next' /\ 0 < next' /\ n \in Nat
    BY <1>2, <1>7, <1>12, <2>1, Ids
  <2>4. Mine(HostOf[p], n)'
    BY <1>4, <1>7, <2>1 DEF Mine, IsMarker
  <2>5. from # 0 => from \in Anc(n)'
    BY <1>4, <1>7, <2>1 DEF Anc
  <2>6. Pending(from, n)'
    BY <2>3, <2>5 DEF Pending
  <2>7. Carrying(r) => Tree(seen)' \subseteq Tree(n)'
    <3>1. Carrying(r) => seen # 0 /\ Tree(seen) \subseteq c.tree
      BY <1>4, <2>2 DEF Carrying
    <3>2. seen # 0 => Tree(seen)' = Tree(seen)
      BY <1>7, Ids DEF Tree
    <3>3. Tree(n)' = c.tree
      BY <1>7, <2>1 DEF Tree
    <3> QED
      BY <3>1, <3>2, <3>3
  <2> QED
    BY <2>2, <2>3, <2>4, <2>6, <2>7 DEF RunInv, Carrying, Deleting, Pushing
<1>14. RefsInv' /\ TokenInv' /\ NetInv'
  BY <1>8, <1>9, <1>11, RefsGrow, TokenGrows, NetGrows DEF serverVars, laneVars
<1>15. proc' = [proc EXCEPT ![p] = r]
  BY <1>10 DEF Become
<1> QED
  BY <1>7, <1>9, <1>11, <1>13, <1>14, <1>15, Frame

\* Whatever relayBase and holderBase return descends from the tip, and
\* carries the content of the local branch.
LEMMA BasesDescend ==
    ASSUME IInv, NEW h \in Hosts, NEW from \in CommitIds, from < next,
           NEW parent \in RelayBase(h, from) \cup HolderBase(h, from)
    PROVE  /\ parent \in CommitIds /\ parent < next /\ from \in Anc(parent)
           /\ local[h] # 0 => Tree(local[h]) \subseteq Tree(parent)
<1>1. /\ from \in Anc(from)
      /\ \A a \in Anc(from) : Tree(a) \subseteq Tree(from)
  BY DEF IInv, GraphInv
<1>2. local[h] \in Tips /\ local[h] < next
  BY DEF IInv, TypeOK, RefsInv
<1>3. local[h] # 0 => local[h] \in CommitIds
  BY <1>2, Ids
<1> QED
  BY <1>1, <1>2, <1>3 DEF RelayBase, HolderBase

\* advance, on the branch relayBase or holderBase chose.
LEMMA AdvanceStep ==
    ASSUME IInv, NEW p \in Procs, NEW op \in Ops \ {"scavenge"},
           NEW kind \in Markers, NEW from \in CommitIds,
           Advance(p, op, kind, from, HostOf[p], RelayBase(HostOf[p], from))
             \/ Advance(p, op, kind, from, HostOf[p], HolderBase(HostOf[p], from))
    PROVE  IInv' /\ Grows
<1>1. HasMarker(from) /\ HostOf[p] \in Hosts /\ TypeOK
  BY HostAssumption DEF Advance, IInv
<1>2. Governs(from).epoch \in Nat
  BY <1>1, GovernsIs DEF Commit
<1>3. from < next
  BY <1>1, Exists DEF HasMarker, MarkersOf
<1>4. PICK parent \in RelayBase(HostOf[p], from) \cup HolderBase(HostOf[p], from) :
         /\ Store(Marker(kind, parent, Governs(from).epoch, HostOf[p]))
         /\ Become(p, Run("push", op, from, 0, local[HostOf[p]], next))
  BY DEF Advance
<1>5. /\ parent \in CommitIds /\ parent < next /\ from \in Anc(parent)
      /\ local[HostOf[p]] # 0 => Tree(local[HostOf[p]]) \subseteq Tree(parent)
  BY <1>1, <1>3, BasesDescend
<1>6. UNCHANGED <<serverVars, local, laneVars>> /\ from \in Tips
  BY Ids DEF Advance
<1>7. PICK e \in Nat, seen \in Tips :
         e = Governs(from).epoch /\ seen = local[HostOf[p]] /\ seen < next
  BY <1>1, <1>2 DEF IInv, TypeOK, RefsInv
<1> QED
  BY <1>4, <1>5, <1>6, <1>7, Mint

\* What a command knows in the steps that mint or delete.
LEMMA RunFacts ==
    ASSUME IInv, NEW p \in Procs
    PROVE  /\ RunInv(HostOf[p], proc[p])
           /\ proc[p] \in Proc
           /\ proc[p].from \in Tips /\ proc[p].parent \in Tips /\ proc[p].marker \in Tips
           /\ proc[p].from # 0 => proc[p].from \in CommitIds
           /\ proc[p].parent # 0 => proc[p].parent \in CommitIds
           /\ proc[p].marker # 0 => proc[p].marker \in CommitIds
           /\ HostOf[p] \in Hosts
  BY Ids, HostAssumption DEF IInv, TypeOK, ProcInv, Proc

\* The holder's transitions preserve the invariant.
LEMMA HolderStep ==
    ASSUME IInv, NEW p \in Procs,
           Renew(p) \/ Release(p) \/ BeatFor(p) \/ Bind(p) \/ Rebind(p) \/ Unwind(p)
    PROVE  IInv' /\ Grows
<1>1. /\ "beat" \in Markers /\ "release" \in Markers
      /\ {"renew", "release", "beatfor", "bind", "rebind"} \subseteq Ops \ {"scavenge"}
  BY DEF Markers, Ops
<1>2. OwnToken(HostOf[p]) => remote \in CommitIds
  BY Ids DEF OwnToken, TokenProves, IInv, TypeOK
<1>3. CASE Renew(p)
  BY <1>1, <1>2, <1>3, AdvanceStep DEF Renew
<1>4. CASE Release(p)
  BY <1>1, <1>2, <1>4, AdvanceStep DEF Release
<1>5. CASE BeatFor(p)
  BY <1>1, <1>5, AdvanceStep DEF BeatFor
<1>6. CASE Bind(p)
  <2>1. proc[p].marker \in CommitIds
    BY <1>6, RunFacts DEF Bind, At, RunInv, Pushing
  <2> QED
    BY <1>1, <1>6, <2>1, AdvanceStep DEF Bind
<1>7. CASE Rebind(p)
  <2>1. proc[p].from \in CommitIds
    BY <1>7, RunFacts DEF Rebind, At, RunInv
  <2> QED
    BY <1>1, <1>7, <2>1, AdvanceStep DEF Rebind
<1>8. CASE Unwind(p)
  <2>1. proc[p].marker \in CommitIds
    BY <1>8, RunFacts DEF Unwind, At, RunInv, Pushing
  <2> QED
    BY <1>1, <1>8, <2>1, AdvanceStep DEF Unwind
<1> QED
  BY <1>3, <1>4, <1>5, <1>6, <1>7, <1>8

\* Minting a claim preserves the invariant.
LEMMA ClaimMintStep ==
    ASSUME IInv, NEW p \in Procs, ClaimMint(p)
    PROVE  IInv' /\ Grows
<1>1. /\ proc[p].parent \in CommitIds /\ proc[p].parent < next
      /\ proc[p].from \in Tips /\ proc[p].from \in {0, proc[p].parent}
  BY RunFacts DEF ClaimMint, At, RunInv
<1>2. proc[p].parent \in Anc(proc[p].parent)
  BY <1>1 DEF IInv, GraphInv
<1>3. ClaimEpoch(proc[p].from) \in Nat
  BY <1>1 DEF ClaimEpoch, IInv, TypeOK, Commit
<1>4. "claim" \in Markers /\ "claim" \in Ops \ {"scavenge"}
  BY DEF Markers, Ops
<1>5. PICK e \in Nat, parent \in CommitIds, from \in Tips, seen \in Tips :
         /\ e = ClaimEpoch(proc[p].from)
         /\ parent = proc[p].parent /\ from = proc[p].from
         /\ seen = local[HostOf[p]] /\ seen < next
  BY <1>1, <1>3, RunFacts DEF IInv, TypeOK, RefsInv
<1> QED
  BY <1>1, <1>2, <1>4, <1>5, Mint DEF ClaimMint

\* Minting a takeover preserves the invariant.
LEMMA TakeoverStep ==
    ASSUME IInv, NEW p \in Procs, Takeover(p)
    PROVE  IInv' /\ Grows
<1>1. PICK from \in CommitIds :
         /\ HasMarker(from)
         /\ Store(Marker("takeover", from, Governs(from).epoch + 1, HostOf[p]))
         /\ Become(p, Run("push", "takeover", from, 0, local[HostOf[p]], next))
  BY DEF Takeover
<1>2. Governs(from).epoch \in Nat /\ TypeOK
  BY <1>1, GovernsIs DEF Commit, IInv
<1>3. from < next /\ from \in Anc(from) /\ from \in Tips
  BY <1>1, Exists, Ids DEF HasMarker, MarkersOf
<1>4. "takeover" \in Markers /\ "takeover" \in Ops \ {"scavenge"}
  BY DEF Markers, Ops
<1>5. PICK e \in Nat, seen \in Tips :
         e = Governs(from).epoch + 1 /\ seen = local[HostOf[p]] /\ seen < next
  BY <1>2, RunFacts DEF IInv, TypeOK, RefsInv
<1> QED
  BY <1>1, <1>3, <1>4, <1>5, Mint DEF Takeover

-----------------------------------------------------------------------------
(* Every other transition makes no commit and leaves the base alone.       *)

\* What such a step must leave behind in the refs, the lanes and the net.
LanesSound ==
    /\ local' \in [Hosts -> Tips] /\ \A h \in Hosts : local'[h] < next
    /\ token' \in [Hosts -> Tips] /\ wt' \in [Hosts -> BOOLEAN]
    /\ \A h \in Hosts : token'[h] # 0 => wt'[h] /\ Mine(h, token'[h])

RefsSound ==
    /\ rescue \subseteq rescue' /\ rescue' \subseteq CommitIds
    /\ remote' \in Tips /\ remote' < next
    /\ net' \subseteq [from : Tips, marker : Tips]
    /\ \A m \in net' : Pending(m.from, m.marker)

\* Lanes nobody touched are sound.
LEMMA LanesSame == IInv /\ UNCHANGED <<local, laneVars>> => LanesSound
  BY DEF LanesSound, IInv, TypeOK, RefsInv, TokenInv, laneVars

\* Server state nobody touched is sound.
LEMMA RefsSame == IInv /\ UNCHANGED serverVars => RefsSound
  BY DEF RefsSound, IInv, TypeOK, RefsInv, NetInv, serverVars

\* A step that mints nothing and leaves the base alone: the invariant
\* follows from the lanes and the refs being sound.
LEMMA Settled ==
    ASSUME IInv, UNCHANGED <<graphVars, main>>, LanesSound, RefsSound,
           proc' \in [Procs -> Proc]
    PROVE  /\ TypeOK' /\ Grows
           /\ GraphInv' /\ RefsInv' /\ TokenInv' /\ NetInv'
<1>1. TypeOK'
  BY DEF IInv, TypeOK, LanesSound, RefsSound, graphVars
<1>2. Grows
  BY StoreStays DEF RefsSound
<1>3. GraphInv'
  BY GraphSame
<1>4. RefsInv'
  BY DEF IInv, RefsInv, LanesSound, RefsSound, graphVars
<1>5. TokenInv'
  BY DEF TokenInv, LanesSound, Mine, IsMarker, graphVars
<1>6. ASSUME NEW m \in net' PROVE Pending(m.from, m.marker)'
  <2>1. m.from \in Tips /\ m.marker \in Tips /\ Pending(m.from, m.marker) /\ TypeOK
    BY DEF RefsSound, IInv
  <2> QED
    BY <1>1, <1>2, <2>1, PendingGrows
<1> QED
  BY <1>1, <1>2, <1>3, <1>4, <1>5, <1>6 DEF NetInv

\* The same for a command that moves to the record r.
LEMMA SettledCommand ==
    ASSUME IInv, UNCHANGED <<graphVars, main>>, LanesSound, RefsSound,
           NEW p \in Procs, NEW r \in Proc, Become(p, r),
           RunInv(HostOf[p], r) \/ RunInv(HostOf[p], r)'
    PROVE  IInv' /\ Grows
<1>1. proc' = [proc EXCEPT ![p] = r] /\ proc' \in [Procs -> Proc]
  BY DEF Become, IInv, TypeOK
<1>2. TypeOK' /\ Grows /\ GraphInv' /\ RefsInv' /\ TokenInv' /\ NetInv'
  BY <1>1, Settled
<1>3. RunInv(HostOf[p], r)'
  BY <1>2, RunGrows DEF IInv
<1> QED
  BY <1>1, <1>2, <1>3, Frame

\* The same for a step of the environment.
LEMMA SettledEnv ==
    ASSUME IInv, UNCHANGED <<graphVars, main, proc>>, LanesSound, RefsSound
    PROVE  IInv' /\ Grows
<1>1. proc' \in [Procs -> Proc]
  BY DEF IInv, TypeOK
<1>2. TypeOK' /\ Grows /\ GraphInv' /\ RefsInv' /\ TokenInv' /\ NetInv'
  BY <1>1, Settled
<1> QED
  BY <1>2, EnvFrame

\* Only the command moves.
LEMMA Moves ==
    ASSUME IInv, NEW p \in Procs, NEW r \in Proc, Become(p, r),
           RunInv(HostOf[p], r), UNCHANGED <<graphVars, serverVars, local, laneVars>>
    PROVE  IInv' /\ Grows
<1>1. LanesSound /\ RefsSound /\ UNCHANGED <<graphVars, main>>
  BY LanesSame, RefsSame DEF serverVars
<1> QED
  BY <1>1, SettledCommand

\* Records a command may take.
LEMMA RunIs ==
    ASSUME NEW pc \in PCs, NEW op \in Ops, NEW from \in Tips, NEW parent \in Tips,
           NEW seen \in Tips, NEW marker \in Tips
    PROVE  /\ Run(pc, op, from, parent, seen, marker) \in Proc
           /\ Run(pc, op, from, parent, seen, marker).pc = pc
           /\ Run(pc, op, from, parent, seen, marker).op = op
           /\ Run(pc, op, from, parent, seen, marker).from = from
           /\ Run(pc, op, from, parent, seen, marker).parent = parent
           /\ Run(pc, op, from, parent, seen, marker).seen = seen
           /\ Run(pc, op, from, parent, seen, marker).marker = marker
  BY DEF Run, Proc

\* The idle record satisfies a command's invariant.
LEMMA IdleOK == IInv => Idle \in Proc /\ \A h : RunInv(h, Idle)
<1> SUFFICES ASSUME IInv PROVE Idle \in Proc /\ \A h : RunInv(h, Idle)
  OBVIOUS
<1>1. /\ Idle \in Proc /\ Idle.pc = "idle" /\ Idle.op = "none"
      /\ Idle.from = 0 /\ Idle.parent = 0 /\ Idle.seen = 0 /\ Idle.marker = 0
  <2>1. 0 \in Tips /\ "idle" \in PCs /\ "none" \in Ops
    BY Ids DEF PCs, Ops
  <2> QED
    BY <2>1, RunIs DEF Idle
<1>2. 0 < next
  BY Ids DEF IInv, TypeOK
<1> QED
  BY <1>1, <1>2 DEF RunInv, Carrying, Pushing, Deleting

\* A command that just ends preserves the invariant.
LEMMA FinishStep ==
    ASSUME IInv, NEW p \in Procs, Finish(p),
           UNCHANGED <<graphVars, serverVars, local, laneVars>>
    PROVE  IInv' /\ Grows
  BY IdleOK, Moves DEF Finish

\* A command that only changes its pc.
LEMMA GotoIs ==
    ASSUME IInv, NEW p \in Procs, NEW pc \in PCs, Goto(p, pc)
    PROVE  \E r \in Proc :
              /\ Become(p, r)
              /\ r.pc = pc /\ r.op = proc[p].op /\ r.from = proc[p].from
              /\ r.parent = proc[p].parent /\ r.seen = proc[p].seen /\ r.marker = proc[p].marker
<1> DEFINE r == [proc[p] EXCEPT !.pc = pc]
<1>1. proc[p] \in Proc
  BY DEF IInv, TypeOK
<1>2. /\ r \in Proc
      /\ r.pc = pc /\ r.op = proc[p].op /\ r.from = proc[p].from
      /\ r.parent = proc[p].parent /\ r.seen = proc[p].seen /\ r.marker = proc[p].marker
  BY <1>1 DEF Proc
<1> QED
  BY <1>2 DEF Goto

\* The steps after a push is sent keep what was known of its marker.
LEMMA GotoRun ==
    ASSUME IInv, NEW p \in Procs, proc[p].pc \in Pushing,
           NEW pc \in (Pushing \ {"push"}) \cup {"delete"}, Goto(p, pc),
           pc \in Pushing \ {"confirm"} => proc[p].marker # 0,
           pc \in {"confirm", "sync"} => proc[p].pc \in {"push", "confirm"}
    PROVE  \E r \in Proc : Become(p, r) /\ RunInv(HostOf[p], r)
<1>1. pc \in PCs
  BY DEF PCs, Pushing
<1>2. PICK r \in Proc :
         /\ Become(p, r)
         /\ r.pc = pc /\ r.op = proc[p].op /\ r.from = proc[p].from
         /\ r.parent = proc[p].parent /\ r.seen = proc[p].seen /\ r.marker = proc[p].marker
  BY <1>1, GotoIs
<1>3. RunInv(HostOf[p], proc[p])
  BY RunFacts
<1>4. RunInv(HostOf[p], r)
  BY <1>2, <1>3 DEF RunInv, Carrying, Deleting, Pushing
<1> QED
  BY <1>2, <1>4

\* The push's outcome: a marker goes on to the local sync, a delete to
\* the local branch.
LEMMA OutcomeRun ==
    ASSUME IInv, NEW p \in Procs, At(p, "push") \/ At(p, "confirm"),
           Goto(p, Outcome(p)) \/ Goto(p, "confirm")
    PROVE  \E r \in Proc : Become(p, r) /\ RunInv(HostOf[p], r)
<1>1. proc[p].pc \in Pushing /\ proc[p].pc \in {"push", "confirm"}
  BY DEF At, Pushing
<1>2. proc[p].op = "scavenge" <=> proc[p].marker = 0
  BY <1>1, RunFacts DEF RunInv, Deleting
<1>3. (Goto(p, "sync") /\ proc[p].marker # 0) \/ Goto(p, "delete") \/ Goto(p, "confirm")
  BY <1>2 DEF Outcome
<1>4. {"sync", "delete", "confirm"} \subseteq (Pushing \ {"push"}) \cup {"delete"}
  BY DEF Pushing
<1>5. "delete" \notin Pushing
  BY DEF Pushing
<1> QED
  BY <1>1, <1>3, <1>4, <1>5, GotoRun

\* The push, acknowledged or not, failed or abandoned (casPush).
LEMMA PushStep ==
    ASSUME IInv, NEW p \in Procs,
           PushAcked(p) \/ PushUnacked(p) \/ PushFailed(p) \/ PushAbandoned(p)
    PROVE  IInv' /\ Grows
<1>1. At(p, "push") /\ (Goto(p, Outcome(p)) \/ Goto(p, "confirm"))
  BY DEF PushAcked, PushUnacked, PushFailed, PushAbandoned
<1>2. PICK r \in Proc : Become(p, r) /\ RunInv(HostOf[p], r)
  BY <1>1, OutcomeRun
<1>3. UNCHANGED <<graphVars, main, rescue, local, laneVars>>
  BY DEF PushAcked, PushUnacked, PushFailed, PushAbandoned, serverVars
<1>4. Pending(proc[p].from, proc[p].marker) /\ proc[p].marker \in Tips /\ proc[p].from \in Tips
  BY <1>1, RunFacts DEF At, RunInv
<1>5. remote' = proc[p].marker \/ remote' = remote
  BY DEF PushAcked, PushUnacked, PushFailed, PushAbandoned, serverVars
<1>6. net' \subseteq net \cup {[from |-> proc[p].from, marker |-> proc[p].marker]}
  BY DEF PushAcked, PushUnacked, PushFailed, PushAbandoned, serverVars
<1>7. RefsSound
  BY <1>3, <1>4, <1>5, <1>6 DEF RefsSound, Pending, IInv, TypeOK, RefsInv, NetInv
<1> QED
  BY <1>2, <1>3, <1>7, LanesSame, SettledCommand

\* The confirming read after an unacknowledged push.
LEMMA ConfirmStep ==
    ASSUME IInv, NEW p \in Procs, Confirm(p)
    PROVE  IInv' /\ Grows
<1>1. At(p, "confirm") /\ UNCHANGED <<graphVars, serverVars, local, laneVars>>
  BY DEF Confirm
<1>2. CASE Goto(p, Outcome(p))
  BY <1>1, <1>2, OutcomeRun, Moves
<1>3. CASE Finish(p)
  BY <1>1, <1>3, FinishStep
<1>4. CASE remote # 0 /\ Become(p, Run("lost", proc[p].op, remote, 0, 0, 0))
  <2>1. /\ proc[p].op \in Ops /\ remote \in Tips /\ 0 \in Tips /\ "lost" \in PCs
        /\ remote < next /\ 0 < next
    BY Ids DEF IInv, TypeOK, RefsInv, Proc, PCs
  <2>2. PICK r \in Proc :
           /\ Become(p, r)
           /\ r.pc = "lost" /\ r.from = remote /\ r.parent = 0 /\ r.seen = 0 /\ r.marker = 0
    BY <1>4, <2>1, RunIs
  <2>3. RunInv(HostOf[p], r)
    BY <1>4, <2>1, <2>2 DEF RunInv, Carrying, Pushing
  <2> QED
    BY <1>1, <2>2, <2>3, Moves
<1> QED
  BY <1>2, <1>3, <1>4 DEF Confirm

\* Acquire's read and what it leads to.
LEMMA AcquireStep ==
    ASSUME IInv, NEW p \in Procs, Acquire(p)
    PROVE  IInv' /\ Grows
<1>1. UNCHANGED <<graphVars, serverVars, local, laneVars>>
  BY DEF Acquire
<1>2. /\ remote \in Tips /\ 0 \in Tips /\ "lost" \in PCs /\ "mint" \in PCs
      /\ remote < next /\ 0 < next /\ "claim" \in Ops
  BY Ids DEF IInv, TypeOK, RefsInv, PCs, Ops
<1>3. CASE \E b \in Bases : Become(p, Run("mint", "claim", 0, b, 0, 0))
  <2>1. PICK b \in Bases : Become(p, Run("mint", "claim", 0, b, 0, 0))
    BY <1>3
  <2>2. b \in Tips /\ b < next /\ b # 0
    BY BasesExist, Ids
  <2>3. PICK r \in Proc :
           /\ Become(p, r)
           /\ r.pc = "mint" /\ r.from = 0 /\ r.parent = b /\ r.seen = 0 /\ r.marker = 0
    BY <1>2, <2>1, <2>2, RunIs
  <2>4. RunInv(HostOf[p], r)
    BY <1>2, <2>2, <2>3 DEF RunInv, Carrying, Pushing
  <2> QED
    BY <1>1, <2>3, <2>4, Moves
<1>4. CASE remote # 0 /\ Become(p, Run("mint", "claim", remote, remote, 0, 0))
  <2>1. PICK r \in Proc :
           /\ Become(p, r)
           /\ r.pc = "mint" /\ r.from = remote /\ r.parent = remote /\ r.seen = 0 /\ r.marker = 0
    BY <1>2, <1>4, RunIs
  <2>2. RunInv(HostOf[p], r)
    BY <1>2, <1>4, <2>1 DEF RunInv, Carrying, Pushing
  <2> QED
    BY <1>1, <2>1, <2>2, Moves
<1>5. CASE remote # 0 /\ Become(p, Run("lost", "claim", remote, 0, 0, 0))
  <2>1. PICK r \in Proc :
           /\ Become(p, r)
           /\ r.pc = "lost" /\ r.from = remote /\ r.parent = 0 /\ r.seen = 0 /\ r.marker = 0
    BY <1>2, <1>5, RunIs
  <2>2. RunInv(HostOf[p], r)
    BY <1>2, <1>5, <2>1 DEF RunInv, Carrying, Pushing
  <2> QED
    BY <1>1, <2>1, <2>2, Moves
<1> QED
  BY <1>3, <1>4, <1>5 DEF Acquire

-----------------------------------------------------------------------------
(* The lane: the local ref, the worktree and its token.                    *)

\* Moving a clone's branch to an existing commit keeps its lanes sound.
LEMMA SetLocal ==
    ASSUME IInv, NEW h \in Hosts, NEW v \in Tips, v < next,
           local' = Set(local, h, v), UNCHANGED laneVars
    PROVE  LanesSound
  BY DEF LanesSound, IInv, TypeOK, RefsInv, TokenInv, laneVars, Set

\* Removing a worktree with its token keeps the lanes sound.
LEMMA DropLane ==
    ASSUME IInv, NEW h \in Hosts, UNCHANGED local,
           \/ wt' = Set(wt, h, FALSE) /\ token' = Set(token, h, 0)
           \/ UNCHANGED laneVars
    PROVE  LanesSound
  BY Ids DEF LanesSound, IInv, TypeOK, RefsInv, TokenInv, laneVars, Set

\* syncLocalRef preserves the invariant.
LEMMA SyncStep ==
    ASSUME IInv, NEW p \in Procs, Sync(p)
    PROVE  IInv' /\ Grows
<1>1. /\ proc[p].marker # 0 /\ proc[p].marker \in Tips /\ proc[p].marker < next
      /\ proc[p].op # "scavenge" /\ proc[p].op \in Ops /\ HostOf[p] \in Hosts
      /\ Mine(HostOf[p], proc[p].marker)
  BY RunFacts DEF Sync, At, RunInv, Pushing, Deleting, Proc
<1>2. LanesSound
  <2>1. CASE local' = Set(local, HostOf[p], proc[p].marker)
    BY <1>1, <2>1, SetLocal DEF Sync
  <2>2. CASE UNCHANGED local
    BY <2>2, LanesSame DEF Sync
  <2> QED
    BY <2>1, <2>2 DEF Sync
<1>3. RefsSound /\ UNCHANGED <<graphVars, main>>
  BY RefsSame DEF Sync, serverVars
<1>4. CASE Finish(p)
  BY <1>2, <1>3, <1>4, IdleOK, SettledCommand DEF Finish
<1>5. CASE Become(p, Run("persist", proc[p].op, 0, 0, 0, proc[p].marker))
  <2>1. 0 \in Tips /\ "persist" \in PCs /\ 0 < next
    BY Ids DEF PCs, IInv, TypeOK
  <2>2. PICK r \in Proc :
           /\ Become(p, r) /\ r.pc = "persist" /\ r.op = proc[p].op
           /\ r.from = 0 /\ r.parent = 0 /\ r.seen = 0 /\ r.marker = proc[p].marker
    BY <1>1, <1>5, <2>1, RunIs
  <2>3. RunInv(HostOf[p], r)
    BY <1>1, <2>1, <2>2 DEF RunInv, Carrying, Pushing, Deleting
  <2> QED
    BY <1>2, <1>3, <2>2, <2>3, SettledCommand
<1> QED
  BY <1>4, <1>5 DEF Sync, AfterSync

\* A token is written only where a worktree stands to hold it.
LEMMA PersistStep ==
    ASSUME IInv, NEW p \in Procs, Persist(p)
    PROVE  IInv' /\ Grows
<1>1. /\ proc[p].marker # 0 /\ proc[p].marker \in Tips /\ HostOf[p] \in Hosts
      /\ Mine(HostOf[p], proc[p].marker)
      /\ proc[p].pc \in Pushing
  BY RunFacts DEF Persist, At, RunInv, Pushing
<1>2. LanesSound
  BY <1>1 DEF Persist, LanesSound, IInv, TypeOK, RefsInv, TokenInv, Set
<1>3. RefsSound /\ UNCHANGED <<graphVars, main>>
  BY RefsSame DEF Persist, serverVars
<1>4. Finish(p) \/ Goto(p, "leased") \/ Goto(p, "stood")
  BY DEF Persist
<1>5. {"leased", "stood"} \subseteq (Pushing \ {"push"}) \cup {"delete"}
  BY DEF Pushing
<1>6. \E r \in Proc : Become(p, r) /\ RunInv(HostOf[p], r)
  BY <1>1, <1>4, <1>5, GotoRun, IdleOK DEF Finish
<1> QED
  BY <1>2, <1>3, <1>6, SettledCommand

\* Standing a lane up preserves the invariant: its token is the clone's
\* own marker.
LEMMA StandUpStep ==
    ASSUME IInv, NEW p \in Procs, StandUp(p)
    PROVE  IInv' /\ Grows
<1>1. /\ proc[p].marker # 0 /\ proc[p].marker \in Tips /\ proc[p].marker < next
      /\ HostOf[p] \in Hosts /\ Mine(HostOf[p], proc[p].marker)
      /\ proc[p].pc \in Pushing
  BY RunFacts DEF StandUp, At, RunInv, Pushing
<1>2. local' \in [Hosts -> Tips] /\ \A h \in Hosts : local'[h] < next
  <2>1. CASE UNCHANGED local
    BY <2>1 DEF IInv, TypeOK, RefsInv
  <2>2. CASE \E c \in ({proc[p].marker, remote} \ {0}) \cup Bases :
                local' = Set(local, HostOf[p], c)
    <3>1. PICK c \in ({proc[p].marker, remote} \ {0}) \cup Bases :
                local' = Set(local, HostOf[p], c)
      BY <2>2
    <3>2. c \in Tips /\ c < next
      BY <1>1, <3>1, BasesExist, Ids DEF IInv, TypeOK, RefsInv
    <3> QED
      BY <1>1, <3>1, <3>2 DEF IInv, TypeOK, RefsInv, Set
  <2> QED
    BY <2>1, <2>2 DEF StandUp
<1>3. LanesSound
  BY <1>1, <1>2 DEF StandUp, LanesSound, IInv, TypeOK, TokenInv, Set
<1>4. RefsSound /\ UNCHANGED <<graphVars, main>>
  BY RefsSame DEF StandUp, serverVars
<1>5. "stood" \in (Pushing \ {"push"}) \cup {"delete"}
  BY DEF Pushing
<1>6. \E r \in Proc : Become(p, r) /\ RunInv(HostOf[p], r)
  BY <1>1, <1>5, GotoRun DEF StandUp
<1> QED
  BY <1>3, <1>4, <1>6, SettledCommand

\* A failed handoff preserves the invariant.
LEMMA HandoffFailsStep ==
    ASSUME IInv, NEW p \in Procs, HandoffFails(p)
    PROVE  IInv' /\ Grows
<1>1. proc[p].marker # 0 /\ HostOf[p] \in Hosts /\ proc[p].pc \in Pushing
  BY RunFacts DEF HandoffFails, At, RunInv, Pushing
<1>2. LanesSound /\ RefsSound /\ UNCHANGED <<graphVars, main>>
  BY <1>1, DropLane, RefsSame DEF HandoffFails, serverVars
<1>3. "abort" \in (Pushing \ {"push"}) \cup {"delete"}
  BY DEF Pushing
<1>4. \E r \in Proc : Become(p, r) /\ RunInv(HostOf[p], r)
  BY <1>1, <1>3, GotoRun DEF HandoffFails
<1> QED
  BY <1>2, <1>4, SettledCommand

\* Parking only ever adds to the rescue refs.
LEMMA ParkAdds ==
    ASSUME IInv, NEW b, NEW c \in CommitIds,
           rescue' = ParkUnlanded(b, c) \/ rescue' = rescue \cup Tree(c),
           UNCHANGED <<remote, net>>
    PROVE  RefsSound
<1>1. Tree(c) \subseteq CommitIds
  BY DEF IInv, TypeOK, Tree, Commit
<1>2. rescue \subseteq rescue' /\ rescue' \subseteq CommitIds
  BY <1>1 DEF ParkUnlanded, IInv, TypeOK
<1> QED
  BY <1>2 DEF RefsSound, IInv, TypeOK, RefsInv, NetInv

\* Clearing a leftover lane and yielding preserve the invariant.
LEMMA TearDownStep ==
    ASSUME IInv, NEW p \in Procs, ClearLeftover(p) \/ Yield(p)
    PROVE  IInv' /\ Grows
<1>1. /\ HostOf[p] \in Hosts /\ local[HostOf[p]] \in CommitIds
      /\ UNCHANGED <<graphVars, main, remote, net, local, proc>>
  BY RunFacts, Ids DEF ClearLeftover, Yield, IInv, TypeOK
<1>2. LanesSound
  BY <1>1, DropLane DEF ClearLeftover, Yield
<1>3. RefsSound
  BY <1>1, ParkAdds DEF ClearLeftover, Yield
<1> QED
  BY <1>1, <1>2, <1>3, SettledEnv

-----------------------------------------------------------------------------
(* Scavenging, and the steps that end a command.                           *)

\* Scavenge's read of the ref preserves the invariant.
LEMMA ScavengeStep ==
    ASSUME IInv, NEW p \in Procs, Scavenge(p)
    PROVE  IInv' /\ Grows
<1>1. /\ 0 \in Tips /\ {"delete", "park"} \subseteq PCs /\ "scavenge" \in Ops
      /\ 0 < next /\ remote < next /\ remote \in Tips
      /\ CommitIds \subseteq Tips /\ 0 \notin CommitIds
  BY Ids DEF PCs, Ops, IInv, TypeOK, RefsInv
<1>2. PICK from \in Tips, pc \in {"delete", "park"} :
         /\ Become(p, Run(pc, "scavenge", from, 0, 0, 0))
         /\ pc = "park" => from # 0
         /\ from < next
  BY <1>1 DEF Scavenge
<1>3. PICK r \in Proc :
         /\ Become(p, r) /\ r.pc = pc /\ r.op = "scavenge"
         /\ r.from = from /\ r.parent = 0 /\ r.seen = 0 /\ r.marker = 0
  BY <1>1, <1>2, RunIs
<1>4. RunInv(HostOf[p], r)
  BY <1>1, <1>2, <1>3 DEF RunInv, Carrying, Pushing, Deleting
<1> QED
  BY <1>3, <1>4, Moves DEF Scavenge

\* What ParkUnlanded leaves unparked the base already carries: a tip whose
\* commits beyond the base are all markers adds no content to it.
LEMMA ParkKeeps ==
    ASSUME IInv, NEW b \in Bases, NEW c \in CommitIds
    PROVE  Tree(c) \subseteq ParkUnlanded(b, c) \cup Tree(main)
<1>1. b \in CommitIds /\ b \in Anc(main) /\ main \in CommitIds
  BY BasesExist DEF IInv, TypeOK
<1>2. Tree(b) \subseteq Tree(main)
  BY <1>1 DEF IInv, GraphInv
<1>3. CASE Unlanded(b, c)
  BY <1>3 DEF ParkUnlanded
<1>4. CASE Landed(b, c)
  BY <1>2, <1>4 DEF Landed
<1>5. CASE ~HasWork(b, c)
  <2>1. ASSUME NEW w \in Tree(c) PROVE w \in Tree(b)
    <3>1. PICK a \in Anc(c) : ~IsMarker(a) /\ w \in Tree(a)
      BY DEF IInv, GraphInv
    <3>2. a \in Anc(b)
      BY <1>5, <3>1 DEF HasWork
    <3> QED
      BY <1>1, <3>1, <3>2 DEF IInv, GraphInv
  <2> QED
    BY <1>2, <2>1
<1> QED
  BY <1>3, <1>4, <1>5 DEF Unlanded

\* Scavenge's park preserves the invariant and makes its delete Pending:
\* all the tip carries is kept elsewhere by then.
LEMMA ParkStep ==
    ASSUME IInv, NEW p \in Procs, Park(p)
    PROVE  IInv' /\ Grows
<1>1. /\ proc[p].from \in CommitIds /\ proc[p].from # 0
      /\ proc[p].marker = 0 /\ proc[p].op = "scavenge"
      /\ RunInv(HostOf[p], proc[p])
  BY RunFacts DEF Park, At, RunInv, Deleting
<1>2. PICK c \in CommitIds : c = proc[p].from
  BY <1>1
<1>3. PICK b \in Bases : rescue' = ParkUnlanded(b, c)
  BY <1>2 DEF Park
<1>4. UNCHANGED <<graphVars, main, remote, net, local, laneVars>>
  BY DEF Park
<1>5. RefsSound /\ LanesSound
  BY <1>3, <1>4, ParkAdds, LanesSame
<1>6. "push" \in PCs
  BY DEF PCs
<1>7. PICK r \in Proc :
         /\ Become(p, r)
         /\ r.pc = "push" /\ r.op = "scavenge" /\ r.from = c
         /\ r.parent = proc[p].parent /\ r.seen = proc[p].seen /\ r.marker = 0
  BY <1>1, <1>2, <1>6, GotoIs DEF Park
<1>8. RunInv(HostOf[p], r)'
  <2>1. Tree(c)' = Tree(c) /\ Tree(main)' = Tree(main) /\ next' = next
    BY <1>4 DEF graphVars, Tree
  <2>2. Tree(c)' \subseteq Kept'
    BY <1>3, <2>1, ParkKeeps DEF Kept
  <2>3. /\ c < next' /\ r.parent < next' /\ r.seen < next' /\ 0 < next' /\ c # 0
    BY <1>1, <1>2, <1>7, <2>1, Ids DEF RunInv, IInv, TypeOK
  <2>4. Pending(c, 0)'
    BY <2>2, <2>3 DEF Pending
  <2> QED
    BY <1>7, <2>3, <2>4 DEF RunInv, Carrying, Pushing, Deleting
<1> QED
  BY <1>4, <1>5, <1>7, <1>8, SettledCommand

\* A command's last step preserves the invariant.
LEMMA EndStep ==
    ASSUME IInv, NEW p \in Procs, DeleteLocal(p) \/ Stop(p) \/ Unconfirmed(p)
    PROVE  IInv' /\ Grows
<1>1. CASE DeleteLocal(p)
  <2>1. HostOf[p] \in Hosts /\ 0 \in Tips /\ 0 < next
    BY RunFacts, Ids DEF IInv, TypeOK
  <2>2. local' = local \/ local' = Set(local, HostOf[p], 0)
    BY <1>1 DEF DeleteLocal
  <2>3. UNCHANGED <<graphVars, serverVars, laneVars>> /\ Finish(p)
    BY <1>1 DEF DeleteLocal
  <2>4. LanesSound
    BY <2>1, <2>2, <2>3, SetLocal, LanesSame
  <2>5. RefsSound /\ UNCHANGED <<graphVars, main>>
    BY <2>3, RefsSame DEF serverVars
  <2> QED
    BY <2>3, <2>4, <2>5, IdleOK, SettledCommand DEF Finish
<1>2. CASE Stop(p)
  BY <1>2, FinishStep DEF Stop
<1>3. CASE Unconfirmed(p)
  BY <1>3, FinishStep DEF Unconfirmed
<1> QED
  BY <1>1, <1>2, <1>3

-----------------------------------------------------------------------------
(* The agents and the forge.                                               *)

\* A commit that is no marker, on top of commits that exist.
LEMMA PlainStored ==
    ASSUME IInv, NEW kind \in {"main", "work"}, NEW A \in SUBSET CommitIds,
           NEW T \in SUBSET CommitIds,
           \A a \in A : a < next /\ Tree(a) \subseteq T,
           Store(Plain(kind, A \cup {next}, T))
    PROVE  /\ GraphInv'
           /\ next \in CommitIds /\ next' = next + 1 /\ next' \in 2..(MaxCommits + 1)
           /\ commits' \in [CommitIds -> Commit]
           /\ commits'[next].tree = T
           /\ \A a \in CommitIds : a < next => commits'[a] = commits[a]
<1>1. next \in CommitIds
  BY Ids DEF Store, IInv, TypeOK
<1>2. PICK c \in Commit : c = Plain(kind, A \cup {next}, T)
  BY <1>1 DEF Plain, Commit, Kinds, Nobody
<1>3. c.kind \notin Markers /\ c.anc = A \cup {next} /\ c.tree = T
  BY <1>2 DEF Plain, Markers
<1> QED
  BY <1>2, <1>3, StoreGraph

\* An agent's commit preserves the invariant.
LEMMA WorkStep ==
    ASSUME IInv, NEW h \in Hosts, Work(h)
    PROVE  IInv' /\ Grows
<1>1. PICK on \in IF local[h] = 0 THEN Bases ELSE {local[h]} :
         Store(Plain("work", Anc(on) \cup {next}, Tree(on) \cup {next}))
  BY DEF Work
<1>2. on \in CommitIds /\ on < next
  BY <1>1, BasesExist, Ids DEF IInv, TypeOK, RefsInv
<1>3. next \in CommitIds /\ next \in Nat
  BY <1>1, Ids DEF Store, IInv, TypeOK
<1>4. /\ Anc(on) \in SUBSET CommitIds /\ Tree(on) \cup {next} \in SUBSET CommitIds
      /\ \A a \in Anc(on) : a < next /\ Tree(a) \subseteq Tree(on) \cup {next}
  <2>1. Anc(on) \subseteq CommitIds /\ Tree(on) \subseteq CommitIds
    BY <1>2 DEF IInv, TypeOK, Anc, Tree, Commit
  <2> QED
    BY <1>2, <1>3, <2>1, Exists DEF IInv, GraphInv
<1>5. PICK A \in SUBSET CommitIds, T \in SUBSET CommitIds :
         A = Anc(on) /\ T = Tree(on) \cup {next}
  BY <1>4
<1>6. /\ GraphInv'
      /\ next' = next + 1 /\ next' \in 2..(MaxCommits + 1)
      /\ commits' \in [CommitIds -> Commit]
      /\ \A a \in CommitIds : a < next => commits'[a] = commits[a]
  BY <1>1, <1>4, <1>5, PlainStored
<1>7. UNCHANGED <<serverVars, laneVars, proc>> /\ local' = Set(local, h, next)
  BY DEF Work
<1>8. next' \in Nat /\ next <= next' /\ next < next'
  BY <1>3, <1>6
<1>9. Grows
  BY <1>6, <1>7, <1>8, BaseStays DEF serverVars
<1>10. local' \in [Hosts -> Tips] /\ \A g \in Hosts : local'[g] = next \/ local'[g] = local[g]
  BY <1>3, <1>7, Ids DEF IInv, TypeOK, Set
<1>11. TypeOK'
  BY <1>6, <1>7, <1>10 DEF IInv, TypeOK, serverVars, laneVars
<1>12. RefsInv'
  <2>1. /\ main \in Nat /\ remote \in Nat /\ \A g \in Hosts : local[g] \in Nat
        /\ main < next /\ remote < next /\ \A g \in Hosts : local[g] < next
    BY Ids DEF IInv, TypeOK, RefsInv
  <2> QED
    BY <1>3, <1>7, <1>8, <1>10, <2>1 DEF RefsInv, serverVars
<1>13. TokenInv' /\ NetInv'
  BY <1>7, <1>9, <1>11, TokenGrows, NetGrows DEF serverVars, laneVars
<1> QED
  BY <1>6, <1>7, <1>9, <1>11, <1>12, <1>13, EnvFrame

\* A landing on the forge preserves the invariant.
LEMMA LandStep ==
    ASSUME IInv, LandMerge \/ LandSquash
    PROVE  IInv' /\ Grows
<1>1. PICK H \in {Anc(remote), {}} : Land(H)
  BY DEF LandMerge, LandSquash
<1>2. remote \in CommitIds /\ remote < next /\ main \in CommitIds /\ main < next
  BY Ids DEF LandMerge, LandSquash, IInv, TypeOK, RefsInv
<1>3. next \in CommitIds /\ next \in Nat
  BY <1>1, Ids DEF Land, Store, IInv, TypeOK
<1> DEFINE A == Anc(main) \cup H
           T == Tree(main) \cup Tree(remote)
<1>4. A \in SUBSET CommitIds /\ T \in SUBSET CommitIds
  BY <1>1, <1>2 DEF IInv, TypeOK, Anc, Tree, Commit
<1>5. \A a \in A : a < next /\ Tree(a) \subseteq T
  <2>1. ASSUME NEW a \in Anc(main) PROVE a < next /\ Tree(a) \subseteq T
    BY <1>2, <2>1, Exists DEF IInv, GraphInv
  <2>2. ASSUME NEW a \in Anc(remote) PROVE a < next /\ Tree(a) \subseteq T
    BY <1>2, <2>2, Exists DEF IInv, GraphInv
  <2> QED
    BY <1>1, <2>1, <2>2
<1>6. Store(Plain("main", A \cup {next}, T))
  BY <1>1 DEF Land
<1> HIDE DEF A, T
<1>7. PICK B \in SUBSET CommitIds, U \in SUBSET CommitIds : B = A /\ U = T
  BY <1>4
<1>8. /\ GraphInv'
      /\ next' = next + 1 /\ next' \in 2..(MaxCommits + 1)
      /\ commits' \in [CommitIds -> Commit]
      /\ commits'[next].tree = T
      /\ \A a \in CommitIds : a < next => commits'[a] = commits[a]
  BY <1>5, <1>6, <1>7, PlainStored
<1>9. /\ UNCHANGED <<remote, rescue, net, local, laneVars, proc>>
      /\ main' = next
  BY <1>1 DEF Land
<1>10. next' \in Nat /\ next <= next' /\ next < next'
  BY <1>3, <1>8
<1>11. Grows
  <2>1. Tree(main)' = T
    BY <1>8, <1>9 DEF Tree
  <2>2. Tree(main) \subseteq T
    BY DEF T
  <2> QED
    BY <1>8, <1>9, <1>10, <2>1, <2>2 DEF Grows, Kept
<1>12. TypeOK'
  BY <1>3, <1>8, <1>9 DEF IInv, TypeOK, laneVars
<1>13. RefsInv'
  <2>1. /\ remote \in Nat /\ \A g \in Hosts : local[g] \in Nat
        /\ remote < next /\ \A g \in Hosts : local[g] < next
    BY Ids DEF IInv, TypeOK, RefsInv
  <2> QED
    BY <1>3, <1>9, <1>10, <2>1 DEF RefsInv
<1>14. TokenInv' /\ NetInv'
  BY <1>9, <1>11, <1>12, TokenGrows, NetGrows DEF laneVars
<1> QED
  BY <1>8, <1>9, <1>11, <1>12, <1>13, <1>14, EnvFrame

\* An agent's fast-forward or push preserves the invariant.
LEMMA AgentStep ==
    ASSUME IInv, NEW h \in Hosts, FastForward(h) \/ PushWork(h)
    PROVE  IInv' /\ Grows
<1>1. CASE FastForward(h)
  <2>1. PICK b \in Bases : local' = Set(local, h, b)
    BY <1>1 DEF FastForward
  <2>2. b \in Tips /\ b < next
    BY BasesExist, Ids
  <2>3. UNCHANGED <<graphVars, serverVars, laneVars, proc>>
    BY <1>1 DEF FastForward
  <2>4. LanesSound /\ RefsSound /\ UNCHANGED <<graphVars, main, proc>>
    BY <2>1, <2>2, <2>3, SetLocal, RefsSame DEF serverVars
  <2> QED
    BY <2>4, SettledEnv
<1>2. CASE PushWork(h)
  <2>1. /\ UNCHANGED <<graphVars, main, rescue, net, local, laneVars, proc>>
        /\ remote' = local[h]
    BY <1>2 DEF PushWork
  <2>2. RefsSound
    BY <2>1 DEF RefsSound, IInv, TypeOK, RefsInv, NetInv
  <2>3. LanesSound
    BY <2>1, LanesSame
  <2> QED
    BY <2>1, <2>2, <2>3, SettledEnv
<1> QED
  BY <1>1, <1>2

\* A late push preserves the invariant: it is Pending, so the CAS on the
\* tip it was built from is enough.
LEMMA DeliverStep ==
    ASSUME IInv, NEW m \in net, Deliver(m)
    PROVE  IInv' /\ Grows
<1>1. /\ UNCHANGED <<graphVars, main, rescue, local, laneVars, proc>>
      /\ net' = net \ {m}
      /\ remote' = remote \/ remote' = m.marker
  BY DEF Deliver
<1>2. m.marker \in Tips /\ m.marker < next
  BY DEF IInv, TypeOK, NetInv, Pending
<1>3. RefsSound
  BY <1>1, <1>2 DEF RefsSound, IInv, TypeOK, RefsInv, NetInv
<1> QED
  BY <1>1, <1>3, LanesSame, SettledEnv

-----------------------------------------------------------------------------
(* The invariant is inductive.                                             *)

\* The invariant holds initially.
LEMMA InitIInv == Init => IInv
<1> SUFFICES ASSUME Init PROVE IInv
  OBVIOUS
<1>1. Root \in CommitIds /\ 0 \in Tips /\ Root \in Nat /\ Root = 1 /\ CommitIds \subseteq Nat \ {0}
  BY Ids DEF Root
<1>2. Plain("main", {Root}, {}) \in Commit /\ Unborn \in Commit
  BY <1>1 DEF Plain, Unborn, Commit, Kinds, Markers, Nobody
<1>3. commits \in [CommitIds -> Commit]
  BY <1>2 DEF Init
<1>4. next \in 2..(MaxCommits + 1) /\ next = 2
  BY BoundAssumption DEF Init
<1>5. /\ Idle \in Proc /\ Idle.pc = "idle" /\ Idle.op = "none"
      /\ Idle.from = 0 /\ Idle.parent = 0 /\ Idle.seen = 0 /\ Idle.marker = 0
  <2>1. 0 \in Tips /\ "idle" \in PCs /\ "none" \in Ops
    BY Ids DEF PCs, Ops
  <2> QED
    BY <2>1, RunIs DEF Idle
<1>6. TypeOK
  BY <1>1, <1>3, <1>4, <1>5 DEF Init, TypeOK
<1>7. /\ Anc(Root) = {Root} /\ Tree(Root) = {} /\ Root < next
      /\ \A c \in CommitIds : c # Root => Anc(c) = {} /\ Tree(c) = {} /\ commits[c] = Unborn
      /\ \A c \in CommitIds : c < next <=> c = Root
  BY <1>1, <1>4 DEF Init, Anc, Tree, Plain, Unborn
<1>8. GraphInv
  BY <1>1, <1>4, <1>7 DEF GraphInv
<1>9. RefsInv /\ TokenInv /\ NetInv
  BY <1>1, <1>4 DEF Init, RefsInv, TokenInv, NetInv
<1>10. ASSUME NEW p \in Procs PROVE RunInv(HostOf[p], proc[p])
  <2>1. proc[p] = Idle /\ 0 < next
    BY <1>4 DEF Init
  <2> QED
    BY <1>5, <2>1 DEF RunInv, Carrying, Pushing, Deleting
<1> QED
  BY <1>6, <1>8, <1>9, <1>10 DEF IInv, ProcInv

\* Every step preserves the invariant and only adds to the store.
LEMMA StepIInv ==
    ASSUME IInv, Next
    PROVE  IInv' /\ Grows
<1>1. CASE Environment
  BY <1>1, WorkStep, AgentStep, LandStep, DeliverStep DEF Environment
<1>2. ASSUME NEW p \in Procs, Command(p) PROVE IInv' /\ Grows
  BY <1>2, AcquireStep, ClaimMintStep, HolderStep, TakeoverStep, PushStep,
     ConfirmStep, SyncStep, PersistStep, StandUpStep, HandoffFailsStep,
     TearDownStep, ScavengeStep, ParkStep, EndStep
     DEF Command
<1> QED
  BY <1>1, <1>2 DEF Next

\* Stuttering preserves the invariant.
LEMMA Stutter == IInv /\ UNCHANGED vars => IInv'
<1> SUFFICES ASSUME IInv, UNCHANGED vars PROVE IInv'
  OBVIOUS
<1>1. LanesSound /\ RefsSound /\ UNCHANGED <<graphVars, main, proc>>
  BY LanesSame, RefsSame DEF vars, graphVars, serverVars, laneVars
<1> QED
  BY <1>1, SettledEnv

\* IInv holds in every reachable state of the protocol.
THEOREM Invariance == Spec => []IInv
  BY InitIInv, StepIInv, Stutter, PTL DEF Spec

\* Type correctness; a token exists only inside a standing worktree.
THEOREM TypeCorrect == Spec => []TypeOK
<1>1. IInv => TypeOK
  BY DEF IInv
<1> QED
  BY <1>1, Invariance, PTL

-----------------------------------------------------------------------------
(* What the protocol promises.                                             *)

\* A clone whose token proves the remote's tip is the holder its
\* governing marker names.
LEMMA ProvenIsHolder ==
    ASSUME IInv, NEW h \in Hosts, TokenProves(token[h], remote)
    PROVE  Governs(remote).holder = h
<1>1. /\ token[h] # 0 /\ remote \in CommitIds /\ remote < next
      /\ Mine(h, token[h])
  BY Ids DEF TokenProves, IInv, TypeOK, RefsInv, TokenInv
<1>2. CASE token[h] = remote
  BY <1>1, <1>2, MarkerGovernsItself DEF Governs, Mine
<1>3. CASE OwnAdvance(token[h], remote)
  BY <1>1, <1>3 DEF OwnAdvance, Mine
<1> QED
  BY <1>2, <1>3 DEF TokenProves

\* No two clones ever hold tokens that prove the lease.
THEOREM HolderUnique == Spec => []OneProvenHolder
<1>1. IInv => OneProvenHolder
  BY ProvenIsHolder DEF OneProvenHolder
<1> QED
  BY <1>1, Invariance, PTL

\* Every move of the remote ref is a push that was sound when it applied.
LEMMA RemoteMoves ==
    ASSUME IInv, Next
    PROVE  \/ UNCHANGED remote
           \/ UNCHANGED <<graphVars, main, rescue>> /\ Pending(remote, remote')
<1>1. ASSUME NEW h \in Hosts, PushWork(h)
      PROVE  UNCHANGED <<graphVars, main, rescue>> /\ Pending(remote, remote')
  <2>1. /\ UNCHANGED <<graphVars, main, rescue>> /\ remote' = local[h]
        /\ local[h] # 0 /\ remote \in Anc(local[h])
    BY <1>1 DEF PushWork
  <2> QED
    BY <2>1 DEF Pending, IInv, RefsInv
<1>2. ASSUME NEW m \in net, Deliver(m), remote' # remote
      PROVE  UNCHANGED <<graphVars, main, rescue>> /\ Pending(remote, remote')
  BY <1>2 DEF Deliver, IInv, NetInv
<1>3. ASSUME NEW p \in Procs, PushAcked(p) \/ PushUnacked(p)
      PROVE  UNCHANGED <<graphVars, main, rescue>> /\ Pending(remote, remote')
  <2>1. Pending(proc[p].from, proc[p].marker)
    BY <1>3, RunFacts DEF PushAcked, PushUnacked, At, RunInv
  <2> QED
    BY <1>3, <2>1 DEF PushAcked, PushUnacked
<1>4. CASE Environment
  BY <1>1, <1>2, <1>4
     DEF Environment, Work, FastForward, LandMerge, LandSquash, Land, serverVars
<1>5. ASSUME NEW p \in Procs, Command(p), ~PushAcked(p), ~PushUnacked(p)
      PROVE  UNCHANGED remote
  BY <1>5 DEF Command, Acquire, ClaimMint, Renew, Release, BeatFor, Takeover, Bind,
     Rebind, Unwind, Advance, PushFailed, PushAbandoned, Confirm, Unconfirmed, Sync,
     Persist, StandUp, HandoffFails, ClearLeftover, Yield, Scavenge, Park,
     DeleteLocal, Stop, serverVars
<1> QED
  BY <1>3, <1>4, <1>5 DEF Next

\* The work ref is append-only: only a delete takes history away from it.
THEOREM RefAppendOnly == Spec => AppendOnly
<1>1. ASSUME IInv, [Next]_vars, remote # 0, remote' # 0
      PROVE  remote \in commits'[remote'].anc
  <2>1. remote \in CommitIds /\ remote < next
    BY <1>1, Ids DEF IInv, TypeOK, RefsInv
  <2>2. remote \in Anc(remote)
    BY <1>1, <2>1 DEF IInv, GraphInv
  <2>3. CASE Next
    <3>1. CASE UNCHANGED remote
      <4>1. commits'[remote] = commits[remote]
        BY <1>1, <2>1, <2>3, StepIInv DEF Grows
      <4> QED
        BY <2>2, <3>1, <4>1 DEF Anc
    <3>2. CASE UNCHANGED graphVars /\ Pending(remote, remote')
      BY <1>1, <3>2 DEF Pending, graphVars, Anc
    <3> QED
      BY <1>1, <2>3, <3>1, <3>2, RemoteMoves
  <2>4. CASE UNCHANGED vars
    BY <2>2, <2>4 DEF vars, Anc
  <2> QED
    BY <1>1, <2>3, <2>4
<1> QED
  BY <1>1, Invariance, PTL DEF Spec, AppendOnly

\* An agent's commit that is recoverable from the remote stays so.
THEOREM WorkStaysSaved == Spec => SavedStaysSaved
<1>1. ASSUME IInv, [Next]_vars
      PROVE  Saved \subseteq Saved'
  <2>1. CASE Next
    <3>1. Grows /\ Kept \subseteq Kept'
      BY <1>1, <2>1, StepIInv DEF Grows
    <3>2. remote \in Tips /\ remote < next /\ (remote # 0 => remote \in CommitIds)
      BY <1>1, Ids DEF IInv, TypeOK, RefsInv
    <3>3. CASE UNCHANGED remote
      <4>1. remote # 0 => Tree(remote)' = Tree(remote)
        BY <3>1, <3>2, <3>3 DEF Grows, Tree
      <4> QED
        BY <3>1, <3>3, <4>1 DEF Saved, Kept
    <3>4. CASE UNCHANGED <<graphVars, main, rescue>> /\ Pending(remote, remote')
      <4>1. Tree(main)' = Tree(main) /\ rescue' = rescue
        BY <3>4 DEF graphVars, Tree
      <4>2. CASE remote' = 0
        <5>1. Tree(remote) \subseteq Kept
          BY <3>4, <4>2 DEF Pending
        <5> QED
          BY <4>1, <4>2, <5>1 DEF Saved, Kept
      <4>3. CASE remote' # 0 /\ remote # 0
        <5>1. remote \in commits[remote'].anc /\ remote' \in CommitIds
          BY <1>1, <2>1, <3>4, <4>3, StepIInv, Ids DEF Pending, IInv, TypeOK, Anc
        <5>2. commits[remote].tree \subseteq commits[remote'].tree
          BY <1>1, <5>1 DEF IInv, GraphInv, Anc, Tree
        <5>3. Tree(remote) \subseteq Tree(remote)'
          BY <3>4, <5>2 DEF graphVars, Tree
        <5> QED
          BY <4>1, <4>3, <5>3 DEF Saved
      <4>4. CASE remote = 0
        BY <4>1, <4>4 DEF Saved
      <4> QED
        BY <4>2, <4>3, <4>4
    <3> QED
      BY <1>1, <2>1, <3>3, <3>4, RemoteMoves
  <2>2. CASE UNCHANGED vars
    BY <2>2 DEF vars, Saved, Tree
  <2> QED
    BY <1>1, <2>1, <2>2
<1> QED
  BY <1>1, Invariance, PTL DEF Spec, SavedStaysSaved

\* A step that changes a command's record is a step of that command.
LEMMA OwnStep ==
    ASSUME IInv, Next, NEW p \in Procs, proc'[p] # proc[p]
    PROVE  Command(p)
<1>1. CASE Environment
  BY <1>1 DEF Environment, Work, FastForward, PushWork, LandMerge, LandSquash,
     Land, Deliver
<1>2. ASSUME NEW q \in Procs, Command(q), q # p PROVE FALSE
  <2>1. proc \in [Procs -> Proc]
    BY DEF IInv, TypeOK
  <2>2. \/ UNCHANGED proc
        \/ \E r : Become(q, r)
    BY <1>2 DEF Command, Acquire, ClaimMint, Renew, Release, BeatFor, Takeover,
       Bind, Rebind, Unwind, Advance, PushAcked, PushUnacked, PushFailed,
       PushAbandoned, Confirm, Unconfirmed, Sync, AfterSync, Persist, StandUp,
       HandoffFails, ClearLeftover, Yield, Scavenge, Park, DeleteLocal, Stop,
       Goto, Finish
  <2> QED
    BY <1>2, <2>1, <2>2 DEF Become
<1> QED
  BY <1>1, <1>2 DEF Next

\* The sync after a holder's transition loses nothing of the local branch.
THEOREM LocalWorkKept == Spec => SyncKeepsLocalWork
<1>1. ASSUME IInv, [Next]_vars, NEW p \in Procs,
             proc[p].pc = "sync", proc'[p] # proc[p],
             proc[p].op \notin {"claim", "takeover"},
             local'[HostOf[p]] # local[HostOf[p]], local[HostOf[p]] # 0
      PROVE  Tree(local[HostOf[p]]) \subseteq commits'[local'[HostOf[p]]].tree
  <2>1. Next
    BY <1>1 DEF vars
  <2>2. Sync(p)
    <3>1. Command(p)
      BY <1>1, <2>1, OwnStep
    <3>2. ~Stop(p)
      BY <1>1 DEF Stop
    <3> QED
      BY <1>1, <3>1, <3>2 DEF Command, Acquire, ClaimMint, Renew, Release, BeatFor,
         Takeover, Bind, Rebind, Unwind, PushAcked, PushUnacked, PushFailed,
         PushAbandoned, Confirm, Unconfirmed, Persist, StandUp, HandoffFails,
         ClearLeftover, Yield, Scavenge, ScavengeTip, Park, DeleteLocal, IsIdle, At
  <2>3. /\ local[HostOf[p]] = proc[p].seen
        /\ local' = Set(local, HostOf[p], proc[p].marker)
        /\ UNCHANGED commits
    BY <1>1, <2>2 DEF Sync, graphVars
  <2>4. local'[HostOf[p]] = proc[p].marker
    BY <1>1, <2>3, RunFacts DEF Set, IInv, TypeOK
  <2>5. Carrying(proc[p])
    <3>1. proc[p].op # "scavenge"
      BY <1>1, RunFacts DEF RunInv, Pushing, Deleting
    <3> QED
      BY <1>1, <2>3, <3>1 DEF Carrying
  <2>6. Tree(proc[p].seen) \subseteq Tree(proc[p].marker)
    BY <1>1, <2>5, RunFacts DEF RunInv
  <2> QED
    BY <2>3, <2>4, <2>6 DEF Tree
<1>2. IInv /\ [Next]_vars =>
        \A p \in Procs :
          LET h == HostOf[p] IN
          /\ proc[p].pc = "sync" /\ proc'[p] # proc[p]
          /\ proc[p].op \notin {"claim", "takeover"}
          /\ local'[h] # local[h] /\ local[h] # 0
          => Tree(local[h]) \subseteq commits'[local'[h]].tree
  BY <1>1
<1> QED
  BY <1>2, Invariance, PTL DEF Spec, SyncKeepsLocalWork
=============================================================================

------------------------------ MODULE LeaseInv ------------------------------
(***************************************************************************)
(* The inductive invariant behind the theorems of LeaseProofs: what is     *)
(* true of the commit graph, of the refs, of every token, and of every     *)
(* push that is still to be applied.                                       *)
(***************************************************************************)
EXTENDS Lease

\* The graph: ids not handed out yet are empty; a commit is the newest of
\* its own history and carries the content of all of it; and content
\* enters a history only with a commit that is not a marker.
GraphInv ==
    /\ \A c \in CommitIds : c >= next => commits[c] = Unborn
    /\ \A c \in CommitIds : c < next => c \in Anc(c) /\ Anc(c) \subseteq 1..c
    /\ \A c \in CommitIds : \A a \in Anc(c) : Tree(a) \subseteq Tree(c)
    /\ \A c \in CommitIds : \A w \in Tree(c) :
          \E a \in Anc(c) : ~IsMarker(a) /\ w \in Tree(a)

\* Refs point at commits that exist.
RefsInv ==
    /\ main < next
    /\ remote < next
    /\ \A h \in Hosts : local[h] < next

\* A marker minted in a clone names it as the holder; a token is one.
Mine(h, c) == c \in CommitIds /\ IsMarker(c) /\ commits[c].holder = h

TokenInv == \A h \in Hosts : token[h] # 0 => Mine(h, token[h])

\* What is recoverable without the work ref.
Kept == rescue \cup Tree(main)

\* A push the remote may still apply replaces a tip by a descendant of
\* it, and deletes one only when all its content is kept elsewhere.
Pending(from, marker) ==
    /\ from < next /\ marker < next
    /\ marker # 0 /\ from # 0 => from \in Anc(marker)
    /\ marker = 0 => from # 0 /\ Tree(from) \subseteq Kept

NetInv == \A m \in net : Pending(m.from, m.marker)

Deleting(r) == r.op = "scavenge"
Pushing     == {"push", "confirm", "sync", "persist", "leased", "stood", "abort"}

\* The transitions built on the lane's branch: what the branch carried
\* when the marker was minted is in the marker.
Carrying(r) ==
    r.pc \in {"push", "confirm", "sync"}
      /\ r.op \notin {"claim", "takeover", "scavenge"} /\ r.seen # 0

\* A command in each of its steps.
RunInv(h, r) ==
    /\ r.from < next /\ r.parent < next /\ r.seen < next /\ r.marker < next
    /\ Carrying(r) => Tree(r.seen) \subseteq Tree(r.marker)
    /\ r.marker # 0 => Mine(h, r.marker)
    /\ r.pc = "mint" => r.parent # 0 /\ r.from \in {0, r.parent}
    /\ r.pc \in {"lost", "park"} => r.from # 0
    /\ r.pc = "park" => Deleting(r) /\ r.marker = 0
    /\ r.pc \in Pushing => (Deleting(r) <=> r.marker = 0)
    /\ r.pc \in Pushing \ {"push", "confirm"} => r.marker # 0
    /\ r.pc = "push" => Pending(r.from, r.marker)

ProcInv == \A p \in Procs : RunInv(HostOf[p], proc[p])

IInv == TypeOK /\ GraphInv /\ RefsInv /\ TokenInv /\ NetInv /\ ProcInv
=============================================================================

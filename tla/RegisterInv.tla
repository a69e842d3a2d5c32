---------------------------- MODULE RegisterInv ----------------------------
(***************************************************************************)
(* The invariant behind the refinement of WorkRef: what is true of the     *)
(* markers of every tip a clone may build on, and of every marker that is  *)
(* still to be pushed, for as long as landings are squashed.               *)
(***************************************************************************)
EXTENDS LeaseInv

\* Histories nest.
Nested == \A c \in CommitIds : \A a \in Anc(c) : Anc(a) \subseteq Anc(c)

\* The pushes the remote has not applied and may yet apply, and the markers
\* among them.
Sending == {p \in Procs : proc[p].pc = "push"}
Pushes  == net \cup {[from |-> proc[p].from, marker |-> proc[p].marker] :
                        p \in Sending}
Unsent  == {s.marker : s \in Pushes} \ {0}

\* The tips clones have: their branches, and the markers of commands whose
\* push the remote has applied.
Applied == {"sync", "persist", "leased", "stood", "abort"}
Known   == ({local[h] : h \in Hosts}
              \cup {proc[p].marker : p \in {q \in Procs : proc[q].pc \in Applied}})
           \ {0}

\* Whoever is ahead of the remote has added no marker of its own.
Follows(markers, tip) ==
    remote # 0 /\ remote \in Anc(tip) => markers \subseteq Anc(remote)

\* Nobody has a marker before the remote does.
Public(c) == \A m \in Unsent : m \notin Anc(c)

KnownInv  == \A c \in Known : Public(c) /\ Follows(MarkersOf(c), c)
RemoteInv == remote # 0 => HasMarker(remote) /\ Public(remote)

\* A marker is on its way once.
OnceInv ==
    /\ \A p, q \in Sending :
          proc[p].marker # 0 /\ proc[p].marker = proc[q].marker => p = q
    /\ \A p \in Sending, m \in net :
          m.marker # 0 => m.marker # proc[p].marker
    /\ \A m, n \in net : m.marker # 0 /\ m.marker = n.marker => m = n

\* A marker's place in the register's history: the first, the next
\* acquisition, or the same lease again.
Reads(from, m) ==
    LET c == commits[m] IN
    /\ c.holder \in Hosts
    /\ IF from = 0 THEN c.kind = "claim" /\ c.epoch = 1
       ELSE /\ HasMarker(from)
            /\ \/ /\ c.kind \in {"claim", "takeover"}
                  /\ c.epoch = Governs(from).epoch + 1
               \/ /\ c.kind \in {"beat", "release"}
                  /\ c.epoch = Governs(from).epoch
                  /\ c.holder = Governs(from).holder

\* It is minted on the tip it is pushed from, or on a branch ahead of it.
Others(m) == MarkersOf(m) \ {m}

OnTip(from, m) == Others(m) = IF from = 0 THEN {} ELSE MarkersOf(from)

OnBranch(from, m) ==
    /\ from # 0
    /\ Anc(m) \cap Unsent \subseteq {m}
    /\ Follows(Others(m), m)

Extends(from, m) == Reads(from, m) /\ (OnTip(from, m) \/ OnBranch(from, m))

SendInv == \A s \in Pushes : s.marker # 0 => Extends(s.from, s.marker)

\* A claim of an absent ref is built on a commit that no marker precedes,
\* one of a released ref on the release.
MintInv ==
    \A p \in Procs : proc[p].pc = "mint" =>
        IF proc[p].from = 0 THEN ~HasMarker(proc[p].parent)
        ELSE IsMarker(proc[p].from)

MarkersInv == KnownInv /\ RemoteInv /\ OnceInv /\ SendInv /\ MintInv

RegInv == Nested /\ (Squashed => MarkersInv)
=============================================================================

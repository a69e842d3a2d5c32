----------------------------- MODULE MarkerInv -----------------------------
(***************************************************************************)
(* Whose marker governs the remote ref and the clones' branches of Lane,   *)
(* and what reap's evidence is still worth when reap acts on it, on        *)
(* machines that run one command each: what the forge, the agents and the  *)
(* other machines can have done to it since it was read.                   *)
(***************************************************************************)
EXTENDS Lane

\* Every marker names the machine that minted it: tokens, minted leases,
\* sessions, and the markers that record a session.  What a resume goes
\* on from is its machine's own lease, and what is stood up is no resume.
NamesInv ==
    /\ \A h \in Hosts : token[h] # 0 => log[token[h]].host = h
    /\ \A p \in Procs : cmd[p].tip # 0 => log[cmd[p].tip].host = HostOf[p]
    /\ \A h \in Hosts : \A s \in agents[h] : log[s].host = h
    /\ \A c \in Made :
          log[c].sess # 0 => log[c].host = log[log[c].sess].host
    /\ \A p \in Procs :
          /\ At(p, "resume") => Governs(cmd[p].from).host = HostOf[p]
          /\ At(p, "standup") => ~Resumed(p)

\* The base holds nothing that the remote ref has not, and whatever has
\* the marker that governs the remote has the very markers it has.
Newest(S) == Max(MarkersIn(S))

HistoryInv ==
    ref # {} =>
        /\ MarkersIn(ref) # {}
        /\ base \subseteq ref
        /\ \A S \in {base} \cup {branch[h] : h \in Hosts} :
              Newest(ref) \in S => MarkersIn(S) = MarkersIn(ref)

Lonely == \A p \in Procs : Alone(p)

\* A branch is governed by its own machine's marker.
BranchInv ==
    \A h \in Hosts : branch[h] # {} =>
        MarkersIn(branch[h]) # {} /\ Governs(branch[h]).host = h

\* No hold any more: the plan is done, the tip merged or released.
Spent(S) == done \/ S \subseteq base \/ ~LiveHold(S)

\* The remote ref is no live hold of h's.
NotOurs(h) == Spent(ref) \/ Governs(ref).host # h

\* A stranded checkout stays so until somebody commits in it; a foreign
\* one stays foreign.
EvidenceInv ==
    \A p \in Procs :
        LET h == HostOf[p] IN
        /\ (At(p, "park") \/ At(p, "remove")) /\ branch[h] = cmd[p].from
              => Spent(cmd[p].from) /\ NotOurs(h)
        /\ At(p, "foreign") => ref = {} \/ Governs(ref).host # h

SignedInv ==
    /\ NamesInv /\ HistoryInv
    /\ Lonely => BranchInv /\ EvidenceInv
=============================================================================

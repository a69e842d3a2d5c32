------------------------------ MODULE WorkRef ------------------------------
(***************************************************************************)
(* What a plan's work ref promises: a register that is absent, held or     *)
(* released, whose holder changes only together with its epoch.  It is     *)
(* stated without commits, clones, pushes or failures; Lease implements    *)
(* it, with the register read off the remote ref's tip, and so does Lane.  *)
(* The promise of Lease ends when the base branch takes a plan's markers   *)
(* into its own history: a void register promises nothing any more.        *)
(***************************************************************************)
EXTENDS Naturals

CONSTANTS Holders, NoHolder

VARIABLES phase, epoch, holder

reg == <<phase, epoch, holder>>

Absent == phase = "absent" /\ epoch = 0 /\ holder = NoHolder

\* Whoever acquires an absent or a released ref, or takes a held one over,
\* holds it from the next epoch on.
Lease ==
    /\ phase # "void"
    /\ epoch' = epoch + 1
    /\ phase' = "held"
    /\ holder' \in Holders

Release ==
    /\ phase = "held" /\ phase' = "released"
    /\ UNCHANGED <<epoch, holder>>

Delete == phase \notin {"absent", "void"} /\ Absent'

Lapse == phase' = "void" /\ epoch' = 0 /\ holder' = NoHolder

Next == Lease \/ Release \/ Delete \/ Lapse

Spec == Absent /\ [][Next]_reg
=============================================================================

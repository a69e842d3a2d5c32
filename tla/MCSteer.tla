------------------------------ MODULE MCSteer ------------------------------
(* This machine and one remote box.                                        *)
EXTENDS Steer, TLC

CONSTANTS i1, a1, a2, r1

\* One run lists, raises or prompts, another asks.
OneOfEach == a1 :> {"who", "open", "prompt"} @@ a2 :> {"ask"}
=============================================================================

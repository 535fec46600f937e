---------------------------- MODULE MCFrameHub ----------------------------
(* An instance of FrameHub for TLC: the first sink is added twice.         *)
EXTENDS FrameHub, TLC

CONSTANTS e1, e2, e3, s1, s2

Owners == (e1 :> s1) @@ (e2 :> s1) @@ (e3 :> s2)
=============================================================================

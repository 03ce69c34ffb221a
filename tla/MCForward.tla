----------------------------- MODULE MCForward -----------------------------
(* Forward for TLC: two channels, each with a handler of its own            *)
(* interpreter.                                                            *)
EXTENDS Forward, TLC
CONSTANTS c1, c2, i1, i2
TwoInterps == c1 :> i1 @@ c2 :> i2
=============================================================================

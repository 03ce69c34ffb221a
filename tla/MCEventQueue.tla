---------------------------- MODULE MCEventQueue ----------------------------
(* EventQueue for TLC: events are interchangeable. *)
EXTENDS EventQueue

EventSymmetry == Permutations(Events)
=============================================================================

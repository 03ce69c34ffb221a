--------------------------- MODULE MCIdleHandlers ---------------------------
(* IdleHandlers for TLC. *)
EXTENDS IdleHandlers
=============================================================================

------------------------------ MODULE MCAsync ------------------------------
(* Async for TLC. *)
EXTENDS Async
=============================================================================

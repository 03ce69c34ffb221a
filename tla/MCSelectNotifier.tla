--------------------------- MODULE MCSelectNotifier ---------------------------
(* The select notifier on small instances: threads and files are model       *)
(* values.                                                                   *)
EXTENDS SelectNotifier
=============================================================================

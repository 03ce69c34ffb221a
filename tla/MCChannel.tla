------------------------------ MODULE MCChannel ------------------------------
(* The channel on small instances: the interpreters are model values.      *)
EXTENDS Channel
=============================================================================

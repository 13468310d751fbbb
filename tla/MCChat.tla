------------------------------- MODULE MCChat -------------------------------
(* Instances of Chat for model checking. *)
EXTENDS Chat

CONSTANTS s1, r1, r2, x1, x2
=============================================================================

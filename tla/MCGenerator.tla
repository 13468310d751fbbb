----------------------------- MODULE MCGenerator -----------------------------
(* Instances of Generator for model checking. *)
EXTENDS Generator

CONSTANTS a, b
=============================================================================

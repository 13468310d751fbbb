----------------------------- MODULE MCDetector -----------------------------
(* Instances of Detector for model checking. *)
EXTENDS Detector

CONSTANTS e1, e2, r1, r2, s1
=============================================================================

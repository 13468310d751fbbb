---------------------------- MODULE MCDashboard ----------------------------
(* Instances of Dashboard for model checking. *)
EXTENDS Dashboard

CONSTANTS e1, e2, r1, r2, s1
=============================================================================

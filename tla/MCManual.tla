------------------------------ MODULE MCManual ------------------------------
(* Instances of ManualIngest for model checking. *)
EXTENDS ManualInductive, TLC

CONSTANTS d1, d2, c1, c2

\* Safety only: the requests are interchangeable.
CallSymmetry == Permutations(Calls)
=============================================================================

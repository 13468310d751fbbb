------------------------------ MODULE MCDrawing ------------------------------
(* Instances of DrawingIngest for model checking. *)
EXTENDS DrawingInductive, TLC

CONSTANTS d1, c1, c2, t1, t2

\* Requests and metadata are interchangeable.
Symmetry == Permutations(Calls) \cup Permutations(Texts)
=============================================================================

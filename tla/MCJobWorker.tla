----------------------------- MODULE MCJobWorker -----------------------------
(* Instances of JobWorker: one or two workers, one recipient. *)
EXTENDS JobWorker, TLC

CONSTANTS w1, w2, p1

Symmetry == Permutations(Workers)
=============================================================================

----------------------------- MODULE MCTemplates -----------------------------
(***************************************************************************)
(* Instances of Templates: two default templates, one with a rule, and     *)
(* one that create_template makes.                                         *)
(***************************************************************************)
EXTENDS Templates, TLC

CONSTANTS h1, h2, t1, t2, t3, c1, c2

Symmetry == Permutations(Handlers) \cup Permutations(Contents)
=============================================================================

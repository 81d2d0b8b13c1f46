------------------------------ MODULE MCLogins ------------------------------
(***************************************************************************)
(* An instance of Logins.                                                  *)
(***************************************************************************)
EXTENDS Logins, TLC

CONSTANTS h1, h2, u1, u2, t1, t2, t3, s1, m1, l1

Symmetry == Permutations(Handlers) \cup Permutations(UserIds) \cup Permutations(TokenIds)
=============================================================================

----------------------------- MODULE MCSessions -----------------------------
(***************************************************************************)
(* Instances of Sessions: two sessions and up to three bookings.  Ids are  *)
(* not reused, so a behaviour ends when they are used up.                  *)
(***************************************************************************)
EXTENDS Sessions, TLC

CONSTANTS h1, h2, s1, s2, b1, b2, b3

Symmetry == Permutations(Handlers) \cup Permutations(SessionIds) \cup Permutations(BookingIds)
=============================================================================

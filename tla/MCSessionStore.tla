--------------------------- MODULE MCSessionStore ---------------------------
(* SessionStore on small instances. *)
EXTENDS SessionStore, TLC

Symmetry == Permutations(IDs) \cup Permutations(Requests)
=============================================================================

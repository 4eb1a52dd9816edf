----------------------------- MODULE MCActions -----------------------------
(* Actions on small instances: destinations side by side, or nested. *)
EXTENDS Actions, TLC

CONSTANTS a, b

\* github.com/x/a and github.com/x/b
Flat == [p \in Targets |-> {p}]

\* b is beneath a (a destination may be given explicitly)
Nested == [p \in Targets |-> IF p = a THEN {a, b} ELSE {p}]

Symmetry == Permutations(Jobs) \cup Permutations(CloneHandlers)
                               \cup Permutations(InitHandlers)
=============================================================================

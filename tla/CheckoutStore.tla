--------------------------- MODULE CheckoutStore ---------------------------
(***************************************************************************)
(* What the write surface promises of the tree, in the words of            *)
(* internal/actions/actions.go (`Nothing here deletes, moves, or modifies  *)
(* an existing checkout') and of the project's README (`Nothing here ever  *)
(* deletes a checkout'): the set of checkouts only grows, one at a time.   *)
(***************************************************************************)
CONSTANT Targets

VARIABLE checkouts

TypeOK == checkouts \in SUBSET Targets

Init == checkouts \in SUBSET Targets

Create(p) == checkouts' = checkouts \cup {p}

Next == \E p \in Targets : Create(p)

Spec == Init /\ [][Next]_checkouts
=============================================================================

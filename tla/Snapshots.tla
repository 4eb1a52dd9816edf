----------------------------- MODULE Snapshots -----------------------------
(***************************************************************************)
(* What the readers of Index.Current may rely on (internal/index/index.go: *)
(* the comments of Snapshot, Warnings and Index.ghosts).  A snapshot shows *)
(* nothing that was not on the disk, takes back nothing an earlier one had *)
(* shown or listed without a warning, and names every owner whose list is  *)
(* an older one.  How the index comes by its snapshots is left open.       *)
(***************************************************************************)
EXTENDS Naturals

CONSTANTS Checkouts, Owners

VARIABLES
    world,      \* the version of each checkout on disk, 0 for none
    snap        \* the published Snapshot

vars == <<world, snap>>

Snapshot ==
    [shown : [Checkouts -> Nat], failed : SUBSET Checkouts,
     listing : [Owners -> {"none", "current", "old"}], warned : SUBSET Owners]

Init ==
    /\ world \in [Checkouts -> Nat]
    /\ snap = [shown |-> [c \in Checkouts |-> 0], failed |-> {},
               listing |-> [o \in Owners |-> "none"], warned |-> {}]

\* Whatever changes the disk, it makes newer versions.
Change ==
    /\ world' \in [Checkouts -> Nat]
    /\ \A c \in Checkouts : world'[c] >= world[c]
    /\ UNCHANGED snap

\* This snapshot may follow that one.
Follows(next, last) ==
    /\ \A c \in Checkouts : next.shown[c] >= last.shown[c] \/ c \in next.failed
    /\ \A o \in Owners :
         /\ next.listing[o] = "none" => last.listing[o] = "none"
         /\ next.listing[o] = "old" => o \in next.warned

Publish ==
    /\ snap' \in Snapshot
    /\ \A c \in Checkouts : snap'.shown[c] <= world[c]
    /\ Follows(snap', snap)
    /\ UNCHANGED world

Next == Change \/ Publish

Spec == Init /\ [][Next]_vars
=============================================================================

------------------------------- MODULE MCTree -------------------------------
(* Tree on a small disk: an owner's directory with a repository's place in   *)
(* it, and another directory that is deeper than the walk goes.  With it,    *)
(* what surrounds a scan: how places are named, and what git reports.        *)
EXTENDS Tree, Places, Porcelain

AnOwner == <<"owner">>
Place == <<"owner", "name">>
Other == <<"other">>
MCPaths == {AnOwner, Place, Other, <<"other", "x">>, <<"other", "x", "y">>}
MCMains == {Place, <<"other", "x">>, Nowhere}
MCOwners == {AnOwner}
MCSlugs == {Place}

\* The bounds: requests, and paths of URLs, of up to three elements; reports
\* of up to three paths that differ, and rows of up to two; the
\* elements are two words and the ones that mean something (Segments).
Words == {"alice", "tool"}
OneNameEach == OneNameForAPlace(Words, 3)
GhostsTurn == GhostTurnsIntoClone(Words)
AsReported == CountedAsReported(3, 1)
NeverReassuring == RowNeverReassures(2, 1)

\* What surrounds a scan, stated of every tree it may have built: the places
\* in it that a request may ask for have one name each (OneNameForAPlace) ...
PlacesHaveOneName == Built => OneNameEach

\* ... a ghost that is cloned, or whose repository is, is none in the next
\* tree (GhostTurnsIntoClone) ...
GhostsMeetTheirClones == Built => GhostsTurn

\* ... the status of a checkout is what git reported (CountedAsReported) ...
StatusIsAsReported == Built => AsReported

\* ... and no row is better than that (RowNeverReassures).
RowsNeverReassure == Built => NeverReassuring
=============================================================================

-------------------------------- MODULE Tree --------------------------------
(***************************************************************************)
(* What a scan makes of the disk: scan.Walk (internal/scan/scan.go) visits *)
(* one directory after the other while others change them, and tree.Build  *)
(* (internal/tree/tree.go) assembles what it found, the origins git        *)
(* reports and the providers' listings into the tree the page shows.       *)
(*                                                                         *)
(* A path is the sequence of its segments below the root.  Files, symbolic *)
(* links and dot-directories are not among Paths: the walk skips them.  A  *)
(* slug host/owner/name is the path its repository is cloned to.           *)
(***************************************************************************)
EXTENDS Naturals, FiniteSets, SequencesExt

CONSTANTS
    Paths,          \* the directories there may be
    Owners,         \* the paths of config Owners
    Slugs,          \* the repositories providers may list, and origins name
    MaxDepth,       \* config MaxDepth
    Mains,          \* where the .git files of worktrees lead
    MaxChanges      \* bound: paths that change during one scan

Root == << >>
Nowhere == <<"elsewhere">>      \* a main checkout outside the root
Unknown == <<"unknown">>        \* no origin, or an inspection that failed

ASSUME TreeConfig ==
    /\ Paths \subseteq Seq(STRING)
    /\ \A p \in Paths : Len(p) > 0 /\ \A i \in 1 .. Len(p) : SubSeq(p, 1, i) \in Paths
    /\ Owners \subseteq Paths
    /\ \A s \in Slugs : s \in Paths /\ Front(s) \in Owners
    \* An owner is host/login, and a login has no slash in it (ParseOwners).
    /\ \A s \in Slugs, o \in Owners : ~IsPrefix(s, o)
    /\ Nowhere \notin Paths /\ Unknown \notin Slugs
    /\ Mains \subseteq Paths \cup {Nowhere}
    /\ MaxDepth \in Nat /\ MaxChanges \in Nat

VARIABLES
    disk,       \* what is at each path
    touched,    \* history: the paths that changed during the scan
    phase,      \* "walking" or "built"
    pending,    \* directories listed by their parent and not yet processed
    dirs,       \* Result.Dirs
    repos,      \* Result.Repos, as a function from Rel to MainPath (Root: none)
    errs,       \* the paths Result.Errs is about
    origin,     \* what git.Inspect says of each checkout
    listed,     \* Input.Ghosts
    nodes       \* the tree, once built

walkVars == <<pending, dirs, repos, errs>>
vars == <<disk, touched, phase, walkVars, origin, listed, nodes>>

\* "locked" cannot be read; "odd" has a .git file that leads nowhere.
Simple == {[is |-> k, main |-> Root] : k \in {"absent", "dir", "locked", "repo", "odd"}}
Content == Simple \cup {[is |-> "worktree", main |-> m] : m \in Mains}

IsThere(p) == disk[p].is # "absent"
Beneath(p) == {q \in Paths : IsStrictPrefix(p, q)}
Children(p) == {q \in Beneath(p) : Len(q) = Len(p) + 1}

\* Mutant: the depth limit is one level short.
DescendsLess(p) == IF Len(p) + 1 < MaxDepth THEN {q \in Children(p) : IsThere(q)} ELSE {}

\* What the walk goes on to beneath a directory it has read.
Descends(p) == IF Len(p) < MaxDepth THEN {q \in Children(p) : IsThere(q)} ELSE {}

Init ==
    /\ disk \in [Paths -> Content]
    /\ \A p \in Paths : ~IsThere(p) => \A q \in Beneath(p) : ~IsThere(q)
    /\ \A p \in Paths : disk[p].main # p
    /\ touched = {}
    /\ phase = "walking"
    /\ pending = Descends(Root)
    /\ dirs = {}
    /\ repos = << >>
    /\ errs = {}
    /\ origin = << >>
    /\ listed = {}
    /\ nodes = {}

----------------------------------------------------------------------------
(* Others change the disk. *)

Change(p, what) ==
    /\ phase = "walking"
    /\ Cardinality(touched) < MaxChanges
    /\ disk' = [disk EXCEPT ![p] = what]
    /\ touched' = touched \cup {p}
    /\ UNCHANGED <<phase, walkVars, origin, listed, nodes>>

\* A directory or a checkout comes, one is turned into the other, or goes.
Changes ==
    \E p \in Paths :
        /\ Len(p) > 1 => IsThere(Front(p))
        /\ \E what \in {"absent", "dir", "repo"} :
             /\ what # disk[p].is
             /\ what = "absent" => \A q \in Beneath(p) : ~IsThere(q)
             /\ Change(p, [is |-> what, main |-> Root])

----------------------------------------------------------------------------
(* scan.Walk: processDir, for one of the directories that are due. *)

\* It is gone, or cannot be read.
Unreadable(p) ==
    /\ disk[p].is \in {"absent", "locked"}
    /\ errs' = errs \cup {p}
    /\ pending' = pending \ {p}
    /\ UNCHANGED <<dirs, repos>>

\* classify: a .git that is no worktree's is a primary checkout's.
Checkout(p) ==
    /\ disk[p].is \in {"repo", "odd", "worktree"}
    /\ repos' = [q \in DOMAIN repos \cup {p} |-> IF q = p THEN disk[p].main ELSE repos[q]]
    /\ errs' = IF disk[p].is = "odd" THEN errs \cup {p} ELSE errs
    /\ pending' = pending \ {p}
    /\ UNCHANGED dirs

PlainDir(p) ==
    /\ disk[p].is = "dir"
    /\ dirs' = dirs \cup {p}
    /\ pending' = (pending \ {p}) \cup Descends(p)
    /\ UNCHANGED <<repos, errs>>

ProcessDir(p) ==
    /\ phase = "walking"
    /\ p \in pending
    /\ Unreadable(p) \/ Checkout(p) \/ PlainDir(p)
    /\ UNCHANGED <<disk, touched, phase, origin, listed, nodes>>

----------------------------------------------------------------------------
(* tree.Build, of what was found. *)

Prefixed(P) == {Root} \cup UNION {{SubSeq(p, 1, i) : i \in 1 .. Len(p)} : p \in P}

Found == DOMAIN repos
Primaries == {p \in Found : repos[p] = Root}
Worktrees == Found \ Primaries
Hung == {w \in Worktrees : repos[w] \in Primaries}
Orphans == Worktrees \ Hung

\* The nodes there are before the ghosts: of directories and owners, of
\* primary checkouts, and of the directories orphaned worktrees are in.
Skeleton == Prefixed(dirs \cup Owners \cup Primaries \cup {Front(w) : w \in Orphans})

\* Mutant: worktrees do not count as clones.
GhostsOfPrimaries(origins, list) ==
    {g \in list : /\ g \notin {origins[p] : p \in Primaries}
                  /\ g \notin Skeleton \cup Worktrees}

\* A listed repository that no checkout has for its origin, and whose path no
\* node has taken.
Ghosts(origins, list) ==
    {g \in list : /\ g \notin {origins[p] : p \in Found}
                  /\ g \notin Skeleton \cup Worktrees}

Kind(p, ghosts) ==
    IF p \in Primaries THEN "repo" ELSE IF p \in ghosts THEN "ghost" ELSE "dir"

\* builder.worktreeParents.
Parking == {Front(w) : w \in Worktrees}

\* A ghost hangs off the worktree its owner's path has become, if any.
OffWorktree(p, ghosts) == p \in ghosts /\ Front(p) \in Worktrees

\* Mutant: every directory a worktree was parked in is pruned.
PrunedByName(p, ghosts) == Kind(p, ghosts) = "dir" /\ p \in Parking

\* What is attached beneath p, p included, orphaned worktrees apart.
Under(p, ghosts) ==
    {p} \cup {q \in Skeleton \cup ghosts : IsStrictPrefix(p, q) /\ ~OffWorktree(q, ghosts)}

\* Mutant: an empty directory is pruned whether or not a worktree was in it.
PrunedWhenEmpty(p, ghosts) ==
    \A q \in Under(p, ghosts) :
        Kind(q, ghosts) = "dir" /\ q \notin {Front(w) : w \in Orphans}

\* pruneEmptyWorktreeDirs, from the leaves up: a directory goes if a worktree
\* that hangs elsewhere now was parked in it, and if whatever is beneath it
\* goes as well.
Pruned(p, ghosts) ==
    \A q \in Under(p, ghosts) :
        Kind(q, ghosts) = "dir" /\ q \in Parking \ {Front(w) : w \in Orphans}

\* A node's parent is known by its path, and by whether it is the worktree's
\* node or the other one there.
Node(p, kind, parent, off) == [rel |-> p, kind |-> kind, under |-> parent, off |-> off]

Build(origins, list) ==
    LET ghosts == Ghosts(origins, list)
    IN  {Node(p, Kind(p, ghosts), Front(p), OffWorktree(p, ghosts)) :
            p \in {q \in (Skeleton \cup ghosts) \ {Root} : ~Pruned(q, ghosts)}}
        \cup {Node(w, "worktree", repos[w], FALSE) : w \in Hung}
        \cup {Node(w, "worktree", Front(w), FALSE) : w \in Orphans}

\* The rest of Index.scan: inspections, listings, the tree.
Builds ==
    /\ phase = "walking"
    /\ pending = {}
    /\ origin' \in [Found -> Slugs \cup {Unknown}]
    /\ listed' \in SUBSET Slugs
    /\ nodes' = Build(origin', listed')
    /\ phase' = "built"
    /\ UNCHANGED <<disk, touched, walkVars>>

Next ==
    \/ Changes
    \/ \E p \in Paths : ProcessDir(p)
    \/ Builds

Spec == Init /\ [][Next]_vars

----------------------------------------------------------------------------

Built == phase = "built"
At(p) == {n \in nodes : n.rel = p}
Parents(n) == {m \in nodes : m.rel = n.under /\ (m.kind = "worktree") = n.off}

\* Every node hangs off another one, or the root: nothing that was placed is
\* lost with a directory that is pruned.
NothingIsCutOff ==
    \A n \in nodes : n.under = Root \/ Cardinality(Parents(n)) = 1

\* What the walk reaches: no checkout above it, no directory it cannot read,
\* no more than MaxDepth levels.
Reachable(p) ==
    /\ Len(p) <= MaxDepth
    /\ \A q \in Prefixed({p}) \ {Root, p} : disk[q].is = "dir"
StaysAsItWas(p) == Prefixed({p}) \cap touched = {}

\* A checkout that is there during the whole scan is in the tree, once,
\* whatever else comes and goes meanwhile, and a worktree is found under its
\* primary checkout when that is.
WhatIsThereIsShown ==
    Built =>
        \A p \in Paths :
            disk[p].is \in {"repo", "odd", "worktree"} /\ Reachable(p) /\ StaysAsItWas(p) =>
                \E n \in At(p) :
                    /\ {m \in At(p) : m.kind \in {"repo", "worktree"}} = {n}
                    /\ n.kind = "worktree" /\ repos[p] \in Found /\ repos[repos[p]] = Root
                         => n.under = repos[p]

\* A listed repository is a ghost exactly when no checkout has it for its
\* origin, wherever that is, and its place is free (comment in Build): no
\* ghost beside its clone, and no repository that is in neither form.
GhostsAreTheUncloned ==
    Built =>
        \A g \in listed :
            (\E n \in At(g) : n.kind = "ghost") <=>
                /\ \A p \in Found : origin[p] # g
                /\ g \notin Found \cup dirs

\* A directory is left out of the tree only if it held a worktree, and only
\* if no checkout, ghost or other directory is under it (comment of
\* pruneEmptyWorktreeDirs); one that cannot be read is in Result.Errs.
DirectoriesAreKept ==
    Built =>
        \A d \in dirs :
            At(d) = {} =>
                /\ \E w \in Worktrees : Front(w) = d
                /\ \A n \in nodes : IsStrictPrefix(d, n.rel) => n.kind = "worktree"

----------------------------------------------------------------------------

TypeOK ==
    /\ disk \in [Paths -> Content]
    /\ touched \subseteq Paths
    /\ phase \in {"walking", "built"}
    /\ pending \subseteq Paths
    /\ dirs \subseteq Paths
    /\ Found \subseteq Paths /\ repos \in [Found -> Mains \cup {Root}]
    /\ errs \subseteq Paths
    /\ listed \subseteq Slugs
    /\ Built => origin \in [Found -> Slugs \cup {Unknown}]

\* No directory is looked at twice, and all that lead to it were read before.
EachInItsTurn ==
    /\ pending \cap (dirs \cup Found) = {} /\ dirs \cap Found = {}
    /\ \A p \in pending \cup dirs \cup Found : Prefixed({p}) \ {Root, p} \subseteq dirs

\* The walk has met p and made of it what it is.
Met(p) ==
    CASE disk[p].is = "dir" -> p \in dirs
      [] disk[p].is = "locked" -> p \in errs
      [] OTHER -> p \in Found /\ repos[p] = disk[p].main

\* The walk has met what is there and stays, or is on its way to it.
NothingIsPassedBy ==
    \A p \in Paths :
        IsThere(p) /\ Reachable(p) /\ StaysAsItWas(p) =>
            Met(p) \/ Prefixed({p}) \cap pending # {}

\* The inductive invariant of a scan; the tree is built of all it has found.
TreeInv ==
    /\ TypeOK
    /\ EachInItsTurn
    /\ NothingIsPassedBy
    /\ IF Built THEN pending = {} /\ nodes = Build(origin, listed) ELSE nodes = {}
=============================================================================

----------------------------- MODULE TreeProofs -----------------------------
(***************************************************************************)
(* Theorems about Tree, for any disk, any depth of the walk, any owners    *)
(* and listings, and any changes while the walk is under way.              *)
(***************************************************************************)
EXTENDS MCTree, FunctionProofs, FiniteSetTheorems, TLAPS

----------------------------------------------------------------------------
(* Paths and their prefixes.                                               *)

LEMMA PathTypes ==
    ASSUME NEW p \in Paths
    PROVE  /\ p \in Seq(STRING) /\ Len(p) \in Nat \ {0} /\ p # Root
           /\ \A i \in 1 .. Len(p) : SubSeq(p, 1, i) \in Paths
           /\ Len(p) = 1 \/ Len(p) > 1
<1>1. p \in Seq(STRING) /\ Len(p) > 0 /\ \A i \in 1 .. Len(p) : SubSeq(p, 1, i) \in Paths
  BY TreeConfig
<1>2. \A n \in Nat : n > 0 => n # 0 /\ (n = 1 \/ n > 1)
  OBVIOUS
<1>3. Len(p) \in Nat
  BY <1>1
<1> QED
  BY <1>1, <1>2, <1>3 DEF Root

\* The first i elements of a path are a path of that length.
LEMMA Cut ==
    ASSUME NEW p \in Paths, NEW i \in 1 .. Len(p)
    PROVE  /\ SubSeq(p, 1, i) \in Paths
           /\ Len(SubSeq(p, 1, i)) = i
           /\ \A k \in 1 .. i : SubSeq(SubSeq(p, 1, i), 1, k) = SubSeq(p, 1, k)
           /\ i = Len(p) => SubSeq(p, 1, i) = p
<1>1. p \in Seq(STRING) /\ Len(p) \in Nat \ {0} /\ SubSeq(p, 1, i) \in Paths
  BY PathTypes
<1>2. Len(SubSeq(p, 1, i)) = i
  BY <1>1
<1>3. ASSUME NEW k \in 1 .. i
      PROVE  SubSeq(SubSeq(p, 1, i), 1, k) = SubSeq(p, 1, k)
  BY <1>1, <1>2
<1>4. i = Len(p) => SubSeq(p, 1, i) = p
  BY <1>1
<1> QED
  BY <1>1, <1>2, <1>3, <1>4

\* A path that is a strict prefix of another is what that one begins with.
LEMMA Strict ==
    ASSUME NEW p \in Paths, NEW q \in Paths
    PROVE  IsStrictPrefix(q, p) <=> Len(q) < Len(p) /\ q = SubSeq(p, 1, Len(q))
<1>1. /\ p \in Seq(STRING) /\ Len(p) \in Nat \ {0} /\ q \in Seq(STRING) /\ Len(q) \in Nat \ {0}
      /\ SubSeq(q, 1, Len(q)) = q /\ SubSeq(p, 1, Len(p)) = p
  BY PathTypes, Cut
<1>2. ASSUME IsStrictPrefix(q, p)
      PROVE  Len(q) < Len(p) /\ q = SubSeq(p, 1, Len(q))
  BY <1>1, <1>2 DEF IsStrictPrefix, IsPrefix
<1>3. ASSUME Len(q) < Len(p), q = SubSeq(p, 1, Len(q))
      PROVE  IsStrictPrefix(q, p)
  BY <1>1, <1>3 DEF IsStrictPrefix, IsPrefix
<1> QED
  BY <1>2, <1>3

LEMMA StrictIsTransitive ==
    ASSUME NEW p \in Paths, NEW q \in Paths, NEW r \in Paths,
           IsStrictPrefix(q, p), IsStrictPrefix(r, q)
    PROVE  IsStrictPrefix(r, p)
<1>1. Len(p) \in Nat /\ Len(q) \in Nat \ {0} /\ Len(r) \in Nat \ {0}
  BY PathTypes
<1>2. Len(q) < Len(p) /\ q = SubSeq(p, 1, Len(q)) /\ Len(r) < Len(q) /\ r = SubSeq(q, 1, Len(r))
  BY Strict
<1>3. Len(q) \in 1 .. Len(p) /\ Len(r) \in 1 .. Len(q)
  BY <1>1, <1>2
<1>4. r = SubSeq(p, 1, Len(r))
  BY <1>2, <1>3, Cut
<1> QED
  BY <1>1, <1>2, <1>4, Strict

\* The last prefix of a path.
LEMMA FrontOfPath ==
    ASSUME NEW p \in Paths
    PROVE  /\ Len(p) = 1 => Front(p) = Root
           /\ Len(p) > 1 => /\ Front(p) \in Paths /\ Len(Front(p)) = Len(p) - 1
                            /\ IsStrictPrefix(Front(p), p)
           /\ \A q \in Paths : IsStrictPrefix(q, p) => q = Front(p) \/ IsStrictPrefix(q, Front(p))
           /\ Front(p) # p
<1>1. p \in Seq(STRING) /\ Len(p) \in Nat \ {0} /\ p # Root
  BY PathTypes
<1>2. ASSUME Len(p) = 1
      PROVE  Front(p) = Root /\ \A q \in Paths : ~IsStrictPrefix(q, p)
  <2>1. Front(p) = Root
    BY <1>1, <1>2 DEF Front, Root
  <2> QED
    BY <1>2, <2>1, Strict, PathTypes
<1>3. ASSUME Len(p) > 1
      PROVE  /\ Front(p) \in Paths /\ Len(Front(p)) = Len(p) - 1
             /\ IsStrictPrefix(Front(p), p)
             /\ \A q \in Paths : IsStrictPrefix(q, p) => q = Front(p) \/ IsStrictPrefix(q, Front(p))
  <2> DEFINE n == Len(p) - 1
  <2>1. n \in 1 .. Len(p) /\ n < Len(p) /\ Front(p) = SubSeq(p, 1, n)
    BY <1>1, <1>3 DEF Front
  <2>2. Front(p) \in Paths /\ Len(Front(p)) = n
    BY <2>1, Cut
  <2>3. IsStrictPrefix(Front(p), p)
    BY <2>1, <2>2, Strict
  <2>4. ASSUME NEW q \in Paths, IsStrictPrefix(q, p)
        PROVE  q = Front(p) \/ IsStrictPrefix(q, Front(p))
    <3>1. Len(q) \in Nat \ {0} /\ Len(q) < Len(p) /\ q = SubSeq(p, 1, Len(q))
      BY <2>4, Strict, PathTypes
    <3>2. Len(q) \in 1 .. n
      BY <1>1, <3>1
    <3>3. q = SubSeq(Front(p), 1, Len(q))
      BY <2>1, <3>1, <3>2, Cut
    <3>4. CASE Len(q) = n
      BY <2>1, <3>1, <3>4
    <3>5. CASE Len(q) < n
      BY <2>2, <3>3, <3>5, Strict
    <3> QED
      BY <3>2, <3>4, <3>5
  <2> QED
    BY <2>2, <2>3, <2>4
<1>4. Len(p) = 1 \/ Len(p) > 1
  BY <1>1
<1>5. CASE Len(p) = 1
  <2>1. ~(Len(p) > 1)
    BY <1>5
  <2> QED
    BY <1>1, <1>2, <1>5, <2>1
<1>6. CASE Len(p) > 1
  <2>1. Len(p) # 1 /\ Len(p) - 1 # Len(p)
    <3>1. \A n \in Nat : n > 1 => n # 1 /\ n - 1 # n
      OBVIOUS
    <3> QED
      BY <1>1, <1>6, <3>1
  <2>2. Front(p) # p
    BY <1>3, <1>6, <2>1
  <2> QED
    BY <1>3, <1>6, <2>1, <2>2
<1> QED
  BY <1>4, <1>5, <1>6

\* The prefixes of a path, itself included.
LEMMA PrefixedOfPath ==
    ASSUME NEW p \in Paths
    PROVE  Prefixed({p}) = {Root, p} \cup {q \in Paths : IsStrictPrefix(q, p)}
<1>1. Len(p) \in Nat \ {0}
  BY PathTypes
<1>2. Prefixed({p}) = {Root} \cup {SubSeq(p, 1, i) : i \in 1 .. Len(p)}
  BY DEF Prefixed
<1>3. ASSUME NEW i \in 1 .. Len(p)
      PROVE  SubSeq(p, 1, i) = p \/ (SubSeq(p, 1, i) \in Paths /\ IsStrictPrefix(SubSeq(p, 1, i), p))
  <2> DEFINE q == SubSeq(p, 1, i)
  <2>1. q \in Paths /\ Len(q) = i /\ (i = Len(p) => q = p) /\ q = SubSeq(p, 1, Len(q))
    BY Cut
  <2>2. i = Len(p) \/ i < Len(p)
    BY <1>1
  <2> HIDE DEF q
  <2>3. q = p \/ (q \in Paths /\ IsStrictPrefix(q, p))
    BY <2>1, <2>2, Strict
  <2> QED
    BY <2>3 DEF q
<1>4. ASSUME NEW q \in Paths, IsStrictPrefix(q, p)
      PROVE  \E i \in 1 .. Len(p) : q = SubSeq(p, 1, i)
  <2>1. Len(q) \in Nat \ {0} /\ Len(q) < Len(p) /\ q = SubSeq(p, 1, Len(q))
    BY <1>4, Strict, PathTypes
  <2>2. Len(q) \in 1 .. Len(p)
    BY <1>1, <2>1
  <2> QED
    BY <2>1, <2>2
<1>5. \E i \in 1 .. Len(p) : p = SubSeq(p, 1, i)
  BY <1>1, Cut
<1> QED
  BY <1>2, <1>3, <1>4, <1>5

\* A child's only directories are its parent's, and the parent.
LEMMA ChildOf ==
    ASSUME NEW q \in Paths \cup {Root}, NEW p \in Children(q)
    PROVE  p \in Paths /\ Front(p) = q /\ Len(p) = Len(q) + 1
<1>1. /\ p \in Paths /\ Len(p) = Len(q) + 1 /\ IsStrictPrefix(q, p)
      /\ p \in Seq(STRING) /\ Len(p) \in Nat
  BY PathTypes DEF Children, Beneath
<1>2. CASE q = Root
  <2>1. Len(q) = 0
    BY <1>2 DEF Root
  <2> QED
    BY <1>1, <1>2, <2>1, FrontOfPath
<1>3. CASE q \in Paths
  <2>1. Len(q) \in Nat \ {0} /\ q = SubSeq(p, 1, Len(q))
    BY <1>1, <1>3, Strict, PathTypes
  <2> QED
    BY <1>1, <2>1 DEF Front
<1> QED
  BY <1>1, <1>2, <1>3

\* From a directory above a path, the next one on the way to it.
LEMMA NextOnTheWay ==
    ASSUME NEW p \in Paths, NEW q \in Paths \cup {Root}, q = Root \/ IsStrictPrefix(q, p)
    PROVE  \E r \in Children(q) : r = p \/ IsStrictPrefix(r, p)
<1> DEFINE r == SubSeq(p, 1, Len(q) + 1)
<1>1. Len(p) \in Nat \ {0} /\ p \in Seq(STRING)
  BY PathTypes
<1>2. Len(q) \in Nat /\ Len(q) < Len(p)
  BY <1>1, Strict, PathTypes DEF Root
<1>3. Len(q) + 1 \in 1 .. Len(p)
  BY <1>1, <1>2
<1>4. r \in Paths /\ Len(r) = Len(q) + 1 /\ (Len(q) + 1 = Len(p) => r = p) /\ r = SubSeq(p, 1, Len(r))
  BY <1>3, Cut
<1>5. IsStrictPrefix(q, r)
  <2>1. CASE q = Root
    BY <1>4, <2>1, PathTypes DEF IsStrictPrefix, IsPrefix, Root
  <2>2. CASE q # Root
    <3>1. q \in Paths /\ q = SubSeq(p, 1, Len(q)) /\ Len(q) \in 1 .. Len(q) + 1
      BY <1>2, <2>2, Strict, PathTypes
    <3>2. q = SubSeq(r, 1, Len(q))
      BY <1>3, <3>1, Cut
    <3>3. Len(q) < Len(r)
      BY <1>2, <1>4
    <3> HIDE DEF r
    <3> QED
      BY <1>4, <3>1, <3>2, <3>3, Strict
  <2> QED
    BY <2>1, <2>2
<1>6. r \in Children(q)
  BY <1>4, <1>5 DEF Children, Beneath
<1>7. r = p \/ IsStrictPrefix(r, p)
  <2>1. Len(r) = Len(p) \/ Len(r) < Len(p)
    BY <1>1, <1>2, <1>4
  <2> HIDE DEF r
  <2> QED
    BY <1>4, <2>1, Strict
<1> QED
  BY <1>6, <1>7

\* What is above a child is its parent and what is above that.
LEMMA AboveChild ==
    ASSUME NEW q \in Paths \cup {Root}, NEW p \in Children(q),
           NEW r \in Paths, IsStrictPrefix(r, p)
    PROVE  q \in Paths /\ (r = q \/ IsStrictPrefix(r, q))
<1>1. p \in Paths /\ Front(p) = q
  BY ChildOf
<1>2. r = q \/ IsStrictPrefix(r, q)
  BY <1>1, FrontOfPath
<1>3. r # Root /\ Len(r) \in Nat \ {0}
  BY PathTypes
<1>4. ~IsStrictPrefix(r, Root)
  BY <1>3 DEF IsStrictPrefix, IsPrefix, Root
<1> QED
  BY <1>2, <1>3, <1>4

----------------------------------------------------------------------------
(* The walk.                                                               *)

\* A path that is reached is reached through directories that are there.
LEMMA OnTheWay ==
    ASSUME NEW p \in Paths, Reachable(p), IsThere(p)
    PROVE  \A q \in Paths : IsStrictPrefix(q, p) => disk[q].is = "dir"
<1> SUFFICES ASSUME NEW q \in Paths, IsStrictPrefix(q, p)
             PROVE  disk[q].is = "dir"
  OBVIOUS
<1>1. q \in Prefixed({p}) \ {Root, p}
  BY PrefixedOfPath, PathTypes DEF IsStrictPrefix
<1> QED
  BY <1>1 DEF Reachable

\* The next directory on the way to a path that is reached is among those the
\* walk goes on to.
LEMMA WalkGoesOn ==
    ASSUME NEW p \in Paths, Reachable(p), IsThere(p),
           NEW q \in Paths \cup {Root}, q = Root \/ IsStrictPrefix(q, p)
    PROVE  Descends(q) \cap Prefixed({p}) # {}
<1>1. PICK r \in Children(q) : r = p \/ IsStrictPrefix(r, p)
  BY NextOnTheWay
<1>2. r \in Paths /\ Len(r) = Len(q) + 1
  BY ChildOf
<1>3. IsThere(r)
  BY <1>1, <1>2, OnTheWay DEF IsThere
<1>4. Len(q) < MaxDepth
  <2>1. Len(q) \in Nat /\ Len(p) \in Nat \ {0} /\ Len(p) <= MaxDepth /\ MaxDepth \in Nat
    BY PathTypes, TreeConfig DEF Reachable, Root
  <2>2. Len(q) < Len(p)
    BY <2>1, Strict DEF Root
  <2> QED
    BY <2>1, <2>2
<1>5. r \in Prefixed({p})
  BY <1>1, <1>2, PrefixedOfPath
<1> QED
  BY <1>1, <1>3, <1>4, <1>5 DEF Descends

LEMMA DescendsToPaths ==
    ASSUME NEW q \in Paths \cup {Root}
    PROVE  Descends(q) \subseteq Children(q) /\ Descends(q) \subseteq Paths
BY DEF Descends, Children, Beneath

LEMMA TreeInit == Init => TreeInv
<1> SUFFICES ASSUME Init
             PROVE  TreeInv
  OBVIOUS
<1>1. pending \subseteq Children(Root) /\ pending \subseteq Paths
  BY DescendsToPaths DEF Init
<1>2. TypeOK
  BY <1>1 DEF Init, TypeOK, Found, Built
<1>3. EachInItsTurn
  <2>1. ASSUME NEW p \in pending
        PROVE  Prefixed({p}) \ {Root, p} = {}
    BY <1>1, <2>1, AboveChild, PrefixedOfPath, PathTypes
  <2> QED
    BY <2>1 DEF Init, EachInItsTurn, Found
<1>4. NothingIsPassedBy
  BY WalkGoesOn DEF Init, NothingIsPassedBy
<1>5. nodes = {} /\ ~Built
  BY DEF Init, Built
<1> QED
  BY <1>2, <1>3, <1>4, <1>5 DEF TreeInv

\* What changes on the disk is none of the walk's promises any more.
LEMMA ChangesStep ==
    ASSUME TreeInv, Changes
    PROVE  TreeInv'
<1>1. PICK p \in Paths, what \in {"absent", "dir", "repo"} : Change(p, [is |-> what, main |-> Root])
  BY DEF Changes
<1>2. /\ disk' = [disk EXCEPT ![p] = [is |-> what, main |-> Root]]
      /\ touched' = touched \cup {p}
      /\ UNCHANGED <<phase, pending, dirs, repos, errs, origin, listed, nodes>>
      /\ phase = "walking"
  BY <1>1 DEF Change, walkVars
<1>3. TypeOK /\ EachInItsTurn /\ NothingIsPassedBy /\ nodes = {}
  BY <1>2 DEF TreeInv, Built
<1>4. TypeOK'
  <2>1. [is |-> what, main |-> Root] \in Content
    BY DEF Content, Simple
  <2> QED
    BY <1>2, <1>3, <2>1 DEF TypeOK, Found, Built
<1>5. EachInItsTurn'
  BY <1>2, <1>3 DEF EachInItsTurn, Found
<1>6. NothingIsPassedBy'
  <2> SUFFICES ASSUME NEW x \in Paths, IsThere(x)', Reachable(x)', StaysAsItWas(x)'
               PROVE  Met(x)' \/ Prefixed({x}) \cap pending' # {}
    BY DEF NothingIsPassedBy
  <2>1. x \in Prefixed({x}) /\ Prefixed({x}) \cap touched = {} /\ p \notin Prefixed({x})
    BY <1>2, PrefixedOfPath DEF StaysAsItWas
  <2>2. \A q \in Prefixed({x}) : q \in Paths => disk'[q] = disk[q]
    BY <1>2, <1>3, <2>1 DEF TypeOK
  <2>3. Reachable(x)
    <3>1. \A q \in Prefixed({x}) \ {Root, x} : q \in Paths
      BY PrefixedOfPath
    <3> QED
      BY <2>2, <3>1 DEF Reachable
  <2>4. IsThere(x) /\ StaysAsItWas(x)
    BY <2>1, <2>2 DEF IsThere, StaysAsItWas
  <2>5. Met(x) \/ Prefixed({x}) \cap pending # {}
    BY <1>3, <2>3, <2>4 DEF NothingIsPassedBy
  <2> QED
    BY <1>2, <2>1, <2>2, <2>5 DEF Met, Found
<1> QED
  BY <1>2, <1>3, <1>4, <1>5, <1>6 DEF TreeInv, Built

LEMMA ProcessDirTypes ==
    ASSUME TypeOK, NEW p \in Paths, ProcessDir(p)
    PROVE  TypeOK'
<1> USE DEF TypeOK, Found, Built, ProcessDir
<1>1. CASE Unreadable(p)
  BY <1>1 DEF Unreadable
<1>2. CASE Checkout(p)
  <2>1. disk[p].main \in Mains \cup {Root}
    BY DEF Content, Simple
  <2>2. /\ DOMAIN repos' = DOMAIN repos \cup {p}
        /\ repos' \in [DOMAIN repos \cup {p} -> Mains \cup {Root}]
    BY <1>2, <2>1 DEF Checkout
  <2> QED
    BY <1>2, <2>2 DEF Checkout
<1>3. CASE PlainDir(p)
  BY <1>3, DescendsToPaths DEF PlainDir
<1> QED
  BY <1>1, <1>2, <1>3

LEMMA ProcessDirInTurn ==
    ASSUME TypeOK, EachInItsTurn, NEW p \in Paths, ProcessDir(p)
    PROVE  EachInItsTurn'
<1>0. p \in pending /\ p \notin dirs \cup Found
  BY DEF ProcessDir, EachInItsTurn
<1> USE DEF EachInItsTurn, Found
<1>1. CASE Unreadable(p)
  BY <1>1 DEF Unreadable
<1>2. CASE Checkout(p)
  <2>1. DOMAIN repos' = DOMAIN repos \cup {p} /\ pending' = pending \ {p} /\ dirs' = dirs
    BY <1>2 DEF Checkout
  <2> QED
    BY <1>0, <2>1
<1>3. CASE PlainDir(p)
  <2>1. /\ dirs' = dirs \cup {p} /\ pending' = (pending \ {p}) \cup Descends(p)
        /\ DOMAIN repos' = DOMAIN repos
    BY <1>3 DEF PlainDir
  <2>2. ASSUME NEW c \in Descends(p)
        PROVE  /\ c \notin dirs' \cup DOMAIN repos'
               /\ Prefixed({c}) \ {Root, c} \subseteq dirs'
    <3>1. c \in Children(p) /\ c \in Paths /\ IsStrictPrefix(p, c) /\ c # p
      BY DescendsToPaths DEF Children, Beneath, IsStrictPrefix
    <3>2. p \in Prefixed({c}) \ {Root, c}
      BY <3>1, PrefixedOfPath, PathTypes
    <3>3. c \notin dirs \cup DOMAIN repos
      BY <1>0, <3>2
    <3>4. \A r \in Paths : IsStrictPrefix(r, c) => r = p \/ r \in dirs
      <4> SUFFICES ASSUME NEW r \in Paths, IsStrictPrefix(r, c), r # p
                   PROVE  r \in dirs
        OBVIOUS
      <4>1. IsStrictPrefix(r, p)
        BY <3>1, AboveChild
      <4>2. r \in Prefixed({p}) \ {Root, p}
        BY <4>1, PrefixedOfPath, PathTypes DEF IsStrictPrefix
      <4> QED
        BY <1>0, <4>2
    <3> QED
      BY <2>1, <3>1, <3>3, <3>4, PrefixedOfPath
  <2>3. pending' \cap (dirs' \cup DOMAIN repos') = {} /\ dirs' \cap DOMAIN repos' = {}
    <3>1. Descends(p) \cap (dirs' \cup DOMAIN repos') = {}
      BY <2>2
    <3>2. pending \cap (dirs \cup DOMAIN repos) = {} /\ dirs \cap DOMAIN repos = {}
      OBVIOUS
    <3> QED
      BY <1>0, <2>1, <3>1, <3>2 DEF EachInItsTurn
  <2>4. ASSUME NEW x \in pending' \cup dirs' \cup DOMAIN repos'
        PROVE  Prefixed({x}) \ {Root, x} \subseteq dirs'
    <3>1. CASE x \in Descends(p)
      BY <2>2, <3>1
    <3>2. CASE x \in pending \cup dirs \cup DOMAIN repos
      BY <2>1, <3>2
    <3> QED
      BY <1>0, <2>1, <3>1, <3>2
  <2> QED
    BY <2>3, <2>4
<1> QED
  BY <1>1, <1>2, <1>3 DEF ProcessDir

LEMMA ProcessDirMeets ==
    ASSUME TypeOK, EachInItsTurn, NothingIsPassedBy, NEW p \in Paths, ProcessDir(p)
    PROVE  NothingIsPassedBy'
<1>0. /\ p \in pending /\ p \notin dirs \cup Found
      /\ UNCHANGED <<disk, touched>>
      /\ Unreadable(p) \/ Checkout(p) \/ PlainDir(p)
  BY DEF ProcessDir, EachInItsTurn
<1> SUFFICES ASSUME NEW x \in Paths, IsThere(x), Reachable(x), StaysAsItWas(x)
             PROVE  Met(x)' \/ Prefixed({x}) \cap pending' # {}
  BY <1>0 DEF NothingIsPassedBy, IsThere, Reachable, StaysAsItWas
<1>1. CASE Met(x)
  <2>1. dirs \subseteq dirs' /\ errs \subseteq errs'
    BY <1>0 DEF Unreadable, Checkout, PlainDir
  <2>2. x \in Found => x \in Found' /\ repos'[x] = repos[x]
    BY <1>0 DEF Unreadable, Checkout, PlainDir, Found
  <2> QED
    BY <1>0, <1>1, <2>1, <2>2 DEF Met
<1>2. ASSUME NEW q \in Prefixed({x}) \cap pending, q # p
      PROVE  Prefixed({x}) \cap pending' # {}
  BY <1>0, <1>2 DEF Unreadable, Checkout, PlainDir
<1>3. CASE p = x
  <2>1. CASE Unreadable(p)
    BY <1>0, <1>3, <2>1 DEF Unreadable, Met, IsThere
  <2>2. CASE Checkout(p)
    BY <1>0, <1>3, <2>2 DEF Checkout, Met, Found
  <2>3. CASE PlainDir(p)
    BY <1>0, <1>3, <2>3 DEF PlainDir, Met
  <2> QED
    BY <1>0, <2>1, <2>2, <2>3
<1>4. CASE IsStrictPrefix(p, x)
  <2>1. disk[p].is = "dir"
    BY <1>4, OnTheWay
  <2>2. Descends(p) \subseteq pending'
    BY <1>0, <2>1 DEF Unreadable, Checkout, PlainDir
  <2>3. Descends(p) \cap Prefixed({x}) # {}
    BY <1>4, WalkGoesOn
  <2> QED
    BY <2>2, <2>3
<1>5. p \in Prefixed({x}) => p = x \/ IsStrictPrefix(p, x)
  BY PrefixedOfPath, PathTypes
<1>6. Met(x) \/ Prefixed({x}) \cap pending # {}
  BY DEF NothingIsPassedBy
<1> QED
  BY <1>1, <1>2, <1>3, <1>4, <1>5, <1>6

\* The tree is made of what was found, and of nothing that moves.
LEMMA BuildIsOfWhatWasFound ==
    ASSUME Builds
    PROVE  nodes' = Build(origin, listed)'
BY DEF Builds, walkVars, Build, Ghosts, Skeleton, Prefixed, Kind, Pruned, Under, OffWorktree, Parking,
       Hung, Orphans, Worktrees, Primaries, Found, Node

LEMMA TreeStep == TreeInv /\ [Next]_vars => TreeInv'
<1> SUFFICES ASSUME TreeInv, [Next]_vars
             PROVE  TreeInv'
  OBVIOUS
<1>0. TypeOK /\ EachInItsTurn /\ NothingIsPassedBy
  BY DEF TreeInv
<1>1. CASE Changes
  BY <1>1, ChangesStep
<1>2. ASSUME NEW p \in Paths, ProcessDir(p)
      PROVE  TreeInv'
  <2>1. ~Built /\ ~Built' /\ nodes = {} /\ nodes' = {}
    BY <1>2 DEF ProcessDir, TreeInv, Built
  <2> QED
    BY <1>0, <1>2, <2>1, ProcessDirTypes, ProcessDirInTurn, ProcessDirMeets DEF TreeInv
<1>3. CASE Builds
  <2>1. TypeOK'
    BY <1>0, <1>3 DEF Builds, walkVars, TypeOK, Found, Built
  <2>2. EachInItsTurn' /\ NothingIsPassedBy'
    BY <1>0, <1>3 DEF Builds, walkVars, EachInItsTurn, NothingIsPassedBy, Met, Found, IsThere,
                      Reachable, StaysAsItWas
  <2>3. pending' = {} /\ Built' /\ nodes' = Build(origin, listed)'
    BY <1>3, BuildIsOfWhatWasFound DEF Builds, walkVars, Built
  <2> QED
    BY <2>1, <2>2, <2>3 DEF TreeInv
<1>4. CASE UNCHANGED vars
  <2>1. Build(origin, listed)' = Build(origin, listed)
    BY <1>4 DEF vars, walkVars, Build, Ghosts, Skeleton, Prefixed, Kind, Pruned, Under, OffWorktree,
                Parking, Hung, Orphans, Worktrees, Primaries, Found, Node
  <2> QED
    BY <1>0, <1>4, <2>1 DEF vars, walkVars, TreeInv, TypeOK, EachInItsTurn, NothingIsPassedBy, Met,
                            Found, IsThere, Reachable, StaysAsItWas, Built
<1> QED
  BY <1>1, <1>2, <1>3, <1>4 DEF Next

\* Whatever comes and goes during a scan: nothing is looked at twice or without
\* what leads to it, all that stays is met in the end (Walk and walkChildren in
\* scan.go), and the tree is built of what was found.
THEOREM TreeInvariant == Spec => []TreeInv
<1>1. Init => TreeInv
  BY TreeInit
<1>2. TreeInv /\ [Next]_vars => TreeInv'
  BY TreeStep
<1> QED
  BY <1>1, <1>2, PTL DEF Spec

----------------------------------------------------------------------------
(* The tree.                                                               *)

\* The prefixes of paths, or of the root.
LEMMA PrefixedOfSet ==
    ASSUME NEW P \in SUBSET (Paths \cup {Root}), NEW x
    PROVE  x \in Prefixed(P) <=>
             \/ x = Root
             \/ \E p \in P \cap Paths : x = p \/ (x \in Paths /\ IsStrictPrefix(x, p))
<1>1. {SubSeq(Root, 1, i) : i \in 1 .. Len(Root)} = {}
  BY DEF Root
<1>2. ASSUME NEW p \in Paths
      PROVE  {SubSeq(p, 1, i) : i \in 1 .. Len(p)}
                = {q \in Paths : q = p \/ IsStrictPrefix(q, p)}
  <2>1. Prefixed({p}) = {Root} \cup {SubSeq(p, 1, i) : i \in 1 .. Len(p)}
    BY DEF Prefixed
  <2>2. {SubSeq(p, 1, i) : i \in 1 .. Len(p)} \subseteq Paths
    BY Cut
  <2>3. Root \notin Paths
    BY PathTypes
  <2> QED
    BY <2>1, <2>2, <2>3, PrefixedOfPath
<1>3. x \in Prefixed(P) <=> x = Root \/ \E p \in P : x \in {SubSeq(p, 1, i) : i \in 1 .. Len(p)}
  BY DEF Prefixed
<1> QED
  BY <1>1, <1>2, <1>3

\* What the walk has found.
LEMMA FoundFacts ==
    ASSUME TypeOK, EachInItsTurn
    PROVE  /\ Found \subseteq Paths /\ Primaries \subseteq Paths /\ Worktrees \subseteq Paths
           /\ Found = Primaries \cup Worktrees /\ Primaries \cap Worktrees = {}
           /\ Worktrees = Hung \cup Orphans /\ Hung \cap Orphans = {}
           /\ \A w \in Worktrees : Front(w) \in dirs \cup {Root}
           /\ \A p \in dirs \cup Found, q \in Paths : IsStrictPrefix(q, p) => q \in dirs
<1>1. \A p \in dirs \cup Found, q \in Paths : IsStrictPrefix(q, p) => q \in dirs
  <2> SUFFICES ASSUME NEW p \in dirs \cup Found, NEW q \in Paths, IsStrictPrefix(q, p)
               PROVE  q \in dirs
    OBVIOUS
  <2>1. p \in Paths
    BY DEF TypeOK
  <2>2. q \in Prefixed({p}) \ {Root, p}
    BY <2>1, PrefixedOfPath, PathTypes DEF IsStrictPrefix
  <2> QED
    BY <2>2 DEF EachInItsTurn
<1>2. Found \subseteq Paths
  BY DEF TypeOK
<1>3. \A w \in Worktrees : Front(w) \in dirs \cup {Root}
  <2> SUFFICES ASSUME NEW w \in Worktrees
               PROVE  Front(w) \in dirs \cup {Root}
    OBVIOUS
  <2>1. w \in Found /\ w \in Paths
    BY <1>2 DEF Worktrees
  <2>2. Len(w) = 1 \/ Len(w) > 1
    BY <2>1, PathTypes
  <2> QED
    BY <1>1, <2>1, <2>2, FrontOfPath
<1> QED
  BY <1>1, <1>2, <1>3 DEF Primaries, Worktrees, Hung, Orphans

\* The skeleton is closed upwards, and what is in it is a directory, a primary
\* checkout, or leads to an owner.
LEMMA SkeletonFacts ==
    ASSUME TypeOK, EachInItsTurn
    PROVE  /\ Skeleton \subseteq Paths \cup {Root}
           /\ dirs \cup Owners \cup Primaries \subseteq Skeleton
           /\ \A w \in Orphans : Front(w) \in Skeleton
           /\ \A p \in Skeleton, q \in Paths : IsStrictPrefix(q, p) => q \in Skeleton
           /\ \A p \in Skeleton \ {Root} :
                p \in dirs \cup Primaries \/ \E o \in Owners : p = o \/ IsStrictPrefix(p, o)
<1> DEFINE P == dirs \cup Owners \cup Primaries \cup {Front(w) : w \in Orphans}
<1>1. Skeleton = Prefixed(P)
  BY DEF Skeleton
<1>2. \A w \in Orphans : Front(w) \in dirs \cup {Root}
  BY FoundFacts
<1>3. P \in SUBSET (Paths \cup {Root})
  BY <1>2, FoundFacts, TreeConfig DEF TypeOK
<1>4. \A p \in P \cap Paths : p \in dirs \cup Owners \cup Primaries
  BY <1>2, PathTypes
<1> HIDE DEF P
<1>5. \A x : x \in Skeleton <=> \/ x = Root
                                \/ \E p \in P \cap Paths : x = p \/ (x \in Paths /\ IsStrictPrefix(x, p))
  BY <1>1, <1>3, PrefixedOfSet
<1>6. Skeleton \subseteq Paths \cup {Root}
  BY <1>5
<1>7. P \subseteq Skeleton
  BY <1>3, <1>5
<1>8. \A q \in Paths : ~IsStrictPrefix(q, Root)
  BY PathTypes DEF IsStrictPrefix, IsPrefix, Root
<1>9. ASSUME NEW p \in Skeleton, NEW q \in Paths, IsStrictPrefix(q, p)
      PROVE  q \in Skeleton
  <2>1. p # Root
    BY <1>8, <1>9
  <2>2. PICK r \in P \cap Paths : p = r \/ (p \in Paths /\ IsStrictPrefix(p, r))
    BY <1>5, <2>1
  <2>3. IsStrictPrefix(q, r)
    BY <1>9, <2>2, StrictIsTransitive
  <2> QED
    BY <1>5, <2>2, <2>3
<1>10. ASSUME NEW p \in Skeleton \ {Root}
       PROVE  p \in dirs \cup Primaries \/ \E o \in Owners : p = o \/ IsStrictPrefix(p, o)
  <2>1. PICK r \in P \cap Paths : p = r \/ (p \in Paths /\ IsStrictPrefix(p, r))
    BY <1>5
  <2>2. CASE r \in Owners
    BY <2>1, <2>2
  <2>3. CASE r \in dirs \cup Primaries
    BY <2>1, <2>3, FoundFacts
  <2> QED
    BY <1>4, <2>1, <2>2, <2>3
<1> QED
  BY <1>6, <1>7, <1>9, <1>10 DEF P

\* A parent of what is in the skeleton is in it as well.
LEMMA SkeletonParent ==
    ASSUME TypeOK, EachInItsTurn, NEW p \in Skeleton \ {Root}
    PROVE  p \in Paths /\ Front(p) \in Skeleton
<1>1. p \in Paths
  BY SkeletonFacts
<1>2. Root \in Skeleton
  BY DEF Skeleton, Prefixed
<1>3. Len(p) = 1 \/ Len(p) > 1
  BY <1>1, PathTypes
<1> QED
  BY <1>1, <1>2, <1>3, FrontOfPath, SkeletonFacts

\* The ghosts of the tree.
GhostsHere == Ghosts(origin, listed)

LEMMA GhostFacts ==
    ASSUME TypeOK, EachInItsTurn, NEW g \in GhostsHere
    PROVE  /\ g \in Paths /\ g \in Slugs /\ g # Root
           /\ g \notin Skeleton /\ g \notin Found
           /\ Front(g) \in Owners /\ Front(g) \in Skeleton
<1>1. g \in listed /\ g \notin Skeleton \cup Worktrees
  BY DEF GhostsHere, Ghosts
<1>2. g \in Slugs /\ g \in Paths /\ Front(g) \in Owners
  BY <1>1, TreeConfig DEF TypeOK
<1> QED
  BY <1>1, <1>2, PathTypes, FoundFacts, SkeletonFacts

\* The nodes of a tree that was built, by where they come from.
LEMMA NodesOf ==
    ASSUME TreeInv, Built
    PROVE  /\ \A p \in (Skeleton \cup GhostsHere) \ {Root} :
                ~Pruned(p, GhostsHere) =>
                  Node(p, Kind(p, GhostsHere), Front(p), OffWorktree(p, GhostsHere)) \in nodes
           /\ \A w \in Hung : Node(w, "worktree", repos[w], FALSE) \in nodes
           /\ \A w \in Orphans : Node(w, "worktree", Front(w), FALSE) \in nodes
           /\ \A n \in nodes :
                \/ /\ n.rel \in (Skeleton \cup GhostsHere) \ {Root}
                   /\ ~Pruned(n.rel, GhostsHere)
                   /\ n = Node(n.rel, Kind(n.rel, GhostsHere), Front(n.rel), OffWorktree(n.rel, GhostsHere))
                \/ n.rel \in Hung /\ n = Node(n.rel, "worktree", repos[n.rel], FALSE)
                \/ n.rel \in Orphans /\ n = Node(n.rel, "worktree", Front(n.rel), FALSE)
<1>1. nodes = {Node(p, Kind(p, GhostsHere), Front(p), OffWorktree(p, GhostsHere)) :
                  p \in {q \in (Skeleton \cup GhostsHere) \ {Root} : ~Pruned(q, GhostsHere)}}
              \cup {Node(w, "worktree", repos[w], FALSE) : w \in Hung}
              \cup {Node(w, "worktree", Front(w), FALSE) : w \in Orphans}
  BY DEF TreeInv, Build, GhostsHere
<1>2. \A p, k, u, o : Node(p, k, u, o).rel = p
  BY DEF Node
<1>3. ASSUME NEW n \in nodes
      PROVE  \/ /\ n.rel \in (Skeleton \cup GhostsHere) \ {Root}
                /\ ~Pruned(n.rel, GhostsHere)
                /\ n = Node(n.rel, Kind(n.rel, GhostsHere), Front(n.rel), OffWorktree(n.rel, GhostsHere))
             \/ n.rel \in Hung /\ n = Node(n.rel, "worktree", repos[n.rel], FALSE)
             \/ n.rel \in Orphans /\ n = Node(n.rel, "worktree", Front(n.rel), FALSE)
  <2>1. CASE \E p \in (Skeleton \cup GhostsHere) \ {Root} :
               /\ ~Pruned(p, GhostsHere)
               /\ n = Node(p, Kind(p, GhostsHere), Front(p), OffWorktree(p, GhostsHere))
    <3>1. PICK p \in (Skeleton \cup GhostsHere) \ {Root} :
                 /\ ~Pruned(p, GhostsHere)
                 /\ n = Node(p, Kind(p, GhostsHere), Front(p), OffWorktree(p, GhostsHere))
      BY <2>1
    <3>2. n.rel = p
      BY <1>2, <3>1
    <3> QED
      BY <3>1, <3>2
  <2>2. CASE \E w \in Hung : n = Node(w, "worktree", repos[w], FALSE)
    <3>1. PICK w \in Hung : n = Node(w, "worktree", repos[w], FALSE)
      BY <2>2
    <3>2. n.rel = w
      BY <1>2, <3>1
    <3> QED
      BY <3>1, <3>2
  <2>3. CASE \E w \in Orphans : n = Node(w, "worktree", Front(w), FALSE)
    <3>1. PICK w \in Orphans : n = Node(w, "worktree", Front(w), FALSE)
      BY <2>3
    <3>2. n.rel = w
      BY <1>2, <3>1
    <3> QED
      BY <3>1, <3>2
  <2> QED
    BY <1>1, <2>1, <2>2, <2>3
<1>4. \A p \in (Skeleton \cup GhostsHere) \ {Root} :
        ~Pruned(p, GhostsHere) =>
          Node(p, Kind(p, GhostsHere), Front(p), OffWorktree(p, GhostsHere)) \in nodes
  BY <1>1
<1>5. /\ \A w \in Hung : Node(w, "worktree", repos[w], FALSE) \in nodes
      /\ \A w \in Orphans : Node(w, "worktree", Front(w), FALSE) \in nodes
  BY <1>1
<1> QED
  BY <1>3, <1>4, <1>5

LEMMA NodeFields ==
    ASSUME NEW n, NEW p, NEW k, NEW u, NEW o, n = Node(p, k, u, o)
    PROVE  n.rel = p /\ n.kind = k /\ n.under = u /\ n.off = o
BY DEF Node

\* The same of the nodes there are, field by field.
LEMMA NodeShapes ==
    ASSUME TreeInv, Built, NEW n \in nodes
    PROVE  \/ /\ n.rel \in (Skeleton \cup GhostsHere) \ {Root} /\ ~Pruned(n.rel, GhostsHere)
              /\ n = Node(n.rel, Kind(n.rel, GhostsHere), Front(n.rel), OffWorktree(n.rel, GhostsHere))
              /\ n.kind = Kind(n.rel, GhostsHere) /\ n.under = Front(n.rel)
              /\ n.off = OffWorktree(n.rel, GhostsHere)
           \/ /\ n.rel \in Hung /\ n = Node(n.rel, "worktree", repos[n.rel], FALSE)
              /\ n.kind = "worktree" /\ n.under = repos[n.rel] /\ n.off = FALSE
           \/ /\ n.rel \in Orphans /\ n = Node(n.rel, "worktree", Front(n.rel), FALSE)
              /\ n.kind = "worktree" /\ n.under = Front(n.rel) /\ n.off = FALSE
<1>1. CASE /\ n.rel \in (Skeleton \cup GhostsHere) \ {Root} /\ ~Pruned(n.rel, GhostsHere)
           /\ n = Node(n.rel, Kind(n.rel, GhostsHere), Front(n.rel), OffWorktree(n.rel, GhostsHere))
  <2>1. /\ n.kind = Kind(n.rel, GhostsHere) /\ n.under = Front(n.rel)
        /\ n.off = OffWorktree(n.rel, GhostsHere)
    BY <1>1, NodeFields
  <2> QED
    BY <1>1, <2>1
<1>2. CASE n.rel \in Hung /\ n = Node(n.rel, "worktree", repos[n.rel], FALSE)
  BY <1>2 DEF Node
<1>3. CASE n.rel \in Orphans /\ n = Node(n.rel, "worktree", Front(n.rel), FALSE)
  BY <1>3 DEF Node
<1> QED
  BY <1>1, <1>2, <1>3, NodesOf

\* What is under a directory that is pruned is pruned.
LEMMA PrunedBelow ==
    ASSUME TypeOK, EachInItsTurn, NEW q \in Paths, NEW p \in Skeleton \cup GhostsHere, p \in Paths,
           IsStrictPrefix(q, p), ~OffWorktree(p, GhostsHere), Pruned(q, GhostsHere)
    PROVE  Pruned(p, GhostsHere)
<1>1. p \in Under(q, GhostsHere)
  BY DEF Under
<1>2. ASSUME NEW r \in Under(p, GhostsHere)
      PROVE  r \in Under(q, GhostsHere)
  <2>1. r = p \/ (r \in Skeleton \cup GhostsHere /\ IsStrictPrefix(p, r) /\ ~OffWorktree(r, GhostsHere))
    BY <1>2 DEF Under
  <2>2. CASE r # p
    <3>1. r # Root
      BY <2>1, <2>2, PathTypes DEF IsStrictPrefix, IsPrefix, Root
    <3>2. r \in Paths
      BY <2>1, <2>2, <3>1, SkeletonFacts, GhostFacts
    <3>3. IsStrictPrefix(q, r)
      BY <2>1, <2>2, <3>2, StrictIsTransitive
    <3> QED
      BY <2>1, <2>2, <3>3 DEF Under
  <2> QED
    BY <1>1, <2>2
<1> QED
  BY <1>2 DEF Pruned

\* Checkouts and ghosts are not pruned, nor are directories that an orphaned
\* worktree is in.
LEMMA NotPruned ==
    ASSUME TypeOK, EachInItsTurn, NEW p,
           p \in Primaries \cup GhostsHere \cup {Front(w) : w \in Orphans}
    PROVE  ~Pruned(p, GhostsHere)
<1>1. p \in Under(p, GhostsHere)
  BY DEF Under
<1> QED
  BY <1>1 DEF Pruned, Kind

LEMMA Kinds ==
    ASSUME NEW p, NEW G
    PROVE  /\ Kind(p, G) \in {"repo", "ghost", "dir"}
           /\ Kind(p, G) = "repo" <=> p \in Primaries
           /\ Kind(p, G) = "ghost" => p \in G
           /\ p \in G /\ p \notin Primaries => Kind(p, G) = "ghost"
           /\ p \notin G /\ p \notin Primaries => Kind(p, G) = "dir"
           /\ OffWorktree(p, G) \in BOOLEAN
BY DEF Kind, OffWorktree

\* What is not a worktree's has one node for each place.
LEMMA OneNodeForAPlace ==
    ASSUME TreeInv, Built, NEW p \in (Skeleton \cup GhostsHere) \ {Root}, ~Pruned(p, GhostsHere)
    PROVE  \E n \in nodes :
             /\ n.rel = p /\ n.kind = Kind(p, GhostsHere)
             /\ n.under = Front(p) /\ n.off = OffWorktree(p, GhostsHere)
             /\ {m \in nodes : m.rel = p /\ m.kind # "worktree"} = {n}
<1> DEFINE n == Node(p, Kind(p, GhostsHere), Front(p), OffWorktree(p, GhostsHere))
<1>1. n \in nodes
  BY NodesOf
<1>2. n.rel = p /\ n.kind = Kind(p, GhostsHere) /\ n.under = Front(p) /\ n.off = OffWorktree(p, GhostsHere)
  BY NodeFields
<1>3. n.kind # "worktree"
  BY <1>2, Kinds
<1>4. ASSUME NEW m \in nodes, m.rel = p, m.kind # "worktree"
      PROVE  m = n
  <2>1. m = Node(m.rel, Kind(m.rel, GhostsHere), Front(m.rel), OffWorktree(m.rel, GhostsHere))
    BY <1>4, NodeShapes
  <2> QED
    BY <1>4, <2>1
<1> HIDE DEF n
<1> QED
  BY <1>1, <1>2, <1>3, <1>4

\* So has a worktree.
LEMMA OneNodeForAWorktree ==
    ASSUME TreeInv, Built, NEW w \in Worktrees
    PROVE  \E n \in nodes :
             /\ n.rel = w /\ n.kind = "worktree"
             /\ n.under = (IF w \in Hung THEN repos[w] ELSE Front(w)) /\ n.off = FALSE
             /\ {m \in nodes : m.rel = w /\ m.kind = "worktree"} = {n}
<1> DEFINE parent == IF w \in Hung THEN repos[w] ELSE Front(w)
           n == Node(w, "worktree", parent, FALSE)
<1>0. (w \in Hung /\ w \notin Orphans) \/ (w \notin Hung /\ w \in Orphans)
  BY FoundFacts DEF TreeInv
<1>1. n \in nodes
  BY <1>0, NodesOf
<1>2. n.rel = w /\ n.kind = "worktree" /\ n.under = parent /\ n.off = FALSE
  <2>1. n = Node(w, "worktree", parent, FALSE)
    OBVIOUS
  <2> HIDE DEF n, parent
  <2> QED
    BY <2>1 DEF Node
<1>3. ASSUME NEW m \in nodes, m.rel = w, m.kind = "worktree"
      PROVE  m = n
  <2>1. CASE m.kind = Kind(m.rel, GhostsHere)
    BY <1>3, <2>1, Kinds
  <2>2. CASE m.rel \in Hung /\ m = Node(m.rel, "worktree", repos[m.rel], FALSE)
    BY <1>3, <2>2
  <2>3. CASE m.rel \in Orphans /\ m = Node(m.rel, "worktree", Front(m.rel), FALSE)
    BY <1>0, <1>3, <2>3
  <2> QED
    BY <1>3, <2>1, <2>2, <2>3, NodeShapes
<1> HIDE DEF n
<1> QED
  BY <1>1, <1>2, <1>3

----------------------------------------------------------------------------
(* What a tree says of the disk.                                           *)

LEMMA ParentOfPlace ==
    ASSUME TreeInv, Built, NEW n \in nodes, NEW q \in Skeleton \ {Root},
           n.under = q, n.off = FALSE, ~Pruned(q, GhostsHere)
    PROVE  Cardinality(Parents(n)) = 1
<1>1. Parents(n) = {m \in nodes : m.rel = q /\ m.kind # "worktree"}
  BY DEF Parents
<1>2. q \in (Skeleton \cup GhostsHere) \ {Root}
  OBVIOUS
<1>3. PICK m \in nodes : {k \in nodes : k.rel = q /\ k.kind # "worktree"} = {m}
  BY <1>2, OneNodeForAPlace
<1>4. Parents(n) = {m}
  BY <1>1, <1>3
<1> QED
  BY <1>4, FS_Singleton

LEMMA TreeHangsTogether == TreeInv => NothingIsCutOff
<1> SUFFICES ASSUME TreeInv, NEW n \in nodes, n.under # Root
             PROVE  Cardinality(Parents(n)) = 1
  BY DEF NothingIsCutOff
<1>0. Built /\ TypeOK /\ EachInItsTurn
  BY DEF TreeInv
<1>1. CASE /\ n.rel \in (Skeleton \cup GhostsHere) \ {Root}
           /\ ~Pruned(n.rel, GhostsHere)
           /\ n.under = Front(n.rel) /\ n.off = OffWorktree(n.rel, GhostsHere)
  <2> DEFINE p == n.rel
  <2>1. n.under = Front(p) /\ n.off = OffWorktree(p, GhostsHere)
    BY <1>1
  <2>2. p \in Paths /\ Front(p) \in Skeleton \ {Root}
    BY <1>0, <1>1, <2>1, SkeletonParent, GhostFacts
  <2>3. CASE OffWorktree(p, GhostsHere)
    <3>1. Front(p) \in Worktrees
      BY <2>3 DEF OffWorktree
    <3>2. n.off = TRUE
      BY <2>1, <2>3, Kinds
    <3>3. Parents(n) = {m \in nodes : m.rel = Front(p) /\ m.kind = "worktree"}
      BY <2>1, <3>2 DEF Parents
    <3>4. PICK m : Parents(n) = {m}
      BY <1>0, <3>1, <3>3, OneNodeForAWorktree
    <3> QED
      BY <3>4, FS_Singleton
  <2>4. CASE ~OffWorktree(p, GhostsHere)
    <3>1. n.off = FALSE
      BY <2>1, <2>4, Kinds
    <3>2. Len(p) > 1
      BY <2>2, PathTypes, FrontOfPath
    <3>3. Front(p) \in Paths /\ IsStrictPrefix(Front(p), p)
      BY <2>2, <3>2, FrontOfPath
    <3>4. ~Pruned(Front(p), GhostsHere)
      BY <1>0, <1>1, <2>2, <2>4, <3>3, PrunedBelow
    <3> QED
      BY <1>0, <2>1, <2>2, <3>1, <3>4, ParentOfPlace
  <2> QED
    BY <2>3, <2>4
<1>2. CASE n.rel \in Hung /\ n.under = repos[n.rel] /\ n.off = FALSE
  <2>1. n.under = repos[n.rel] /\ n.off = FALSE
    BY <1>2
  <2>2. repos[n.rel] \in Primaries
    BY <1>2 DEF Hung
  <2>3. repos[n.rel] \in Skeleton \ {Root} /\ ~Pruned(repos[n.rel], GhostsHere)
    BY <1>0, <2>2, SkeletonFacts, FoundFacts, PathTypes, NotPruned
  <2> QED
    BY <1>0, <2>1, <2>3, ParentOfPlace
<1>3. CASE n.rel \in Orphans /\ n.under = Front(n.rel) /\ n.off = FALSE
  <2>1. n.under = Front(n.rel) /\ n.off = FALSE
    BY <1>3
  <2>2. Front(n.rel) \in Skeleton \ {Root} /\ ~Pruned(Front(n.rel), GhostsHere)
    BY <1>0, <1>3, <2>1, SkeletonFacts, NotPruned
  <2> QED
    BY <1>0, <2>1, <2>2, ParentOfPlace
<1> QED
  BY <1>0, <1>1, <1>2, <1>3, NodeShapes

\* Every node hangs off one other node, or the root: pruning takes nothing
\* with it that was placed (pruneEmptyWorktreeDirs in tree.go).
THEOREM NothingHangsInTheAir == Spec => []NothingIsCutOff
BY TreeInvariant, TreeHangsTogether, PTL

LEMMA CheckoutsAreShown == TreeInv => WhatIsThereIsShown
<1> SUFFICES ASSUME TreeInv, Built, NEW p \in Paths,
                    disk[p].is \in {"repo", "odd", "worktree"}, Reachable(p), StaysAsItWas(p)
             PROVE  \E n \in At(p) :
                      /\ {m \in At(p) : m.kind \in {"repo", "worktree"}} = {n}
                      /\ n.kind = "worktree" /\ repos[p] \in Found /\ repos[repos[p]] = Root
                           => n.under = repos[p]
  BY DEF WhatIsThereIsShown
<1>0. TypeOK /\ EachInItsTurn /\ NothingIsPassedBy /\ pending = {}
  BY DEF TreeInv
<1>1. p \in Found
  <2>1. IsThere(p)
    BY DEF IsThere
  <2>2. Met(p)
    BY <1>0, <2>1 DEF NothingIsPassedBy
  <2> QED
    BY <2>2 DEF Met
<1>2. CASE p \in Primaries
  <2>1. p \in (Skeleton \cup GhostsHere) \ {Root} /\ ~Pruned(p, GhostsHere)
    BY <1>0, <1>2, SkeletonFacts, PathTypes, NotPruned
  <2>2. PICK n \in nodes : /\ n.rel = p /\ n.kind = Kind(p, GhostsHere)
                           /\ {m \in nodes : m.rel = p /\ m.kind # "worktree"} = {n}
    BY <2>1, OneNodeForAPlace
  <2>3. n.kind = "repo"
    BY <1>2, <2>2, Kinds
  <2>4. ASSUME NEW m \in At(p), m.kind = "worktree"
        PROVE  FALSE
    <3>1. m \in nodes /\ m.rel = p /\ p \notin Hung /\ p \notin Orphans
      BY <1>0, <1>2, FoundFacts DEF At
    <3>2. m.kind = Kind(m.rel, GhostsHere)
      BY <3>1, NodeShapes
    <3> QED
      BY <2>4, <3>2, Kinds
  <2> QED
    BY <2>2, <2>3, <2>4 DEF At
<1>3. CASE p \in Worktrees
  <2>1. PICK n \in nodes : /\ n.rel = p /\ n.kind = "worktree"
                           /\ n.under = (IF p \in Hung THEN repos[p] ELSE Front(p))
                           /\ {m \in nodes : m.rel = p /\ m.kind = "worktree"} = {n}
    BY <1>3, OneNodeForAWorktree
  <2>2. ASSUME NEW m \in At(p), m.kind = "repo"
        PROVE  FALSE
    <3>1. m \in nodes /\ m.rel = p /\ p \notin Primaries
      BY <1>0, <1>3, FoundFacts DEF At
    <3>2. m.kind = Kind(m.rel, GhostsHere)
      BY <2>2, <3>1, NodeShapes
    <3> QED
      BY <2>2, <3>1, <3>2, Kinds
  <2>3. repos[p] \in Found /\ repos[repos[p]] = Root => n.under = repos[p]
    BY <1>3, <2>1 DEF Hung, Primaries
  <2> QED
    BY <2>1, <2>2, <2>3 DEF At
<1> QED
  BY <1>0, <1>1, <1>2, <1>3, FoundFacts

\* A checkout that is there all through a scan is in the tree it builds, once,
\* a worktree under its primary checkout, whatever comes, goes and changes
\* elsewhere (Walk in scan.go, Build in tree.go).
THEOREM WhatStaysIsShown == Spec => []WhatIsThereIsShown
BY TreeInvariant, CheckoutsAreShown, PTL

LEMMA GhostsAreMatched == TreeInv => GhostsAreTheUncloned
<1> SUFFICES ASSUME TreeInv, Built, NEW g \in listed
             PROVE  (\E n \in At(g) : n.kind = "ghost") <=>
                      /\ \A p \in Found : origin[p] # g
                      /\ g \notin Found \cup dirs
  BY DEF GhostsAreTheUncloned
<1>0. TypeOK /\ EachInItsTurn /\ g \in Slugs /\ g \in Paths /\ g # Root
  BY TreeConfig, PathTypes DEF TreeInv, TypeOK
<1>1. g \in GhostsHere <=>
        /\ \A p \in Found : origin[p] # g
        /\ g \notin Skeleton \cup Worktrees
  BY DEF GhostsHere, Ghosts
<1>2. g \in Skeleton <=> g \in dirs \cup Primaries
  <2>1. ASSUME NEW o \in Owners, g = o \/ IsStrictPrefix(g, o)
        PROVE  FALSE
    <3>1. IsPrefix(g, o)
      BY <1>0, <2>1, PathTypes DEF IsStrictPrefix, IsPrefix
    <3> QED
      BY <1>0, <3>1, TreeConfig
  <2> QED
    BY <1>0, <2>1, SkeletonFacts
<1>3. g \in GhostsHere <=>
        /\ \A p \in Found : origin[p] # g
        /\ g \notin Found \cup dirs
  BY <1>0, <1>1, <1>2, FoundFacts
<1>4. ASSUME NEW n \in At(g), n.kind = "ghost"
      PROVE  g \in GhostsHere
  <2>1. n \in nodes /\ n.rel = g
    BY DEF At
  <2>2. n.kind = Kind(g, GhostsHere)
    BY <1>4, <2>1, NodeShapes
  <2> QED
    BY <1>4, <2>2, Kinds
<1>5. ASSUME g \in GhostsHere
      PROVE  \E n \in At(g) : n.kind = "ghost"
  <2>1. ~Pruned(g, GhostsHere) /\ g \notin Primaries
    BY <1>0, <1>3, <1>5, NotPruned, FoundFacts
  <2> QED
    BY <1>0, <1>5, <2>1, OneNodeForAPlace, Kinds DEF At
<1> QED
  BY <1>3, <1>4, <1>5

\* A listed repository has a ghost exactly when no checkout in the tree has it
\* for its origin and its place is free (Build in tree.go).
THEOREM NoGhostBesideItsClone == Spec => []GhostsAreTheUncloned
BY TreeInvariant, GhostsAreMatched, PTL

LEMMA DirectoriesStay == TreeInv => DirectoriesAreKept
<1> SUFFICES ASSUME TreeInv, Built, NEW d \in dirs, At(d) = {}
             PROVE  /\ \E w \in Worktrees : Front(w) = d
                    /\ \A n \in nodes : IsStrictPrefix(d, n.rel) => n.kind = "worktree"
  BY DEF DirectoriesAreKept
<1>0. TypeOK /\ EachInItsTurn /\ d \in Paths /\ d # Root /\ d \in Skeleton /\ d \notin Found
  BY PathTypes, SkeletonFacts DEF TreeInv, TypeOK, EachInItsTurn
<1>1. Pruned(d, GhostsHere)
  BY <1>0, OneNodeForAPlace DEF At
<1>2. \E w \in Worktrees : Front(w) = d
  <2>1. d \in Under(d, GhostsHere)
    BY DEF Under
  <2> QED
    BY <1>1, <2>1 DEF Pruned, Parking
<1>3. ASSUME NEW n \in nodes, IsStrictPrefix(d, n.rel), n.kind # "worktree"
      PROVE  FALSE
  <2> DEFINE p == n.rel
  <2>1. p \in (Skeleton \cup GhostsHere) \ {Root} /\ ~Pruned(p, GhostsHere)
    BY <1>3, NodeShapes
  <2>2. p \in Paths
    BY <1>0, <2>1, SkeletonFacts, GhostFacts
  <2>3. OffWorktree(p, GhostsHere)
    BY <1>0, <1>1, <1>3, <2>1, <2>2, PrunedBelow
  \* It is a ghost under a worktree, in whose place its owner is expected.
  <2>4. Front(p) \in Worktrees /\ Front(p) \in Skeleton /\ Front(p) \in Found /\ Front(p) \in Paths
    BY <1>0, <2>3, GhostFacts, FoundFacts DEF OffWorktree
  <2>5. IsStrictPrefix(d, Front(p))
    BY <1>0, <1>3, <2>2, <2>4, FrontOfPath
  <2>6. ~OffWorktree(Front(p), GhostsHere)
    BY <1>0, <2>4, GhostFacts DEF OffWorktree
  <2>7. Pruned(Front(p), GhostsHere)
    BY <1>0, <1>1, <2>4, <2>5, <2>6, PrunedBelow
  <2>8. Front(p) \in Parking
    BY <2>7 DEF Pruned, Under
  <2>9. Front(p) \in dirs
    BY <1>0, <2>4, <2>8, FoundFacts, PathTypes DEF Parking
  <2> QED
    BY <1>0, <2>4, <2>9 DEF EachInItsTurn
<1> QED
  BY <1>2, <1>3

\* A directory is left out of the tree only if a worktree was parked in it, and
\* only with nothing under it but worktrees (pruneEmptyWorktreeDirs in tree.go).
THEOREM DirectoriesAreNotLost == Spec => []DirectoriesAreKept
BY TreeInvariant, DirectoriesStay, PTL

----------------------------------------------------------------------------
(* What surrounds a scan: instances of what FunctionProofs proves.         *)

\* Whatever a scan came upon, the places that a request may ask for have one
\* name each (OneNameForAPlace).
THEOREM ScannedPlacesHaveOneName == Spec => []PlacesHaveOneName
<1>1. PlacesHaveOneName
    BY PlacesAreNamedOnce DEF PlacesHaveOneName, OneNameEach
<1> QED BY <1>1, PTL

\* Whatever a scan came upon, a ghost leads to the place and the slug that the
\* next scan will match its clone by (GhostTurnsIntoClone).
THEOREM ScannedGhostsMeetTheirClones == Spec => []GhostsMeetTheirClones
<1>1. \A w \in Words : Legal(w) /\ Unblanked(w)
    BY DEF Words, Legal, Hidden, Dots, Unblanked, Unled, Unended
<1>2. GhostsMeetTheirClones
    BY <1>1, GhostsBecomeClones DEF GhostsMeetTheirClones, GhostsTurn
<1> QED BY <1>2, PTL

\* Whatever a scan came upon, a status is what git reported
\* (CountedAsReported).
THEOREM ScannedStatusIsAsReported == Spec => []StatusIsAsReported
<1>1. StatusIsAsReported
    BY StatusesAreAsReported DEF StatusIsAsReported, AsReported
<1> QED BY <1>1, PTL

\* Whatever a scan came upon, no row is better than that
\* (RowNeverReassures).
THEOREM ScannedRowsNeverReassure == Spec => []RowsNeverReassure
<1>1. RowsNeverReassure
    BY RowsAreHonest DEF RowsNeverReassure, NeverReassuring
<1> QED BY <1>1, PTL
=============================================================================

--------------------------- MODULE FunctionProofs ---------------------------
(***************************************************************************)
(* What the functions around the modules with state compute, for           *)
(* arguments of every size: Porcelain, Places and TailBuffer.              *)
(*                                                                         *)
(* The induction theorems of the library take an operator, which the       *)
(* provers here cannot instantiate.  Its theorem on minimal elements takes *)
(* a set, and gives induction for a set of numbers: what is proved of all  *)
(* lengths is put as `the set of the lengths for which it holds'.          *)
(***************************************************************************)
EXTENDS Places, Porcelain, TailBuffer, FiniteSetTheorems, SequenceTheorems, WellFoundedInduction, TLAPS

Below == OpToRel(<, Nat)

\* Among some numbers one is the least.
LEMMA Least ==
    ASSUME NEW T, T \subseteq Nat, T # {}
    PROVE  \E x \in T : \A y \in T : x <= y
<1>1. IsWellFoundedOn(Below, Nat)
    BY NatLessThanWellFounded DEF Below
<1>2. PICK x \in T : \A y \in T : <<y, x>> \notin Below
    BY <1>1, WFMin
<1>3. \A y \in T : ~(y < x)
    BY <1>2 DEF Below, OpToRel
<1> QED BY <1>3

\* A set with zero, and with the successor of each number in it, has them all.
LEMMA Induction ==
    ASSUME NEW S, 0 \in S, \A n \in Nat : n \in S => n + 1 \in S
    PROVE  Nat \subseteq S
<1>1. SUFFICES ASSUME Nat \ S # {} PROVE FALSE
    OBVIOUS
<1>2. PICK x \in Nat \ S : \A y \in Nat \ S : x <= y
    BY <1>1, Least
<1>3. x # 0 /\ x - 1 \in Nat /\ x - 1 + 1 = x
    BY <1>2
<1> QED BY <1>2, <1>3

----------------------------------------------------------------------------
(* The loop of parsePorcelainV2. *)

Loops(g, tokens, n) ==
    g = [i \in 0 .. n |-> IF i = 0 THEN [next |-> 1, s |-> NoStatus]
                          ELSE Turn(g[i - 1], i, tokens[i])]

\* The loop's recursion has a solution.
LEMMA LoopExists ==
    ASSUME NEW tokens, NEW n \in Nat
    PROVE  \E g : Loops(g, tokens, n)
<1> DEFINE S == {m \in Nat : \E g : Loops(g, tokens, m)}
<1>1. 0 \in S
    <2> DEFINE g == [i \in 0 .. 0 |-> [next |-> 1, s |-> NoStatus]]
    <2>1. Loops(g, tokens, 0) BY DEF Loops
    <2> QED BY <2>1
<1>2. ASSUME NEW m \in Nat, m \in S PROVE m + 1 \in S
    <2>1. PICK g : Loops(g, tokens, m) BY <1>2
    <2> DEFINE h == [i \in 0 .. m + 1 |->
                       IF i = m + 1 THEN Turn(g[m], m + 1, tokens[m + 1]) ELSE g[i]]
    <2>2. Loops(h, tokens, m + 1) BY <2>1 DEF Loops
    <2> QED BY <2>2
<1> HIDE DEF S
<1>3. n \in S BY <1>1, <1>2, Induction
<1> QED BY <1>3 DEF S

LEMMA LoopSolved ==
    ASSUME NEW tokens, Len(tokens) \in Nat
    PROVE  \E g : Loops(g, tokens, Len(tokens)) /\ Loop(tokens) = g[Len(tokens)]
<1> DEFINE f[i \in 0 .. Len(tokens)] ==
             IF i = 0 THEN [next |-> 1, s |-> NoStatus] ELSE Turn(f[i - 1], i, tokens[i])
<1>1. f = CHOOSE g : Loops(g, tokens, Len(tokens)) BY DEF Loops
<1>2. Loop(tokens) = f[Len(tokens)] BY DEF Loop
<1>3. Loops(f, tokens, Len(tokens)) BY <1>1, LoopExists
<1> QED BY <1>2, <1>3

\* What the loop has done so far is up to what it has read.
LEMMA LoopAgrees ==
    ASSUME NEW t, NEW u, NEW n \in Nat, NEW m \in Nat, n <= m,
           \A i \in 1 .. n : t[i] = u[i],
           NEW g, Loops(g, t, n), NEW h, Loops(h, u, m)
    PROVE  g[n] = h[n]
<1> DEFINE S == {k \in Nat : k <= n => g[k] = h[k]}
<1>1. 0 \in S BY DEF Loops
<1>2. ASSUME NEW k \in Nat, k \in S PROVE k + 1 \in S
    <2>1. SUFFICES ASSUME k + 1 <= n PROVE g[k + 1] = h[k + 1] OBVIOUS
    <2>2. g[k + 1] = Turn(g[k], k + 1, t[k + 1]) BY <2>1 DEF Loops
    <2>3. h[k + 1] = Turn(h[k], k + 1, u[k + 1]) BY <2>1 DEF Loops
    <2> QED BY <1>2, <2>1, <2>2, <2>3
<1> HIDE DEF S
<1>3. n \in S BY <1>1, <1>2, Induction
<1> QED BY <1>3 DEF S

\* One more token is one more turn.
LEMMA LoopAppend ==
    ASSUME NEW T, NEW tokens \in Seq(T), NEW x \in T
    PROVE  Loop(Append(tokens, x)) = Turn(Loop(tokens), Len(tokens) + 1, x)
<1> DEFINE n == Len(tokens)
<1> DEFINE more == Append(tokens, x)
<1>1. n \in Nat /\ Len(more) = n + 1 /\ more[n + 1] = x /\ \A i \in 1 .. n : tokens[i] = more[i]
    BY AppendProperties
<1>2. PICK g : Loops(g, tokens, n) /\ Loop(tokens) = g[n]
    BY <1>1, LoopSolved
<1> HIDE DEF n, more
<1>3. PICK h : Loops(h, more, n + 1) /\ Loop(more) = h[n + 1]
    <2>1. \E h : Loops(h, more, Len(more)) /\ Loop(more) = h[Len(more)]
        BY <1>1, LoopSolved
    <2> QED BY <2>1, <1>1
<1>4. g[n] = h[n]
    BY <1>1, <1>2, <1>3, LoopAgrees
<1>5. h[n + 1] = Turn(h[n], n + 1, more[n + 1])
    BY <1>1, <1>3 DEF Loops
<1> QED BY <1>1, <1>2, <1>3, <1>4, <1>5 DEF n, more

----------------------------------------------------------------------------
(* Reports. *)

Names == {"main", "(detached)", "origin/main", "x"}

Tokens ==
    [is : {"oid", "path", "unmerged", "untracked"}]
    \cup [is : {"head", "upstream"}, name : Names]
    \cup [is : {"ab"}, ahead : Nat, behind : Nat]
    \cup [is : {"changed", "renamed"}, staged : BOOLEAN, unstaged : BOOLEAN]

\* The loop has read all of these tokens, and left this status.
ReadTo(tokens, s) ==
    /\ tokens \in Seq(Tokens)
    /\ Loop(tokens).next = Len(tokens) + 1
    /\ Loop(tokens).s = s

LEMMA NothingRead == ReadTo(<< >>, NoStatus)
<1>1. PICK g : Loops(g, << >>, 0) /\ Loop(<< >>) = g[0]
    BY LoopSolved
<1> QED BY <1>1 DEF Loops, ReadTo

\* A record that is no rename's, and a rename's with its second path.
LEMMA OneRead ==
    ASSUME NEW tokens, NEW s, ReadTo(tokens, s), NEW x \in Tokens, x.is # "renamed"
    PROVE  ReadTo(Append(tokens, x), Parsed(s, x))
<1>1. Len(tokens) \in Nat /\ Append(tokens, x) \in Seq(Tokens)
      /\ Len(Append(tokens, x)) = Len(tokens) + 1
    BY DEF ReadTo
<1>2. Loop(Append(tokens, x)) = Turn(Loop(tokens), Len(tokens) + 1, x)
    BY LoopAppend DEF ReadTo
<1>3. Consumes(x) = 1 BY DEF Consumes
<1> QED BY <1>1, <1>2, <1>3 DEF Turn, ReadTo

LEMMA RenameRead ==
    ASSUME NEW tokens, NEW s, ReadTo(tokens, s),
           NEW x \in Tokens, x.is = "renamed", NEW y \in Tokens
    PROVE  ReadTo(Append(Append(tokens, x), y), Parsed(s, x))
<1> DEFINE more == Append(tokens, x)
           all == Append(more, y)
<1>1. Len(tokens) \in Nat /\ more \in Seq(Tokens) /\ Len(more) = Len(tokens) + 1
    BY DEF ReadTo
<1>2. Loop(more) = Turn(Loop(tokens), Len(tokens) + 1, x)
    BY LoopAppend DEF ReadTo
<1>3. Consumes(x) = 2 BY DEF Consumes
<1>4. Loop(more).next = Len(tokens) + 3 /\ Loop(more).s = Parsed(s, x)
    BY <1>1, <1>2, <1>3 DEF Turn, ReadTo
<1> HIDE DEF more
<1>5. all \in Seq(Tokens) /\ Len(all) = Len(tokens) + 2 BY <1>1
<1>6. Loop(all) = Turn(Loop(more), Len(more) + 1, y) BY <1>1, LoopAppend
<1> HIDE DEF all
<1>7. ReadTo(all, Parsed(s, x)) BY <1>1, <1>4, <1>5, <1>6 DEF Turn, ReadTo
<1> QED BY <1>7 DEF all, more

Branches == {"main", None}

\* Where among the entries the paths of each kind are.
Staged(e) == {i \in DOMAIN e : e[i].staged}
Unstaged(e) == {i \in DOMAIN e : e[i].unstaged}
Unmerged(e) == {i \in DOMAIN e : e[i].is = "unmerged"}
Untracked(e) == {i \in DOMAIN e : e[i].is = "untracked"}

Status(branch, detached, upstream, ahead, behind, staged, unstaged, conflicted, untracked) ==
    [branch |-> branch, detached |-> detached, upstream |-> upstream,
     ahead |-> ahead, behind |-> behind, staged |-> staged, unstaged |-> unstaged,
     conflicted |-> conflicted, untracked |-> untracked]

HeadStatus(branch, detached, upstream, ahead, behind) ==
    Status(branch, detached, upstream, ahead, behind, 0, 0, 0, 0)

\* The status that tells of the head and of the first k entries.
Tally(branch, u, e, k) ==
    Status(branch, branch = None, IF u.set THEN "origin/main" ELSE None, u.ahead, u.behind,
           Cardinality(Staged(e) \cap 1 .. k), Cardinality(Unstaged(e) \cap 1 .. k),
           Cardinality(Unmerged(e) \cap 1 .. k), Cardinality(Untracked(e) \cap 1 .. k))

\* What a token makes of a status.
LEMMA EntryParsed ==
    ASSUME NEW b, NEW d, NEW v, NEW a, NEW h, NEW s, NEW n, NEW c, NEW w, NEW tok
    PROVE  LET t == Status(b, d, v, a, h, s, n, c, w)
           IN  /\ tok.is \in {"changed", "renamed"} =>
                     Parsed(t, tok) = Status(b, d, v, a, h, s + One(tok.staged),
                                             n + One(tok.unstaged), c, w)
               /\ tok.is = "unmerged" => Parsed(t, tok) = Status(b, d, v, a, h, s, n, c + 1, w)
               /\ tok.is = "untracked" => Parsed(t, tok) = Status(b, d, v, a, h, s, n, c, w + 1)
    BY DEF Parsed, Status

\* A set of positions is counted one position after the other.
LEMMA CountNext ==
    ASSUME NEW A, NEW k \in Nat
    PROVE  /\ Cardinality(A \cap 1 .. k) \in Nat
           /\ Cardinality(A \cap 1 .. k + 1)
                = Cardinality(A \cap 1 .. k) + One(k + 1 \in A)
<1> DEFINE B == A \cap 1 .. k
<1>1. IsFiniteSet(B) /\ k + 1 \notin B
    <2>1. IsFiniteSet(1 .. k) BY FS_Interval
    <2>2. IsFiniteSet(B) BY <2>1, FS_Subset
    <2> QED BY <2>2
<1>2. Cardinality(B) \in Nat BY <1>1, FS_CardinalityType
<1>3. CASE k + 1 \in A
    <2>1. A \cap 1 .. k + 1 = B \cup {k + 1} BY <1>3
    <2>2. Cardinality(B \cup {k + 1}) = Cardinality(B) + 1 BY <1>1, FS_AddElement
    <2> QED BY <1>2, <1>3, <2>1, <2>2 DEF One
<1>4. CASE k + 1 \notin A
    <2>1. A \cap 1 .. k + 1 = B BY <1>4
    <2> QED BY <1>2, <1>4, <2>1 DEF One
<1> QED BY <1>3, <1>4

\* What an upstream may be.
LEMMA UpstreamKinds ==
    ASSUME NEW far \in Nat, NEW u \in Upstreams(far)
    PROVE  /\ u.ahead \in Nat /\ u.behind \in Nat
           /\ \/ u.set = FALSE /\ u.ahead = 0 /\ u.behind = 0
              \/ u.set = TRUE /\ u.gone = TRUE /\ u.ahead = 0 /\ u.behind = 0
              \/ u.set = TRUE /\ u.gone = FALSE
<1>1. CASE u = [set |-> FALSE, gone |-> FALSE, ahead |-> 0, behind |-> 0]
    BY <1>1
<1>2. CASE u = [set |-> TRUE, gone |-> TRUE, ahead |-> 0, behind |-> 0]
    BY <1>2
<1>3. CASE u \in [set : {TRUE}, gone : {FALSE}, ahead : 0 .. far, behind : 0 .. far]
    <2>1. u.set = TRUE /\ u.gone = FALSE BY <1>3, Zenon
    <2>2. u.ahead \in 0 .. far /\ u.behind \in 0 .. far BY <1>3, Zenon
    <2> QED BY <2>1, <2>2
<1> QED BY <1>1, <1>2, <1>3, Zenon DEF Upstreams

\* The header lines are read for what they say.
LEMMA HeadIsRead ==
    ASSUME NEW branch \in Branches, NEW far \in Nat, NEW u \in Upstreams(far), NEW e
    PROVE  LET head == HeadLines(branch) \o UpstreamLines(u)
           IN  ReadTo(head, Tally(branch, u, e, 0))
<1> DEFINE a == [is |-> "oid"]
           b == [is |-> "head", name |-> IF branch = None THEN "(detached)" ELSE branch]
           c == [is |-> "upstream", name |-> "origin/main"]
           d == [is |-> "ab", ahead |-> u.ahead, behind |-> u.behind]
           head == HeadLines(branch) \o UpstreamLines(u)
<1>1. a \in Tokens /\ b \in Tokens /\ c \in Tokens
    <2>1. a \in [is : {"oid", "path", "unmerged", "untracked"}] OBVIOUS
    <2>2. b \in [is : {"head", "upstream"}, name : Names]
        <3> DEFINE n == IF branch = None THEN "(detached)" ELSE branch
        <3>1. n \in Names BY DEF Names, Branches
        <3> HIDE DEF n
        <3>2. [is |-> "head", name |-> n] \in [is : {"head", "upstream"}, name : Names] BY <3>1
        <3> QED BY <3>2 DEF n
    <2>3. c \in [is : {"head", "upstream"}, name : Names] BY DEF Names
    <2> HIDE DEF a, b, c
    <2> QED BY <2>1, <2>2, <2>3, Zenon DEF Tokens
<1>2. d \in Tokens
    <2>1. d \in [is : {"ab"}, ahead : Nat, behind : Nat] BY UpstreamKinds
    <2> HIDE DEF d
    <2> QED BY <2>1, Zenon DEF Tokens
<1>3. HeadLines(branch) = <<a, b>>
    BY DEF HeadLines
<1>4. UpstreamLines(u) = (IF u.set THEN <<c>> ELSE << >>)
                           \o (IF u.set /\ ~u.gone THEN <<d>> ELSE << >>)
    BY DEF UpstreamLines
<1> HIDE DEF a, b, c, d
<1>5. /\ b.is = "head" /\ b.name = IF branch = None THEN "(detached)" ELSE branch
      /\ a.is = "oid" /\ c.is = "upstream" /\ c.name = "origin/main"
      /\ d.is = "ab" /\ d.ahead = u.ahead /\ d.behind = u.behind
    BY DEF a, b, c, d
<1>6. Parsed(NoStatus, a) = HeadStatus(None, FALSE, None, 0, 0)
    BY <1>5 DEF Parsed, NoStatus, HeadStatus, Status
<1>7. Parsed(HeadStatus(None, FALSE, None, 0, 0), b) = HeadStatus(branch, branch = None, None, 0, 0)
    <2>1. CASE branch = None BY <1>5, <2>1 DEF Parsed, HeadStatus, Status
    <2>2. CASE branch = "main" BY <1>5, <2>2 DEF Parsed, HeadStatus, Status, None
    <2> QED BY <2>1, <2>2 DEF Branches
<1>8. /\ <<a, b>> = Append(Append(<< >>, a), b)
      /\ <<a, b, c>> = Append(<<a, b>>, c)
      /\ <<a, b, c, d>> = Append(<<a, b, c>>, d)
    OBVIOUS
<1>9. ReadTo(Append(<< >>, a), HeadStatus(None, FALSE, None, 0, 0))
    <2>1. ReadTo(Append(<< >>, a), Parsed(NoStatus, a))
        BY <1>1, <1>5, NothingRead, OneRead
    <2> QED BY <1>6, <2>1
<1>10. ReadTo(<<a, b>>, HeadStatus(branch, branch = None, None, 0, 0))
    <2>1. ReadTo(Append(Append(<< >>, a), b), Parsed(HeadStatus(None, FALSE, None, 0, 0), b))
        BY <1>1, <1>5, <1>9, OneRead
    <2> QED BY <1>7, <1>8, <2>1
<1>11. ReadTo(<<a, b, c>>, HeadStatus(branch, branch = None, "origin/main", 0, 0))
    <2>1. Parsed(HeadStatus(branch, branch = None, None, 0, 0), c)
            = HeadStatus(branch, branch = None, "origin/main", 0, 0)
        BY <1>5 DEF Parsed, HeadStatus, Status
    <2>2. ReadTo(Append(<<a, b>>, c), Parsed(HeadStatus(branch, branch = None, None, 0, 0), c))
        BY <1>1, <1>5, <1>10, OneRead
    <2> QED BY <1>8, <2>1, <2>2
<1>12. ReadTo(<<a, b, c, d>>,
              HeadStatus(branch, branch = None, "origin/main", u.ahead, u.behind))
    <2>1. Parsed(HeadStatus(branch, branch = None, "origin/main", 0, 0), d)
            = HeadStatus(branch, branch = None, "origin/main", u.ahead, u.behind)
        BY <1>5 DEF Parsed, HeadStatus, Status
    <2>2. ReadTo(Append(<<a, b, c>>, d),
                 Parsed(HeadStatus(branch, branch = None, "origin/main", 0, 0), d))
        BY <1>2, <1>5, <1>11, OneRead
    <2> QED BY <1>8, <2>1, <2>2
<1>15. Tally(branch, u, e, 0)
          = HeadStatus(branch, branch = None, IF u.set THEN "origin/main" ELSE None,
                       u.ahead, u.behind)
    <2>1. \A A : Cardinality(A \cap 1 .. 0) = 0
        <3>1. \A A : A \cap 1 .. 0 = {} OBVIOUS
        <3> QED BY <3>1, FS_EmptySet
    <2> QED BY <2>1 DEF Tally, HeadStatus
<1> HIDE DEF head
<1>16. CASE u.set = FALSE
    <2>1. UpstreamLines(u) = << >> \o << >> BY <1>4, <1>16
    <2>2. <<a, b>> \o (<< >> \o << >>) = <<a, b>> OBVIOUS
    <2>3. head = <<a, b>> BY <1>3, <2>1, <2>2 DEF head
    <2>4. Tally(branch, u, e, 0) = HeadStatus(branch, branch = None, None, 0, 0)
        BY <1>15, <1>16, UpstreamKinds
    <2> QED BY <1>10, <2>3, <2>4 DEF head
<1>17. CASE u.set = TRUE /\ u.gone = TRUE
    <2>1. UpstreamLines(u) = <<c>> \o << >> BY <1>4, <1>17
    <2>2. <<a, b>> \o (<<c>> \o << >>) = <<a, b, c>>
        <3>1. <<c>> \o << >> = <<c>> OBVIOUS
        <3>2. <<a, b>> \in Seq(Tokens) BY <1>1
        <3>3. <<a, b>> \o <<c>> = <<a, b, c>> BY <1>1, <1>8, <3>2, AppendIsConcat
        <3> QED BY <3>1, <3>3
    <2>3. head = <<a, b, c>> BY <1>3, <2>1, <2>2 DEF head
    <2>4. Tally(branch, u, e, 0) = HeadStatus(branch, branch = None, "origin/main", 0, 0)
        BY <1>15, <1>17, UpstreamKinds
    <2> QED BY <1>11, <2>3, <2>4 DEF head
<1>18. CASE u.set = TRUE /\ u.gone = FALSE
    <2>1. UpstreamLines(u) = <<c>> \o <<d>> BY <1>4, <1>18
    <2>2. <<a, b>> \o (<<c>> \o <<d>>) = <<a, b, c, d>>
        <3>1. <<a, b>> \in Seq(Tokens) /\ <<c>> \in Seq(Tokens) /\ <<d>> \in Seq(Tokens)
            BY <1>1, <1>2
        <3>2. <<a, b>> \o (<<c>> \o <<d>>) = (<<a, b>> \o <<c>>) \o <<d>>
            BY <3>1, ConcatAssociative
        <3>3. <<a, b>> \o <<c>> = <<a, b, c>> BY <1>1, <1>8, <3>1, AppendIsConcat
        <3>4. <<a, b, c>> \in Seq(Tokens) BY <1>1
        <3>5. <<a, b, c>> \o <<d>> = <<a, b, c, d>> BY <1>2, <1>8, <3>4, AppendIsConcat
        <3> QED BY <3>2, <3>3, <3>5
    <2>3. head = <<a, b, c, d>> BY <1>3, <2>1, <2>2 DEF head
    <2>4. Tally(branch, u, e, 0)
            = HeadStatus(branch, branch = None, "origin/main", u.ahead, u.behind)
        BY <1>15, <1>18
    <2> QED BY <1>12, <2>3, <2>4 DEF head
<1> QED BY <1>16, <1>17, <1>18, UpstreamKinds DEF head

\* What an entry may be, and which tokens git writes for it.
LEMMA EntryKinds ==
    ASSUME NEW x \in Entries
    PROVE  /\ x.is \in {"changed", "renamed", "unmerged", "untracked"}
           /\ x.staged \in BOOLEAN /\ x.unstaged \in BOOLEAN
           /\ x.is \in {"unmerged", "untracked"} => x.staged = FALSE /\ x.unstaged = FALSE
           /\ x.is = "renamed" => x.was \in Looks
<1> DEFINE A == [is : {"changed"}, staged : BOOLEAN, unstaged : BOOLEAN]
           B == [is : {"renamed"}, staged : BOOLEAN, unstaged : BOOLEAN, was : Looks]
           C == [is : {"unmerged", "untracked"}, staged : {FALSE}, unstaged : {FALSE}]
<1>1. x \in A \/ x \in B \/ x \in C BY Zenon DEF Entries
<1>2. CASE x \in A
    <2>1. x.is = "changed" /\ x.staged \in BOOLEAN /\ x.unstaged \in BOOLEAN BY <1>2, Zenon
    <2> QED BY <2>1
<1>3. CASE x \in B
    <2>1. x.is = "renamed" /\ x.staged \in BOOLEAN /\ x.unstaged \in BOOLEAN /\ x.was \in Looks
        BY <1>3, Zenon
    <2> QED BY <2>1
<1>4. CASE x \in C
    <2>1. x.is \in {"unmerged", "untracked"} /\ x.staged = FALSE /\ x.unstaged = FALSE
        BY <1>4, Zenon
    <2> QED BY <2>1
<1> QED BY <1>1, <1>2, <1>3, <1>4

LEMMA LooksAreTokens == Looks \subseteq Tokens
<1>1. [is |-> "path"] \in [is : {"oid", "path", "unmerged", "untracked"}] OBVIOUS
<1>2. [is |-> "unmerged"] \in [is : {"oid", "path", "unmerged", "untracked"}] OBVIOUS
<1>3. [is |-> "untracked"] \in [is : {"oid", "path", "unmerged", "untracked"}] OBVIOUS
<1>4. [is |-> "head", name |-> "x"] \in [is : {"head", "upstream"}, name : Names] BY DEF Names
<1>5. [is |-> "renamed", staged |-> TRUE, unstaged |-> TRUE]
        \in [is : {"changed", "renamed"}, staged : BOOLEAN, unstaged : BOOLEAN] OBVIOUS
<1> QED BY <1>1, <1>2, <1>3, <1>4, <1>5, Zenon DEF Looks, Tokens

\* One more entry is counted, for what it is.
LEMMA EntryRead ==
    ASSUME NEW branch, NEW u, NEW e \in Seq(Entries), NEW k \in Nat, k + 1 <= Len(e),
           NEW tokens, ReadTo(tokens, Tally(branch, u, e, k))
    PROVE  /\ Record(e[k + 1]) \in Seq(Tokens)
           /\ ReadTo(tokens \o Record(e[k + 1]), Tally(branch, u, e, k + 1))
<1> DEFINE x == e[k + 1]
           xy == [is |-> x.is, staged |-> x.staged, unstaged |-> x.unstaged]
           m == [is |-> x.is]
           s == Cardinality(Staged(e) \cap 1 .. k)
           n == Cardinality(Unstaged(e) \cap 1 .. k)
           c == Cardinality(Unmerged(e) \cap 1 .. k)
           w == Cardinality(Untracked(e) \cap 1 .. k)
           t == Tally(branch, u, e, k)
<1>1. x \in Entries /\ k + 1 \in DOMAIN e /\ tokens \in Seq(Tokens) BY DEF ReadTo
<1>2. /\ Cardinality(Staged(e) \cap 1 .. k + 1) = s + One(x.staged)
      /\ Cardinality(Unstaged(e) \cap 1 .. k + 1) = n + One(x.unstaged)
      /\ Cardinality(Unmerged(e) \cap 1 .. k + 1) = c + One(x.is = "unmerged")
      /\ Cardinality(Untracked(e) \cap 1 .. k + 1) = w + One(x.is = "untracked")
    <2>1. /\ One(k + 1 \in Staged(e)) = One(x.staged)
          /\ One(k + 1 \in Unstaged(e)) = One(x.unstaged)
          /\ One(k + 1 \in Unmerged(e)) = One(x.is = "unmerged")
          /\ One(k + 1 \in Untracked(e)) = One(x.is = "untracked")
        BY <1>1 DEF One, Staged, Unstaged, Unmerged, Untracked
    <2> QED BY <2>1, CountNext
<1>3. xy.is = x.is /\ xy.staged = x.staged /\ xy.unstaged = x.unstaged /\ m.is = x.is
    OBVIOUS
<1>4. s \in Nat /\ n \in Nat /\ c \in Nat /\ w \in Nat
    BY CountNext
<1>5. /\ One(TRUE) = 1 /\ One(FALSE) = 0
      /\ x.is = "unmerged" => One(x.is = "unmerged") = 1
      /\ x.is = "untracked" => One(x.is = "untracked") = 1
      /\ x.is # "unmerged" => One(x.is = "unmerged") = 0
      /\ x.is # "untracked" => One(x.is = "untracked") = 0
    BY DEF One
<1> HIDE DEF s, n, c, w
<1>6. x.is \in {"changed", "renamed"} =>
        xy \in Tokens /\ Parsed(t, xy) = Tally(branch, u, e, k + 1)
    <2>1. SUFFICES ASSUME x.is \in {"changed", "renamed"}
                   PROVE  xy \in Tokens /\ Parsed(t, xy) = Tally(branch, u, e, k + 1)
        OBVIOUS
    <2>2. xy \in [is : {"changed", "renamed"}, staged : BOOLEAN, unstaged : BOOLEAN]
        BY <1>1, <2>1, EntryKinds
    <2>3. c + One(x.is = "unmerged") = c /\ w + One(x.is = "untracked") = w
        BY <1>4, <1>5, <2>1
    <2> HIDE DEF xy
    <2>4. Parsed(t, xy) = Tally(branch, u, e, k + 1)
        BY <1>2, <1>3, <2>1, <2>3, EntryParsed DEF Tally, s, n, c, w
    <2> QED BY <2>2, <2>4, Zenon DEF Tokens
<1>7. x.is \in {"unmerged", "untracked"} =>
        m \in Tokens /\ Parsed(t, m) = Tally(branch, u, e, k + 1)
    <2>1. SUFFICES ASSUME x.is \in {"unmerged", "untracked"}
                   PROVE  m \in Tokens /\ Parsed(t, m) = Tally(branch, u, e, k + 1)
        OBVIOUS
    <2>2. m \in [is : {"oid", "path", "unmerged", "untracked"}]
        BY <2>1
    <2>3. s + One(x.staged) = s /\ n + One(x.unstaged) = n
        <3>1. x.staged = FALSE /\ x.unstaged = FALSE BY <1>1, <2>1, EntryKinds
        <3>2. One(x.staged) = 0 /\ One(x.unstaged) = 0 BY <1>5, <3>1
        <3> QED BY <1>4, <3>2
    <2> HIDE DEF m
    <2>4. CASE x.is = "unmerged"
        <3>1. c + One(x.is = "unmerged") = c + 1 /\ w + One(x.is = "untracked") = w
            BY <1>4, <1>5, <2>4
        <3>2. Parsed(t, m) = Tally(branch, u, e, k + 1)
            BY <1>2, <1>3, <2>3, <2>4, <3>1, EntryParsed DEF Tally, s, n, c, w
        <3> QED BY <2>2, <3>2, Zenon DEF Tokens
    <2>5. CASE x.is = "untracked"
        <3>1. c + One(x.is = "unmerged") = c /\ w + One(x.is = "untracked") = w + 1
            BY <1>4, <1>5, <2>5
        <3>2. Parsed(t, m) = Tally(branch, u, e, k + 1)
            BY <1>2, <1>3, <2>3, <2>5, <3>1, EntryParsed DEF Tally, s, n, c, w
        <3> QED BY <2>2, <3>2, Zenon DEF Tokens
    <2> QED BY <2>1, <2>4, <2>5
<1>8. CASE x.is = "changed"
    <2>1. Record(x) = <<xy>> BY <1>8 DEF Record
    <2> HIDE DEF xy
    <2>2. xy \in Tokens /\ xy.is # "renamed" BY <1>3, <1>8, <1>6
    <2>3. ReadTo(Append(tokens, xy), Parsed(t, xy)) BY <2>2, OneRead
    <2>4. tokens \o <<xy>> = Append(tokens, xy) BY <1>1, <2>2, AppendIsConcat
    <2>5. <<xy>> \in Seq(Tokens) BY <2>2
    <2>6. Parsed(t, xy) = Tally(branch, u, e, k + 1) BY <1>6, <1>8
    <2> HIDE DEF t, x
    <2>7. Record(x) \in Seq(Tokens) /\ ReadTo(tokens \o Record(x), Tally(branch, u, e, k + 1))
        BY <2>1, <2>3, <2>4, <2>5, <2>6
    <2> QED BY <2>7 DEF x
<1>9. CASE x.is = "renamed"
    <2> DEFINE y == x.was
    <2>1. Record(x) = <<xy, y>> BY <1>9 DEF Record
    <2>2. y \in Tokens BY <1>1, <1>9, EntryKinds, LooksAreTokens
    <2> HIDE DEF xy, y
    <2>3. xy \in Tokens /\ xy.is = "renamed" BY <1>3, <1>9, <1>6
    <2>4. ReadTo(Append(Append(tokens, xy), y), Parsed(t, xy)) BY <2>2, <2>3, RenameRead
    <2>5. tokens \o <<xy, y>> = Append(Append(tokens, xy), y)
        <3>1. <<xy>> \in Seq(Tokens) /\ <<y>> \in Seq(Tokens) /\ <<xy, y>> = Append(<<xy>>, y)
            BY <2>2, <2>3
        <3>2. <<xy, y>> = <<xy>> \o <<y>> BY <2>2, <3>1, AppendIsConcat
        <3>3. tokens \o (<<xy>> \o <<y>>) = (tokens \o <<xy>>) \o <<y>>
            BY <1>1, <3>1, ConcatAssociative
        <3>4. tokens \o <<xy>> = Append(tokens, xy) /\ Append(tokens, xy) \in Seq(Tokens)
            BY <1>1, <2>3, AppendIsConcat
        <3>5. Append(tokens, xy) \o <<y>> = Append(Append(tokens, xy), y)
            BY <2>2, <3>4, AppendIsConcat
        <3> QED BY <3>2, <3>3, <3>4, <3>5
    <2>6. <<xy, y>> \in Seq(Tokens) BY <2>2, <2>3
    <2>7. Parsed(t, xy) = Tally(branch, u, e, k + 1) BY <1>9, <1>6
    <2> HIDE DEF t, x
    <2>8. Record(x) \in Seq(Tokens) /\ ReadTo(tokens \o Record(x), Tally(branch, u, e, k + 1))
        BY <2>1, <2>4, <2>5, <2>6, <2>7
    <2> QED BY <2>8 DEF x
<1>10. CASE x.is \in {"unmerged", "untracked"}
    <2>1. Record(x) = <<m>> BY <1>10 DEF Record
    <2> HIDE DEF m
    <2>2. m \in Tokens /\ m.is # "renamed" BY <1>3, <1>10, <1>7
    <2>3. ReadTo(Append(tokens, m), Parsed(t, m)) BY <2>2, OneRead
    <2>4. tokens \o <<m>> = Append(tokens, m) BY <1>1, <2>2, AppendIsConcat
    <2>5. <<m>> \in Seq(Tokens) BY <2>2
    <2>6. Parsed(t, m) = Tally(branch, u, e, k + 1) BY <1>10, <1>7
    <2> HIDE DEF t, x
    <2>7. Record(x) \in Seq(Tokens) /\ ReadTo(tokens \o Record(x), Tally(branch, u, e, k + 1))
        BY <2>1, <2>3, <2>4, <2>5, <2>6
    <2> QED BY <2>7 DEF x
<1> QED BY <1>1, <1>8, <1>9, <1>10, EntryKinds

\* The recursion of FlattenSeq.
Flattens(f, recs, n) ==
    f = [i \in 1 .. n |-> IF i = 1 THEN recs[i] ELSE f[i - 1] \o recs[i]]

LEMMA FlattenExists ==
    ASSUME NEW recs, NEW n \in Nat
    PROVE  \E f : Flattens(f, recs, n)
<1> DEFINE S == {m \in Nat : \E f : Flattens(f, recs, m)}
<1>1. 0 \in S
    <2> DEFINE f == [i \in 1 .. 0 |-> << >>]
    <2>1. Flattens(f, recs, 0) BY DEF Flattens
    <2> QED BY <2>1
<1>2. ASSUME NEW m \in Nat, m \in S PROVE m + 1 \in S
    <2>1. PICK f : Flattens(f, recs, m) BY <1>2
    <2> DEFINE r == IF m = 0 THEN recs[1] ELSE f[m] \o recs[m + 1]
               h == [i \in 1 .. m + 1 |-> IF i = m + 1 THEN r ELSE f[i]]
    <2>2. ASSUME NEW i \in 1 .. m + 1
          PROVE  h[i] = IF i = 1 THEN recs[i] ELSE h[i - 1] \o recs[i]
        <3>1. CASE i = m + 1 /\ m = 0 BY <3>1
        <3>2. CASE i = m + 1 /\ m # 0
            <4>1. r = f[m] \o recs[m + 1] BY <3>2
            <4> HIDE DEF r
            <4>2. h[m + 1] = r /\ h[m] = f[m] BY <3>2
            <4>3. i - 1 = m /\ i # 1 BY <3>2
            <4> HIDE DEF h
            <4> QED BY <3>2, <4>1, <4>2, <4>3
        <3>3. CASE i # m + 1
            <4>1. i \in 1 .. m /\ h[i] = f[i] /\ (i # 1 => h[i - 1] = f[i - 1]) BY <3>3
            <4> HIDE DEF h
            <4> QED BY <2>1, <4>1 DEF Flattens
        <3> QED BY <3>1, <3>2, <3>3
    <2>3. h = [i \in 1 .. m + 1 |-> h[i]] OBVIOUS
    <2> HIDE DEF h
    <2>4. Flattens(h, recs, m + 1) BY <2>2, <2>3 DEF Flattens
    <2> QED BY <2>4
<1> HIDE DEF S
<1>3. n \in S BY <1>1, <1>2, Induction
<1> QED BY <1>3 DEF S

LEMMA FlattenSolved ==
    ASSUME NEW recs, Len(recs) \in Nat \ {0}
    PROVE  \E f : Flattens(f, recs, Len(recs)) /\ FlattenSeq(recs) = f[Len(recs)]
<1> DEFINE f[i \in 1 .. Len(recs)] == IF i = 1 THEN recs[i] ELSE f[i - 1] \o recs[i]
<1>1. f = CHOOSE g : Flattens(g, recs, Len(recs)) BY DEF Flattens
<1>2. FlattenSeq(recs) = f[Len(recs)] BY DEF FlattenSeq
<1>3. Flattens(f, recs, Len(recs)) BY <1>1, FlattenExists
<1> QED BY <1>2, <1>3

LEMMA TokensConcat ==
    \A s, t, u \in Seq(Tokens) : (s \o t) \o u = s \o (t \o u)
    BY ConcatAssociative

\* A whole report is read, and every entry in it is counted.
LEMMA ReportRead ==
    ASSUME NEW branch \in Branches, NEW far \in Nat, NEW u \in Upstreams(far),
           NEW e \in Seq(Entries)
    PROVE  ReadTo(Report(branch, u, e), Tally(branch, u, e, Len(e)))
<1> DEFINE head == HeadLines(branch) \o UpstreamLines(u)
           recs == [i \in DOMAIN e |-> Record(e[i])]
<1>1. ReadTo(head, Tally(branch, u, e, 0)) /\ head \in Seq(Tokens)
    BY HeadIsRead DEF ReadTo
<1>2. Len(e) \in Nat /\ DOMAIN e = 1 .. Len(e) OBVIOUS
<1>3. Len(recs) = Len(e) /\ \A i \in 1 .. Len(e) : recs[i] = Record(e[i])
    OBVIOUS
<1>4. Report(branch, u, e) = head \o FlattenSeq(recs)
    BY DEF Report
<1> HIDE DEF head, recs
<1>5. CASE Len(e) = 0
    <2>1. FlattenSeq(recs) = << >>
        <3>1. FlattenSeq(recs) = recs BY <1>3, <1>5 DEF FlattenSeq
        <3>2. recs = << >> BY <1>2, <1>5 DEF recs
        <3> QED BY <3>1, <3>2
    <2> QED BY <1>1, <1>4, <1>5, <2>1
<1>6. CASE Len(e) # 0
    <2>1. PICK f : Flattens(f, recs, Len(e)) /\ FlattenSeq(recs) = f[Len(e)]
        BY <1>2, <1>3, <1>6, FlattenSolved
    <2> DEFINE S == {k \in Nat : k + 1 <= Len(e) =>
                        /\ f[k + 1] \in Seq(Tokens)
                        /\ ReadTo(head \o f[k + 1], Tally(branch, u, e, k + 1))}
    <2>2. 0 \in S
        <3>1. f[1] = Record(e[1]) BY <1>2, <1>3, <1>6, <2>1 DEF Flattens
        <3> QED BY <1>1, <1>2, <1>6, <3>1, EntryRead
    <2>3. ASSUME NEW k \in Nat, k \in S PROVE k + 1 \in S
        <3>1. SUFFICES ASSUME k + 2 <= Len(e)
                       PROVE  /\ f[k + 2] \in Seq(Tokens)
                              /\ ReadTo(head \o f[k + 2], Tally(branch, u, e, k + 2))
            <4>1. (k + 1) + 1 = k + 2 /\ k + 1 \in Nat OBVIOUS
            <4> QED BY <4>1
        <3>2. f[k + 2] = f[k + 1] \o Record(e[k + 2])
            <4>1. k + 2 \in 1 .. Len(e) /\ k + 2 # 1 /\ (k + 2) - 1 = k + 1 BY <1>2, <3>1
            <4>2. f[k + 2] = f[(k + 2) - 1] \o recs[k + 2] BY <2>1, <4>1 DEF Flattens
            <4> QED BY <1>3, <4>1, <4>2
        <3>3. f[k + 1] \in Seq(Tokens) /\ ReadTo(head \o f[k + 1], Tally(branch, u, e, k + 1))
            BY <1>2, <2>3, <3>1
        <3>4. /\ Record(e[k + 2]) \in Seq(Tokens)
              /\ ReadTo((head \o f[k + 1]) \o Record(e[k + 2]), Tally(branch, u, e, k + 2))
            <4>1. k + 1 \in Nat /\ (k + 1) + 1 = k + 2 OBVIOUS
            <4> QED BY <3>1, <3>3, <4>1, EntryRead
        <3>5. (head \o f[k + 1]) \o Record(e[k + 2]) = head \o (f[k + 1] \o Record(e[k + 2]))
            <4>1. head \in Seq(Tokens) /\ f[k + 1] \in Seq(Tokens) /\ Record(e[k + 2]) \in Seq(Tokens)
                BY <1>1, <3>3, <3>4
            <4> QED BY <4>1, TokensConcat, Zenon
        <3>6. f[k + 2] \in Seq(Tokens) BY <3>2, <3>3, <3>4, ConcatProperties
        <3> QED BY <3>2, <3>4, <3>5, <3>6
    <2> HIDE DEF S
    <2>4. Nat \subseteq S BY <2>2, <2>3, Induction
    <2>5. ReadTo(head \o f[Len(e)], Tally(branch, u, e, Len(e)))
        <3>1. Len(e) - 1 \in Nat /\ (Len(e) - 1) + 1 = Len(e) BY <1>2, <1>6
        <3>2. Len(e) - 1 \in S BY <2>4, <3>1
        <3>3. ReadTo(head \o f[(Len(e) - 1) + 1], Tally(branch, u, e, (Len(e) - 1) + 1))
            BY <1>2, <3>1, <3>2 DEF S
        <3> QED BY <3>1, <3>3
    <2> QED BY <1>4, <2>1, <2>5
<1> QED BY <1>5, <1>6

\* What git may answer, field by field.
LEMMA CheckoutFields ==
    ASSUME NEW size \in Nat, NEW far \in Nat, NEW c \in Checkouts(size, far)
    PROVE  /\ c.answers \in BOOLEAN /\ c.remote \in BOOLEAN
           /\ c.branch \in Branches /\ c.up \in Upstreams(far)
           /\ c.entries \in Seq(Entries) /\ c.stashes \in Nat
<1>1. /\ c.answers \in BOOLEAN /\ c.remote \in BOOLEAN
      /\ c.branch \in {"main", None} /\ c.up \in Upstreams(far)
      /\ c.entries \in BoundedSeq(Entries, size) /\ c.stashes \in 0 .. far
    BY Zenon DEF Checkouts
<1>2. c.entries \in UNION {[1 .. m -> Entries] : m \in 0 .. size}
    BY <1>1, Zenon DEF BoundedSeq, SeqOf
<1>3. PICK m \in 0 .. size : c.entries \in [1 .. m -> Entries]
    BY <1>2
<1>4. c.entries \in Seq(Entries)
    BY <1>3
<1> QED BY <1>1, <1>4 DEF Branches

\* The status of a checkout that git answers for.
LEMMA StatusIsTally ==
    ASSUME NEW size \in Nat, NEW far \in Nat, NEW c \in Checkouts(size, far), c.answers
    PROVE  Inspect(c).status = Tally(c.branch, c.up, c.entries, Len(c.entries))
<1>1. Inspect(c).status = Parse(Report(c.branch, c.up, c.entries))
    BY DEF Inspect
<1> QED BY <1>1, CheckoutFields, ReportRead DEF Parse, ReadTo

\* Every status is what git reported, however many paths a report has and
\* however far a branch and its upstream are apart (CountedAsReported, for
\* reports of every size: parsePorcelainV2 never loses step with git).
THEOREM StatusesAreAsReported == \A size, far \in Nat : CountedAsReported(size, far)
<1>1. ASSUME NEW size \in Nat, NEW far \in Nat PROVE CountedAsReported(size, far)
    <2>1. SUFFICES ASSUME NEW c \in Checkouts(size, far), c.answers
                   PROVE  LET s == Inspect(c).status
                          IN  /\ s.branch = c.branch /\ s.detached = (c.branch = None)
                              /\ (s.upstream # None) = c.up.set
                              /\ s.ahead = c.up.ahead /\ s.behind = c.up.behind
                              /\ s.staged = HowMany(c.entries, LAMBDA e : e.staged)
                              /\ s.unstaged = HowMany(c.entries, LAMBDA e : e.unstaged)
                              /\ s.conflicted = HowMany(c.entries, LAMBDA e : e.is = "unmerged")
                              /\ s.untracked = HowMany(c.entries, LAMBDA e : e.is = "untracked")
        BY Zenon DEF CountedAsReported
    <2> DEFINE e == c.entries
               s == Tally(c.branch, c.up, e, Len(e))
    <2>2. Inspect(c).status = s BY <2>1, StatusIsTally
    <2>3. e \in Seq(Entries) /\ DOMAIN e = 1 .. Len(e) BY CheckoutFields
    <2>4. s.branch = c.branch /\ s.ahead = c.up.ahead /\ s.behind = c.up.behind
        BY DEF Tally, Status
    <2>5. s.detached = (c.branch = None)
        BY Zenon DEF Tally, Status
    <2>6. (s.upstream # None) = c.up.set
        <3>1. s.upstream = IF c.up.set THEN "origin/main" ELSE None BY DEF Tally, Status
        <3>2. "origin/main" # None BY DEF None
        <3>3. c.up.set \in BOOLEAN BY CheckoutFields, UpstreamKinds
        <3> HIDE DEF s
        <3>4. CASE c.up.set = TRUE BY <3>1, <3>2, <3>4
        <3>5. CASE c.up.set = FALSE BY <3>1, <3>5
        <3> QED BY <3>3, <3>4, <3>5
    <2>7. /\ s.staged = Cardinality(Staged(e) \cap 1 .. Len(e))
          /\ s.unstaged = Cardinality(Unstaged(e) \cap 1 .. Len(e))
          /\ s.conflicted = Cardinality(Unmerged(e) \cap 1 .. Len(e))
          /\ s.untracked = Cardinality(Untracked(e) \cap 1 .. Len(e))
        BY DEF Tally, Status
    <2>8. /\ Staged(e) \cap 1 .. Len(e) = {i \in DOMAIN e : e[i].staged}
          /\ Unstaged(e) \cap 1 .. Len(e) = {i \in DOMAIN e : e[i].unstaged}
          /\ Unmerged(e) \cap 1 .. Len(e) = {i \in DOMAIN e : e[i].is = "unmerged"}
          /\ Untracked(e) \cap 1 .. Len(e) = {i \in DOMAIN e : e[i].is = "untracked"}
        BY <2>3 DEF Staged, Unstaged, Unmerged, Untracked
    <2> HIDE DEF s
    <2> QED BY <2>2, <2>4, <2>5, <2>6, <2>7, <2>8 DEF HowMany
<1> QED BY <1>1

\* The chips of an inspection that succeeded: none is there only when nothing
\* is the matter.
LEMMA NoChips ==
    ASSUME NEW r, ~r.err, Chips(r) = {}
    PROVE  LET s == r.status
           IN  /\ ~(s.conflicted > 0) /\ ~(s.behind > 0) /\ ~(s.ahead > 0)
               /\ ~(s.staged > 0) /\ ~(s.unstaged > 0) /\ ~(s.untracked > 0)
               /\ ~(r.stashes > 0) /\ ~s.detached /\ r.remote
               /\ ~(s.upstream = None)
<1> DEFINE s == r.status
<1>1. ASSUME NEW c, c \in {"conflicted", "behind", "ahead", "staged", "modified", "untracked",
                           "stashed", "detached", "no upstream", "no remote"}
      PROVE ~(CASE c = "conflicted" -> s.conflicted > 0
                [] c = "behind" -> s.behind > 0
                [] c = "ahead" -> s.ahead > 0
                [] c = "staged" -> s.staged > 0
                [] c = "modified" -> s.unstaged > 0
                [] c = "untracked" -> s.untracked > 0
                [] c = "stashed" -> r.stashes > 0
                [] c = "detached" -> s.detached
                [] c = "no upstream" -> ~s.detached /\ s.upstream = None /\ r.remote
                [] c = "no remote" -> ~r.remote)
    BY <1>1, Zenon DEF Chips
<1> HIDE DEF s
<1>2. ~(s.conflicted > 0) BY <1>1
<1>3. ~(s.behind > 0) BY <1>1
<1>4. ~(s.ahead > 0) BY <1>1
<1>5. ~(s.staged > 0) BY <1>1
<1>6. ~(s.unstaged > 0) BY <1>1
<1>7. ~(s.untracked > 0) BY <1>1
<1>8. ~(r.stashes > 0) BY <1>1
<1>9. ~s.detached BY <1>1
<1>10. r.remote BY <1>1
<1>11. ~(s.upstream = None) BY <1>1, <1>9, <1>10
<1> QED BY <1>2, <1>3, <1>4, <1>5, <1>6, <1>7, <1>8, <1>9, <1>10, <1>11 DEF s

\* A report with an entry in it is counted somewhere.
LEMMA EntriesShow ==
    ASSUME NEW e \in Seq(Entries), e # << >>, NEW branch, NEW u
    PROVE  LET s == Tally(branch, u, e, Len(e))
           IN  s.staged + s.unstaged + s.untracked + s.conflicted > 0
<1> DEFINE all == 1 .. Len(e)
<1>1. Len(e) \in Nat /\ 1 \in DOMAIN e /\ 1 \in all /\ e[1] \in Entries
    OBVIOUS
<1>2. 1 \in Staged(e) \/ 1 \in Unstaged(e) \/ 1 \in Unmerged(e) \/ 1 \in Untracked(e)
    <2>1. e[1].staged \/ e[1].unstaged \/ e[1].is \in {"unmerged", "untracked"}
        <3> DEFINE x == e[1]
        <3>1. x \in [is : {"unmerged", "untracked"}, staged : {FALSE}, unstaged : {FALSE}]
              \/ x.staged \/ x.unstaged
            BY <1>1, Zenon DEF Entries
        <3>2. x \in [is : {"unmerged", "untracked"}, staged : {FALSE}, unstaged : {FALSE}]
              => x.is \in {"unmerged", "untracked"}
            BY Zenon
        <3> QED BY <3>1, <3>2
    <2> QED BY <1>1, <2>1 DEF Staged, Unstaged, Unmerged, Untracked
<1>3. ASSUME NEW A, 1 \in A PROVE Cardinality(A \cap all) # 0
    <2>1. IsFiniteSet(all) BY <1>1, FS_Interval
    <2>2. A \cap all \subseteq all /\ A \cap all # {} BY <1>1, <1>3
    <2> HIDE DEF all
    <2>3. IsFiniteSet(A \cap all) BY <2>1, <2>2, FS_Subset
    <2> QED BY <2>2, <2>3, FS_EmptySet
<1>4. /\ Cardinality(Staged(e) \cap all) \in Nat /\ Cardinality(Unstaged(e) \cap all) \in Nat
      /\ Cardinality(Unmerged(e) \cap all) \in Nat /\ Cardinality(Untracked(e) \cap all) \in Nat
    BY <1>1, CountNext
<1> DEFINE s == Tally(branch, u, e, Len(e))
<1>5. /\ s.staged = Cardinality(Staged(e) \cap all)
      /\ s.unstaged = Cardinality(Unstaged(e) \cap all)
      /\ s.conflicted = Cardinality(Unmerged(e) \cap all)
      /\ s.untracked = Cardinality(Untracked(e) \cap all)
    BY DEF Tally, Status
<1> HIDE DEF s, all
<1> QED BY <1>2, <1>3, <1>4, <1>5 DEF s

\* Numbers are counted in a status.
Counts(s) ==
    /\ s.staged \in Nat /\ s.unstaged \in Nat /\ s.conflicted \in Nat /\ s.untracked \in Nat
    /\ s.ahead \in Nat /\ s.behind \in Nat

\* The row's word and the summary agree, whatever the status.
LEMMA WordAndSummary ==
    ASSUME NEW r, Counts(r.status)
    PROVE  StatusWord(r) = "ok" <=> Counted(r) = {}
<1>1. CASE r.err
    BY <1>1 DEF StatusWord, Counted
<1>2. CASE ~r.err
    <2> DEFINE s == r.status
    <2>1. StatusWord(r) = "ok" <=> ~Dirty(s) /\ ~(s.ahead > 0) /\ ~(s.behind > 0)
        BY <1>2 DEF StatusWord, WordOfStatus, Dirty, Counts
    <2>2. ASSUME NEW c
          PROVE  c \in Counted(r) <=>
                    \/ c = "dirty" /\ Dirty(s)
                    \/ c = "ahead" /\ s.ahead > 0
                    \/ c = "behind" /\ s.behind > 0
        BY <1>2 DEF Counted
    <2> QED BY <2>1, <2>2
<1> QED BY <1>1, <1>2

LEMMA StatusCounts ==
    ASSUME NEW size \in Nat, NEW far \in Nat, NEW c \in Checkouts(size, far)
    PROVE  Counts(Inspect(c).status)
<1>1. CASE c.answers
    <2>1. c.up.ahead \in Nat /\ c.up.behind \in Nat /\ Len(c.entries) \in Nat
        <3>1. c.up \in Upstreams(far) /\ c.entries \in Seq(Entries) BY CheckoutFields
        <3>2. c.up.ahead \in Nat /\ c.up.behind \in Nat BY <3>1, UpstreamKinds
        <3> QED BY <3>1, <3>2
    <2>2. Counts(Tally(c.branch, c.up, c.entries, Len(c.entries)))
        BY <2>1, CountNext DEF Counts, Tally, Status
    <2> QED BY <1>1, <2>2, StatusIsTally
<1>2. CASE ~c.answers
    BY <1>2 DEF Inspect, Counts, NoStatus
<1> QED BY <1>1, <1>2

\* No row is better than what git could report of the checkout it shows: `clean'
\* is said only of a checkout that is, but for a stash that git failed to list,
\* and the row's word, its chips and the summary agree (RowNeverReassures, for
\* reports of every size).
THEOREM RowsAreHonest == \A size, far \in Nat : RowNeverReassures(size, far)
<1>1. ASSUME NEW size \in Nat, NEW far \in Nat PROVE RowNeverReassures(size, far)
    <2>1. SUFFICES ASSUME NEW c \in Checkouts(size, far)
                   PROVE  LET r == Inspect(c)
                          IN  /\ SaysClean(r) =>
                                    /\ c.answers /\ c.branch # None /\ c.up.set
                                    /\ c.tellsRemote /\ c.remote
                                    /\ c.entries = << >> /\ (c.listsStash => c.stashes = 0)
                                    /\ c.up.ahead = 0 /\ c.up.behind = 0
                              /\ StatusWord(r) = "ok" <=> Counted(r) = {}
                              /\ c.entries # << >> => StatusWord(r) \in {"dirty", "error"}
                              /\ SaysClean(r) => StatusWord(r) = "ok" /\ Clean(r.status)
        BY Zenon DEF RowNeverReassures
    <2> DEFINE r == Inspect(c)
               s == r.status
               t == Tally(c.branch, c.up, c.entries, Len(c.entries))
    <2>2. Counts(s) BY StatusCounts
    <2>3. StatusWord(r) = "ok" <=> Counted(r) = {} BY <2>2, WordAndSummary
    <2>4. /\ r.err = ~c.answers
          /\ c.answers => /\ s = t /\ (r.remote <=> c.tellsRemote /\ c.remote)
                          /\ c.listsStash => r.stashes = c.stashes
        BY StatusIsTally DEF Inspect
    <2>5. /\ t.branch = c.branch /\ (t.detached <=> c.branch = None)
          /\ t.ahead = c.up.ahead /\ t.behind = c.up.behind
          /\ t.upstream = IF c.up.set THEN "origin/main" ELSE None
        BY DEF Tally, Status
    <2>6. c.stashes \in Nat /\ c.entries \in Seq(Entries) BY CheckoutFields
    <2>7. c.entries # << >> => t.staged + t.unstaged + t.untracked + t.conflicted > 0
        BY <2>6, EntriesShow
    <2> HIDE DEF r, t
    <2>8. ASSUME SaysClean(r)
          PROVE  /\ c.answers /\ c.branch # None /\ c.up.set /\ c.tellsRemote /\ c.remote
                 /\ c.entries = << >> /\ (c.listsStash => c.stashes = 0)
                 /\ c.up.ahead = 0 /\ c.up.behind = 0
                 /\ StatusWord(r) = "ok" /\ Clean(s)
        <3>1. ~r.err /\ Chips(r) = {} BY <2>8 DEF SaysClean, Chips
        <3>2. c.answers /\ s = t BY <2>4, <3>1
        <3>3. /\ ~(s.conflicted > 0) /\ ~(s.behind > 0) /\ ~(s.ahead > 0)
              /\ ~(s.staged > 0) /\ ~(s.unstaged > 0) /\ ~(s.untracked > 0)
              /\ ~(r.stashes > 0) /\ ~s.detached /\ r.remote /\ ~(s.upstream = None)
            BY <3>1, NoChips
        <3>4. /\ s.conflicted = 0 /\ s.behind = 0 /\ s.ahead = 0
              /\ s.staged = 0 /\ s.unstaged = 0 /\ s.untracked = 0
            BY <2>2, <3>3 DEF Counts
        <3>5. Clean(s) /\ StatusWord(r) = "ok"
            BY <3>1, <3>4 DEF Clean, Dirty, StatusWord, WordOfStatus
        <3>6. c.entries = << >> /\ (c.listsStash => c.stashes = 0)
            BY <2>4, <2>6, <2>7, <3>2, <3>3, <3>4
        <3>7. /\ c.branch # None /\ c.up.set /\ c.tellsRemote /\ c.remote
              /\ c.up.ahead = 0 /\ c.up.behind = 0
            BY <2>4, <2>5, <3>2, <3>3, <3>4
        <3> QED BY <3>2, <3>5, <3>6, <3>7
    <2>9. c.entries # << >> => StatusWord(r) \in {"dirty", "error"}
        <3>1. CASE r.err BY <3>1 DEF StatusWord
        <3>2. CASE ~r.err
            <4>1. c.entries # << >> => Dirty(s) BY <2>4, <2>7, <3>2 DEF Dirty
            <4> QED BY <2>2, <3>2, <4>1 DEF StatusWord, WordOfStatus, Counts
        <3> QED BY <3>1, <3>2
    <2> QED BY <2>3, <2>8, <2>9 DEF r
<1> QED BY <1>1

----------------------------------------------------------------------------
(* Paths.  The recursion of Join is FoldLeft's, over sets of positions. *)

Joins(g, segs, n) ==
    g = [s \in SUBSET (1 .. n) |->
            IF s = {} THEN << >> ELSE Enter(g[s \ {Max(s)}], segs[Max(s)])]

LEMMA Greatest ==
    ASSUME NEW n \in Nat, NEW s \in SUBSET (1 .. n), n \in s
    PROVE  Max(s) = n
<1>1. \A y \in s : n >= y OBVIOUS
<1>2. \A x \in s : (\A y \in s : x >= y) => x = n OBVIOUS
<1> QED BY <1>1, <1>2 DEF Max

LEMMA JoinExists ==
    ASSUME NEW segs, NEW n \in Nat
    PROVE  \E g : Joins(g, segs, n)
<1> DEFINE S == {m \in Nat : \E g : Joins(g, segs, m)}
<1>1. 0 \in S
    <2> DEFINE g == [s \in SUBSET (1 .. 0) |-> << >>]
    <2>1. \A s \in SUBSET (1 .. 0) : s = {} OBVIOUS
    <2>2. Joins(g, segs, 0) BY <2>1 DEF Joins
    <2> QED BY <2>2
<1>2. ASSUME NEW m \in Nat, m \in S PROVE m + 1 \in S
    <2>1. PICK g : Joins(g, segs, m) BY <1>2
    <2> DEFINE h == [s \in SUBSET (1 .. m + 1) |->
                        IF m + 1 \in s THEN Enter(g[s \ {m + 1}], segs[m + 1]) ELSE g[s]]
    <2>2. ASSUME NEW s \in SUBSET (1 .. m + 1)
          PROVE  h[s] = IF s = {} THEN << >> ELSE Enter(h[s \ {Max(s)}], segs[Max(s)])
        <3>1. CASE m + 1 \in s
            <4>1. Max(s) = m + 1 BY <3>1, Greatest
            <4>2. s \ {m + 1} \in SUBSET (1 .. m) OBVIOUS
            <4>3. h[s \ {m + 1}] = g[s \ {m + 1}] BY <4>2
            <4>4. h[s] = Enter(g[s \ {m + 1}], segs[m + 1]) BY <3>1
            <4> QED BY <3>1, <4>1, <4>3, <4>4
        <3>2. CASE m + 1 \notin s
            <4>1. s \in SUBSET (1 .. m) /\ s \ {Max(s)} \in SUBSET (1 .. m)
                <5>1. \A x \in s : x \in 1 .. m BY <3>2
                <5> QED BY <5>1
            <4>2. h[s] = g[s] /\ h[s \ {Max(s)}] = g[s \ {Max(s)}] BY <3>2, <4>1
            <4> HIDE DEF h
            <4> QED BY <2>1, <4>1, <4>2 DEF Joins
        <3> QED BY <3>1, <3>2
    <2>3. h = [s \in SUBSET (1 .. m + 1) |-> h[s]] OBVIOUS
    <2> HIDE DEF h
    <2>4. Joins(h, segs, m + 1) BY <2>2, <2>3 DEF Joins
    <2> QED BY <2>4
<1> HIDE DEF S
<1>3. n \in S BY <1>1, <1>2, Induction
<1> QED BY <1>3 DEF S

\* The place that the first elements lead to, one element after the other.
LEMMA JoinSolved ==
    ASSUME NEW S, NEW segs \in Seq(S)
    PROVE  \E at : /\ at[0] = << >> /\ Join(segs) = at[Len(segs)]
                   /\ \A k \in 1 .. Len(segs) : at[k] = Enter(at[k - 1], segs[k])
<1> DEFINE D == DOMAIN segs
           f[s \in SUBSET D] == IF s = {} THEN << >> ELSE LET x == Max(s) IN Enter(f[s \ {x}], segs[x])
<1>1. f = CHOOSE g : g = [s \in SUBSET D |-> IF s = {} THEN << >> ELSE Enter(g[s \ {Max(s)}], segs[Max(s)])]
    OBVIOUS
<1>2. Join(segs) = f[D] BY DEF Join, FoldLeft, MapThenFoldSet
<1>3. D = 1 .. Len(segs) /\ Len(segs) \in Nat OBVIOUS
<1> HIDE DEF D, f
<1>4. Joins(f, segs, Len(segs))
    <2>1. \E g : Joins(g, segs, Len(segs)) BY <1>3, JoinExists
    <2> QED BY <1>1, <1>3, <2>1 DEF Joins
<1> DEFINE at == [k \in 0 .. Len(segs) |-> f[1 .. k]]
<1>5. at[0] = << >>
    <2>1. 1 .. 0 = {} /\ at[0] = f[1 .. 0] BY <1>3
    <2>2. f[{}] = << >> BY <1>4 DEF Joins
    <2> QED BY <2>1, <2>2
<1>6. Join(segs) = at[Len(segs)] BY <1>2, <1>3
<1>7. ASSUME NEW k \in 1 .. Len(segs) PROVE at[k] = Enter(at[k - 1], segs[k])
    <2>1. 1 .. k \in SUBSET (1 .. Len(segs)) /\ 1 .. k # {} /\ k \in 1 .. k
        <3>1. k \in Nat /\ k \in 1 .. k BY <1>3
        <3>2. \A x \in 1 .. k : x \in 1 .. Len(segs) BY <1>3
        <3>3. 1 .. k \subseteq 1 .. Len(segs) BY <3>2, Zenon
        <3> HIDE DEF D
        <3> QED BY <3>1, <3>3, Zenon
    <2>2. Max(1 .. k) = k BY <2>1, Greatest
    <2>3. (1 .. k) \ {k} = 1 .. (k - 1) BY <1>3
    <2>4. f[1 .. k] = Enter(f[1 .. (k - 1)], segs[k]) BY <1>4, <2>1, <2>2, <2>3 DEF Joins
    <2>5. at[k] = f[1 .. k] /\ at[k - 1] = f[1 .. (k - 1)] BY <1>3
    <2> QED BY <2>4, <2>5
<1> HIDE DEF at
<1> QED BY <1>5, <1>6, <1>7

\* Join leads to a path of the elements that it was given.
LEMMA JoinType ==
    ASSUME NEW S, NEW segs \in Seq(S)
    PROVE  Join(segs) \in Seq(S)
<1>1. PICK at : /\ at[0] = << >> /\ Join(segs) = at[Len(segs)]
                /\ \A k \in 1 .. Len(segs) : at[k] = Enter(at[k - 1], segs[k])
    BY JoinSolved
<1> DEFINE T == {k \in Nat : k <= Len(segs) => at[k] \in Seq(S)}
<1>2. 0 \in T
    <2>1. << >> \in Seq(S) OBVIOUS
    <2>2. at[0] \in Seq(S) BY <1>1, <2>1, Zenon
    <2> QED BY <2>2
<1>3. ASSUME NEW k \in Nat, k \in T PROVE k + 1 \in T
    <2>1. SUFFICES ASSUME k + 1 <= Len(segs) PROVE at[k + 1] \in Seq(S) OBVIOUS
    <2>2. at[k] \in Seq(S) /\ segs[k + 1] \in S /\ at[k + 1] = Enter(at[k], segs[k + 1])
        BY <1>1, <1>3, <2>1
    <2>3. CASE segs[k + 1] \in {"", "."} BY <2>2, <2>3 DEF Enter
    <2>4. CASE segs[k + 1] = ".."
        <3>1. at[k] # << >> => Front(at[k]) \in Seq(S) BY <2>2 DEF Front
        <3> QED BY <2>2, <2>4, <3>1 DEF Enter
    <2>5. CASE segs[k + 1] \notin {"", ".", ".."}
        <3>1. Enter(at[k], segs[k + 1]) = Append(at[k], segs[k + 1]) BY <2>5 DEF Enter
        <3> QED BY <2>2, <3>1
    <2> QED BY <2>3, <2>4, <2>5
<1> HIDE DEF T
<1>4. Len(segs) \in T BY <1>2, <1>3, Induction
<1> QED BY <1>1, <1>4 DEF T

\* Path elements as they are stored: none is empty, and none is a dot's.
Plain(segs) == \A i \in DOMAIN segs : segs[i] \notin {"", ".", ".."}

\* They lead to themselves.
LEMMA JoinPlain ==
    ASSUME NEW S, NEW segs \in Seq(S), Plain(segs)
    PROVE  Join(segs) = segs
<1>1. PICK at : /\ at[0] = << >> /\ Join(segs) = at[Len(segs)]
                /\ \A k \in 1 .. Len(segs) : at[k] = Enter(at[k - 1], segs[k])
    BY JoinSolved
<1> DEFINE T == {k \in Nat : k <= Len(segs) => at[k] = SubSeq(segs, 1, k)}
<1>2. 0 \in T
    <2>1. SubSeq(segs, 1, 0) = << >> BY SubSeqEmpty
    <2>2. at[0] = SubSeq(segs, 1, 0) BY <1>1, <2>1, Zenon
    <2> QED BY <2>2
<1>3. ASSUME NEW k \in Nat, k \in T PROVE k + 1 \in T
    <2>1. SUFFICES ASSUME k + 1 <= Len(segs) PROVE at[k + 1] = SubSeq(segs, 1, k + 1) OBVIOUS
    <2>2. at[k] = SubSeq(segs, 1, k) /\ at[k + 1] = Enter(at[k], segs[k + 1])
        BY <1>1, <1>3, <2>1
    <2>3. segs[k + 1] \notin {"", ".", ".."}
        <3>1. k + 1 \in DOMAIN segs BY <2>1
        <3> QED BY <3>1 DEF Plain
    <2>4. at[k + 1] = Append(SubSeq(segs, 1, k), segs[k + 1]) BY <2>2, <2>3 DEF Enter
    <2>5. Append(SubSeq(segs, 1, k), segs[k + 1]) = SubSeq(segs, 1, k + 1) BY <2>1
    <2> QED BY <2>4, <2>5
<1> HIDE DEF T
<1>4. Len(segs) \in T BY <1>2, <1>3, Induction
<1>5. Join(segs) = SubSeq(segs, 1, Len(segs)) BY <1>1, <1>4 DEF T
<1> QED BY <1>5, SubSeqFull

\* The places between two slashes.
Slash(segs, i) == segs[i] = ""

\* Trim keeps what is between the first and the last element that is one.
LEMMA TrimBetween ==
    ASSUME NEW S, NEW segs \in Seq(S), NEW a \in 1 .. Len(segs), NEW b \in 1 .. Len(segs),
           ~Slash(segs, a), ~Slash(segs, b),
           \A i \in 1 .. Len(segs) : i < a \/ i > b => Slash(segs, i)
    PROVE  Trim(segs) = SubSeq(segs, a, b)
<1> DEFINE I == {i \in 1 .. Len(segs) : ~Slash(segs, i)}
<1>1. a \in I /\ b \in I /\ \A i \in I : i \in Nat /\ a <= i /\ i <= b
    <2>1. Len(segs) \in Nat /\ a \in Nat /\ b \in Nat OBVIOUS
    <2>2. \A i \in 1 .. Len(segs) : i \in I => ~(i < a) /\ ~(i > b) OBVIOUS
    <2>3. \A i \in 1 .. Len(segs) : i \in I => a <= i /\ i <= b BY <2>1, <2>2
    <2>4. a \in I /\ b \in I OBVIOUS
    <2>5. \A i \in I : i \in 1 .. Len(segs) OBVIOUS
    <2> HIDE DEF I
    <2> QED BY <2>1, <2>3, <2>4, <2>5
<1>2. SelectInSeq(segs, LAMBDA x : x # "") = IF I # {} THEN Min(I) ELSE 0
    BY DEF SelectInSeq, Slash
<1>3. SelectLastInSeq(segs, LAMBDA x : x # "") = IF I # {} THEN Max(I) ELSE 0
    BY DEF SelectLastInSeq, Slash
<1> HIDE DEF I
<1>4. a # 0 /\ I # {} BY <1>1
<1>5. Min(I) = a
    <2>1. \A x \in I : (\A y \in I : x <= y) => x = a BY <1>1
    <2> QED BY <1>1, <2>1 DEF Min
<1>6. Max(I) = b
    <2>1. \A x \in I : (\A y \in I : x >= y) => x = b BY <1>1
    <2>2. \A y \in I : b >= y BY <1>1
    <2> QED BY <1>1, <2>1, <2>2 DEF Max
<1>7. /\ SelectInSeq(segs, LAMBDA x : x # "") = a
      /\ SelectLastInSeq(segs, LAMBDA x : x # "") = b
    BY <1>2, <1>3, <1>4, <1>5, <1>6, Zenon
<1> QED BY <1>4, <1>7, Zenon DEF Trim

LEMMA TrimNothing ==
    ASSUME NEW S, NEW segs \in Seq(S), \A i \in 1 .. Len(segs) : Slash(segs, i)
    PROVE  Trim(segs) = << >>
<1>1. SelectInSeq(segs, LAMBDA x : x # "") = 0
    BY DEF SelectInSeq, Slash
<1> QED BY <1>1 DEF Trim

\* What stands between no slashes is left as it is.
LEMMA TrimPlain ==
    ASSUME NEW S, NEW segs \in Seq(S), \A i \in 1 .. Len(segs) : ~Slash(segs, i)
    PROVE  Trim(segs) = segs
<1>1. CASE Len(segs) = 0
    <2>1. segs = << >> BY <1>1
    <2>2. \A i \in 1 .. Len(segs) : Slash(segs, i) BY <1>1
    <2> QED BY <2>1, <2>2, TrimNothing
<1>2. CASE Len(segs) # 0
    <2>1. Len(segs) \in Nat OBVIOUS
    <2>3. 1 \in 1 .. Len(segs) /\ Len(segs) \in 1 .. Len(segs) BY <1>2, <2>1
    <2>4. \A i \in 1 .. Len(segs) : ~(i < 1 \/ i > Len(segs)) BY <2>1
    <2>2. Trim(segs) = SubSeq(segs, 1, Len(segs)) BY <2>3, <2>4, TrimBetween
    <2> QED BY <2>2, SubSeqFull
<1> QED BY <1>1, <1>2

LEMMA LastOfSome ==
    ASSUME NEW n \in Nat, NEW T, T \subseteq 1 .. n, T # {}
    PROVE  \E x \in T : \A y \in T : y <= x
<1> DEFINE U == {n - x : x \in T}
<1>1. U \subseteq Nat /\ U # {}
    <2>1. \A x \in T : x \in 1 .. n OBVIOUS
    <2>2. \A x \in 1 .. n : n - x \in Nat OBVIOUS
    <2> QED BY <2>1, <2>2
<1>2. PICK u \in U : \A v \in U : u <= v BY <1>1, Least
<1>3. PICK x \in T : u = n - x OBVIOUS
<1>4. ASSUME NEW y \in T PROVE y <= x
    <2>1. u <= n - y BY <1>2
    <2> QED BY <1>3, <2>1
<1> QED BY <1>4

LEMMA TrimType ==
    ASSUME NEW S, NEW segs \in Seq(S)
    PROVE  Trim(segs) \in Seq(S)
<1> DEFINE I == {i \in 1 .. Len(segs) : ~Slash(segs, i)}
<1>1. CASE I = {}
    <2>1. Trim(segs) = << >> BY <1>1, TrimNothing
    <2> QED BY <2>1
<1>2. CASE I # {}
    <2>1. I \subseteq Nat /\ I \subseteq 1 .. Len(segs) /\ Len(segs) \in Nat
        <3>1. Len(segs) \in Nat /\ \A i \in I : i \in 1 .. Len(segs) OBVIOUS
        <3>2. \A i \in 1 .. Len(segs) : i \in Nat BY <3>1
        <3> HIDE DEF I
        <3> QED BY <3>1, <3>2
    <2> HIDE DEF I
    <2>2. PICK a \in I : \A y \in I : a <= y BY <1>2, <2>1, Least
    <2>3. PICK b \in I : \A y \in I : y <= b BY <1>2, <2>1, LastOfSome
    <2>4. \A i \in 1 .. Len(segs) : i < a \/ i > b => Slash(segs, i)
        <3>1. \A i \in I : ~(i < a \/ i > b) BY <2>1, <2>2, <2>3
        <3> QED BY <3>1 DEF I
    <2>5. ~Slash(segs, a) /\ ~Slash(segs, b) BY DEF I
    <2>6. a \in 1 .. Len(segs) /\ b \in 1 .. Len(segs) BY <2>1
    <2>7. Trim(segs) = SubSeq(segs, a, b) BY <2>4, <2>5, <2>6, TrimBetween
    <2>8. \A i \in a .. b : segs[i] \in S BY <2>6
    <2> QED BY <2>6, <2>7, <2>8, SubSeqProperties
<1> QED BY <1>1, <1>2

----------------------------------------------------------------------------
(* Places. *)

AllLegal(rel) == \A i \in DOMAIN rel : Legal(rel[i])

\* What is left of a path's elements without the blanks at its ends.
Bare == {"", "tool", ".."}

LEMMA BareSegments == \A x : Unled(x) \in {x} \cup Bare /\ Unended(x) \in {x} \cup Bare
    BY DEF Unled, Unended, Bare

LEMMA OneElement ==
    ASSUME NEW S, NEW segs \in Seq(S), NEW k \in 1 .. Len(segs), NEW x \in S
    PROVE  [segs EXCEPT ![k] = x] \in Seq(S)
<1>1. segs \in [1 .. Len(segs) -> S] /\ Len(segs) \in Nat OBVIOUS
<1>2. [segs EXCEPT ![k] = x] \in [1 .. Len(segs) -> S] BY <1>1
<1> QED BY <1>1, <1>2

LEMMA TrimSpaceTypes ==
    ASSUME NEW S, Bare \subseteq S, NEW segs \in Seq(S)
    PROVE  TrimLeft(segs) \in Seq(S) /\ TrimRight(segs) \in Seq(S)
<1>1. CASE segs = << >> BY <1>1 DEF TrimLeft, TrimRight
<1>2. CASE segs # << >>
    <2>1. 1 \in 1 .. Len(segs) /\ Len(segs) \in 1 .. Len(segs) BY <1>2
    <2>2. segs[1] \in S /\ segs[Len(segs)] \in S BY <2>1
    <2>3. Unled(segs[1]) \in S /\ Unended(segs[Len(segs)]) \in S BY <2>2, BareSegments
    <2>4. TrimLeft(segs) = [segs EXCEPT ![1] = Unled(segs[1])] BY <1>2, Zenon DEF TrimLeft
    <2>5. TrimRight(segs) = [segs EXCEPT ![Len(segs)] = Unended(segs[Len(segs)])]
        BY <1>2, Zenon DEF TrimRight
    <2>6. /\ [segs EXCEPT ![1] = Unled(segs[1])] \in Seq(S)
          /\ [segs EXCEPT ![Len(segs)] = Unended(segs[Len(segs)])] \in Seq(S)
        BY <2>1, <2>3, OneElement, Zenon
    <2> QED BY <2>4, <2>5, <2>6
<1> QED BY <1>1, <1>2

LEMMA TrimSpaceType ==
    ASSUME NEW S, NEW segs \in Seq(S)
    PROVE  Trim(TrimSpace(segs)) \in Seq(S \cup Bare)
<1> DEFINE T == S \cup Bare
<1>1. Bare \subseteq T /\ segs \in Seq(T) OBVIOUS
<1> HIDE DEF T
<1>2. TrimSpace(segs) \in Seq(T) BY <1>1, TrimSpaceTypes DEF TrimSpace
<1>3. Trim(TrimSpace(segs)) \in Seq(T) BY <1>2, TrimType
<1> QED BY <1>3 DEF T

\* A path with no blanks at its ends is left as it is.
LEMMA NoBlanks ==
    ASSUME NEW S, NEW segs \in Seq(S), segs # << >> => Unled(segs[1]) = segs[1],
           segs # << >> => Unended(segs[Len(segs)]) = segs[Len(segs)]
    PROVE  TrimLeft(segs) = segs /\ TrimRight(segs) = segs /\ TrimSpace(segs) = segs
<1>1. \A k : [segs EXCEPT ![k] = segs[k]] = segs OBVIOUS
<1>2. TrimLeft(segs) = segs /\ TrimRight(segs) = segs
    BY <1>1, Zenon DEF TrimLeft, TrimRight
<1> QED BY <1>2 DEF TrimSpace

\* No blank at either end.
Unblanked(x) == Unled(x) = x /\ Unended(x) = x

\* Nor of a path whose elements have none.
LEMMA NoBlanksAnywhere ==
    ASSUME NEW S, NEW segs \in Seq(S), \A i \in DOMAIN segs : Unblanked(segs[i])
    PROVE  TrimLeft(segs) = segs /\ TrimRight(segs) = segs /\ TrimSpace(segs) = segs
<1>1. ASSUME segs # << >>
      PROVE  Unled(segs[1]) = segs[1] /\ Unended(segs[Len(segs)]) = segs[Len(segs)]
    <2>1. 1 \in DOMAIN segs /\ Len(segs) \in DOMAIN segs BY <1>1
    <2> QED BY <2>1, Zenon DEF Unblanked
<1> QED BY <1>1, NoBlanks

\* A path of elements that are let through is what it leads to, the walk
\* passes over none of it, and Resolve leaves it as it is, but for blanks.
LEMMA LegalPaths ==
    ASSUME NEW S, NEW rel \in Seq(S), AllLegal(rel)
    PROVE  /\ Join(rel) = rel /\ Walked(rel) /\ Trim(rel) = rel
           /\ TrimSpace(rel) = rel => Resolve(rel) = rel
<1>1. \A i \in 1 .. Len(rel) : Legal(rel[i]) BY DEF AllLegal
<1>2. Plain(rel)
    <2>1. DOMAIN rel = 1 .. Len(rel) OBVIOUS
    <2> QED BY <1>1, <2>1, Zenon DEF Plain, Legal, Hidden, Dots
<1>3. Join(rel) = rel BY <1>2, JoinPlain
<1>4. Walked(rel) BY DEF Walked, AllLegal, Legal
<1>5. Trim(rel) = rel
    <2>1. \A i \in 1 .. Len(rel) : ~Slash(rel, i) BY <1>1 DEF Legal, Slash
    <2> QED BY <2>1, TrimPlain
<1>6. rel # <<".">>
    <2>1. ASSUME rel = <<".">> PROVE FALSE
        <3>1. 1 \in 1 .. Len(rel) /\ rel[1] = "." BY <2>1
        <3> QED BY <1>1, <3>1 DEF Legal, Hidden, Dots
    <2> QED BY <2>1
<1>7. ASSUME TrimSpace(rel) = rel PROVE Resolve(rel) = rel
    BY <1>5, <1>6, <1>7 DEF Resolve, AllLegal
<1> QED BY <1>3, <1>4, <1>5, <1>7

LEMMA ResolvedIsLegal ==
    ASSUME NEW S, NEW segs \in Seq(S), Resolve(segs) # Refused
    PROVE  Resolve(segs) \in Seq(S \cup Bare) /\ AllLegal(Resolve(segs))
<1> DEFINE t == Trim(TrimSpace(segs))
<1>1. t \in Seq(S \cup Bare) BY TrimSpaceType
<1>2. CASE t \in {<< >>, <<".">>}
    <2>1. Resolve(segs) = << >> BY <1>2 DEF Resolve
    <2>2. << >> \in Seq(S \cup Bare) OBVIOUS
    <2> QED BY <2>1, <2>2 DEF AllLegal
<1>3. CASE t \notin {<< >>, <<".">>}
    <2>1. Resolve(segs) = t /\ AllLegal(t) BY <1>3 DEF Resolve, AllLegal
    <2> QED BY <1>1, <2>1
<1> QED BY <1>2, <1>3

LEMMA ParsedParts ==
    ASSUME NEW u, ~(Len(Trim(u.path)) < 2)
    PROVE  ParseRemoteURL(u) = [host |-> HostOf(u.host), owner |-> Front(Trim(u.path)),
                                name |-> Last(Trim(u.path))]
    BY DEF ParseRemoteURL

LEMMA DerivedIsLegal ==
    ASSUME NEW S, NEW u, u.path \in Seq(S), DestFor(u) # Refused
    PROVE  /\ DestFor(u) \in Seq(S \cup {HostOf(u.host)})
           /\ AllLegal(DestFor(u))
<1> DEFINE r == ParseRemoteURL(u)
           segs == <<r.host>> \o r.owner \o <<r.name>>
           T == S \cup {HostOf(u.host)}
<1>1. r # Unparsed /\ DestFor(u) = Join(segs) /\ AllLegal(Join(segs))
    BY DEF DestFor, AllLegal
<1>2. Trim(u.path) \in Seq(S) BY TrimType
<1>3. ~(Len(Trim(u.path)) < 2) BY <1>1 DEF ParseRemoteURL
<1>4. /\ r.host = HostOf(u.host) /\ r.owner = Front(Trim(u.path))
      /\ r.name = Last(Trim(u.path))
    BY <1>3, ParsedParts
<1> HIDE DEF r
<1>5. r.owner \in Seq(S) /\ r.name \in S
    <2> DEFINE path == Trim(u.path)
    <2>1. path \in Seq(S) /\ ~(Len(path) < 2) BY <1>2, <1>3
    <2> HIDE DEF path
    <2>2. Front(path) \in Seq(S) /\ Last(path) \in S
        <3>1. Len(path) \in Nat /\ Len(path) \in 1 .. Len(path) BY <2>1
        <3>2. path[Len(path)] \in S BY <2>1, <3>1
        <3>3. \A i \in 1 .. Len(path) - 1 : path[i] \in S BY <2>1
        <3> QED BY <3>1, <3>2, <3>3, SubSeqProperties DEF Front, Last
    <2> QED BY <1>4, <2>2 DEF path
<1>6. segs \in Seq(T)
    <2>1. <<r.host>> \in Seq(T) /\ r.owner \in Seq(T) /\ <<r.name>> \in Seq(T)
        BY <1>4, <1>5
    <2> HIDE DEF T
    <2> QED BY <2>1, ConcatProperties
<1> HIDE DEF segs, T
<1>7. Join(segs) \in Seq(T) BY <1>6, JoinType
<1> QED BY <1>1, <1>7 DEF T

LEMMA UrlParts ==
    \A u, form, host, path, dotgit :
        u = Url(form, host, path, dotgit)
          => u.form = form /\ u.host = host /\ u.path = path /\ u.dotgit = dotgit
    BY DEF Url

\* Strings and truth values apart, the parts of a URL that is known.
LEMMA HostAndPath ==
    ASSUME NEW u, NEW host, NEW path, \E form, dotgit : u = Url(form, host, path, dotgit)
    PROVE  u.host = host /\ u.path = path
    BY UrlParts

LEMMA NoUrlsPath == NoUrl.path = << >>
<1>1. \E form, host, dotgit : NoUrl = Url(form, host, << >>, dotgit) BY Zenon DEF NoUrl
<1> QED BY <1>1, UrlParts

LEMMA GivenPath ==
    ASSUME NEW S, Bare \subseteq S, NEW u, u.path \in Seq(S)
    PROVE  Given(u).path \in Seq(S)
<1> DEFINE left == IF u.form = "owner/name" THEN TrimLeft(u.path) ELSE u.path
<1>1. left \in Seq(S) BY TrimSpaceTypes
<1> HIDE DEF left
<1>2. TrimRight(left) \in Seq(S) BY <1>1, TrimSpaceTypes
<1>3. Given(u).path = IF u.dotgit THEN left ELSE TrimRight(left)
    <2>1. Given(u) = Url(u.form, u.host, IF u.dotgit THEN left ELSE TrimRight(left), u.dotgit)
        BY Zenon DEF Given, left
    <2> QED BY <2>1, UrlParts
<1> QED BY <1>1, <1>2, <1>3

\* What ValidateCloneURL makes of a URL that it takes.
LEMMA ValidUrl ==
    ASSUME NEW u, ValidateCloneURL(u) # NoUrl
    PROVE  /\ ValidateCloneURL(u).path = Given(u).path
           /\ \/ ValidateCloneURL(u).host = u.host
              \/ u.form = "owner/name" /\ ValidateCloneURL(u).host = "github.com"
<1> DEFINE path == Given(u).path
<1>1. Given(u).host = u.host
    <2>1. \E p : Given(u) = Url(u.form, u.host, p, u.dotgit) BY Zenon DEF Given
    <2> QED BY <2>1, UrlParts
<1>2. \/ ValidateCloneURL(u) = Given(u)
      \/ ValidateCloneURL(u) = Url("scheme", u.host, path, u.dotgit)
      \/ /\ u.form = "owner/name"
         /\ ValidateCloneURL(u) = Url("scheme", "github.com", path, u.dotgit)
    BY Zenon DEF ValidateCloneURL
<1> HIDE DEF path
<1>3. CASE ValidateCloneURL(u) = Given(u)
    BY <1>1, <1>3
<1>4. CASE ValidateCloneURL(u) = Url("scheme", u.host, path, u.dotgit)
    BY <1>4, UrlParts DEF path
<1>5. CASE /\ u.form = "owner/name"
           /\ ValidateCloneURL(u) = Url("scheme", "github.com", path, u.dotgit)
    BY <1>5, UrlParts DEF path
<1> QED BY <1>2, <1>3, <1>4, <1>5

LEMMA ValidPath ==
    ASSUME NEW S, Bare \subseteq S, NEW u, u.path \in Seq(S)
    PROVE  ValidateCloneURL(u).path \in Seq(S)
<1>1. CASE ValidateCloneURL(u) = NoUrl
    <2>1. ValidateCloneURL(u).path = << >> BY <1>1, NoUrlsPath, Zenon
    <2> QED BY <2>1
<1>2. CASE ValidateCloneURL(u) # NoUrl
    BY <1>2, ValidUrl, GivenPath
<1> QED BY <1>1, <1>2

\* Where a clone goes is a path that Resolve lets through, and not the root.
LEMMA ClonedIsLegal ==
    ASSUME NEW S, Bare \subseteq S, NEW u, u.path \in Seq(S), CloneTo(u, << >>) # Refused
    PROVE  /\ \E T : CloneTo(u, << >>) \in Seq(T) /\ AllLegal(CloneTo(u, << >>))
           /\ CloneTo(u, << >>) # << >>
<1> DEFINE to == DestFor(u)
<1>1. TrimSpace(<< >>) = << >> BY DEF TrimSpace, TrimLeft, TrimRight
<1>2. /\ CloneTo(u, << >>) = Resolve(to) /\ to # Refused
      /\ Resolve(to) # << >> /\ Resolve(to) # Refused
    BY <1>1, Zenon DEF CloneTo
<1>3. PICK T : to \in Seq(T) BY <1>2, DerivedIsLegal
<1> HIDE DEF to
<1>4. Resolve(to) \in Seq(T \cup Bare) /\ AllLegal(Resolve(to)) BY <1>2, <1>3, ResolvedIsLegal
<1> QED BY <1>2, <1>4, Zenon

\* A path that a request asks for, or where a URL's clone goes, is its
\* directory's only name, the walk passes over none of it, and handing it back
\* means it again unless blanks are at its ends, however long the request's path
\* or the URL's, and whatever the words (OneNameForAPlace).
THEOREM PlacesAreNamedOnce ==
    \A words, size : size \in Nat => OneNameForAPlace(words, size)
<1>1. ASSUME NEW words, NEW size \in Nat PROVE OneNameForAPlace(words, size)
    <2> DEFINE S == Segments(words)
               paths == BoundedSeq(S, size)
    <2>1. \A segs \in paths : segs \in Seq(S)
        <3>1. SUFFICES ASSUME NEW segs \in paths PROVE segs \in Seq(S) OBVIOUS
        <3>2. segs \in UNION {[1 .. m -> S] : m \in 0 .. size}
            BY Zenon DEF BoundedSeq, SeqOf
        <3> HIDE DEF S, paths
        <3>3. PICK m \in 0 .. size : segs \in [1 .. m -> S]
            BY <3>2
        <3> QED BY <3>3
    <2> HIDE DEF S, paths
    <2>2. ASSUME NEW segs \in paths, Resolve(segs) # Refused
          PROVE  \E T : Resolve(segs) \in Seq(T) /\ AllLegal(Resolve(segs))
        BY <2>1, <2>2, ResolvedIsLegal
    <2>3. ASSUME NEW u \in UrlsOf(Hosts, paths), CloneTo(ValidateCloneURL(u), << >>) # Refused
          PROVE  /\ \E T : /\ CloneTo(ValidateCloneURL(u), << >>) \in Seq(T)
                           /\ AllLegal(CloneTo(ValidateCloneURL(u), << >>))
                 /\ CloneTo(ValidateCloneURL(u), << >>) # << >>
        <3> DEFINE B == S \cup Bare
        <3>1. u.path \in paths BY Zenon DEF UrlsOf
        <3>2. u.path \in Seq(B) /\ Bare \subseteq B
            <4>1. u.path \in Seq(S) BY <2>1, <3>1
            <4> QED BY <4>1
        <3> HIDE DEF B
        <3>3. ValidateCloneURL(u).path \in Seq(B) BY <3>2, ValidPath
        <3> QED BY <2>3, <3>2, <3>3, ClonedIsLegal
    <2>4. ASSUME NEW rel, NEW T, rel \in Seq(T) /\ AllLegal(rel)
          PROVE  rel = Join(rel) /\ Walked(rel) /\ (TrimSpace(rel) = rel => Resolve(rel) = rel)
        BY <2>4, LegalPaths
    <2>5. ASSUME NEW rel,
                 \/ \E segs \in paths : rel = Resolve(segs)
                 \/ \E u \in UrlsOf(Hosts, paths) : rel = CloneTo(ValidateCloneURL(u), << >>),
                 rel # Refused
          PROVE  rel = Join(rel) /\ Walked(rel) /\ (TrimSpace(rel) = rel => Resolve(rel) = rel)
        <3>1. \E T : rel \in Seq(T) /\ AllLegal(rel)
            BY <2>2, <2>3, <2>5, Zenon
        <3> QED BY <2>4, <3>1, Zenon
    <2>6. ASSUME NEW u \in UrlsOf(Hosts, paths)
          PROVE  CloneTo(ValidateCloneURL(u), << >>) # << >>
        <3>1. Refused # << >> BY DEF Refused
        <3> QED BY <2>3, <3>1, Zenon
    <2> QED BY <2>5, <2>6, Zenon DEF OneNameForAPlace, S, paths
<1> QED BY <1>1

----------------------------------------------------------------------------
(* Ghosts. *)

LEMMA Pair ==
    ASSUME NEW S, NEW a \in S, NEW b \in S
    PROVE  /\ <<a, b>> \in Seq(S) /\ Len(<<a, b>>) = 2
           /\ <<a, b>>[1] = a /\ <<a, b>>[2] = b
           /\ Front(<<a, b>>) = <<a>> /\ Last(<<a, b>>) = b
<1>1. <<a, b>> \in Seq(S) OBVIOUS
<1>2. Len(<<a, b>>) = 2 OBVIOUS
<1>3. <<a, b>>[1] = a /\ <<a, b>>[2] = b OBVIOUS
<1> DEFINE p == <<a, b>>
           t == SubSeq(p, 1, 1)
<1>4. t = <<a>>
    <2> HIDE DEF p
    <2>1. p \in Seq(S) /\ Len(p) = 2 /\ p[1] = a BY <1>1, <1>2, <1>3 DEF p
    <2>2. \A i \in 1 .. 1 : p[i] \in S BY <2>1
    <2>3. /\ t \in Seq(S) /\ Len(t) = 1 - 1 + 1
          /\ \A i \in 1 .. 1 - 1 + 1 : t[i] = p[1 + i - 1]
        BY <2>2, SubSeqProperties
    <2> HIDE DEF t
    <2>4. Len(t) = 1 /\ t[1] = a BY <2>1, <2>3
    <2> QED BY <2>3, <2>4
<1>5. Front(<<a, b>>) = <<a>> /\ Last(<<a, b>>) = b
    <2> HIDE DEF p, t
    <2>1. p[2] = b /\ Len(p) = 2 BY <1>2, <1>3 DEF p
    <2>2. Front(p) = t /\ Last(p) = b BY <2>1 DEF Front, Last, t
    <2> QED BY <1>4, <2>2 DEF p
<1> QED BY <1>1, <1>2, <1>3, <1>4, <1>5, Zenon

LEMMA Triple ==
    ASSUME NEW S, NEW a \in S, NEW b \in S, NEW c \in S
    PROVE  /\ <<a, b, c>> \in Seq(S) /\ Len(<<a, b, c>>) = 3
           /\ <<a, b, c>>[1] = a /\ <<a, b, c>>[2] = b /\ <<a, b, c>>[3] = c
           /\ DOMAIN <<a, b, c>> = {1, 2, 3}
<1>1. <<a, b, c>> \in Seq(S) OBVIOUS
<1>2. Len(<<a, b, c>>) = 3 OBVIOUS
<1>3. <<a, b, c>>[1] = a /\ <<a, b, c>>[2] = b /\ <<a, b, c>>[3] = c OBVIOUS
<1>4. DOMAIN <<a, b, c>> = 1 .. 3 OBVIOUS
<1>5. 1 .. 3 = {1, 2, 3} OBVIOUS
<1> QED BY <1>1, <1>2, <1>3, <1>4, <1>5, Zenon

LEMMA IsPair ==
    ASSUME NEW S, NEW a \in S, NEW b \in S,
           NEW s \in Seq(S), Len(s) = 2, s[1] = a, s[2] = b
    PROVE  s = <<a, b>>
    OBVIOUS

LEMMA SubSeqPair ==
    ASSUME NEW S, NEW p \in Seq(S), NEW k \in 1 .. Len(p), k + 1 \in 1 .. Len(p)
    PROVE  SubSeq(p, k, k + 1) = <<p[k], p[k + 1]>>
<1> DEFINE t == SubSeq(p, k, k + 1)
<1>1. \A i \in k .. k + 1 : p[i] \in S OBVIOUS
<1>2. /\ t \in Seq(S) /\ Len(t) = IF k <= k + 1 THEN (k + 1) - k + 1 ELSE 0
      /\ \A i \in 1 .. (k + 1) - k + 1 : t[i] = p[k + i - 1]
    BY <1>1, SubSeqProperties
<1> HIDE DEF t
<1>3. Len(t) = 2 /\ t[1] = p[k] /\ t[2] = p[k + 1]
    <2>1. k \in Int OBVIOUS
    <2>2. /\ (k + 1) - k + 1 = 2 /\ k <= k + 1 /\ 1 \in 1 .. 2 /\ 2 \in 1 .. 2
          /\ k + 1 - 1 = k /\ k + 2 - 1 = k + 1
        BY <2>1
    <2>3. Len(t) = 2 BY <1>2, <2>2
    <2>4. t[1] = p[k + 1 - 1] /\ t[2] = p[k + 2 - 1] BY <1>2, <2>2
    <2> QED BY <2>2, <2>3, <2>4
<1>4. p[k] \in S /\ p[k + 1] \in S OBVIOUS
<1>5. t = <<p[k], p[k + 1]>> BY <1>2, <1>3, <1>4, IsPair
<1> QED BY <1>5 DEF t

LEMMA IsTriple ==
    ASSUME NEW S, NEW a \in S, NEW b \in S, NEW c \in S,
           NEW s \in Seq(S), Len(s) = 3, s[1] = a, s[2] = b, s[3] = c
    PROVE  s = <<a, b, c>>
    OBVIOUS

\* The three ways to write two elements.
LEMMA TrimTwo ==
    ASSUME NEW S, NEW a \in S, NEW b \in S,
           NEW p \in Seq(S), Len(p) = 2, p[1] = a, p[2] = b, ~Slash(p, 1), ~Slash(p, 2)
    PROVE  Trim(p) = <<a, b>>
<1>1. \A i \in 1 .. Len(p) : ~Slash(p, i) OBVIOUS
<1> QED BY <1>1, TrimPlain, IsPair

LEMMA TrimFirstTwo ==
    ASSUME NEW S, NEW a \in S, NEW b \in S,
           NEW p \in Seq(S), Len(p) = 3, p[1] = a, p[2] = b,
           ~Slash(p, 1), ~Slash(p, 2), Slash(p, 3)
    PROVE  Trim(p) = <<a, b>>
<1>1. 1 \in 1 .. Len(p) /\ 2 \in 1 .. Len(p) /\ 1 + 1 = 2 OBVIOUS
<1>2. \A i \in 1 .. Len(p) : i < 1 \/ i > 2 => Slash(p, i) OBVIOUS
<1>3. Trim(p) = SubSeq(p, 1, 2) BY <1>1, <1>2, TrimBetween
<1>4. SubSeq(p, 1, 2) = <<a, b>> BY <1>1, SubSeqPair
<1> QED BY <1>3, <1>4

LEMMA TrimLastTwo ==
    ASSUME NEW S, NEW a \in S, NEW b \in S,
           NEW p \in Seq(S), Len(p) = 3, p[2] = a, p[3] = b,
           Slash(p, 1), ~Slash(p, 2), ~Slash(p, 3)
    PROVE  Trim(p) = <<a, b>>
<1>1. 2 \in 1 .. Len(p) /\ 3 \in 1 .. Len(p) /\ 2 + 1 = 3 OBVIOUS
<1>2. \A i \in 1 .. Len(p) : i < 2 \/ i > 3 => Slash(p, i) OBVIOUS
<1>3. Trim(p) = SubSeq(p, 2, 3) BY <1>1, <1>2, TrimBetween
<1>4. SubSeq(p, 2, 3) = <<a, b>> BY <1>1, SubSeqPair
<1> QED BY <1>3, <1>4

\* The spellings of an owner and a name, without slashes at either end.
LEMMA TwoWords ==
    ASSUME NEW l, NEW n, l # "", n # ""
    PROVE  /\ Trim(<<l, n>>) = <<l, n>>
           /\ Trim(<<l, n, "">>) = <<l, n>>
           /\ Trim(<<"", l, n>>) = <<l, n>>
<1> DEFINE S == {l, n, ""}
<1>1. l \in S /\ n \in S /\ "" \in S OBVIOUS
<1> HIDE DEF S
<1>2. Trim(<<l, n>>) = <<l, n>>
    <2> DEFINE p == <<l, n>>
    <2>1. p \in Seq(S) /\ Len(p) = 2 /\ p[1] = l /\ p[2] = n BY <1>1, Pair
    <2> HIDE DEF p
    <2>2. ~Slash(p, 1) /\ ~Slash(p, 2) BY <2>1, Zenon DEF Slash
    <2>3. Trim(p) = <<l, n>> BY <1>1, <2>1, <2>2, TrimTwo, Zenon
    <2> QED BY <2>3 DEF p
<1>3. Trim(<<l, n, "">>) = <<l, n>>
    <2> DEFINE p == <<l, n, "">>
    <2>1. p \in Seq(S) /\ Len(p) = 3 /\ p[1] = l /\ p[2] = n /\ p[3] = ""
        BY <1>1, Triple
    <2> HIDE DEF p
    <2>2. ~Slash(p, 1) /\ ~Slash(p, 2) /\ Slash(p, 3) BY <2>1, Zenon DEF Slash
    <2>3. Trim(p) = <<l, n>> BY <1>1, <2>1, <2>2, TrimFirstTwo, Zenon
    <2> QED BY <2>3 DEF p
<1>4. Trim(<<"", l, n>>) = <<l, n>>
    <2> DEFINE p == <<"", l, n>>
    <2>1. p \in Seq(S) /\ Len(p) = 3 /\ p[1] = "" /\ p[2] = l /\ p[3] = n
        BY <1>1, Triple
    <2> HIDE DEF p
    <2>2. Slash(p, 1) /\ ~Slash(p, 2) /\ ~Slash(p, 3) BY <2>1, Zenon DEF Slash
    <2>3. Trim(p) = <<l, n>> BY <1>1, <2>1, <2>2, TrimLastTwo, Zenon
    <2> QED BY <2>3 DEF p
<1> QED BY <1>2, <1>3, <1>4

LEMMA ThreeParts ==
    ASSUME NEW h, NEW l, NEW n
    PROVE  (<<h>> \o <<l>>) \o <<n>> = <<h, l, n>>
<1> DEFINE S == {h, l, n}
           s == (<<h>> \o <<l>>) \o <<n>>
<1>1. h \in S /\ l \in S /\ n \in S OBVIOUS
<1> HIDE DEF S
<1>2. /\ <<h>> \in Seq(S) /\ Len(<<h>>) = 1 /\ <<h>>[1] = h
      /\ <<l>> \in Seq(S) /\ Len(<<l>>) = 1 /\ <<l>>[1] = l
      /\ <<n>> \in Seq(S) /\ Len(<<n>>) = 1 /\ <<n>>[1] = n
    BY <1>1
<1>3. s \in Seq(S) /\ Len(s) = 3 /\ s[1] = h /\ s[2] = l /\ s[3] = n
    BY <1>2, ConcatProperties
<1> HIDE DEF s
<1>4. s = <<h, l, n>> BY <1>1, <1>3, IsTriple
<1> QED BY <1>4 DEF s

\* The hosts that an owner may have, and how they are spelt.
LEMMA OwnersHosts ==
    ASSUME NEW host \in Hosts, host = Hostname(host)
    PROVE  /\ Lower(host) \in {"github.com", "ghe.example"}
           /\ HostOf(host) = Lower(host)
           /\ HostOf(Lower(host)) = Lower(host)
           /\ Legal(Lower(host)) /\ Unblanked(Lower(host))
    BY DEF Hosts, Hostname, Lower, HostOf, Legal, Hidden, Dots, Unblanked, Unled, Unended

LEMMA ParsedPair ==
    ASSUME NEW S, NEW l \in S, NEW n \in S, NEW u, Trim(u.path) = <<l, n>>
    PROVE  ParseRemoteURL(u) = [host |-> HostOf(u.host), owner |-> <<l>>, name |-> n]
<1>1. Len(<<l, n>>) = 2 /\ Front(<<l, n>>) = <<l>> /\ Last(<<l, n>>) = n
    BY Pair
<1>2. ~(Len(Trim(u.path)) < 2) BY <1>1
<1> QED BY <1>1, <1>2, ParsedParts

LEMMA TripleOf ==
    \A a, b, c : /\ <<a, b, c>> \in Seq({a, b, c}) /\ DOMAIN <<a, b, c>> = {1, 2, 3}
                 /\ <<a, b, c>>[1] = a /\ <<a, b, c>>[2] = b /\ <<a, b, c>>[3] = c
<1>1. ASSUME NEW a, NEW b, NEW c
      PROVE  /\ <<a, b, c>> \in Seq({a, b, c}) /\ DOMAIN <<a, b, c>> = {1, 2, 3}
             /\ <<a, b, c>>[1] = a /\ <<a, b, c>>[2] = b /\ <<a, b, c>>[3] = c
    <2> DEFINE S == {a, b, c}
    <2>1. a \in S /\ b \in S /\ c \in S OBVIOUS
    <2> HIDE DEF S
    <2>2. <<a, b, c>> \in Seq(S) /\ DOMAIN <<a, b, c>> = {1, 2, 3}
        BY <2>1, Triple
    <2>3. <<a, b, c>>[1] = a /\ <<a, b, c>>[2] = b /\ <<a, b, c>>[3] = c
        BY <2>1, Triple, Zenon
    <2> QED BY <2>2, <2>3, Zenon DEF S
<1> QED BY <1>1, Zenon

\* A URL of a ghost's repository leads to the ghost's row, unless the row's
\* name is hidden.
LEMMA UrlOfGhost ==
    ASSUME NEW h, NEW l, NEW n, NEW u,
           h \notin {"", ".", ".."}, Legal(h), Legal(l), n \notin {"", ".", ".."},
           HostOf(u.host) = h, Trim(u.path) = <<l, n>>
    PROVE  /\ Slug(ParseRemoteURL(u)) = <<h, l, n>>
           /\ DestFor(u) = IF Legal(n) THEN <<h, l, n>> ELSE Refused
<1> DEFINE r == ParseRemoteURL(u)
           rel == <<h, l, n>>
<1>2. rel # << >> OBVIOUS
<1>3. r = [host |-> h, owner |-> <<l>>, name |-> n]
    <2> DEFINE S == {l, n}
    <2>1. l \in S /\ n \in S OBVIOUS
    <2> HIDE DEF S
    <2> QED BY <2>1, ParsedPair, Zenon
<1> HIDE DEF r
<1>4. r.host = h /\ r.owner = <<l>> /\ r.name = n BY <1>3
<1>5. (<<r.host>> \o r.owner) \o <<r.name>> = rel BY <1>4, ThreeParts
<1>6. r # Unparsed
    <2>1. <<l>> # << >> OBVIOUS
    <2>2. Unparsed.owner = << >> BY DEF Unparsed
    <2> QED BY <1>4, <2>1, <2>2
<1> DEFINE S == {h, l, n}
<1>7. /\ rel \in Seq(S) /\ rel[1] = h /\ rel[2] = l /\ rel[3] = n
      /\ DOMAIN rel = {1, 2, 3}
    BY TripleOf, Zenon
<1> HIDE DEF rel, S
<1>8. /\ Join(rel) = rel
      /\ AllLegal(rel) <=> Legal(n)
    <2>1. l \notin {"", ".", ".."} BY Zenon DEF Legal, Hidden, Dots
    <2>2. Plain(rel) BY <1>7, <2>1, Zenon DEF Plain
    <2>3. Join(rel) = rel BY <1>7, <2>2, JoinPlain
    <2>4. AllLegal(rel) <=> Legal(n) BY <1>7, Zenon DEF AllLegal
    <2> QED BY <2>3, <2>4
<1>9. DestFor(u) = IF AllLegal(Join(rel)) THEN Join(rel) ELSE Refused
    <2>1. DestFor(u) = IF /\ r # Unparsed
                          /\ Join((<<r.host>> \o r.owner) \o <<r.name>>) # << >>
                          /\ AllLegal(Join((<<r.host>> \o r.owner) \o <<r.name>>))
                       THEN Join((<<r.host>> \o r.owner) \o <<r.name>>) ELSE Refused
        BY Zenon DEF DestFor, AllLegal, r
    <2> QED BY <1>2, <1>5, <1>6, <1>8, <2>1, Zenon
<1> QED BY <1>5, <1>8, <1>9, Zenon DEF Slug, r, rel

LEMMA DomainOfSeq == \A S : \A s \in Seq(S) : DOMAIN s = 1 .. Len(s)
    OBVIOUS

\* The place of a ghost's row, and what becomes of a request for it.
LEMMA PlaceOfGhost ==
    ASSUME NEW h, NEW l, NEW n,
           Legal(h), Legal(l), n \notin {"", ".", ".."},
           Unblanked(h), Unblanked(l), Unblanked(n)
    PROVE  /\ Join(<<h, l, n>>) = <<h, l, n>> /\ <<h, l, n>> # << >>
           /\ TrimSpace(<<h, l, n>>) = <<h, l, n>>
           /\ Resolve(<<h, l, n>>) = IF Legal(n) THEN <<h, l, n>> ELSE Refused
<1> DEFINE rel == <<h, l, n>>
           S == {h, l, n}
<1>1. /\ rel \in Seq(S) /\ rel[1] = h /\ rel[2] = l /\ rel[3] = n
      /\ DOMAIN rel = {1, 2, 3}
    BY TripleOf, Zenon
<1>2. rel # << >> /\ rel # <<".">> OBVIOUS
<1> HIDE DEF rel, S
<1>3. h \notin {"", ".", ".."} /\ l \notin {"", ".", ".."} BY Zenon DEF Legal, Hidden, Dots
<1>4. \A i \in DOMAIN rel : rel[i] \notin {"", ".", ".."} BY <1>1, <1>3, Zenon
<1>5. Join(rel) = rel
    <2>1. Plain(rel) BY <1>4, Zenon DEF Plain
    <2> QED BY <1>1, <2>1, JoinPlain
<1>6. Trim(rel) = rel
    <2>1. DOMAIN rel = 1 .. Len(rel) BY <1>1, DomainOfSeq, Zenon
    <2>2. \A i \in 1 .. Len(rel) : ~Slash(rel, i) BY <1>4, <2>1, Zenon DEF Slash
    <2> QED BY <1>1, <2>2, TrimPlain
<1>7. AllLegal(rel) <=> Legal(n) BY <1>1, Zenon DEF AllLegal
<1>10. TrimSpace(rel) = rel
    <2>1. \A i \in DOMAIN rel : Unblanked(rel[i]) BY <1>1, Zenon
    <2> QED BY <1>1, <2>1, NoBlanksAnywhere
<1>8. Resolve(rel) = IF AllLegal(rel) THEN rel ELSE Refused
    <2>1. CASE AllLegal(rel)
        <3>1. Resolve(rel) = rel BY <1>1, <1>10, <2>1, LegalPaths
        <3> QED BY <2>1, <3>1
    <2>2. CASE ~AllLegal(rel)
        <3>1. Resolve(rel) = Refused BY <1>2, <1>6, <1>10, <2>2, Zenon DEF Resolve, AllLegal
        <3> QED BY <2>2, <3>1
    <2> QED BY <2>1, <2>2
<1>9. Resolve(rel) = IF Legal(n) THEN rel ELSE Refused BY <1>7, <1>8, Zenon
<1> QED BY <1>2, <1>5, <1>9, <1>10, Zenon DEF rel

LEMMA TwoParts ==
    \A l, n : /\ <<l>> \o <<n>> = <<l, n>>
              /\ <<l>> \o <<n, "">> = <<l, n, "">>
<1>1. ASSUME NEW l, NEW n, NEW e PROVE <<l>> \o <<n, e>> = <<l, n, e>>
    <2> DEFINE S == {l, n, e}
               s == <<l>> \o <<n, e>>
    <2>1. l \in S /\ n \in S /\ e \in S OBVIOUS
    <2> HIDE DEF S
    <2>2. <<n, e>> \in Seq(S) /\ Len(<<n, e>>) = 2 /\ <<n, e>>[1] = n /\ <<n, e>>[2] = e
        BY <2>1, Pair
    <2>3. <<l>> \in Seq(S) /\ Len(<<l>>) = 1 /\ <<l>>[1] = l BY <2>1
    <2>4. s \in Seq(S) /\ Len(s) = 3 /\ s[1] = l /\ s[2] = n /\ s[3] = e
        BY <2>2, <2>3, ConcatProperties
    <2> HIDE DEF s
    <2>5. s = <<l, n, e>> BY <2>1, <2>4, IsTriple
    <2> QED BY <2>5 DEF s
<1>2. ASSUME NEW l, NEW n PROVE <<l>> \o <<n>> = <<l, n>>
    <2> DEFINE S == {l, n}
               s == <<l>> \o <<n>>
    <2>1. l \in S /\ n \in S OBVIOUS
    <2> HIDE DEF S
    <2>2. /\ <<l>> \in Seq(S) /\ Len(<<l>>) = 1 /\ <<l>>[1] = l
          /\ <<n>> \in Seq(S) /\ Len(<<n>>) = 1 /\ <<n>>[1] = n
        BY <2>1
    <2>3. s \in Seq(S) /\ Len(s) = 2 /\ s[1] = l /\ s[2] = n
        BY <2>2, ConcatProperties
    <2> HIDE DEF s
    <2>4. s = <<l, n>> BY <2>1, <2>3, IsPair
    <2> QED BY <2>4 DEF s
<1> QED BY <1>1, <1>2, Zenon

\* Every spelling of a ghost's repository has its host, its owner and its name.
Asked(g) == Spellings(g) \cup {g.url}

Asks(g, l, n, s) ==
    /\ l # "" /\ n # "" /\ Unblanked(l) /\ Unblanked(n)
    /\ g.owner = <<l>> /\ g.name = n /\ HostOf(g.host) = g.host
    /\ g.url = Url("scheme", g.host, <<l, n>>, TRUE)
    /\ s \in Asked(g) /\ ValidateCloneURL(s) # NoUrl

Leads(g, l, n, s) ==
    /\ HostOf(ValidateCloneURL(s).host) = g.host
    /\ Trim(ValidateCloneURL(s).path) = <<l, n>>

\* A URL without blanks is given as it is typed.
LEMMA GivenAsTyped ==
    ASSUME NEW S, NEW u, u.path \in Seq(S), \A i \in DOMAIN u.path : Unblanked(u.path[i])
    PROVE  /\ Given(u).path = u.path
           /\ Given(u) = Url(u.form, u.host, u.path, u.dotgit)
<1>1. TrimLeft(u.path) = u.path /\ TrimRight(u.path) = u.path BY NoBlanksAnywhere
<1>2. Given(u) = Url(u.form, u.host, u.path, u.dotgit) BY <1>1, Zenon DEF Given
<1> QED BY <1>2, UrlParts

LEMMA ElementsOfSeq == \A S : \A s \in Seq(S) : \A i \in DOMAIN s : s[i] \in S
    OBVIOUS

\* The ways to write an owner and a name have no blanks unless those do.
LEMMA UnblankedWords ==
    ASSUME NEW l, NEW n, Unblanked(l), Unblanked(n),
           NEW p, p \in {<<l, n>>, <<l, n, "">>, <<"", l, n>>}
    PROVE  /\ p \in Seq({l, n, ""})
           /\ \A i \in DOMAIN p : Unblanked(p[i])
<1> DEFINE S == {l, n, ""}
<1>1. \A x \in S : Unblanked(x)
    <2>1. Unblanked("") BY DEF Unblanked, Unled, Unended
    <2> QED BY <2>1, Zenon
<1>2. l \in S /\ n \in S /\ "" \in S OBVIOUS
<1> HIDE DEF S
<1>5. "" = "" /\ <<l, n>> \in Seq(S) /\ <<l, n, "">> \in Seq(S) /\ <<"", l, n>> \in Seq(S)
    BY <1>2, Pair, Triple, Zenon
<1>3. p \in Seq(S) BY <1>5, Zenon
<1>4. \A i \in DOMAIN p : p[i] \in S BY <1>3, ElementsOfSeq, Zenon
<1> QED BY <1>1, <1>3, <1>4, Zenon DEF S

LEMMA TakenAsTyped ==
    ASSUME NEW f, NEW h, NEW l, NEW n, NEW d, Unblanked(l), Unblanked(n)
    PROVE  f = "scheme" => ValidateCloneURL(Url(f, h, <<l, n>>, d)) = Url(f, h, <<l, n>>, d)
<1> DEFINE u == Url(f, h, <<l, n>>, d)
<1>1. u.form = f /\ u.host = h /\ u.path = <<l, n>> /\ u.dotgit = d
    BY UrlParts
<1>2. u = Url(u.form, u.host, u.path, u.dotgit) BY <1>1
<1> HIDE DEF u
<1>3. u.path \in Seq({l, n, ""}) /\ \A i \in DOMAIN u.path : Unblanked(u.path[i])
    BY <1>1, UnblankedWords, Zenon
<1>4. Given(u) = u BY <1>2, <1>3, GivenAsTyped, Zenon
<1>5. f = "scheme" => ValidateCloneURL(u) = u BY <1>1, <1>4, Zenon DEF ValidateCloneURL
<1> QED BY <1>5, Zenon DEF u

LEMMA GhostsUrl ==
    \A h, l, n : Unblanked(l) /\ Unblanked(n)
      => ValidateCloneURL(Url("scheme", h, <<l, n>>, TRUE)) = Url("scheme", h, <<l, n>>, TRUE)
<1>1. \A h, l, n, d : Unblanked(l) /\ Unblanked(n)
        => ValidateCloneURL(Url("scheme", h, <<l, n>>, d)) = Url("scheme", h, <<l, n>>, d)
    BY TakenAsTyped, Zenon
<1> QED BY <1>1, Zenon

LEMMA SpellingLeads == \A g, l, n, s : Asks(g, l, n, s) => Leads(g, l, n, s)
<1>1. ASSUME NEW g, NEW l, NEW n, NEW s, Asks(g, l, n, s) PROVE Leads(g, l, n, s)
    <2>0. /\ l # "" /\ n # "" /\ Unblanked(l) /\ Unblanked(n)
          /\ g.owner = <<l>> /\ g.name = n /\ HostOf(g.host) = g.host
          /\ g.url = Url("scheme", g.host, <<l, n>>, TRUE)
          /\ s \in Asked(g) /\ ValidateCloneURL(s) # NoUrl
        BY <1>1, Zenon DEF Asks
    <2>1. CASE s \in Spellings(g)
        <3>1. /\ Lower(Hostname(s.host)) = g.host
              /\ s.path \in {g.owner \o <<g.name>>, g.owner \o <<g.name, "">>, <<"">> \o g.owner \o <<g.name>>}
              /\ s.form = "owner/name" => g.host = "github.com"
            BY <2>1, Zenon DEF Spellings, UrlsOf
        <3>2. s.path \in {<<l, n>>, <<l, n, "">>, <<"", l, n>>}
            <4>1. g.owner \o <<g.name>> = <<l, n>> BY <2>0, TwoParts, Zenon
            <4>2. g.owner \o <<g.name, "">> = <<l, n, "">> BY <2>0, TwoParts, Zenon
            <4>3. (<<"">> \o g.owner) \o <<g.name>> = <<"", l, n>> BY <2>0, ThreeParts, Zenon
            <4> QED BY <3>1, <4>1, <4>2, <4>3, Zenon
        <3>3. Trim(s.path) = <<l, n>> BY <2>0, <3>2, TwoWords, Zenon
        <3>4. HostOf("github.com") = "github.com" BY DEF HostOf, Lower, Hostname
        <3>5. HostOf(s.host) = g.host BY <3>1, Zenon DEF HostOf
        <3>6. Given(s).path = s.path
            <4>1. s.path \in Seq({l, n, ""}) /\ \A i \in DOMAIN s.path : Unblanked(s.path[i])
                BY <2>0, <3>2, UnblankedWords, Zenon
            <4> QED BY <4>1, GivenAsTyped, Zenon
        <3> QED BY <2>0, <3>1, <3>3, <3>4, <3>5, <3>6, ValidUrl, Zenon DEF Leads
    <2>2. CASE s = g.url
        <3>1. s.host = g.host /\ s.path = <<l, n>>
            <4>1. \E f, d : s = Url(f, g.host, <<l, n>>, d) BY <2>0, <2>2, Zenon
            <4> QED BY <4>1, HostAndPath, Zenon
        <3>2. ValidateCloneURL(s) = s
            <4>1. ValidateCloneURL(Url("scheme", g.host, <<l, n>>, TRUE))
                    = Url("scheme", g.host, <<l, n>>, TRUE)
                BY <2>0, GhostsUrl, Zenon
            <4> QED BY <2>0, <2>2, <4>1, Zenon
        <3>3. Trim(s.path) = <<l, n>> BY <2>0, <3>1, TwoWords, Zenon
        <3> QED BY <2>0, <3>1, <3>2, <3>3, Zenon DEF Leads
    <2> QED BY <2>0, <2>1, <2>2, Zenon DEF Asked
<1> QED BY <1>1, Zenon

\* A ghost turns into its clone, whatever the words are that its owner and its
\* name are written with: the button, and every spelling that the dialog takes,
\* lead to its row and to an origin with its slug (GhostTurnsIntoClone).
THEOREM GhostsBecomeClones ==
    \A words : (\A w \in words : Legal(w) /\ Unblanked(w)) => GhostTurnsIntoClone(words)
<1>1. ASSUME NEW words, \A w \in words : Legal(w) /\ Unblanked(w)
      PROVE  GhostTurnsIntoClone(words)
    <2>1. SUFFICES ASSUME NEW host \in Hosts, host = Hostname(host),
                          NEW login \in words, NEW name \in words \cup {".github"}
                   PROVE  LET g == Ghost(ParseOwner(host, login), name)
                          IN  IF Hidden(name)
                              THEN CloneTo(g.url, Row(g)) = Refused /\ DestFor(g.url) = Refused
                              ELSE /\ CloneTo(g.url, Row(g)) = Row(g)
                                   /\ \A u \in {ValidateCloneURL(s) : s \in Spellings(g) \cup {g.url}} \ {NoUrl} :
                                        Slug(ParseRemoteURL(u)) = Slug(g) /\ CloneTo(u, << >>) = Row(g)
        BY Zenon DEF GhostTurnsIntoClone
    <2> DEFINE g == Ghost(ParseOwner(host, login), name)
               h == Lower(host)
               rel == <<h, login, name>>
    <2>2. /\ g.host = h /\ g.owner = <<login>> /\ g.name = name
          /\ g.url = Url("scheme", h, <<login, name>>, TRUE)
        BY DEF Ghost, ParseOwner
    <2>3. HostOf(h) = h /\ Legal(h) /\ Unblanked(h) BY <2>1, OwnersHosts
    <2>4. Legal(login) /\ Unblanked(login) BY <1>1
    <2>13. Unblanked(name)
        <3>1. Unblanked(".github") BY DEF Unblanked, Unled, Unended
        <3> QED BY <1>1, <3>1, Zenon
    <2>5. name \notin {"", ".", ".."} /\ (Legal(name) <=> ~Hidden(name))
        <3>1. Legal(name) \/ name = ".github" BY <1>1
        <3>2. name = ".github" => Hidden(name) BY DEF Hidden
        <3>3. Legal(name) => ~Hidden(name) BY DEF Legal
        <3>4. name \notin {"", ".", ".."} BY <3>1 DEF Legal, Hidden, Dots
        <3> QED BY <3>1, <3>2, <3>3, <3>4
    <2>6. login # "" /\ name # "" /\ h \notin {"", ".", ".."}
        BY <2>3, <2>4, <2>5, Zenon DEF Legal, Hidden, Dots
    <2> HIDE DEF g, h
    <2>7. Slug(g) = rel
        <3>1. (<<h>> \o <<login>>) \o <<name>> = rel BY ThreeParts, Zenon
        <3> HIDE DEF rel
        <3> QED BY <2>2, <3>1, Zenon DEF Slug
    <2>8. /\ Row(g) = rel /\ rel # << >> /\ TrimSpace(rel) = rel
          /\ rel # <<"">> /\ rel # Refused
          /\ Resolve(rel) = IF Legal(name) THEN rel ELSE Refused
        <3>1. rel # <<"">> /\ rel # Refused
            <4>1. DOMAIN rel = {1, 2, 3} BY TripleOf, Zenon
            <4>2. DOMAIN Refused = {1} /\ DOMAIN <<"">> = {1} BY DEF Refused
            <4>3. {1} # {1, 2, 3} OBVIOUS
            <4> HIDE DEF rel
            <4> QED BY <4>1, <4>2, <4>3, Zenon
        <3> QED BY <2>3, <2>4, <2>13, <2>5, <2>7, <3>1, PlaceOfGhost, ZenonT(60) DEF Row
    <2> HIDE DEF rel
    <2>14. Refused # << >> BY DEF Refused
    <2>9. CloneTo(g.url, Row(g)) = IF Legal(name) THEN rel ELSE Refused
        BY <2>8, <2>14, Zenon DEF CloneTo
    <2>10. ASSUME NEW s \in Asked(g), ValidateCloneURL(s) # NoUrl
           PROVE  LET u == ValidateCloneURL(s)
                  IN  /\ Slug(ParseRemoteURL(u)) = rel
                      /\ DestFor(u) = IF Legal(name) THEN rel ELSE Refused
        <3> DEFINE u == ValidateCloneURL(s)
        <3>1. HostOf(u.host) = h /\ Trim(u.path) = <<login, name>>
            <4>1. /\ HostOf(g.host) = g.host /\ g.owner = <<login>> /\ g.name = name
                  /\ g.url = Url("scheme", g.host, <<login, name>>, TRUE)
                BY <2>2, <2>3, Zenon
            <4>2. HostOf(u.host) = g.host /\ Trim(u.path) = <<login, name>>
                <5>1. login # "" /\ name # "" BY <2>6, Zenon
                <5>2. Asks(g, login, name, s)
                    BY <2>4, <2>10, <2>13, <4>1, <5>1, Zenon DEF Asks
                <5>3. Leads(g, login, name, s) BY <5>2, SpellingLeads, Zenon
                <5> QED BY <5>3, Zenon DEF Leads, u
            <4> QED BY <2>2, <4>2, Zenon
        <3> HIDE DEF u
        <3>2. /\ Slug(ParseRemoteURL(u)) = <<h, login, name>>
              /\ DestFor(u) = IF Legal(name) THEN <<h, login, name>> ELSE Refused
            <4>1. \A v : HostOf(v.host) = h /\ Trim(v.path) = <<login, name>>
                           => /\ Slug(ParseRemoteURL(v)) = <<h, login, name>>
                              /\ DestFor(v) = IF Legal(name) THEN <<h, login, name>> ELSE Refused
                BY <2>3, <2>4, <2>5, <2>6, UrlOfGhost, Zenon
            <4> QED BY <3>1, <4>1, Zenon
        <3> QED BY <3>2, Zenon DEF u, rel
    <2>11. CASE Hidden(name)
        <3>1. ValidateCloneURL(g.url) = g.url /\ g.url # NoUrl
            <4>1. g.url.path = <<login, name>>
                <5>1. \E f, d : g.url = Url(f, h, <<login, name>>, d) BY <2>2, Zenon
                <5> QED BY <5>1, HostAndPath
            <4>2. <<login, name>> # << >> OBVIOUS
            <4>3. g.url # NoUrl BY <4>1, <4>2, NoUrlsPath, Zenon
            <4>4. ValidateCloneURL(Url("scheme", h, <<login, name>>, TRUE))
                    = Url("scheme", h, <<login, name>>, TRUE)
                BY <2>4, <2>13, GhostsUrl, Zenon
            <4>5. ValidateCloneURL(g.url) = g.url BY <2>2, <4>4, Zenon
            <4> QED BY <4>3, <4>5
        <3>2. DestFor(g.url) = Refused
            <4>1. g.url \in Asked(g) BY Zenon DEF Asked
            <4> QED BY <2>5, <2>10, <2>11, <3>1, <4>1, Zenon
        <3>3. CloneTo(g.url, Row(g)) = Refused BY <2>5, <2>9, <2>11, Zenon
        <3> QED BY <2>11, <3>2, <3>3, Zenon DEF g
    <2>12. CASE ~Hidden(name)
        <3>1. Legal(name) BY <2>5, <2>12
        <3>2. CloneTo(g.url, Row(g)) = Row(g) BY <2>8, <2>9, <3>1, Zenon
        <3>3. ASSUME NEW s \in Spellings(g) \cup {g.url}, ValidateCloneURL(s) # NoUrl
              PROVE  /\ Slug(ParseRemoteURL(ValidateCloneURL(s))) = Slug(g)
                     /\ CloneTo(ValidateCloneURL(s), << >>) = Row(g)
            <4>1. s \in Asked(g) BY <3>3, Zenon DEF Asked
            <4>2. /\ Slug(ParseRemoteURL(ValidateCloneURL(s))) = rel
                  /\ DestFor(ValidateCloneURL(s)) = rel
                BY <2>10, <3>1, <3>3, <4>1, Zenon
            <4>3. TrimSpace(<< >>) = << >> BY DEF TrimSpace, TrimLeft, TrimRight
            <4>4. CloneTo(ValidateCloneURL(s), << >>) = rel
                BY <2>8, <3>1, <4>2, <4>3, Zenon DEF CloneTo
            <4> QED BY <2>7, <2>8, <4>2, <4>4, Zenon DEF rel
        <3> QED BY <2>12, <3>2, <3>3, Zenon DEF g
    <2> QED BY <2>11, <2>12
<1> QED BY <1>1

----------------------------------------------------------------------------
(* The output a job keeps.  After any writes the buffer is the end of what  *)
(* was written.                                                             *)

EndOf(limit, w) == IF Len(w) > limit THEN SubSeq(w, Len(w) - limit + 1, Len(w)) ELSE w

LEMMA EndOfType ==
    ASSUME NEW S, NEW limit \in Nat, NEW w \in Seq(S)
    PROVE  /\ EndOf(limit, w) \in Seq(S)
           /\ Len(EndOf(limit, w)) = IF Len(w) > limit THEN limit ELSE Len(w)
           /\ \A i \in 1 .. Len(EndOf(limit, w)) :
                EndOf(limit, w)[i] = w[Len(w) - Len(EndOf(limit, w)) + i]
<1> DEFINE e == EndOf(limit, w)
<1>1. Len(w) \in Nat OBVIOUS
<1>2. CASE Len(w) > limit
    <2> DEFINE a == Len(w) - limit + 1
    <2>1. e = SubSeq(w, a, Len(w)) BY <1>2 DEF EndOf
    <2>2. a \in 1 .. Len(w) + 1 /\ Len(w) - a + 1 = limit BY <1>1, <1>2
    <2>3. \A i \in a .. Len(w) : w[i] \in S BY <2>2
    <2>4. a \in Int /\ Len(w) \in Int BY <1>1
    <2> HIDE DEF e
    <2>5. /\ e \in Seq(S) /\ Len(e) = IF a <= Len(w) THEN Len(w) - a + 1 ELSE 0
          /\ \A i \in 1 .. Len(w) - a + 1 : e[i] = w[a + i - 1]
        <3> HIDE DEF a
        <3> QED BY <2>1, <2>3, <2>4, SubSeqProperties
    <2>6. Len(e) = limit BY <1>1, <1>2, <2>5
    <2>7. ASSUME NEW i \in 1 .. Len(e) PROVE e[i] = w[Len(w) - Len(e) + i]
        <3>1. e[i] = w[a + i - 1] BY <2>2, <2>5, <2>6
        <3>2. a + i - 1 = Len(w) - Len(e) + i BY <1>1, <2>6
        <3> QED BY <3>1, <3>2
    <2> QED BY <1>2, <2>5, <2>6, <2>7 DEF e
<1>3. CASE ~(Len(w) > limit)
    <2>1. e = w BY <1>3 DEF EndOf
    <2> HIDE DEF e
    <2>2. \A i \in 1 .. Len(w) : Len(w) - Len(w) + i = i BY <1>1
    <2> QED BY <1>3, <2>1, <2>2 DEF e
<1> QED BY <1>2, <1>3

\* Two sequences with the same elements are the same.
LEMMA SameSeq ==
    ASSUME NEW S, NEW s \in Seq(S), NEW t \in Seq(S), Len(s) = Len(t),
           \A i \in 1 .. Len(s) : s[i] = t[i]
    PROVE  s = t
    OBVIOUS

\* A write leaves the end of all that was written, this write included: the
\* limit loses the same bytes wherever the writes begin and end.
LEMMA WriteKeepsTheEnd ==
    ASSUME NEW S, NEW limit \in Nat, NEW w \in Seq(S), NEW p \in Seq(S)
    PROVE  Write(limit, EndOf(limit, w), p) = EndOf(limit, w \o p)
<1> DEFINE b == EndOf(limit, w)
           all == b \o p
           l == EndOf(limit, all)
           r == EndOf(limit, w \o p)
<1>1. Write(limit, b, p) = l BY DEF Write, EndOf
<1>2. /\ b \in Seq(S) /\ Len(b) = IF Len(w) > limit THEN limit ELSE Len(w)
      /\ \A i \in 1 .. Len(b) : b[i] = w[Len(w) - Len(b) + i]
    BY EndOfType
<1>3. Len(w) \in Nat /\ Len(p) \in Nat OBVIOUS
<1> HIDE DEF b
<1>4. /\ all \in Seq(S) /\ Len(all) = Len(b) + Len(p)
      /\ \A i \in 1 .. Len(b) + Len(p) : all[i] = IF i <= Len(b) THEN b[i] ELSE p[i - Len(b)]
    BY <1>2, ConcatProperties
<1>5. /\ w \o p \in Seq(S) /\ Len(w \o p) = Len(w) + Len(p)
      /\ \A i \in 1 .. Len(w) + Len(p) : (w \o p)[i] = IF i <= Len(w) THEN w[i] ELSE p[i - Len(w)]
    BY ConcatProperties
<1> HIDE DEF all
<1>6. /\ l \in Seq(S) /\ Len(l) = IF Len(all) > limit THEN limit ELSE Len(all)
      /\ \A i \in 1 .. Len(l) : l[i] = all[Len(all) - Len(l) + i]
    BY <1>4, EndOfType
<1>7. /\ r \in Seq(S) /\ Len(r) = IF Len(w \o p) > limit THEN limit ELSE Len(w \o p)
      /\ \A i \in 1 .. Len(r) : r[i] = (w \o p)[Len(w \o p) - Len(r) + i]
    BY <1>5, EndOfType
<1> HIDE DEF l, r
<1>8. Len(l) = Len(r) /\ Len(l) \in Nat /\ Len(l) <= Len(b) + Len(p) /\ Len(b) <= Len(w) /\ Len(b) \in Nat
    BY <1>2, <1>3, <1>4, <1>5, <1>6, <1>7
<1>9. ASSUME NEW i \in 1 .. Len(l) PROVE l[i] = r[i]
    <2> DEFINE k == Len(b) + Len(p) - Len(l) + i
               m == Len(w) + Len(p) - Len(l) + i
    <2>1. k \in 1 .. Len(b) + Len(p) /\ m \in 1 .. Len(w) + Len(p) /\ m = Len(w) - Len(b) + k
        BY <1>3, <1>8
    <2>2. l[i] = all[k] /\ r[i] = (w \o p)[m]
        <3>1. l[i] = all[Len(all) - Len(l) + i] BY <1>6
        <3>2. r[i] = (w \o p)[Len(w \o p) - Len(r) + i] BY <1>7, <1>8
        <3>3. Len(all) - Len(l) + i = k BY <1>4
        <3>4. Len(w \o p) - Len(r) + i = m BY <1>5, <1>8
        <3> HIDE DEF k, m
        <3> QED BY <3>1, <3>2, <3>3, <3>4, Zenon
    <2> HIDE DEF k, m
    <2>3. CASE k <= Len(b)
        <3>1. m <= Len(w) /\ k \in 1 .. Len(b) BY <1>3, <1>8, <2>1, <2>3
        <3>2. all[k] = b[k] /\ (w \o p)[m] = w[m] BY <1>4, <1>5, <2>1, <2>3, <3>1
        <3> QED BY <1>2, <2>1, <2>2, <3>1, <3>2
    <2>4. CASE ~(k <= Len(b))
        <3>1. ~(m <= Len(w)) /\ m - Len(w) = k - Len(b) BY <1>3, <1>8, <2>1, <2>4
        <3>2. all[k] = p[k - Len(b)] /\ (w \o p)[m] = p[m - Len(w)] BY <1>4, <1>5, <2>1, <2>4, <3>1
        <3> QED BY <2>2, <3>1, <3>2
    <2> QED BY <2>3, <2>4
<1>10. l = r BY <1>6, <1>7, <1>8, <1>9, SameSeq
<1> QED BY <1>1, <1>10 DEF b, l, r

----------------------------------------------------------------------------
(* What the record shows of it. *)

\* A line that there is something to see of is kept, without blanks.
Keep(kept, line) == IF Trimmed(line) # << >> THEN Append(kept, Trimmed(line)) ELSE kept

\* The lines of what precedes a byte.
LEMMA LinesSolved ==
    ASSUME NEW b, Len(b) \in Nat
    PROVE  \E at : /\ Lines(b) = at[Len(b)]
                   /\ at[0] = << << >> >>
                   /\ \A k \in 1 .. Len(b) : at[k] = Divided(at[k - 1], b[k])
<1> DEFINE Solves(g, n) ==
             g = [k \in 0 .. n |-> IF k = 0 THEN << << >> >> ELSE Divided(g[k - 1], b[k])]
           N == {n \in Nat : \E g : Solves(g, n)}
<1>1. 0 \in N
    <2> DEFINE g == [k \in 0 .. 0 |-> << << >> >>]
    <2>1. Solves(g, 0) OBVIOUS
    <2> QED BY <2>1
<1>2. ASSUME NEW n \in Nat, n \in N PROVE n + 1 \in N
    <2>1. PICK g : Solves(g, n) BY <1>2
    <2> DEFINE h == [k \in 0 .. n + 1 |-> IF k = n + 1 THEN Divided(g[n], b[n + 1]) ELSE g[k]]
    <2>2. Solves(h, n + 1) BY <2>1
    <2> HIDE DEF h, Solves
    <2> QED BY <2>2
<1> HIDE DEF N
<1>3. Len(b) \in N BY <1>1, <1>2, Induction
<1> DEFINE f[k \in 0 .. Len(b)] == IF k = 0 THEN << << >> >> ELSE Divided(f[k - 1], b[k])
<1>4. f = CHOOSE g : Solves(g, Len(b)) OBVIOUS
<1>5. Lines(b) = f[Len(b)] BY DEF Lines
<1>6. Solves(f, Len(b)) BY <1>3, <1>4 DEF N
<1> HIDE DEF f
<1>7. f[0] = << << >> >> BY <1>6
<1>8. \A k \in 1 .. Len(b) : f[k] = Divided(f[k - 1], b[k]) BY <1>6
<1> QED BY <1>5, <1>7, <1>8

\* What a terminal has on its lines before a byte.
LEMMA ScreenSolved ==
    ASSUME NEW b, Len(b) \in Nat
    PROVE  \E at : /\ Screen(b) = Visible(at[Len(b)])
                   /\ at[0] = << << >> >>
                   /\ \A k \in 1 .. Len(b) : at[k] = Shows(at[k - 1], b[k])
<1> DEFINE Solves(g, n) ==
             g = [k \in 0 .. n |-> IF k = 0 THEN << << >> >> ELSE Shows(g[k - 1], b[k])]
           N == {n \in Nat : \E g : Solves(g, n)}
<1>1. 0 \in N
    <2> DEFINE g == [k \in 0 .. 0 |-> << << >> >>]
    <2>1. Solves(g, 0) OBVIOUS
    <2> QED BY <2>1
<1>2. ASSUME NEW n \in Nat, n \in N PROVE n + 1 \in N
    <2>1. PICK g : Solves(g, n) BY <1>2
    <2> DEFINE h == [k \in 0 .. n + 1 |-> IF k = n + 1 THEN Shows(g[n], b[n + 1]) ELSE g[k]]
    <2>2. Solves(h, n + 1) BY <2>1
    <2> HIDE DEF h, Solves
    <2> QED BY <2>2
<1> HIDE DEF N
<1>3. Len(b) \in N BY <1>1, <1>2, Induction
<1> DEFINE f[k \in 0 .. Len(b)] == IF k = 0 THEN << << >> >> ELSE Shows(f[k - 1], b[k])
<1>4. f = CHOOSE g : Solves(g, Len(b)) OBVIOUS
<1>5. Screen(b) = Visible(f[Len(b)]) BY DEF Screen
<1>6. Solves(f, Len(b)) BY <1>3, <1>4 DEF N
<1> HIDE DEF f
<1>7. f[0] = << << >> >> BY <1>6
<1>8. \A k \in 1 .. Len(b) : f[k] = Shows(f[k - 1], b[k]) BY <1>6
<1> QED BY <1>5, <1>7, <1>8

\* What has been kept of the lines so far.
LEMMA VisibleSolved ==
    ASSUME NEW lines, Len(lines) \in Nat
    PROVE  \E at : /\ Visible(lines) = at[Len(lines)]
                   /\ at[0] = << >>
                   /\ \A k \in 1 .. Len(lines) : at[k] = Keep(at[k - 1], lines[k])
<1> DEFINE Solves(g, n) ==
             g = [k \in 0 .. n |-> IF k = 0 THEN << >> ELSE Keep(g[k - 1], lines[k])]
           N == {n \in Nat : \E g : Solves(g, n)}
<1>1. 0 \in N
    <2> DEFINE g == [k \in 0 .. 0 |-> << >>]
    <2>1. Solves(g, 0) OBVIOUS
    <2> QED BY <2>1
<1>2. ASSUME NEW n \in Nat, n \in N PROVE n + 1 \in N
    <2>1. PICK g : Solves(g, n) BY <1>2
    <2> DEFINE h == [k \in 0 .. n + 1 |-> IF k = n + 1 THEN Keep(g[n], lines[n + 1]) ELSE g[k]]
    <2>2. Solves(h, n + 1) BY <2>1
    <2> HIDE DEF h, Solves
    <2> QED BY <2>2
<1> HIDE DEF N
<1>3. Len(lines) \in N BY <1>1, <1>2, Induction
<1> DEFINE f[k \in 0 .. Len(lines)] == IF k = 0 THEN << >> ELSE Keep(f[k - 1], lines[k])
<1>4. f = CHOOSE g : Solves(g, Len(lines)) OBVIOUS
<1>5. Visible(lines) = f[Len(lines)] BY DEF Visible, Keep
<1>6. Solves(f, Len(lines)) BY <1>3, <1>4 DEF N
<1> HIDE DEF f
<1>7. f[0] = << >> BY <1>6
<1>8. \A k \in 1 .. Len(lines) : f[k] = Keep(f[k - 1], lines[k]) BY <1>6
<1> QED BY <1>5, <1>7, <1>8

\* The last of some positions, or 0.
LastIndex(I) == IF I # {} THEN Max(I) ELSE 0

LEMMA LastIndexIs ==
    ASSUME NEW n \in Nat, NEW I \in SUBSET (1 .. n), NEW m \in 0 .. n,
           m = 0 \/ m \in I, \A i \in I : i <= m
    PROVE  LastIndex(I) = m
<1>1. CASE I = {} BY <1>1 DEF LastIndex
<1>2. CASE I # {}
    <2>1. \A i \in I : i \in 1 .. n OBVIOUS
    <2>2. m \in I
        <3>1. PICK i \in I : TRUE BY <1>2
        <3>2. i \in 1 .. n /\ i <= m BY <2>1
        <3>3. m # 0 BY <3>2
        <3> QED BY <3>3
    <2>3. \A x \in I : (\A y \in I : x >= y) => x = m BY <2>1, <2>2
    <2>4. \A y \in I : m >= y BY <2>1
    <2> QED BY <1>2, <2>2, <2>3, <2>4 DEF LastIndex, Max
<1> QED BY <1>1, <1>2

LEMMA LastIndexOf ==
    ASSUME NEW n \in Nat, NEW I \in SUBSET (1 .. n)
    PROVE  /\ LastIndex(I) \in 0 .. n
           /\ LastIndex(I) = 0 \/ LastIndex(I) \in I
           /\ \A i \in I : i <= LastIndex(I)
<1>1. CASE I = {} BY <1>1 DEF LastIndex
<1>2. CASE I # {}
    <2>1. PICK x \in I : \A y \in I : y <= x BY <1>2, LastOfSome
    <2>2. x \in 0 .. n OBVIOUS
    <2>3. LastIndex(I) = x BY <2>1, <2>2, LastIndexIs
    <2> QED BY <2>1, <2>2, <2>3
<1> QED BY <1>1, <1>2

Returns(line) == {i \in 1 .. Len(line) : line[i] = CR}
Texts(line) == {i \in 1 .. Len(line) : line[i] # Blank}

LEMMA SettledIs ==
    ASSUME NEW line
    PROVE  SettledText(line) = SubSeq(line, LastIndex(Returns(line)) + 1, Len(line))
    BY DEF SettledText, SelectLastInSeq, LastIndex, Returns

LEMMA TrimmedIs ==
    ASSUME NEW line
    PROVE  Trimmed(line) = SubSeq(line, 1, LastIndex(Texts(line)))
    BY DEF Trimmed, SelectLastInSeq, LastIndex, Texts

LEMMA SettledNothing == SettledText(<< >>) = << >>
<1>1. LastIndex(Returns(<< >>)) = 0 BY DEF LastIndex, Returns
<1>2. SettledText(<< >>) = SubSeq(<< >>, 0 + 1, 0) BY <1>1, SettledIs
<1> QED BY <1>2, SubSeqEmpty

\* A return takes back what a line settled on; any other byte is added to it.
LEMMA SettledAppend ==
    ASSUME NEW S, NEW line \in Seq(S), NEW c \in S
    PROVE  /\ SettledText(line) \in Seq(S)
           /\ SettledText(Append(line, c)) =
                IF c = CR THEN << >> ELSE Append(SettledText(line), c)
<1> DEFINE n == Len(line)
           I == Returns(line)
           m == LastIndex(I)
           more == Append(line, c)
           s == SettledText(line)
<1>1. n \in Nat /\ I \in SUBSET (1 .. n) BY DEF Returns
<1>2. /\ more \in Seq(S) /\ Len(more) = n + 1 /\ more[n + 1] = c
      /\ \A i \in 1 .. n : more[i] = line[i]
    BY AppendProperties
<1>3. s = SubSeq(line, m + 1, n) BY SettledIs
<1>4. \A i : i \in I <=> i \in 1 .. n /\ line[i] = CR BY DEF Returns
<1> HIDE DEF I
<1>5. m \in 0 .. n /\ (m = 0 \/ m \in I) /\ \A i \in I : i <= m BY <1>1, LastIndexOf
<1> HIDE DEF n, m, more, s
<1>6. SettledText(more) = SubSeq(more, LastIndex(Returns(more)) + 1, n + 1)
    BY <1>2, SettledIs
<1>7. Returns(more) \in SUBSET (1 .. n + 1) BY <1>2 DEF Returns
<1>8. \A i : i \in Returns(more) <=> i \in 1 .. n + 1 /\ more[i] = CR BY <1>2 DEF Returns
<1>9. /\ s \in Seq(S) /\ Len(s) = n - m
      /\ \A i \in 1 .. n - m : s[i] = line[m + i]
    <2>1. \A i \in m + 1 .. n : line[i] \in S BY <1>1, <1>5 DEF n
    <2>2. m + 1 \in Int /\ n \in Int BY <1>1, <1>5
    <2>3. /\ s \in Seq(S) /\ Len(s) = IF m + 1 <= n THEN n - (m + 1) + 1 ELSE 0
          /\ \A i \in 1 .. n - (m + 1) + 1 : s[i] = line[(m + 1) + i - 1]
        BY <1>3, <2>1, <2>2, SubSeqProperties
    <2>4. Len(s) = n - m /\ n - (m + 1) + 1 = n - m BY <1>1, <1>5, <2>3
    <2>5. \A i \in 1 .. n - m : (m + 1) + i - 1 = m + i BY <1>1, <1>5
    <2> QED BY <2>3, <2>4, <2>5
<1>10. CASE c = CR
    <2>1. n + 1 \in Returns(more) BY <1>1, <1>2, <1>8, <1>10
    <2>2. LastIndex(Returns(more)) = n + 1
        <3>1. \A i \in Returns(more) : i <= n + 1 BY <1>1, <1>7
        <3>2. n + 1 \in Nat /\ n + 1 \in 0 .. n + 1 BY <1>1
        <3> QED BY <1>7, <2>1, <3>1, <3>2, LastIndexIs
    <2>3. SubSeq(more, (n + 1) + 1, n + 1) = << >> BY <1>1, SubSeqEmpty
    <2> QED BY <1>6, <1>9, <1>10, <2>2, <2>3 DEF s, more
<1>11. CASE c # CR
    <2>1. LastIndex(Returns(more)) = m
        <3>1. \A i \in Returns(more) : i \in I BY <1>1, <1>2, <1>4, <1>8, <1>11
        <3>2. m = 0 \/ m \in Returns(more) BY <1>1, <1>2, <1>4, <1>5, <1>8
        <3>3. n + 1 \in Nat /\ m \in 0 .. n + 1 BY <1>1, <1>5
        <3> QED BY <1>5, <1>7, <3>1, <3>2, <3>3, LastIndexIs
    <2> DEFINE t == SubSeq(more, m + 1, n + 1)
    <2>2. SettledText(more) = t BY <1>6, <2>1
    <2>3. \A i \in m + 1 .. n + 1 : more[i] \in S BY <1>1, <1>2, <1>5
    <2>4. /\ t \in Seq(S) /\ Len(t) = (n - m) + 1
          /\ \A i \in 1 .. (n - m) + 1 : t[i] = more[m + i]
        <3>1. m + 1 \in Int /\ n + 1 \in Int BY <1>1, <1>5
        <3>2. /\ t \in Seq(S) /\ Len(t) = IF m + 1 <= n + 1 THEN (n + 1) - (m + 1) + 1 ELSE 0
              /\ \A i \in 1 .. (n + 1) - (m + 1) + 1 : t[i] = more[(m + 1) + i - 1]
            BY <2>3, <3>1, SubSeqProperties
        <3> HIDE DEF t
        <3>3. Len(t) = (n - m) + 1 /\ (n + 1) - (m + 1) + 1 = (n - m) + 1 BY <1>1, <1>5, <3>2
        <3>4. \A i \in 1 .. (n - m) + 1 : (m + 1) + i - 1 = m + i BY <1>1, <1>5
        <3> QED BY <3>2, <3>3, <3>4
    <2> DEFINE u == Append(s, c)
    <2>5. /\ u \in Seq(S) /\ Len(u) = (n - m) + 1 /\ u[(n - m) + 1] = c
          /\ \A i \in 1 .. n - m : u[i] = s[i]
        BY <1>9, AppendProperties
    <2> HIDE DEF t, u
    <2>6. ASSUME NEW i \in 1 .. Len(t) PROVE t[i] = u[i]
        <3>1. CASE i = (n - m) + 1
            <4>1. m + i = n + 1 BY <1>1, <1>5, <3>1
            <4>2. t[i] = more[m + i] BY <2>4
            <4> QED BY <1>2, <2>5, <3>1, <4>1, <4>2
        <3>2. CASE i # (n - m) + 1
            <4>1. i \in 1 .. n - m /\ m + i \in 1 .. n BY <1>1, <1>5, <2>4, <3>2
            <4>2. t[i] = more[m + i] BY <2>4
            <4> QED BY <1>2, <1>9, <2>5, <4>1, <4>2
        <3> QED BY <3>1, <3>2
    <2>7. t = u BY <2>4, <2>5, <2>6, SameSeq
    <2> QED BY <1>9, <1>11, <2>2, <2>7 DEF s, u, more
<1> QED BY <1>10, <1>11

\* s is the end of t.
Ends(t, s) ==
    /\ Len(s) <= Len(t)
    /\ \A i \in 1 .. Len(s) : s[i] = t[Len(t) - Len(s) + i]

LEMMA EndsIsSuffix ==
    ASSUME NEW S, NEW t \in Seq(S), NEW s \in Seq(S), Ends(t, s)
    PROVE  IsSuffix(s, t)
<1> DEFINE a == Reverse(s)
           z == Reverse(t)
<1>1. Len(s) \in Nat /\ Len(t) \in Nat /\ Len(s) <= Len(t) BY DEF Ends
<1>2. a = [i \in 1 .. Len(s) |-> s[(Len(s) - i) + 1]] /\ z = [i \in 1 .. Len(t) |-> t[(Len(t) - i) + 1]]
    BY DEF Reverse
<1>3. \A i \in 1 .. Len(s) : a[i] = s[(Len(s) - i) + 1] /\ (Len(s) - i) + 1 \in 1 .. Len(s)
    BY <1>1, <1>2
<1>4. \A i \in 1 .. Len(t) : z[i] = t[(Len(t) - i) + 1] /\ (Len(t) - i) + 1 \in 1 .. Len(t)
    BY <1>1, <1>2
<1>5. a \in Seq(S) /\ Len(a) = Len(s)
    <2>1. \A i \in 1 .. Len(s) : a[i] \in S BY <1>3
    <2> HIDE DEF a
    <2>2. a \in [1 .. Len(s) -> S] BY <1>2, <2>1
    <2> QED BY <1>1, <2>2
<1>6. z \in Seq(S) /\ Len(z) = Len(t)
    <2>1. \A i \in 1 .. Len(t) : z[i] \in S BY <1>4
    <2> HIDE DEF z
    <2>2. z \in [1 .. Len(t) -> S] BY <1>2, <2>1
    <2> QED BY <1>1, <2>2
<1>7. \A i \in 1 .. Len(s) : a[i] = z[i]
    <2>1. SUFFICES ASSUME NEW i \in 1 .. Len(s) PROVE a[i] = z[i] OBVIOUS
    <2> DEFINE j == (Len(s) - i) + 1
    <2>2. j \in 1 .. Len(s) /\ a[i] = s[j] BY <1>3
    <2>3. i \in 1 .. Len(t) BY <1>1
    <2>4. z[i] = t[(Len(t) - i) + 1] BY <1>4, <2>3
    <2>5. (Len(t) - i) + 1 = Len(t) - Len(s) + j BY <1>1
    <2> HIDE DEF j, a, z
    <2>6. s[j] = t[Len(t) - Len(s) + j] BY <2>2 DEF Ends
    <2> QED BY <2>2, <2>4, <2>5, <2>6
<1> HIDE DEF a, z
<1>8. SubSeq(a, 1, Len(s)) = SubSeq(z, 1, Len(s))
    <2>1. SubSeq(a, 1, Len(s)) = [i \in 1 .. Len(s) |-> a[i]] BY <1>1, <1>5
    <2>2. SubSeq(z, 1, Len(s)) = [i \in 1 .. Len(s) |-> z[i]] BY <1>1, <1>6
    <2> QED BY <1>7, <2>1, <2>2
<1>9. IsPrefix(a, z) BY <1>1, <1>5, <1>6, <1>8 DEF IsPrefix
<1> QED BY <1>9 DEF IsSuffix, a, z

LEMMA EndsAppend ==
    ASSUME NEW S, NEW t \in Seq(S), NEW s \in Seq(S), Ends(t, s), NEW c \in S
    PROVE  Ends(Append(t, c), Append(s, c))
<1> DEFINE v == Append(t, c)
           u == Append(s, c)
<1>1. Len(s) \in Nat /\ Len(t) \in Nat /\ Len(s) <= Len(t) BY DEF Ends
<1>2. /\ Len(v) = Len(t) + 1 /\ v[Len(t) + 1] = c
      /\ \A i \in 1 .. Len(t) : v[i] = t[i]
    BY AppendProperties
<1>3. /\ Len(u) = Len(s) + 1 /\ u[Len(s) + 1] = c
      /\ \A i \in 1 .. Len(s) : u[i] = s[i]
    BY AppendProperties
<1> HIDE DEF u, v
<1>4. ASSUME NEW i \in 1 .. Len(u) PROVE u[i] = v[Len(v) - Len(u) + i]
    <2>1. CASE i = Len(s) + 1
        <3>1. Len(v) - Len(u) + i = Len(t) + 1 BY <1>1, <1>2, <1>3, <2>1
        <3> QED BY <1>2, <1>3, <2>1, <3>1
    <2>2. CASE i # Len(s) + 1
        <3>1. i \in 1 .. Len(s) BY <1>1, <1>3, <2>2
        <3>2. Len(v) - Len(u) + i = Len(t) - Len(s) + i /\ Len(t) - Len(s) + i \in 1 .. Len(t)
            BY <1>1, <1>2, <1>3, <3>1
        <3>3. s[i] = t[Len(t) - Len(s) + i] BY <3>1 DEF Ends
        <3>4. u[i] = s[i] BY <1>3, <3>1
        <3>5. v[Len(t) - Len(s) + i] = t[Len(t) - Len(s) + i] BY <1>2, <3>2
        <3> QED BY <3>2, <3>3, <3>4, <3>5
    <2> QED BY <2>1, <2>2
<1>5. Len(u) <= Len(v) BY <1>1, <1>2, <1>3
<1> QED BY <1>4, <1>5 DEF Ends, u, v

LEMMA TrimmedOf ==
    ASSUME NEW S, NEW line \in Seq(S)
    PROVE  LET m == LastIndex(Texts(line))
               t == Trimmed(line)
           IN  /\ t \in Seq(S) /\ Len(t) = m /\ m \in 0 .. Len(line)
               /\ \A i \in 1 .. m : t[i] = line[i]
               /\ m = 0 \/ line[m] # Blank
               /\ \A i \in 1 .. Len(line) : line[i] # Blank => i <= m
<1> DEFINE m == LastIndex(Texts(line))
           t == Trimmed(line)
<1>1. Len(line) \in Nat OBVIOUS
<1>2. Texts(line) \in SUBSET (1 .. Len(line)) BY DEF Texts
<1>3. \A i : i \in Texts(line) <=> i \in 1 .. Len(line) /\ line[i] # Blank BY DEF Texts
<1>4. m \in 0 .. Len(line) /\ (m = 0 \/ m \in Texts(line)) /\ \A i \in Texts(line) : i <= m
    BY <1>1, <1>2, LastIndexOf
<1>5. t = SubSeq(line, 1, m) BY TrimmedIs
<1> HIDE DEF m, t
<1>6. t \in Seq(S) /\ Len(t) = m /\ \A i \in 1 .. m : t[i] = line[i]
    <2>1. \A i \in 1 .. m : line[i] \in S BY <1>1, <1>4
    <2>2. m \in Nat BY <1>4
    <2>3. /\ t \in Seq(S) /\ Len(t) = IF 1 <= m THEN m - 1 + 1 ELSE 0
          /\ \A i \in 1 .. m - 1 + 1 : t[i] = line[1 + i - 1]
        BY <1>5, <2>1, <2>2, SubSeqProperties
    <2>4. Len(t) = m /\ m - 1 + 1 = m BY <2>2, <2>3
    <2>5. \A i \in 1 .. m : 1 + i - 1 = i BY <2>2
    <2> QED BY <2>3, <2>4, <2>5
<1>7. m = 0 \/ line[m] # Blank BY <1>3, <1>4
<1>8. \A i \in 1 .. Len(line) : line[i] # Blank => i <= m BY <1>3, <1>4
<1> QED BY <1>4, <1>6, <1>7, <1>8 DEF m, t

\* If there is something to see of the end of a line, it is the end of what
\* there is to see of the line.
LEMMA EndsTrimmed ==
    ASSUME NEW S, NEW t \in Seq(S), NEW s \in Seq(S), Ends(t, s), Trimmed(s) # << >>
    PROVE  Trimmed(t) # << >> /\ Ends(Trimmed(t), Trimmed(s))
<1> DEFINE u == Trimmed(s)
           v == Trimmed(t)
           m == LastIndex(Texts(s))
           n == LastIndex(Texts(t))
           off == Len(t) - Len(s)
<1>1. Len(s) \in Nat /\ Len(t) \in Nat /\ Len(s) <= Len(t) BY DEF Ends
<1>2. /\ u \in Seq(S) /\ Len(u) = m /\ m \in 0 .. Len(s)
      /\ \A i \in 1 .. m : u[i] = s[i]
      /\ m = 0 \/ s[m] # Blank
      /\ \A i \in 1 .. Len(s) : s[i] # Blank => i <= m
    BY TrimmedOf
<1>3. /\ v \in Seq(S) /\ Len(v) = n /\ n \in 0 .. Len(t)
      /\ \A i \in 1 .. n : v[i] = t[i]
      /\ n = 0 \/ t[n] # Blank
      /\ \A i \in 1 .. Len(t) : t[i] # Blank => i <= n
    BY TrimmedOf
<1>4. \A i \in 1 .. Len(s) : s[i] = t[off + i] BY DEF Ends
<1>5. off \in Nat /\ off <= Len(t) /\ Len(t) = off + Len(s) BY <1>1
<1>6. u # << >> OBVIOUS
<1> HIDE DEF u, v, m, n, off
<1>7. m # 0 BY <1>2, <1>6
<1>8. n = off + m
    <2>1. m \in 1 .. Len(s) /\ off + m \in 1 .. Len(t) BY <1>1, <1>2, <1>5, <1>7
    <2>2. t[off + m] # Blank BY <1>2, <1>4, <1>7, <2>1
    <2>3. off + m <= n BY <1>3, <2>1, <2>2
    <2>4. ~(off + m < n)
        <3>1. SUFFICES ASSUME off + m < n PROVE FALSE OBVIOUS
        <3>2. n - off \in 1 .. Len(s) /\ off + (n - off) = n /\ ~(n - off <= m) /\ n # 0
            BY <1>1, <1>2, <1>3, <1>5, <3>1
        <3>3. s[n - off] = t[n] BY <1>4, <3>2
        <3> QED BY <1>2, <1>3, <3>2, <3>3
    <2> QED BY <1>2, <1>3, <1>5, <2>3, <2>4
<1>9. v # << >>
    <2>1. Len(v) # 0 BY <1>2, <1>3, <1>5, <1>7, <1>8
    <2> QED BY <2>1
<1>10. ASSUME NEW i \in 1 .. Len(u) PROVE u[i] = v[Len(v) - Len(u) + i]
    <2>1. Len(v) - Len(u) + i = off + i /\ off + i \in 1 .. n /\ i \in 1 .. m /\ i \in 1 .. Len(s)
        BY <1>1, <1>2, <1>3, <1>5, <1>8
    <2>2. u[i] = s[i] /\ s[i] = t[off + i] /\ v[off + i] = t[off + i] BY <1>2, <1>3, <1>4, <2>1
    <2> QED BY <2>1, <2>2
<1>11. Len(u) <= Len(v) BY <1>2, <1>3, <1>5, <1>8
<1> QED BY <1>9, <1>10, <1>11 DEF Ends, u, v

\* A line is a sequence of bytes.
TextLines == Seq(Bytes)

\* The last of some lines is replaced.
LEMMA LastReplaced ==
    ASSUME NEW W, NEW ls \in Seq(W), Len(ls) > 0, NEW x \in W
    PROVE  LET m == Append(Front(ls), x)
           IN  /\ m \in Seq(W) /\ Len(m) = Len(ls) /\ m[Len(ls)] = x
               /\ \A i \in 1 .. Len(ls) : i # Len(ls) => m[i] = ls[i]
<1> DEFINE f == Front(ls)
           m == Append(f, x)
           n == Len(ls)
<1>1. n \in Nat /\ n > 0 OBVIOUS
<1>2. /\ f \in Seq(W) /\ Len(f) = n - 1
      /\ \A i \in 1 .. n - 1 : f[i] = ls[i]
    <2>1. f = SubSeq(ls, 1, n - 1) BY DEF Front
    <2>2. n - 1 \in Int /\ \A i \in 1 .. n - 1 : ls[i] \in W BY <1>1
    <2> HIDE DEF f
    <2>3. /\ f \in Seq(W) /\ Len(f) = IF 1 <= n - 1 THEN (n - 1) - 1 + 1 ELSE 0
          /\ \A i \in 1 .. (n - 1) - 1 + 1 : f[i] = ls[1 + i - 1]
        BY <2>1, <2>2, SubSeqProperties
    <2> HIDE DEF n
    <2>4. Len(f) = n - 1 /\ (n - 1) - 1 + 1 = n - 1 BY <1>1, <2>3
    <2>5. \A i \in 1 .. n - 1 : 1 + i - 1 = i BY <1>1
    <2> QED BY <2>3, <2>4, <2>5
<1> HIDE DEF f
<1>3. /\ m \in Seq(W) /\ Len(m) = (n - 1) + 1 /\ m[(n - 1) + 1] = x
      /\ \A i \in 1 .. n - 1 : m[i] = f[i]
    BY <1>2, AppendProperties
<1> HIDE DEF m, n
<1>4. (n - 1) + 1 = n BY <1>1
<1>5. \A i \in 1 .. n : i # n => i \in 1 .. n - 1 BY <1>1
<1>6. \A i \in 1 .. n : i # n => m[i] = ls[i] BY <1>2, <1>3, <1>5
<1> QED BY <1>3, <1>4, <1>6 DEF m, n, f

LEMMA DividedOf ==
    ASSUME NEW ls \in Seq(TextLines), Len(ls) > 0, NEW c \in Bytes
    PROVE  LET m == Divided(ls, c)
               n == Len(ls)
           IN  /\ m \in Seq(TextLines)
               /\ c = LF => /\ Len(m) = n + 1 /\ m[n + 1] = << >>
                            /\ \A i \in 1 .. n : m[i] = ls[i]
               /\ c # LF => /\ Len(m) = n /\ m[n] = Append(ls[n], c)
                            /\ \A i \in 1 .. n : i # n => m[i] = ls[i]
<1>1. CASE c = LF
    <2>1. << >> \in TextLines BY DEF TextLines
    <2>2. Divided(ls, c) = Append(ls, << >>) BY <1>1 DEF Divided
    <2> QED BY <1>1, <2>1, <2>2, AppendProperties
<1>2. CASE c # LF
    <2> DEFINE x == Append(ls[Len(ls)], c)
    <2>1. x \in TextLines
        <3>1. Len(ls) \in 1 .. Len(ls) OBVIOUS
        <3>2. ls[Len(ls)] \in TextLines BY <3>1
        <3> QED BY <3>2 DEF TextLines
    <2>2. Divided(ls, c) = Append(Front(ls), x) BY <1>2 DEF Divided, Last
    <2> HIDE DEF x
    <2>3. LET m == Append(Front(ls), x)
          IN  /\ m \in Seq(TextLines) /\ Len(m) = Len(ls) /\ m[Len(ls)] = x
              /\ \A i \in 1 .. Len(ls) : i # Len(ls) => m[i] = ls[i]
        BY <2>1, LastReplaced
    <2> QED BY <1>2, <2>2, <2>3 DEF x
<1> QED BY <1>1, <1>2

LEMMA ShowsOf ==
    ASSUME NEW ls \in Seq(TextLines), Len(ls) > 0, NEW c \in Bytes
    PROVE  LET m == Shows(ls, c)
               n == Len(ls)
           IN  /\ m \in Seq(TextLines)
               /\ c = LF => /\ Len(m) = n + 1 /\ m[n + 1] = << >>
                            /\ \A i \in 1 .. n : m[i] = ls[i]
               /\ c # LF => /\ Len(m) = n
                            /\ m[n] = IF c = CR THEN << >> ELSE Append(ls[n], c)
                            /\ \A i \in 1 .. n : i # n => m[i] = ls[i]
<1>1. CASE c = LF
    <2>1. << >> \in TextLines BY DEF TextLines
    <2>2. Shows(ls, c) = Append(ls, << >>) BY <1>1 DEF Shows, LF, CR
    <2> QED BY <1>1, <2>1, <2>2, AppendProperties
<1>2. CASE c # LF
    <2> DEFINE x == IF c = CR THEN << >> ELSE Append(ls[Len(ls)], c)
    <2>1. x \in TextLines
        <3>1. Len(ls) \in 1 .. Len(ls) OBVIOUS
        <3>2. ls[Len(ls)] \in TextLines BY <3>1
        <3> QED BY <3>2 DEF TextLines
    <2>2. Shows(ls, c) = Append(Front(ls), x) BY <1>2 DEF Shows, Last
    <2> HIDE DEF x
    <2>3. LET m == Append(Front(ls), x)
          IN  /\ m \in Seq(TextLines) /\ Len(m) = Len(ls) /\ m[Len(ls)] = x
              /\ \A i \in 1 .. Len(ls) : i # Len(ls) => m[i] = ls[i]
        BY <2>1, LastReplaced
    <2> QED BY <1>2, <2>2, <2>3 DEF x
<1> QED BY <1>1, <1>2

\* What String has of a buffer against what a terminal has of everything: its
\* lines are the terminal's last ones, from the d-th on, of which the first has
\* perhaps lost its start; not so if nothing, of the length p, was lost.
Follows(p, d, t, l) ==
    /\ t \in Seq(TextLines) /\ l \in Seq(TextLines)
    /\ Len(l) > 0 /\ Len(t) = d + Len(l)
    /\ \A n \in 1 .. Len(l) : n # 1 => t[d + n] = SettledText(l[n])
    /\ Ends(t[d + 1], SettledText(l[1]))
    /\ p = 0 => t[d + 1] = SettledText(l[1])

LEMMA EndsNothing == \A S : \A t \in Seq(S) : Ends(t, << >>)
    BY DEF Ends

LEMMA FollowsNext ==
    ASSUME NEW p \in Nat, NEW d \in Nat, NEW t, NEW l, Follows(p, d, t, l), NEW c \in Bytes
    PROVE  Follows(p, d, Shows(t, c), Divided(l, c))
<1> DEFINE u == Shows(t, c)
           m == Divided(l, c)
           n == Len(l)
<1>1. /\ t \in Seq(TextLines) /\ l \in Seq(TextLines)
      /\ n \in Nat /\ n > 0 /\ Len(t) = d + n /\ Len(t) > 0
    BY DEF Follows
<1>2. /\ \A i \in 1 .. n : i # 1 => t[d + i] = SettledText(l[i])
      /\ Ends(t[d + 1], SettledText(l[1]))
      /\ p = 0 => t[d + 1] = SettledText(l[1])
    BY DEF Follows
<1>3. /\ m \in Seq(TextLines)
      /\ c = LF => /\ Len(m) = n + 1 /\ m[n + 1] = << >>
                   /\ \A i \in 1 .. n : m[i] = l[i]
      /\ c # LF => /\ Len(m) = n /\ m[n] = Append(l[n], c)
                   /\ \A i \in 1 .. n : i # n => m[i] = l[i]
    BY <1>1, DividedOf
<1>4. /\ u \in Seq(TextLines)
      /\ c = LF => /\ Len(u) = (d + n) + 1 /\ u[(d + n) + 1] = << >>
                   /\ \A i \in 1 .. d + n : u[i] = t[i]
      /\ c # LF => /\ Len(u) = d + n
                   /\ u[d + n] = IF c = CR THEN << >> ELSE Append(t[d + n], c)
                   /\ \A i \in 1 .. d + n : i # d + n => u[i] = t[i]
    <2> DEFINE q == Len(t)
    <2>1. /\ u \in Seq(TextLines)
          /\ c = LF => /\ Len(u) = q + 1 /\ u[q + 1] = << >>
                       /\ \A i \in 1 .. q : u[i] = t[i]
          /\ c # LF => /\ Len(u) = q
                       /\ u[q] = IF c = CR THEN << >> ELSE Append(t[q], c)
                       /\ \A i \in 1 .. q : i # q => u[i] = t[i]
        BY <1>1, ShowsOf
    <2> HIDE DEF u, n, q
    <2>2. q = d + n BY <1>1 DEF q
    <2> QED BY <2>1, <2>2
<1>5. l[n] \in Seq(Bytes) /\ t[d + n] \in Seq(Bytes)
    <2>1. n \in 1 .. n /\ d + n \in 1 .. Len(t) BY <1>1
    <2>2. l[n] \in TextLines /\ t[d + n] \in TextLines BY <1>1, <2>1
    <2> QED BY <2>2 DEF TextLines
<1> HIDE DEF u, m, n
<1>6. CASE c = LF
    <2>1. SettledText(<< >>) = << >> BY SettledNothing
    <2>2. ASSUME NEW i \in 1 .. Len(m), i # 1 PROVE u[d + i] = SettledText(m[i])
        <3>1. CASE i = n + 1
            <4>1. d + i = (d + n) + 1 BY <1>1, <3>1
            <4> QED BY <1>3, <1>4, <1>6, <2>1, <3>1, <4>1
        <3>2. CASE i # n + 1
            <4>1. i \in 1 .. n /\ d + i \in 1 .. d + n BY <1>1, <1>3, <1>6, <3>2
            <4> QED BY <1>2, <1>3, <1>4, <1>6, <2>2, <4>1
        <3> QED BY <3>1, <3>2
    <2>3. 1 \in 1 .. n /\ d + 1 \in 1 .. d + n BY <1>1
    <2>4. m[1] = l[1] /\ u[d + 1] = t[d + 1] BY <1>3, <1>4, <1>6, <2>3
    <2>5. Len(m) > 0 /\ Len(u) = d + Len(m)
        <3>1. Len(m) = n + 1 /\ Len(u) = (d + n) + 1 BY <1>3, <1>4, <1>6
        <3> QED BY <1>1, <3>1
    <2>6. Follows(p, d, u, m) BY <1>2, <1>3, <1>4, <2>2, <2>4, <2>5 DEF Follows
    <2> QED BY <2>6 DEF u, m
<1>7. CASE c # LF
    <2>1. SettledText(m[n]) = IF c = CR THEN << >> ELSE Append(SettledText(l[n]), c)
        <3>1. m[n] = Append(l[n], c) BY <1>3, <1>7
        <3>2. SettledText(Append(l[n], c)) = IF c = CR THEN << >> ELSE Append(SettledText(l[n]), c)
            BY <1>5, SettledAppend
        <3> QED BY <3>1, <3>2
    <2>2. t[d + n] = SettledText(l[n]) => u[d + n] = SettledText(m[n])
        BY <1>4, <1>7, <2>1
    <2>3. ASSUME NEW i \in 1 .. Len(m), i # 1 PROVE u[d + i] = SettledText(m[i])
        <3>1. CASE i = n
            <4>1. n \in 1 .. n /\ n # 1 BY <1>1, <2>3, <3>1
            <4> QED BY <1>2, <2>2, <3>1, <4>1
        <3>2. CASE i # n
            <4>1. i \in 1 .. n /\ d + i \in 1 .. d + n /\ d + i # d + n BY <1>1, <1>3, <1>7, <3>2
            <4> QED BY <1>2, <1>3, <1>4, <1>7, <2>3, <3>2, <4>1
        <3> QED BY <3>1, <3>2
    <2>4. /\ Ends(u[d + 1], SettledText(m[1]))
          /\ p = 0 => u[d + 1] = SettledText(m[1])
        <3>1. CASE n = 1
            <4>1. CASE c = CR
                <5>1. u[d + 1] = << >> /\ SettledText(m[1]) = << >> BY <1>4, <1>7, <2>1, <3>1, <4>1
                <5>2. << >> \in Seq(Bytes) OBVIOUS
                <5> QED BY <5>1, <5>2, EndsNothing
            <4>2. CASE c # CR
                <5>1. /\ u[d + 1] = Append(t[d + 1], c)
                      /\ SettledText(m[1]) = Append(SettledText(l[1]), c)
                    BY <1>4, <1>7, <2>1, <3>1, <4>2
                <5>2. SettledText(l[1]) \in Seq(Bytes) /\ t[d + 1] \in Seq(Bytes)
                    BY <1>5, <3>1, SettledAppend
                <5>3. Ends(Append(t[d + 1], c), Append(SettledText(l[1]), c))
                    BY <1>2, <5>2, EndsAppend
                <5> QED BY <1>2, <5>1, <5>3
            <4> QED BY <4>1, <4>2
        <3>2. CASE n # 1
            <4>1. 1 \in 1 .. n /\ d + 1 \in 1 .. d + n /\ d + 1 # d + n BY <1>1, <3>2
            <4>2. m[1] = l[1] /\ u[d + 1] = t[d + 1] BY <1>3, <1>4, <1>7, <3>2, <4>1
            <4> QED BY <1>2, <4>2
        <3> QED BY <3>1, <3>2
    <2>5. Len(m) > 0 /\ Len(u) = d + Len(m) BY <1>1, <1>3, <1>4, <1>7
    <2>6. Follows(p, d, u, m) BY <1>3, <1>4, <2>3, <2>4, <2>5 DEF Follows
    <2> QED BY <2>6 DEF u, m
<1> QED BY <1>6, <1>7

\* IsTailOf, element by element.
Tails(all, some) ==
    /\ Len(some) <= Len(all)
    /\ \A n \in 1 .. Len(some) :
         IF n = 1 THEN Ends(all[Len(all) - Len(some) + n], some[n])
         ELSE some[n] = all[Len(all) - Len(some) + n]

LEMMA TailsIsTailOf ==
    ASSUME NEW all \in Seq(TextLines), NEW some \in Seq(TextLines), Tails(all, some)
    PROVE  IsTailOf(some, all)
<1>1. Len(some) \in Nat /\ Len(all) \in Nat /\ Len(some) <= Len(all) BY DEF Tails
<1>2. DOMAIN some = 1 .. Len(some) OBVIOUS
<1>3. ASSUME NEW n \in 1 .. Len(some)
      PROVE  IF n = 1 THEN IsSuffix(some[n], all[(Len(all) - Len(some)) + n])
             ELSE some[n] = all[(Len(all) - Len(some)) + n]
    <2>1. CASE n = 1
        <3>1. Len(all) - Len(some) + n \in 1 .. Len(all) BY <1>1
        <3>2. some[n] \in TextLines /\ all[Len(all) - Len(some) + n] \in TextLines BY <3>1
        <3>3. some[n] \in Seq(Bytes) /\ all[Len(all) - Len(some) + n] \in Seq(Bytes)
            BY <3>2 DEF TextLines
        <3>4. Ends(all[Len(all) - Len(some) + n], some[n]) BY <2>1 DEF Tails
        <3>5. IsSuffix(some[n], all[Len(all) - Len(some) + n]) BY <3>3, <3>4, EndsIsSuffix
        <3> QED BY <2>1, <3>5
    <2>2. CASE n # 1 BY <2>2 DEF Tails
    <2> QED BY <2>1, <2>2
<1> QED BY <1>1, <1>2, <1>3 DEF IsTailOf

LEMMA EndsSelf == \A S : \A s \in Seq(S) : Ends(s, s)
<1>1. ASSUME NEW S, NEW s \in Seq(S) PROVE Ends(s, s)
    <2>1. Len(s) \in Nat OBVIOUS
    <2>2. \A i \in 1 .. Len(s) : Len(s) - Len(s) + i = i BY <2>1
    <2> QED BY <2>1, <2>2 DEF Ends
<1> QED BY <1>1

LEMMA TrimmedType == \A line \in TextLines : Trimmed(line) \in TextLines
<1>1. ASSUME NEW line \in TextLines PROVE Trimmed(line) \in TextLines
    <2>1. line \in Seq(Bytes) BY DEF TextLines
    <2>2. Trimmed(line) \in Seq(Bytes) BY <2>1, TrimmedOf
    <2> QED BY <2>2 DEF TextLines
<1> QED BY <1>1

LEMMA KeepType ==
    ASSUME NEW kept \in Seq(TextLines), NEW line \in TextLines
    PROVE  Keep(kept, line) \in Seq(TextLines)
<1>1. Trimmed(line) \in TextLines BY TrimmedType
<1> QED BY <1>1, AppendProperties DEF Keep

\* The same line is kept at the end of both.
LEMMA TailsKeep ==
    ASSUME NEW all \in Seq(TextLines), NEW some \in Seq(TextLines), Tails(all, some),
           NEW line \in TextLines
    PROVE  Tails(Keep(all, line), Keep(some, line))
<1>1. CASE Trimmed(line) = << >> BY <1>1 DEF Keep
<1>2. CASE Trimmed(line) # << >>
    <2> DEFINE x == Trimmed(line)
               v == Append(all, x)
               u == Append(some, x)
    <2>1. x \in TextLines BY TrimmedType
    <2>2. Keep(all, line) = v /\ Keep(some, line) = u BY <1>2 DEF Keep
    <2> HIDE DEF x
    <2>3. Len(some) \in Nat /\ Len(all) \in Nat /\ Len(some) <= Len(all) BY DEF Tails
    <2>4. /\ Len(v) = Len(all) + 1 /\ v[Len(all) + 1] = x
          /\ \A i \in 1 .. Len(all) : v[i] = all[i]
        BY <2>1, AppendProperties
    <2>5. /\ Len(u) = Len(some) + 1 /\ u[Len(some) + 1] = x
          /\ \A i \in 1 .. Len(some) : u[i] = some[i]
        BY <2>1, AppendProperties
    <2>6. Ends(x, x)
        <3>1. x \in Seq(Bytes) BY <2>1 DEF TextLines
        <3> QED BY <3>1, EndsSelf
    <2> HIDE DEF u, v
    <2>7. ASSUME NEW n \in 1 .. Len(u)
          PROVE  IF n = 1 THEN Ends(v[Len(v) - Len(u) + n], u[n])
                 ELSE u[n] = v[Len(v) - Len(u) + n]
        <3>1. CASE n = Len(some) + 1
            <4>1. Len(v) - Len(u) + n = Len(all) + 1 BY <2>3, <2>4, <2>5, <3>1
            <4>2. u[n] = x /\ v[Len(v) - Len(u) + n] = x BY <2>4, <2>5, <3>1, <4>1
            <4> QED BY <2>6, <4>2
        <3>2. CASE n # Len(some) + 1
            <4>1. n \in 1 .. Len(some) BY <2>3, <2>5, <3>2
            <4>2. /\ Len(v) - Len(u) + n = Len(all) - Len(some) + n
                  /\ Len(all) - Len(some) + n \in 1 .. Len(all)
                BY <2>3, <2>4, <2>5, <4>1
            <4>3. u[n] = some[n] BY <2>5, <4>1
            <4>4. v[Len(v) - Len(u) + n] = all[Len(all) - Len(some) + n] BY <2>4, <4>2
            <4>5. IF n = 1 THEN Ends(all[Len(all) - Len(some) + n], some[n])
                  ELSE some[n] = all[Len(all) - Len(some) + n]
                BY <4>1 DEF Tails
            <4> QED BY <4>3, <4>4, <4>5
        <3> QED BY <3>1, <3>2
    <2>8. Len(u) <= Len(v) BY <2>3, <2>4, <2>5
    <2>9. Tails(v, u) BY <2>7, <2>8 DEF Tails
    <2> QED BY <2>2, <2>9
<1> QED BY <1>1, <1>2

\* Of the first line that is left, its end is kept, if there is any of it.
LEMMA TailsFirst ==
    ASSUME NEW all \in Seq(TextLines), NEW t \in TextLines, NEW s \in TextLines, Ends(t, s)
    PROVE  Tails(Keep(all, t), Keep(<< >>, s))
<1> DEFINE k == Keep(all, t)
<1>1. k \in Seq(TextLines) /\ Len(k) \in Nat
    <2>1. k \in Seq(TextLines) BY KeepType
    <2> HIDE DEF k
    <2> QED BY <2>1
<1>2. CASE Trimmed(s) = << >>
    <2>1. Keep(<< >>, s) = << >> BY <1>2 DEF Keep
    <2> HIDE DEF k
    <2>2. Tails(k, << >>) BY <1>1 DEF Tails
    <2> QED BY <2>1, <2>2 DEF k
<1>3. CASE Trimmed(s) # << >>
    <2> DEFINE x == Trimmed(s)
               y == Trimmed(t)
    <2>1. s \in Seq(Bytes) /\ t \in Seq(Bytes) BY DEF TextLines
    <2>2. y # << >> /\ Ends(y, x) BY <1>3, <2>1, EndsTrimmed
    <2>3. x \in TextLines /\ y \in TextLines BY TrimmedType
    <2>4. k = Append(all, y) BY <2>2 DEF Keep
    <2>5. Keep(<< >>, s) = <<x>>
        <3>1. Keep(<< >>, s) = Append(<< >>, x) BY <1>3 DEF Keep
        <3> HIDE DEF x
        <3> QED BY <3>1
    <2> HIDE DEF k, x, y
    <2>6. /\ Len(k) = Len(all) + 1 /\ k[Len(all) + 1] = y /\ Len(all) \in Nat
        BY <2>3, <2>4, AppendProperties
    <2>7. Len(<<x>>) = 1 /\ <<x>>[1] = x OBVIOUS
    <2>8. Len(k) - 1 + 1 = Len(all) + 1 /\ 1 <= Len(k) BY <2>6
    <2>9. \A n \in 1 .. 1 : n = 1 OBVIOUS
    <2>10. Tails(k, <<x>>) BY <2>2, <2>6, <2>7, <2>8, <2>9 DEF Tails
    <2> QED BY <2>5, <2>10 DEF k
<1> QED BY <1>2, <1>3

LEMMA VisibleType ==
    ASSUME NEW lines \in Seq(TextLines), NEW at, at[0] = << >>,
           \A k \in 1 .. Len(lines) : at[k] = Keep(at[k - 1], lines[k])
    PROVE  \A k \in 0 .. Len(lines) : at[k] \in Seq(TextLines)
<1> DEFINE N == {k \in Nat : k <= Len(lines) => at[k] \in Seq(TextLines)}
<1>1. 0 \in N
    <2>1. << >> \in Seq(TextLines) OBVIOUS
    <2>2. at[0] \in Seq(TextLines) BY <2>1, Zenon
    <2> QED BY <2>2
<1>2. ASSUME NEW k \in Nat, k \in N PROVE k + 1 \in N
    <2>1. SUFFICES ASSUME k + 1 <= Len(lines) PROVE at[k + 1] \in Seq(TextLines) OBVIOUS
    <2>2. Len(lines) \in Nat OBVIOUS
    <2>3. k + 1 \in 1 .. Len(lines) /\ (k + 1) - 1 = k /\ k <= Len(lines) BY <2>1, <2>2
    <2>4. at[k] \in Seq(TextLines) BY <1>2, <2>3
    <2>5. lines[k + 1] \in TextLines BY <2>3
    <2>6. at[k + 1] = Keep(at[k], lines[k + 1]) BY <2>3
    <2> QED BY <2>4, <2>5, <2>6, KeepType
<1> HIDE DEF N
<1>3. Nat \subseteq N BY <1>1, <1>2, Induction
<1>4. \A k \in 0 .. Len(lines) : k \in Nat /\ k <= Len(lines) OBVIOUS
<1> QED BY <1>3, <1>4 DEF N

LEMMA VisibleTail ==
    ASSUME NEW t \in Seq(TextLines), NEW m \in Seq(TextLines), NEW d \in Nat,
           Len(m) > 0, Len(t) = d + Len(m),
           \A n \in 1 .. Len(m) : n # 1 => t[d + n] = m[n],
           Ends(t[d + 1], m[1])
    PROVE  IsTailOf(Visible(m), Visible(t))
<1>1. Len(m) \in Nat /\ Len(t) \in Nat OBVIOUS
<1>2. PICK x : /\ Visible(m) = x[Len(m)] /\ x[0] = << >>
               /\ \A k \in 1 .. Len(m) : x[k] = Keep(x[k - 1], m[k])
    BY <1>1, VisibleSolved
<1>3. PICK y : /\ Visible(t) = y[Len(t)] /\ y[0] = << >>
               /\ \A k \in 1 .. Len(t) : y[k] = Keep(y[k - 1], t[k])
    BY <1>1, VisibleSolved
<1>4. \A k \in 0 .. Len(m) : x[k] \in Seq(TextLines) BY <1>2, VisibleType
<1>5. \A k \in 0 .. Len(t) : y[k] \in Seq(TextLines) BY <1>3, VisibleType
<1> DEFINE N == {k \in Nat : k + 1 <= Len(m) => Tails(y[d + (k + 1)], x[k + 1])}
<1>6. 0 \in N
    <2>1. 1 \in 1 .. Len(m) /\ d + 1 \in 1 .. Len(t) /\ (d + 1) - 1 = d /\ d \in 0 .. Len(t)
        BY <1>1
    <2>2. x[1] = Keep(<< >>, m[1])
        <3>1. x[1] = Keep(x[1 - 1], m[1]) BY <1>2, <2>1
        <3> QED BY <1>2, <3>1
    <2>3. y[d + 1] = Keep(y[d], t[d + 1])
        <3>1. y[d + 1] = Keep(y[(d + 1) - 1], t[d + 1]) BY <1>3, <2>1
        <3> QED BY <2>1, <3>1
    <2>4. y[d] \in Seq(TextLines) BY <1>5, <2>1
    <2>5. m[1] \in TextLines /\ t[d + 1] \in TextLines BY <2>1
    <2>6. Tails(y[d + 1], x[1]) BY <2>2, <2>3, <2>4, <2>5, TailsFirst
    <2>7. 0 + 1 = 1 OBVIOUS
    <2> QED BY <2>6, <2>7
<1>7. ASSUME NEW k \in Nat, k \in N PROVE k + 1 \in N
    <2> DEFINE a == k + 1
               b == d + (k + 1)
    <2>1. SUFFICES ASSUME a + 1 <= Len(m) PROVE Tails(y[d + (a + 1)], x[a + 1]) OBVIOUS
    <2>2. Tails(y[b], x[a]) BY <1>1, <1>7, <2>1
    <2>3. /\ a + 1 \in 1 .. Len(m) /\ a + 1 # 1 /\ (a + 1) - 1 = a /\ a \in 0 .. Len(m)
          /\ d + (a + 1) = b + 1 /\ b + 1 \in 1 .. Len(t) /\ (b + 1) - 1 = b /\ b \in 0 .. Len(t)
        BY <1>1, <2>1
    <2> HIDE DEF a, b
    <2>4. x[a + 1] = Keep(x[a], m[a + 1]) BY <1>2, <2>3
    <2>5. y[b + 1] = Keep(y[b], t[b + 1]) BY <1>3, <2>3
    <2>6. t[b + 1] = m[a + 1]
        <3>1. t[d + (a + 1)] = m[a + 1] BY <2>3
        <3> QED BY <2>3, <3>1
    <2>7. x[a] \in Seq(TextLines) /\ y[b] \in Seq(TextLines) BY <1>4, <1>5, <2>3
    <2>8. m[a + 1] \in TextLines BY <2>3
    <2>9. Tails(y[b + 1], x[a + 1]) BY <2>2, <2>4, <2>5, <2>6, <2>7, <2>8, TailsKeep
    <2> QED BY <2>3, <2>9
<1> HIDE DEF N
<1>8. Len(m) - 1 \in N
    <2>1. Len(m) - 1 \in Nat BY <1>1
    <2>2. Nat \subseteq N BY <1>6, <1>7, Induction
    <2> QED BY <2>1, <2>2
<1>9. Tails(y[Len(t)], x[Len(m)])
    <2>1. (Len(m) - 1) + 1 <= Len(m) /\ (Len(m) - 1) + 1 = Len(m) BY <1>1
    <2>2. Tails(y[d + ((Len(m) - 1) + 1)], x[(Len(m) - 1) + 1]) BY <1>8, <2>1 DEF N
    <2> QED BY <2>1, <2>2
<1>10. x[Len(m)] \in Seq(TextLines) /\ y[Len(t)] \in Seq(TextLines)
    BY <1>1, <1>4, <1>5
<1> QED BY <1>2, <1>3, <1>9, <1>10, TailsIsTailOf

\* A terminal always has a line.
LEMMA ShownType ==
    ASSUME NEW w \in Seq(Bytes), NEW t, t[0] = << << >> >>,
           \A k \in 1 .. Len(w) : t[k] = Shows(t[k - 1], w[k])
    PROVE  \A k \in 0 .. Len(w) : t[k] \in Seq(TextLines) /\ Len(t[k]) > 0
<1> DEFINE Lined(s) == s \in Seq(TextLines) /\ Len(s) > 0
           N == {k \in Nat : k <= Len(w) => Lined(t[k])}
<1>1. 0 \in N
    <2>1. << >> \in TextLines BY DEF TextLines
    <2>2. << << >> >> \in Seq(TextLines) /\ Len(<< << >> >>) > 0 BY <2>1
    <2>3. Lined(t[0]) BY <2>2, Zenon
    <2> QED BY <2>3
<1>2. ASSUME NEW k \in Nat, k \in N PROVE k + 1 \in N
    <2>1. SUFFICES ASSUME k + 1 <= Len(w) PROVE Lined(t[k + 1]) OBVIOUS
    <2>2. Len(w) \in Nat OBVIOUS
    <2>3. k + 1 \in 1 .. Len(w) /\ (k + 1) - 1 = k /\ k <= Len(w) BY <2>1, <2>2
    <2>4. Lined(t[k]) BY <1>2, <2>3
    <2>5. w[k + 1] \in Bytes BY <2>3
    <2>6. t[k + 1] = Shows(t[k], w[k + 1]) BY <2>3
    <2>7. ASSUME NEW s \in Seq(TextLines), Len(s) > 0, NEW c \in Bytes
          PROVE  Lined(Shows(s, c))
        <3>1. Len(s) \in Nat OBVIOUS
        <3>2. /\ Shows(s, c) \in Seq(TextLines)
              /\ Len(Shows(s, c)) = Len(s) + 1 \/ Len(Shows(s, c)) = Len(s)
            BY <2>7, ShowsOf
        <3> QED BY <2>7, <3>1, <3>2
    <2> QED BY <2>4, <2>5, <2>6, <2>7
<1> HIDE DEF N
<1>3. Nat \subseteq N BY <1>1, <1>2, Induction
<1>4. \A k \in 0 .. Len(w) : k \in Nat /\ k <= Len(w) OBVIOUS
<1> QED BY <1>3, <1>4 DEF N

\* What the lines of a buffer settled on are the lines a terminal has, from
\* where the buffer begins.
LEMMA BufferFollows ==
    ASSUME NEW w \in Seq(Bytes), NEW b \in Seq(Bytes), NEW p \in Nat,
           Len(w) = p + Len(b), \A k \in 1 .. Len(b) : b[k] = w[p + k],
           NEW t, t[0] = << << >> >>,
           \A k \in 1 .. Len(w) : t[k] = Shows(t[k - 1], w[k]),
           NEW l, l[0] = << << >> >>,
           \A k \in 1 .. Len(b) : l[k] = Divided(l[k - 1], b[k])
    PROVE  Follows(p, Len(t[p]) - 1, t[Len(w)], l[Len(b)])
<1> DEFINE d == Len(t[p]) - 1
           N == {k \in Nat : k <= Len(b) => Follows(p, d, t[p + k], l[k])}
<1>1. Len(w) \in Nat /\ Len(b) \in Nat OBVIOUS
<1>2. t[p] \in Seq(TextLines) /\ Len(t[p]) > 0
    <2>1. p \in 0 .. Len(w) BY <1>1
    <2> QED BY <2>1, ShownType
<1>3. d \in Nat /\ Len(t[p]) = d + 1
    <2>1. Len(t[p]) \in Nat BY <1>2
    <2> QED BY <1>2, <2>1
<1>4. 0 \in N
    <2> DEFINE s == << << >> >>
    <2>1. << >> \in TextLines BY DEF TextLines
    <2>2. s \in Seq(TextLines) /\ Len(s) = 1 /\ s[1] = << >> BY <2>1
    <2> HIDE DEF s, d
    <2>3. SettledText(s[1]) = << >> BY <2>2, SettledNothing
    <2>4. Ends(t[p][d + 1], << >>)
        <3>1. d + 1 \in 1 .. Len(t[p]) BY <1>3
        <3>2. t[p][d + 1] \in TextLines BY <1>2, <3>1
        <3> QED BY <3>2, EndsNothing DEF TextLines
    <2>5. p = 0 => t[p][d + 1] = << >>
        <3>1. SUFFICES ASSUME p = 0 PROVE t[p][d + 1] = << >> OBVIOUS
        <3>2. t[p] = s BY <3>1 DEF s
        <3>3. d + 1 = 1 BY <1>3, <2>2, <3>2
        <3> QED BY <2>2, <3>2, <3>3
    <2>6. \A n \in 1 .. 1 : n = 1 OBVIOUS
    <2>7. Follows(p, d, t[p], s) BY <1>2, <1>3, <2>2, <2>3, <2>4, <2>5, <2>6 DEF Follows
    <2>8. p + 0 = p /\ l[0] = s BY DEF s
    <2> QED BY <2>7, <2>8
<1> HIDE DEF d
<1>5. ASSUME NEW k \in Nat, k \in N PROVE k + 1 \in N
    <2>1. SUFFICES ASSUME k + 1 <= Len(b) PROVE Follows(p, d, t[p + (k + 1)], l[k + 1]) OBVIOUS
    <2>2. /\ k + 1 \in 1 .. Len(b) /\ (k + 1) - 1 = k /\ k <= Len(b)
          /\ p + (k + 1) \in 1 .. Len(w) /\ (p + (k + 1)) - 1 = p + k
        BY <1>1, <2>1
    <2>3. Follows(p, d, t[p + k], l[k]) BY <1>5, <2>2
    <2> DEFINE c == b[k + 1]
    <2>4. c \in Bytes BY <2>2
    <2>5. c = w[p + (k + 1)] BY <2>2
    <2> HIDE DEF c
    <2>6. Follows(p, d, Shows(t[p + k], c), Divided(l[k], c)) BY <1>3, <2>3, <2>4, FollowsNext
    <2>7. t[p + (k + 1)] = Shows(t[p + k], c)
        <3>1. t[p + (k + 1)] = Shows(t[(p + (k + 1)) - 1], w[p + (k + 1)]) BY <2>2
        <3> QED BY <2>2, <2>5, <3>1
    <2>8. l[k + 1] = Divided(l[k], c)
        <3>1. l[k + 1] = Divided(l[(k + 1) - 1], b[k + 1]) BY <2>2
        <3> QED BY <2>2, <3>1 DEF c
    <2> QED BY <2>6, <2>7, <2>8
<1> HIDE DEF N
<1>6. Len(b) \in N BY <1>1, <1>4, <1>5, Induction
<1>7. Follows(p, d, t[p + Len(b)], l[Len(b)]) BY <1>1, <1>6 DEF N
<1> QED BY <1>7 DEF d

LEMMA SettledType == \A line \in TextLines : SettledText(line) \in TextLines
<1>1. ASSUME NEW line \in TextLines PROVE SettledText(line) \in TextLines
    <2>1. line \in Seq(Bytes) BY DEF TextLines
    <2>2. CR \in Bytes BY DEF Bytes
    <2>3. SettledText(line) \in Seq(Bytes) BY <2>1, <2>2, SettledAppend
    <2> QED BY <2>3 DEF TextLines
<1> QED BY <1>1

\* The end of some output shows the end of what a terminal shows of it, and
\* all of it when nothing was lost.
LEMMA EndShowsTheEnd ==
    ASSUME NEW limit \in Nat, NEW w \in Seq(Bytes)
    PROVE  /\ IsTailOf(String(EndOf(limit, w)), Screen(w))
           /\ Len(w) <= limit => String(EndOf(limit, w)) = Screen(w)
<1> DEFINE b == EndOf(limit, w)
           p == Len(w) - Len(b)
<1>1. /\ b \in Seq(Bytes) /\ Len(b) = IF Len(w) > limit THEN limit ELSE Len(w)
      /\ \A i \in 1 .. Len(b) : b[i] = w[Len(w) - Len(b) + i]
    BY EndOfType
<1> HIDE DEF b
<1>2. /\ Len(w) \in Nat /\ Len(b) \in Nat /\ p \in Nat /\ Len(w) = p + Len(b)
      /\ Len(w) <= limit => p = 0
    <2>1. Len(w) \in Nat OBVIOUS
    <2> QED BY <1>1, <2>1
<1> HIDE DEF p
<1>3. \A k \in 1 .. Len(b) : b[k] = w[p + k] BY <1>1 DEF p
<1>4. PICK t : /\ Screen(w) = Visible(t[Len(w)]) /\ t[0] = << << >> >>
               /\ \A k \in 1 .. Len(w) : t[k] = Shows(t[k - 1], w[k])
    BY <1>2, ScreenSolved
<1>5. PICK l : /\ Lines(b) = l[Len(b)] /\ l[0] = << << >> >>
               /\ \A k \in 1 .. Len(b) : l[k] = Divided(l[k - 1], b[k])
    BY <1>2, LinesSolved
<1> DEFINE d == Len(t[p]) - 1
           T == t[Len(w)]
           L == Lines(b)
           m == [n \in DOMAIN L |-> SettledText(L[n])]
<1>6. d \in Nat /\ (p = 0 => d = 0)
    <2>1. p \in 0 .. Len(w) BY <1>2
    <2>2. t[p] \in Seq(TextLines) /\ Len(t[p]) > 0 BY <1>4, <2>1, ShownType
    <2>3. Len(t[p]) \in Nat BY <2>2
    <2>4. Len(<< << >> >>) = 1 OBVIOUS
    <2>5. p = 0 => Len(t[p]) = 1 BY <1>4, <2>4
    <2> QED BY <2>2, <2>3, <2>5
<1>7. Follows(p, d, T, L)
    <2>1. Follows(p, Len(t[p]) - 1, t[Len(w)], l[Len(b)])
        BY <1>1, <1>2, <1>3, <1>4, <1>5, BufferFollows
    <2> QED BY <1>5, <2>1
<1> HIDE DEF d, T, L
<1>8. /\ T \in Seq(TextLines) /\ L \in Seq(TextLines) /\ Len(L) > 0 /\ Len(T) = d + Len(L)
      /\ \A n \in 1 .. Len(L) : n # 1 => T[d + n] = SettledText(L[n])
      /\ Ends(T[d + 1], SettledText(L[1])) /\ (p = 0 => T[d + 1] = SettledText(L[1]))
    BY <1>7 DEF Follows
<1>9. /\ m \in Seq(TextLines) /\ Len(m) = Len(L)
      /\ \A n \in 1 .. Len(L) : m[n] = SettledText(L[n])
    <2>1. DOMAIN L = 1 .. Len(L) /\ Len(L) \in Nat BY <1>8
    <2>2. \A n \in 1 .. Len(L) : SettledText(L[n]) \in TextLines
        <3>1. ASSUME NEW n \in 1 .. Len(L) PROVE SettledText(L[n]) \in TextLines
            <4>1. L[n] \in TextLines BY <1>8
            <4> QED BY <4>1, SettledType
        <3> QED BY <3>1
    <2> QED BY <2>1, <2>2
<1>10. String(b) = Visible(m) BY DEF String, L
<1> HIDE DEF m
<1>11. IsTailOf(Visible(m), Visible(T))
    <2>1. 1 \in 1 .. Len(L) BY <1>8
    <2>2. Ends(T[d + 1], m[1]) BY <1>8, <1>9, <2>1
    <2>3. \A n \in 1 .. Len(m) : n # 1 => T[d + n] = m[n] BY <1>8, <1>9
    <2>4. Len(m) > 0 /\ Len(T) = d + Len(m) BY <1>8, <1>9
    <2> QED BY <1>6, <1>8, <1>9, <2>2, <2>3, <2>4, VisibleTail
<1>12. Len(w) <= limit => m = T
    <2>1. SUFFICES ASSUME Len(w) <= limit PROVE m = T OBVIOUS
    <2>2. p = 0 /\ d = 0 BY <1>2, <1>6, <2>1
    <2>3. Len(m) = Len(T) BY <1>8, <1>9, <2>2
    <2>4. ASSUME NEW n \in 1 .. Len(m) PROVE m[n] = T[n]
        <3>1. n \in 1 .. Len(L) /\ d + n = n BY <1>9, <2>2
        <3>2. T[d + n] = SettledText(L[n])
            <4>1. CASE n = 1 BY <1>8, <2>2, <4>1
            <4>2. CASE n # 1 BY <1>8, <3>1, <4>2
            <4> QED BY <4>1, <4>2
        <3> QED BY <1>9, <3>1, <3>2
    <2> QED BY <1>8, <1>9, <2>3, <2>4, SameSeq
<1>13. Screen(w) = Visible(T) BY <1>4 DEF T
<1> QED BY <1>10, <1>11, <1>12, <1>13 DEF b

\* Whatever a job wrote, in whatever two pieces, and however little of it the
\* buffer holds, its record shows the end of what a terminal would show
\* (OutputIsATail, for every limit and for output of every length).
THEOREM OutputEndsAreShown == \A limit, size \in Nat : OutputIsATail(limit, size)
<1>1. SUFFICES ASSUME NEW limit \in Nat, NEW size \in Nat PROVE OutputIsATail(limit, size)
    OBVIOUS
<1>2. ASSUME NEW w \in BoundedSeq(Bytes, size), NEW i \in 0 .. Len(w)
      PROVE  LET first == Write(limit, << >>, SubSeq(w, 1, i))
                 shown == String(Write(limit, first, SubSeq(w, i + 1, Len(w))))
             IN  /\ IsTailOf(shown, Screen(w))
                 /\ Len(w) <= limit => shown = Screen(w)
    <2> DEFINE x == SubSeq(w, 1, i)
               y == SubSeq(w, i + 1, Len(w))
    <2>1. w \in Seq(Bytes)
        <3>1. w \in UNION {[1 .. m -> Bytes] : m \in 0 .. size} BY <1>2, Zenon DEF BoundedSeq, SeqOf
        <3>2. PICK m \in 0 .. size : w \in [1 .. m -> Bytes] BY <3>1
        <3> QED BY <3>2
    <2>2. Len(w) \in Nat /\ i \in Nat /\ i <= Len(w) BY <2>1
    <2>3. x \in Seq(Bytes) /\ y \in Seq(Bytes) /\ x \o y = w
        <3>1. /\ x \in Seq(Bytes) /\ Len(x) = i
              /\ \A k \in 1 .. i : x[k] = w[k]
            <4>1. \A k \in 1 .. i : w[k] \in Bytes BY <2>1, <2>2
            <4>2. 1 \in Int /\ i \in Int BY <2>2
            <4>3. /\ x \in Seq(Bytes) /\ Len(x) = IF 1 <= i THEN i - 1 + 1 ELSE 0
                  /\ \A k \in 1 .. i - 1 + 1 : x[k] = w[1 + k - 1]
                BY <4>1, <4>2, SubSeqProperties
            <4> HIDE DEF x
            <4>4. Len(x) = i /\ i - 1 + 1 = i BY <2>2, <4>3
            <4>5. \A k \in 1 .. i : 1 + k - 1 = k BY <2>2
            <4> QED BY <4>3, <4>4, <4>5
        <3>2. /\ y \in Seq(Bytes) /\ Len(y) = Len(w) - i
              /\ \A k \in 1 .. Len(w) - i : y[k] = w[i + k]
            <4>1. \A k \in i + 1 .. Len(w) : w[k] \in Bytes BY <2>1, <2>2
            <4>2. i + 1 \in Int /\ Len(w) \in Int BY <2>2
            <4>3. /\ y \in Seq(Bytes)
                  /\ Len(y) = IF i + 1 <= Len(w) THEN Len(w) - (i + 1) + 1 ELSE 0
                  /\ \A k \in 1 .. Len(w) - (i + 1) + 1 : y[k] = w[(i + 1) + k - 1]
                BY <4>1, <4>2, SubSeqProperties
            <4> HIDE DEF y
            <4>4. Len(y) = Len(w) - i /\ Len(w) - (i + 1) + 1 = Len(w) - i BY <2>2, <4>3
            <4>5. \A k \in 1 .. Len(w) - i : (i + 1) + k - 1 = i + k BY <2>2
            <4> QED BY <4>3, <4>4, <4>5
        <3> HIDE DEF x, y
        <3> DEFINE z == x \o y
        <3>3. /\ z \in Seq(Bytes) /\ Len(z) = Len(x) + Len(y)
              /\ \A k \in 1 .. Len(x) + Len(y) : z[k] = IF k <= Len(x) THEN x[k] ELSE y[k - Len(x)]
            BY <3>1, <3>2, ConcatProperties
        <3> HIDE DEF z
        <3>4. Len(z) = Len(w) BY <2>2, <3>1, <3>2, <3>3
        <3>5. ASSUME NEW k \in 1 .. Len(z) PROVE z[k] = w[k]
            <4>1. CASE k <= i
                <5>1. k \in 1 .. i /\ k \in 1 .. Len(x) + Len(y) BY <2>2, <3>3, <4>1
                <5> QED BY <3>1, <3>3, <4>1, <5>1
            <4>2. CASE ~(k <= i)
                <5>1. /\ k - i \in 1 .. Len(w) - i /\ i + (k - i) = k
                      /\ k \in 1 .. Len(x) + Len(y)
                    BY <2>2, <3>3, <3>4, <4>2
                <5>2. z[k] = y[k - i] BY <3>1, <3>3, <4>2, <5>1
                <5>3. y[k - i] = w[i + (k - i)] BY <3>2, <5>1
                <5> QED BY <5>1, <5>2, <5>3
            <4> QED BY <4>1, <4>2
        <3>6. z = w BY <2>1, <3>3, <3>4, <3>5, SameSeq
        <3> QED BY <3>1, <3>2, <3>6 DEF z
    <2> HIDE DEF x, y
    <2> DEFINE none == << >>
    <2>4. none \in Seq(Bytes) /\ EndOf(limit, none) = none /\ none \o x = x
        <3>1. Len(none) = 0 OBVIOUS
        <3>2. none \in Seq(Bytes) OBVIOUS
        <3>3. EndOf(limit, none) = none BY <3>1 DEF EndOf
        <3>4. none \o x = x BY <2>3
        <3> QED BY <3>2, <3>3, <3>4
    <2> HIDE DEF none
    <2>5. Write(limit, none, x) = EndOf(limit, x)
        <3>1. Write(limit, EndOf(limit, none), x) = EndOf(limit, none \o x)
            BY <2>3, <2>4, WriteKeepsTheEnd
        <3> QED BY <2>4, <3>1, Zenon
    <2>6. Write(limit, EndOf(limit, x), y) = EndOf(limit, w) BY <2>3, WriteKeepsTheEnd
    <2>7. /\ IsTailOf(String(EndOf(limit, w)), Screen(w))
          /\ Len(w) <= limit => String(EndOf(limit, w)) = Screen(w)
        BY <2>1, EndShowsTheEnd
    <2>8. Write(limit, Write(limit, << >>, SubSeq(w, 1, i)), SubSeq(w, i + 1, Len(w)))
            = EndOf(limit, w)
        BY <2>5, <2>6, Zenon DEF x, y, none
    <2> QED BY <2>7, <2>8
<1> QED BY <1>2, Zenon DEF OutputIsATail
=============================================================================

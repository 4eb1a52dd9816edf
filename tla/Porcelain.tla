----------------------------- MODULE Porcelain -----------------------------
(***************************************************************************)
(* From git's report on a checkout to the row that shows it: the parser of *)
(* `git status --porcelain=v2 --branch -z' (internal/git/status.go), the   *)
(* predicates on model.Status (internal/model/model.go), the row's word    *)
(* and chips (internal/web/funcs.go) and the summary's counts              *)
(* (internal/tree/tree.go, summarize).                                     *)
(*                                                                         *)
(* The report is a sequence of NUL-terminated tokens.  A token is a record *)
(* with the field `is' for what its first characters make of it; text that *)
(* the parser passes on (branch names, paths) is a model of itself.        *)
(***************************************************************************)
EXTENDS Naturals, SequencesExt

None == "none"      \* no branch, no upstream, no error: the empty string

\* What git has to say of a checkout: where HEAD is, what it tracks and how
\* far apart they are, the paths that differ, the stash, and the origin.
\* `gone': an upstream is set, but its commit is not there (fetch --prune).
Upstreams(far) ==
    {[set |-> FALSE, gone |-> FALSE, ahead |-> 0, behind |-> 0],
     [set |-> TRUE, gone |-> TRUE, ahead |-> 0, behind |-> 0]}
    \cup [set : {TRUE}, gone : {FALSE}, ahead : 0 .. far, behind : 0 .. far]

\* A file may be called anything, `u x' or `# branch.head x' too: the token of
\* a rename's first path may look like any record.
Looks == {[is |-> "path"], [is |-> "unmerged"], [is |-> "untracked"],
          [is |-> "head", name |-> "x"], [is |-> "renamed", staged |-> TRUE, unstaged |-> TRUE]}

\* One path git reports, in the format's own kinds; what is staged and what
\* is not are the X and Y of its record.  At least one of them is.
Entries ==
    {e \in [is : {"changed"}, staged : BOOLEAN, unstaged : BOOLEAN]
            \cup [is : {"renamed"}, staged : BOOLEAN, unstaged : BOOLEAN, was : Looks] :
        e.staged \/ e.unstaged}
    \cup [is : {"unmerged", "untracked"}, staged : {FALSE}, unstaged : {FALSE}]

----------------------------------------------------------------------------
(* What git writes: external. *)

Record(e) ==
    LET xy == [is |-> e.is, staged |-> e.staged, unstaged |-> e.unstaged]
    IN  CASE e.is = "changed" -> <<xy>>
          [] e.is = "renamed" -> <<xy, e.was>>
          [] OTHER -> <<[is |-> e.is]>>

HeadLines(branch) ==
    <<[is |-> "oid"], [is |-> "head", name |-> IF branch = None THEN "(detached)" ELSE branch]>>

UpstreamLines(u) ==
    (IF u.set THEN <<[is |-> "upstream", name |-> "origin/main"]>> ELSE << >>)
    \o (IF u.set /\ ~u.gone THEN <<[is |-> "ab", ahead |-> u.ahead, behind |-> u.behind]>>
        ELSE << >>)

Report(branch, u, entries) ==
    HeadLines(branch) \o UpstreamLines(u) \o
    FlattenSeq([i \in DOMAIN entries |-> Record(entries[i])])

----------------------------------------------------------------------------
(* parsePorcelainV2 *)

NoStatus == [branch |-> None, detached |-> FALSE, upstream |-> None, ahead |-> 0,
             behind |-> 0, staged |-> 0, unstaged |-> 0, conflicted |-> 0, untracked |-> 0]

One(b) == IF b THEN 1 ELSE 0

\* Mutant: a rename's second token is read as a record of its own.
ConsumesOne(tok) == 1

\* How many tokens a record takes.
Consumes(tok) == IF tok.is = "renamed" THEN 2 ELSE 1

\* The body of the loop, for one record.
Parsed(s, tok) ==
    CASE tok.is = "head" -> IF tok.name = "(detached)" THEN [s EXCEPT !.detached = TRUE]
                            ELSE [s EXCEPT !.branch = tok.name]
      [] tok.is = "upstream" -> [s EXCEPT !.upstream = tok.name]
      [] tok.is = "ab" -> [s EXCEPT !.ahead = tok.ahead, !.behind = tok.behind]
      [] tok.is \in {"changed", "renamed"} ->
            [s EXCEPT !.staged = @ + One(tok.staged), !.unstaged = @ + One(tok.unstaged)]
      [] tok.is = "unmerged" -> [s EXCEPT !.conflicted = @ + 1]
      [] tok.is = "untracked" -> [s EXCEPT !.untracked = @ + 1]
      [] OTHER -> s

\* The loop's i and s once the i-th token has been read or passed over.
Turn(p, i, tok) ==
    IF p.next # i THEN p ELSE [next |-> i + Consumes(tok), s |-> Parsed(p.s, tok)]

Loop(tokens) ==
    LET upTo[i \in 0 .. Len(tokens)] ==
            IF i = 0 THEN [next |-> 1, s |-> NoStatus] ELSE Turn(upTo[i - 1], i, tokens[i])
    IN  upTo[Len(tokens)]

Parse(tokens) == Loop(tokens).s

----------------------------------------------------------------------------
(* git.Inspect, and the Repo a scan makes of it. *)

\* Everything git might answer, and which of its commands succeed: git status,
\* git stash list, git config.
Checkouts(size, far) ==
    [answers : BOOLEAN, branch : {"main", None}, up : Upstreams(far),
     entries : BoundedSeq(Entries, size), stashes : 0 .. far, listsStash : BOOLEAN,
     remote : BOOLEAN, tellsRemote : BOOLEAN]

\* git status decides whether the inspection fails; the zero status is left
\* then.  A stash that cannot be listed is none (stashCount), an origin that
\* cannot be read is none (originURL), and neither is an error.
Inspect(c) ==
    [err |-> ~c.answers,
     status |-> IF c.answers THEN Parse(Report(c.branch, c.up, c.entries)) ELSE NoStatus,
     stashes |-> IF c.answers /\ c.listsStash THEN c.stashes ELSE 0,
     remote |-> c.answers /\ c.tellsRemote /\ c.remote]

Dirty(s) == s.staged + s.unstaged + s.untracked + s.conflicted > 0
Clean(s) == ~Dirty(s) /\ s.ahead = 0 /\ s.behind = 0

\* Mutant: the status is looked at although the inspection failed.
WordOfStatus(r) ==
    CASE r.status.conflicted > 0 -> "error"
      [] r.status.conflicted = 0 /\ Dirty(r.status) -> "dirty"
      [] OTHER -> IF r.status.behind > 0 THEN "behind"
                  ELSE IF r.status.ahead > 0 THEN "ahead" ELSE "ok"

\* statusWord.
StatusWord(r) == IF r.err THEN "error" ELSE WordOfStatus(r)

\* badges, but the last: the chips that say something is the matter.
Chips(r) ==
    LET s == r.status
    IN  IF r.err THEN {"error"} ELSE
        {c \in {"conflicted", "behind", "ahead", "staged", "modified", "untracked",
                "stashed", "detached", "no upstream", "no remote"} :
            CASE c = "conflicted" -> s.conflicted > 0
              [] c = "behind" -> s.behind > 0
              [] c = "ahead" -> s.ahead > 0
              [] c = "staged" -> s.staged > 0
              [] c = "modified" -> s.unstaged > 0
              [] c = "untracked" -> s.untracked > 0
              [] c = "stashed" -> r.stashes > 0
              [] c = "detached" -> s.detached
              [] c = "no upstream" -> ~s.detached /\ s.upstream = None /\ r.remote
              [] c = "no remote" -> ~r.remote}

\* The last: `nothing to commit, level with upstream'.
SaysClean(r) == Chips(r) = {}

\* summarize: the counts this checkout adds to.
Counted(r) ==
    IF r.err THEN {"errors"}
    ELSE {c \in {"dirty", "ahead", "behind"} :
            CASE c = "dirty" -> Dirty(r.status)
              [] c = "ahead" -> r.status.ahead > 0
              [] c = "behind" -> r.status.behind > 0}

----------------------------------------------------------------------------

HowMany(entries, Test(_)) == Cardinality({i \in DOMAIN entries : Test(entries[i])})

\* The status says of a checkout what git said: every path is counted for what
\* it is, whatever comes before it and whatever a renamed file was called
\* (comment of parsePorcelainV2: a parser that misses the second token `will
\* desync on the very next record').
CountedAsReported(size, far) ==
    \A c \in {d \in Checkouts(size, far) :
                d.answers /\ d.stashes = 0 /\ d.listsStash /\ d.remote /\ d.tellsRemote} :
        LET s == Inspect(c).status
        IN  /\ s.branch = c.branch /\ s.detached = (c.branch = None)
            /\ (s.upstream # None) = c.up.set
            /\ s.ahead = c.up.ahead /\ s.behind = c.up.behind
            /\ s.staged = HowMany(c.entries, LAMBDA e : e.staged)
            /\ s.unstaged = HowMany(c.entries, LAMBDA e : e.unstaged)
            /\ s.conflicted = HowMany(c.entries, LAMBDA e : e.is = "unmerged")
            /\ s.untracked = HowMany(c.entries, LAMBDA e : e.is = "untracked")

\* What a row reassures of: it says `clean' only of a checkout that git status
\* and git config have answered for, on a branch that tracks another (which may
\* be gone, though), with no path that differs, no commit on one side only and
\* no stash that git could list (one that it cannot list does not show, as the
\* comment of stashCount has it); and the row's word, its chips and the summary
\* agree on which checkouts need attention.
RowNeverReassures(size, far) ==
    \A c \in Checkouts(size, far) :
        LET r == Inspect(c)
        IN  /\ SaysClean(r) =>
                  /\ c.answers /\ c.branch # None /\ c.up.set /\ c.tellsRemote /\ c.remote
                  /\ c.entries = << >> /\ (c.listsStash => c.stashes = 0)
                  /\ c.up.ahead = 0 /\ c.up.behind = 0
            /\ StatusWord(r) = "ok" <=> Counted(r) = {}
            /\ c.entries # << >> => StatusWord(r) \in {"dirty", "error"}
            /\ SaysClean(r) => StatusWord(r) = "ok" /\ Clean(r.status)
=============================================================================

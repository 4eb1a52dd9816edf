------------------------------- MODULE Places -------------------------------
(***************************************************************************)
(* Where things go: how a clone's URL, a provider's listing, a request's   *)
(* destination and what the walk finds come to name one place below the    *)
(* root (internal/git/remote.go, actions.DestFor, internal/safepath,       *)
(* config.ParseOwners, internal/github/parse.go).                          *)
(*                                                                         *)
(* A path is the sequence of its segments, a segment a word or one of the  *)
(* few spellings the code tells apart; "" stands between two slashes in a  *)
(* row.  A backslash, where one is taken for a slash, is one here.         *)
(***************************************************************************)
EXTENDS Naturals, SequencesExt

Dots == {".", ".."}
Blanked == {" ", " tool", "tool ", " .."}
Segments(words) == words \cup Dots \cup Blanked \cup {"", ".github", "-option"}

Hidden(seg) == seg \in Dots \cup {".github"}    \* strings.HasPrefix(seg, ".")

\* A segment without the blank it starts with, without the one it ends with.
Unled(seg) ==
    CASE seg = " tool" -> "tool"
      [] seg = " .." -> ".."
      [] seg = " " -> ""
      [] OTHER -> seg
Unended(seg) ==
    CASE seg = "tool " -> "tool"
      [] seg = " " -> ""
      [] OTHER -> seg

\* strings.TrimSpace, which comes before the slashes at the ends are taken off.
TrimLeft(segs) == IF segs = << >> THEN segs ELSE [segs EXCEPT ![1] = Unled(segs[1])]
TrimRight(segs) ==
    IF segs = << >> THEN segs ELSE [segs EXCEPT ![Len(segs)] = Unended(segs[Len(segs)])]
TrimSpace(segs) == TrimRight(TrimLeft(segs))

\* strings.Trim(_, "/")
Trim(segs) ==
    LET first == SelectInSeq(segs, LAMBDA x : x # "")
    IN  IF first = 0 THEN << >>
        ELSE SubSeq(segs, first, SelectLastInSeq(segs, LAMBDA x : x # ""))

\* path.Join of a relative path: a ".." that has nothing to leave stays.
Enter(p, x) ==
    CASE x \in {"", "."} -> p
      [] x = ".." -> IF p = << >> \/ Last(p) = ".." THEN Append(p, x) ELSE Front(p)
      [] OTHER -> Append(p, x)

Join(segs) == FoldLeft(Enter, << >>, segs)

----------------------------------------------------------------------------
(* safepath *)

Refused == <<"refused">>

\* Mutant: empty elements are let through, for filepath.Join to drop.
LegalOrEmpty(seg) == ~Hidden(seg) /\ seg # "-option"

\* The elements Resolve and ValidName let through.
Legal(seg) == seg # "" /\ ~Hidden(seg) /\ seg # "-option"

\* Resolve: the relative path it returns.  The directory is Join of it.
Resolve(segs) ==
    LET rel == Trim(TrimSpace(segs))
    IN  CASE rel \in {<< >>, <<".">>} -> << >>
          [] rel # <<".">> /\ \A i \in DOMAIN rel : Legal(rel[i]) -> rel
          [] OTHER -> Refused

\* walkChildren passes over what is hidden.
Walked(place) == \A i \in DOMAIN place : ~Hidden(place[i])

----------------------------------------------------------------------------
(* Remotes and owners. *)

Hosts == {"github.com", "GitHub.com", "ghe.example", "GHE.example", "ghe.example:8443"}

\* strings.ToLower, of a host.
Lower(h) ==
    CASE h = "GitHub.com" -> "github.com"
      [] h = "GHE.example" -> "ghe.example"
      [] OTHER -> h

\* url.URL.Hostname: without the port.
Hostname(h) == IF h = "ghe.example:8443" THEN "ghe.example" ELSE h

\* A URL as it is typed.  "scheme": https://, http:// or ssh://; "scp":
\* user@host:path, whose host has no port; "owner/name" and "host/owner/name",
\* the shorthands.  dotgit: ".git" follows the last word.
Url(form, host, path, dotgit) == [form |-> form, host |-> host, path |-> path, dotgit |-> dotgit]

Forms == {"scheme", "scp", "owner/name", "host/owner/name"}

UrlsOf(hosts, paths) ==
    {u \in [form : Forms, host : hosts, path : paths, dotgit : BOOLEAN] :
        /\ u.form # "scheme" => u.host = Hostname(u.host)
        /\ u.dotgit => u.path # << >> /\ Last(u.path) # ""}

NoUrl == Url("refused", "", << >>, FALSE)

\* The URL without blanks at its ends.
Given(u) ==
    LET path == IF u.form = "owner/name" THEN TrimLeft(u.path) ELSE u.path
    IN  Url(u.form, u.host, IF u.dotgit THEN path ELSE TrimRight(path), u.dotgit)

\* What shorthandSegRe matches.
Shorthand(path) == Len(path) = 2 /\ \A i \in DOMAIN path : path[i] \notin Blanked \cup {""}

\* ValidateCloneURL: the URL that git is given.
ValidateCloneURL(u) ==
    LET path == Given(u).path
    IN  CASE u.form \in {"scheme", "scp"} -> Given(u)
          [] u.form = "owner/name" /\ Shorthand(path) /\ Legal(path[1])
               -> Url("scheme", "github.com", path, u.dotgit)
          [] u.form = "host/owner/name" /\ Shorthand(path)
               -> Url("scheme", u.host, path, u.dotgit)
          [] OTHER -> NoUrl

Unparsed == [host |-> "", owner |-> << >>, name |-> ""]

\* Mutant: the host keeps the case it was typed in.
HostAsTyped(h) == Hostname(h)

\* What ParseRemoteURL makes of a URL's host.
HostOf(h) == Lower(Hostname(h))

\* ParseRemoteURL, of a URL that has a host and no blanks at its ends.
ParseRemoteURL(u) ==
    LET path == Trim(u.path)
    IN  IF Len(path) < 2 THEN Unparsed
        ELSE [host |-> HostOf(u.host), owner |-> Front(path), name |-> Last(path)]

\* DestFor.  Of nothing, path.Join makes ".", which is no name.
DestFor(u) ==
    LET r == ParseRemoteURL(u)
        rel == Join(<<r.host>> \o r.owner \o <<r.name>>)
    IN  IF r # Unparsed /\ rel # << >> /\ \A i \in DOMAIN rel : Legal(rel[i]) THEN rel ELSE Refused

\* Where Service.Clone puts the clone of this URL, with this destination.
CloneTo(u, dest) ==
    LET to == IF TrimSpace(dest) \in {<< >>, <<"">>} THEN DestFor(u) ELSE dest
        rel == Resolve(to)
    IN  IF to = Refused \/ rel = << >> THEN Refused ELSE rel

\* ParseOwners, of one entry "host/login".
ParseOwner(host, login) == [host |-> Lower(host), login |-> login]

\* parseRepoList and cloneURL: the ghost of a repository in an owner's list.
Ghost(o, name) ==
    [host |-> o.host, owner |-> <<o.login>>, name |-> name,
     url |-> Url("scheme", o.host, <<o.login, name>>, TRUE)]

\* Remote.Slug, Ghost.Slug.
Slug(r) == <<r.host>> \o r.owner \o <<r.name>>

\* tree.Build's place for a ghost.
Row(g) == Join(Slug(g))

----------------------------------------------------------------------------

\* A path that a request may ask for, or where a URL's clone goes, is the
\* directory's only name: what the busy checks and the registry compare as text
\* is equal exactly when the directories are; the walk passes over no element of
\* it, so that a checkout there is found unless it is too deep or inside another
\* one (comment of Resolve: a hidden one would `never appear in any scan'); and a
\* request that hands it back, as a row of the page does, means the same place,
\* unless there are blanks at its ends.  No clone goes to the root itself.
OneNameForAPlace(words, size) ==
    LET paths == BoundedSeq(Segments(words), size)
        asked == {Resolve(segs) : segs \in paths}
        cloned == {CloneTo(ValidateCloneURL(u), << >>) : u \in UrlsOf(Hosts, paths)}
    IN  /\ \A rel \in (asked \cup cloned) \ {Refused} :
              rel = Join(rel) /\ Walked(rel) /\ (TrimSpace(rel) = rel => Resolve(rel) = rel)
        /\ << >> \notin cloned

\* Spellings of one repository that a user may type for it.
Spellings(g) ==
    {u \in UrlsOf({h \in Hosts : Lower(Hostname(h)) = g.host},
                  {g.owner \o <<g.name>>, g.owner \o <<g.name, "">>, <<"">> \o g.owner \o <<g.name>>}) :
        u.form = "owner/name" => g.host = "github.com"}

\* A ghost turns into its clone: the row's button, and any URL of the
\* repository that the dialog takes, lead to the ghost's own place and to an
\* origin with the ghost's slug, which is what a scan matches them by (comment
\* of ParseOwners: otherwise the ghost is `duplicated forever').  Not so of an
\* owner whose host has a port, and a repository with a hidden name, whose
\* button is refused.
GhostTurnsIntoClone(words) ==
    \A host \in {h \in Hosts : h = Hostname(h)}, login \in words, name \in words \cup {".github"} :
        LET g == Ghost(ParseOwner(host, login), name)
        IN  IF Hidden(name) THEN CloneTo(g.url, Row(g)) = Refused /\ DestFor(g.url) = Refused
            ELSE /\ CloneTo(g.url, Row(g)) = Row(g)
                 /\ \A u \in {ValidateCloneURL(s) : s \in Spellings(g) \cup {g.url}} \ {NoUrl} :
                      Slug(ParseRemoteURL(u)) = Slug(g) /\ CloneTo(u, << >>) = Row(g)
=============================================================================

----------------------------- MODULE TailBuffer -----------------------------
(***************************************************************************)
(* The output a job keeps (internal/jobs/jobs.go): tailBuffer holds the    *)
(* last bytes git wrote, cut wherever the limit falls, and String renders  *)
(* them as a terminal would, where a carriage return starts a line anew.   *)
(* A job's goroutine writes and the readers of its record render, under    *)
(* one mutex: only what is in the buffer matters.                          *)
(***************************************************************************)
EXTENDS Naturals, SequencesExt

\* Bytes, as far as String tells them apart.
LF == "LF"          \* ends a line
CR == "CR"          \* takes the line back to its start
Blank == "blank"    \* a space or a tab
Bytes == {LF, CR, Blank, "x", "y"}

\* tailBuffer.Write of p into a buffer that holds b.
Write(limit, b, p) ==
    LET all == b \o p
        over == Len(all) - limit
    IN  IF Len(all) > limit THEN SubSeq(all, over + 1, Len(all)) ELSE all

\* strings.Split at the line feeds: the lines once c follows these.
Divided(lines, c) ==
    IF c = LF THEN Append(lines, << >>)
    ELSE Append(Front(lines), Append(Last(lines), c))

Lines(b) ==
    LET after[k \in 0 .. Len(b)] ==
          IF k = 0 THEN << << >> >> ELSE Divided(after[k - 1], b[k])
    IN  after[Len(b)]

\* Mutant: what precedes the first carriage return is dropped.
AfterFirst(line) == SubSeq(line, SelectInSeq(line, LAMBDA c : c = CR) + 1, Len(line))

\* What a line settled on: the text after its last carriage return.
SettledText(line) == SubSeq(line, SelectLastInSeq(line, LAMBDA c : c = CR) + 1, Len(line))

Trimmed(line) == SubSeq(line, 1, SelectLastInSeq(line, LAMBDA c : c # Blank))

\* What there is to see of these lines.
Visible(lines) ==
    LET kept[n \in 0 .. Len(lines)] ==
          IF n = 0 THEN << >>
          ELSE IF Trimmed(lines[n]) # << >> THEN Append(kept[n - 1], Trimmed(lines[n]))
          ELSE kept[n - 1]
    IN  kept[Len(lines)]

\* tailBuffer.String, as the sequence of the lines it joins.
String(b) == Visible([n \in DOMAIN Lines(b) |-> SettledText(Lines(b)[n])])

----------------------------------------------------------------------------

\* What a terminal has on its lines, the last of them the one it is on, when
\* the next byte is c.
Shows(screen, c) ==
    CASE c = LF -> Append(screen, << >>)
      [] c = CR -> Append(Front(screen), << >>)
      [] OTHER -> Append(Front(screen), Append(Last(screen), c))

\* What there is to see on it once all of this was written.
Screen(b) ==
    LET after[k \in 0 .. Len(b)] ==
          IF k = 0 THEN << << >> >> ELSE Shows(after[k - 1], b[k])
    IN  Visible(after[Len(b)])

\* These lines are the last ones of those, the first of them perhaps cut.
IsTailOf(shown, screen) ==
    /\ Len(shown) <= Len(screen)
    /\ LET before == Len(screen) - Len(shown)
       IN  \A n \in DOMAIN shown :
             IF n = 1 THEN IsSuffix(shown[n], screen[before + n])
             ELSE shown[n] = screen[before + n]

\* Wherever the limit falls -- within a line, a progress rewrite, or one write
\* larger than the whole buffer -- and however git's output is divided into
\* writes, a record shows the end of what a terminal would show of all of it
\* (comment of String: `leaves only the text each line finally settled on'),
\* and no less of it than the limit made it lose.
OutputIsATail(limit, size) ==
    \A w \in BoundedSeq(Bytes, size) : \A i \in 0 .. Len(w) :
        LET first == Write(limit, << >>, SubSeq(w, 1, i))
            shown == String(Write(limit, first, SubSeq(w, i + 1, Len(w))))
        IN  /\ IsTailOf(shown, Screen(w))
            /\ Len(w) <= limit => shown = Screen(w)
=============================================================================

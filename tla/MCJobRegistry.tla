--------------------------- MODULE MCJobRegistry ---------------------------
(* JobRegistry on small instances, and the output its records keep. *)
EXTENDS JobRegistry, TailBuffer

\* Buffers of up to three bytes, and all output of up to five.
ShownAsATail == \A limit \in 1 .. 3 : OutputIsATail(limit, 5)

\* Whatever a job wrote, and in whatever pieces, its record shows the end of
\* it as a terminal would (OutputIsATail, of the output Start's goroutine keeps).
EndOfOutputIsShown == Finished # {} => ShownAsATail
=============================================================================

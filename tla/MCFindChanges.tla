--------------------------- MODULE MCFindChanges ---------------------------
(***************************************************************************)
(* FindChanges for TLC: every short text, and every text of a few lines.   *)
(***************************************************************************)
EXTENDS FindChanges

Short == UNION {[1..n -> Letters \cup Breaks] : n \in 0..3}

\* Up to three lines of at most one letter, joined and perhaps ended by the same break.
LinesUpTo == UNION {[1..n -> {<<>>} \cup {<<l>> : l \in Letters}] : n \in 1..3}
Joined(lines, break, ended) ==
  FlattenSeq([i \in 1..Len(lines) |->
    IF i < Len(lines) \/ ended THEN lines[i] \o break ELSE lines[i]])
ShortAndLines ==
  Short \cup {Joined(l, b, e) : l \in LinesUpTo, b \in {<<LF>>, <<CR, LF>>}, e \in BOOLEAN}
=============================================================================

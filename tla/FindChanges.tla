---------------------------- MODULE FindChanges ----------------------------
(***************************************************************************)
(* find_changes: the additions and deletions that lead from an old text to *)
(* a new one, found line by line.  Additions and deletions carry offsets   *)
(* in the old text.                                                        *)
(*                                                                         *)
(* A text is a sequence of letters and line breaks, CR and LF.  Offsets    *)
(* start at 0, as in the code.                                             *)
(***************************************************************************)
EXTENDS Integers, FiniteSetsExt, SequencesExt

CONSTANTS
  Letters,   \* what lines are made of
  CR, LF,    \* the characters that end a line
  Texts      \* the texts that are compared

Breaks == {CR, LF}

ASSUME CharsAssumption == CR # LF /\ Breaks \cap Letters = {}
ASSUME TextsAssumption == Texts \subseteq Seq(Letters \cup Breaks)

VARIABLES
  old, new,       \* the arguments
  from, to,       \* how far each has been read
  insertion,      \* where the text to be added starts in new
  adds, dels,     \* d.additions, d.deletions
  pc              \* which loop runs

vars == <<old, new, from, to, insertion, adds, dels, pc>>

-----------------------------------------------------------------------------
(* Lines.                                                                    *)

\* skipline_i: the length of the line that starts at i.
LineLen(t, i) == Min({n \in 0..(Len(t) - i) : i + n = Len(t) \/ t[i + n + 1] \in Breaks})

Line(t, i) == SubSeq(t, i + 1, i + LineLen(t, i))

\* Mutant: the end of the text is skipped like a break.
SkipLineAtEnd(t, i) == i + LineLen(t, i) + 1

\* skipline: past the line and its break, one character and an LF that follows it.
SkipLine(t, i) ==
  LET e == i + LineLen(t, i)
  IN IF e = Len(t) THEN e
     ELSE IF e + 1 < Len(t) /\ t[e + 2] = LF THEN e + 2
     ELSE e + 1

NotFound == -1

\* search_line: the first line at or after i that is the given one; an empty line ends it.
SearchLine(t, i, line) ==
  LET search[j \in 0..Len(t)] ==
        IF LineLen(t, j) = 0 THEN NotFound
        ELSE IF Line(t, j) = line THEN j
        ELSE search[SkipLine(t, j)]
  IN search[i]

-----------------------------------------------------------------------------
Init ==
  /\ old \in Texts /\ new \in Texts
  /\ from = 0 /\ to = 0 /\ insertion = 0
  /\ adds = <<>> /\ dels = <<>>
  /\ pc = "lines"

AtEnd == from = Len(old) /\ to = Len(new)
SameLine == Line(old, from) = Line(new, to)

\* Mutant: the line break after the old text is not part of what is added to it.
EqualDropsBreak ==
  /\ pc = "lines" /\ ~AtEnd /\ SameLine
  /\ from' = SkipLine(old, from) /\ to' = SkipLine(new, to)
  /\ insertion' = SkipLine(new, to)
  /\ UNCHANGED <<old, new, adds, dels, pc>>

\* The lines agree: both go on.  At the end of the old text, the break of the new one
\* belongs to what may be added.
Equal ==
  /\ pc = "lines" /\ ~AtEnd /\ SameLine
  /\ from' = SkipLine(old, from) /\ to' = SkipLine(new, to)
  /\ insertion' = IF from + LineLen(old, from) = Len(old)
                    THEN to + LineLen(new, to) ELSE SkipLine(new, to)
  /\ UNCHANGED <<old, new, adds, dels, pc>>

Differ ==
  /\ pc = "lines" /\ ~AtEnd /\ ~SameLine
  /\ pc' = "search"
  /\ UNCHANGED <<old, new, from, to, insertion, adds, dels>>

\* Where the new text's line is found in the old one, or the end of both.
Deletion == IF to = Len(new) THEN Len(old) ELSE SearchLine(old, from, Line(new, to))

\* Mutant: the line is skipped without its break.
AdvanceInPlace ==
  /\ pc = "search" /\ Deletion = NotFound
  /\ to' = to + LineLen(new, to)
  /\ UNCHANGED <<old, new, from, insertion, adds, dels, pc>>

\* The new text's line is not in the rest of the old text: it is to be added.
Advance ==
  /\ pc = "search" /\ Deletion = NotFound
  /\ to' = SkipLine(new, to)
  /\ UNCHANGED <<old, new, from, insertion, adds, dels, pc>>

Change(pos, txt) == [pos |-> pos, txt |-> txt]

\* Mutant: only the first of the lines to be deleted is.
RecordOneLine ==
  /\ pc = "search" /\ Deletion # NotFound
  /\ adds' = IF to > insertion
               THEN Append(adds, Change(from, SubSeq(new, insertion + 1, to))) ELSE adds
  /\ dels' = IF Deletion > from
               THEN Append(dels, Change(from, SubSeq(old, from + 1, SkipLine(old, from)))) ELSE dels
  /\ from' = Deletion
  /\ pc' = "lines"
  /\ UNCHANGED <<old, new, to, insertion>>

\* Mutant: a deletion is placed where the new text has been read to.
RecordInNew ==
  /\ pc = "search" /\ Deletion # NotFound
  /\ adds' = IF to > insertion
               THEN Append(adds, Change(from, SubSeq(new, insertion + 1, to))) ELSE adds
  /\ dels' = IF Deletion > from
               THEN Append(dels, Change(to, SubSeq(old, from + 1, Deletion))) ELSE dels
  /\ from' = Deletion
  /\ pc' = "lines"
  /\ UNCHANGED <<old, new, to, insertion>>

\* What was skipped of the new text is added, and what was of the old one deleted.
Record ==
  /\ pc = "search" /\ Deletion # NotFound
  /\ adds' = IF to > insertion
               THEN Append(adds, Change(from, SubSeq(new, insertion + 1, to))) ELSE adds
  /\ dels' = IF Deletion > from
               THEN Append(dels, Change(from, SubSeq(old, from + 1, Deletion))) ELSE dels
  /\ from' = Deletion
  /\ pc' = "lines"
  /\ UNCHANGED <<old, new, to, insertion>>

Return ==
  /\ pc = "lines" /\ AtEnd
  /\ pc' = "done"
  /\ UNCHANGED <<old, new, from, to, insertion, adds, dels>>

Next == Equal \/ Differ \/ Advance \/ Record \/ Return
Spec == Init /\ [][Next]_vars
\* The loops run until they end.
FairSpec == Spec /\ WF_vars(Next)
-----------------------------------------------------------------------------
(* Properties.                                                               *)

\* Offsets stay inside their texts.
TypeOK ==
  /\ from \in 0..Len(old) /\ to \in 0..Len(new) /\ insertion \in 0..to
  /\ pc \in {"lines", "search", "done"}

\* A diff can be read from its front: nothing is added twice in one place or deleted
\* twice, something is kept between two deletions, and what is deleted is in the old text.
End(d) == d.pos + Len(d.txt)
ChangesInOrder ==
  /\ \A k \in DOMAIN adds : adds[k].txt # <<>> /\ adds[k].pos <= from
  /\ \A j, k \in DOMAIN adds : j < k => adds[j].pos < adds[k].pos
  /\ \A k \in DOMAIN dels :
       /\ dels[k].txt # <<>> /\ End(dels[k]) <= from
       /\ dels[k].txt = SubSeq(old, dels[k].pos + 1, End(dels[k]))
  /\ \A j, k \in DOMAIN dels : j < k => End(dels[j]) < dels[k].pos

\* The diff applied to the old text: at each place what is added there, and then the next
\* character, if it is not deleted.
AddedAt(A, p) ==
  IF \E k \in DOMAIN A : A[k].pos = p THEN A[CHOOSE k \in DOMAIN A : A[k].pos = p].txt ELSE <<>>
KeptAt(t, D, p) ==
  IF \E k \in DOMAIN D : D[k].pos < p /\ p <= End(D[k]) THEN <<>> ELSE <<t[p]>>
Made(t, A, D) ==
  LET made[i \in 0..Len(t)] ==
        (IF i = 0 THEN <<>> ELSE made[i - 1] \o KeptAt(t, D, i)) \o AddedAt(A, i)
  IN made
Patched == Made(old, adds, dels)[Len(old)]

\* The lines of a text as the code sees them, without empty ones.
LinesOf(t) ==
  LET lines[i \in 0..Len(t)] ==
        IF i = Len(t) THEN <<>>
        ELSE (IF LineLen(t, i) = 0 THEN <<>> ELSE <<Line(t, i)>>) \o lines[SkipLine(t, i)]
  IN lines[0]

\* Whatever the texts, the diff that is kept of an edit rebuilds the lines of the new text
\* from the old one; only line breaks may differ.
RebuildsLines == pc = "done" => LinesOf(Patched) = LinesOf(new)

\* Every line is ended, by LF or, as browsers send it, by CR LF; and none is empty, but
\* perhaps the first.
LFLines(t) ==
  /\ t # <<>> /\ Last(t) = LF /\ CR \notin ToSet(t)
  /\ \A i \in 2..Len(t) : t[i] # LF \/ t[i - 1] # LF
CRLFLines(t) ==
  /\ t # <<>> /\ Last(t) = LF
  /\ \A i \in 1..Len(t) :
       /\ t[i] = LF <=> i > 1 /\ t[i - 1] = CR
       /\ t[i] = CR => i > 1 /\ t[i - 1] \in Letters

\* Of such texts the diff rebuilds the new one exactly; an empty line or a missing last
\* break is what it may lose.
ExactOnRegular ==
  pc = "done" /\ \/ LFLines(old) /\ LFLines(new)
                 \/ CRLFLines(old) /\ CRLFLines(new)
    => Patched = new

\* The search for the lines of one text in the other always ends.
Terminates == <>(pc = "done")
=============================================================================

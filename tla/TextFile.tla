------------------------------ MODULE TextFile ------------------------------
(***************************************************************************)
(* The file of one article's text: the current text, a chain of the diffs  *)
(* that led to it, and a header that says where the text is.               *)
(*                                                                         *)
(*   header -> | text | prev -> | diff | prev -> ... -> 0                  *)
(*                                                                         *)
(* add_diff puts the new diff where the text was, the new text after it,   *)
(* and turns the header last.  The event loop writes, the console thread   *)
(* (the diff command) reads the same file without a lock, and the process  *)
(* may end between any two writes and be started again.                    *)
(*                                                                         *)
(* A text is the number of the write it came with, and what rendering      *)
(* makes of it in place another; offsets in the file are numbered by what  *)
(* add_diff puts there, cell h being followed by h + 1.  One read or write *)
(* of the file by the system is taken to be atomic, what the program does  *)
(* with several of them is not.                                            *)
(***************************************************************************)
EXTENDS Integers, FiniteSetsExt, SequencesExt

CONSTANTS
  MaxWrites,   \* bound on completed and interrupted writes
  MaxCrashes,  \* bound on ends of the process
  MaxCmds,     \* bound on diff commands at the console
  DiffCounts,  \* what a diff command may ask for
  Marked       \* the writes whose text holds what rendering replaces: < > & " ' or ```

ASSUME BoundsAssumption ==
  /\ MaxWrites \in Nat \ {0} /\ MaxCrashes \in Nat /\ MaxCmds \in Nat
  /\ DiffCounts \subseteq Nat \ {0} /\ Marked \subseteq 1..MaxWrites

Blank == 0        \* the text ""
NoText == -1      \* the NULL text of a file without header
Garbage == -2     \* what uninitialised variables make of a missing text
Texts == {NoText, Garbage} \cup (Blank..2 * MaxWrites)

\* render_article escapes the text it is given where it lies, whether it renders or not.
Rendered(t) == IF t \in Marked THEN t + MaxWrites ELSE t

First == 1                  \* offset 9, where the first cell is put
Cells == 0..(MaxWrites + 1)

NoCell == [kind |-> "none"]
TextCell(t, p) == [kind |-> "text", text |-> t, prev |-> p]
DiffCell(f, t, p) == [kind |-> "diff", from |-> f, to |-> t, prev |-> p]

VARIABLES
  exists,   \* the file exists
  header,   \* where its header points: 0 when there is none, or zeros
  cells,    \* what has been written
  record,   \* the article's record in the tables of the process
  saved,    \* its record in the tables of the last write-back
  job,      \* the loop's handler: what it does, its step, and add_diff's locals
  con,      \* the console's diff command
  writes, crashes, cmds,  \* counted for the bounds
  log,      \* history: texts written since the file was last damaged
  spoiled   \* history: the file was damaged, and not written since

fileVars == <<exists, header, cells>>
countVars == <<writes, crashes, cmds>>
historyVars == <<log, spoiled>>
textVars == <<fileVars, record, saved, job, con, countVars, historyVars>>

NoJob == [op |-> "none", step |-> "idle", at |-> 0, prev |-> 0,
          from |-> NoText, to |-> NoText, sound |-> TRUE]
NoDiffCommand == [step |-> "idle", max |-> 0, at |-> 0, text |-> NoText,
                  link |-> 0, torn |-> FALSE, diffs |-> <<>>]

TextInit ==
  /\ exists = FALSE /\ header = 0 /\ cells = [c \in Cells |-> NoCell]
  /\ record = "none" /\ saved = "none"
  /\ job = NoJob /\ con = NoDiffCommand
  /\ writes = 0 /\ crashes = 0 /\ cmds = 0
  /\ log = <<>> /\ spoiled = FALSE

-----------------------------------------------------------------------------
(* Reading.                                                                  *)

Written == {c \in Cells : cells[c] # NoCell}
HeaderMissing == header = 0 /\ Written = {}
\* Not written, but before something that is: zeros.
Hole(c) == cells[c] = NoCell /\ \E d \in Written : d > c

\* A diff where the text should be starts with zeros: it reads as the empty text.
TextAt(c) ==
  CASE cells[c].kind = "text" -> cells[c].text
    [] cells[c].kind = "diff" \/ Hole(c) \/ c = 0 -> Blank
    [] OTHER -> Garbage
\* The zeros of a diff that was emptied away.
Erased == DiffCell(Garbage, Garbage, 0)
PrevAt(c) == IF cells[c].kind = "text" THEN cells[c].prev ELSE 0
DiffAt(c) ==
  IF cells[c].kind = "diff" THEN cells[c]
  ELSE Erased

\* read_txt(&txt, 0, 0): the current text.
CurrentText == IF HeaderMissing THEN NoText ELSE TextAt(header)

\* The diffs of a text, the newest first (offsets only fall).
Chain ==
  LET older[c \in Cells] ==
        IF c = 0 THEN <<>>
        ELSE LET d == DiffAt(c)
             IN <<d>> \o (IF d.prev < c THEN older[d.prev] ELSE <<>>)
  IN older[PrevAt(header)]

-----------------------------------------------------------------------------
(* Writing: a handler of the loop reads the text and calls add_diff.         *)

Start(o, from, to) ==
  /\ job' = [NoJob EXCEPT !.op = o, !.step = "header", !.from = from, !.to = to]
  /\ exists' = TRUE    \* txt_new
  /\ writes' = writes + 1
  /\ UNCHANGED <<header, cells, saved, con, crashes, cmds, historyVars>>

Idle == job.step = "idle"
CanWrite == Idle /\ writes < MaxWrites
NextText == writes + 1

\* The record is there before its text is, or again there after a deletion.
NewText ==
  /\ CanWrite /\ record # "live"
  /\ record' = "live"
  /\ Start("new", CurrentText, NextText)

\* The old links and words are found by rendering the text, and the diff starts from what
\* that has made of it.
EditText ==
  /\ CanWrite /\ record = "live" /\ CurrentText # NoText
  /\ Start("edit", Rendered(CurrentText), NextText)
  /\ UNCHANGED record

\* A text whose links moved is written again, changed or not, a deleted article's too;
\* the diff starts from the text itself.  The empty text has no links.
RerenderText ==
  /\ CanWrite /\ record # "none" /\ CurrentText # NoText
  /\ \E to \in {CurrentText} \cup (IF CurrentText = Blank THEN {} ELSE {NextText}) :
       Start("rerender", CurrentText, to)
  /\ UNCHANGED record

\* What is deleted is the rendered text.
DeleteText ==
  /\ CanWrite /\ record = "live" /\ CurrentText # NoText
  /\ record' = "dead"
  /\ Start("delete", Rendered(CurrentText), Blank)

\* A handler that expects a text follows the NULL pointer, and faults for ever.
ReadMissing ==
  /\ Idle /\ record # "none" /\ HeaderMissing
  /\ job' = [NoJob EXCEPT !.step = "dead"]
  /\ exists' = TRUE
  /\ UNCHANGED <<header, cells, record, saved, con, countVars, historyVars>>

\* Mutant: the header is turned to the new text before it is there.
AddDiffHeaderEarly ==
  LET at == IF HeaderMissing THEN First ELSE header
  IN /\ job.step = "header"
     /\ header' = at + 1
     /\ job' = [job EXCEPT !.step = "diff", !.at = at, !.prev = PrevAt(at),
                              !.sound = @ /\ at # 0]
     /\ UNCHANGED <<exists, cells, record, saved, con, countVars, historyVars>>

\* add_diff reads the header, or pads one, and the text's link to its diff.  (A header of
\* zeros, left by an emptied file and a crash, has the diff written over it.)
AddDiffHeader ==
  LET at == IF HeaderMissing THEN First ELSE header
  IN /\ job.step = "header"
     /\ header' = at
     /\ job' = [job EXCEPT !.step = "diff", !.at = at, !.prev = PrevAt(at),
                              !.sound = @ /\ at # 0]
     /\ UNCHANGED <<exists, cells, record, saved, con, countVars, historyVars>>

\* Mutant: the new diff is the only one.
AddDiffDiffUnlinked ==
  /\ job.step = "diff"
  /\ cells' = [cells EXCEPT ![job.at] = DiffCell(job.from, job.to, 0)]
  /\ job' = [job EXCEPT !.step = "text"]
  /\ UNCHANGED <<exists, header, record, saved, con, countVars, historyVars>>

\* The diff replaces the text ...
AddDiffDiff ==
  /\ job.step = "diff"
  /\ cells' = [cells EXCEPT ![job.at] = DiffCell(job.from, job.to, job.prev)]
  /\ job' = [job EXCEPT !.step = "text"]
  /\ UNCHANGED <<exists, header, record, saved, con, countVars, historyVars>>

\* Mutant: the text is linked to itself.
AddDiffTextSelf ==
  /\ job.step = "text"
  /\ cells' = [cells EXCEPT ![job.at + 1] = TextCell(job.to, job.at + 1)]
  /\ job' = [job EXCEPT !.step = "close"]
  /\ UNCHANGED <<exists, header, record, saved, con, countVars, historyVars>>

\* ... the new text follows ...
AddDiffText ==
  /\ job.step = "text"
  /\ cells' = [cells EXCEPT ![job.at + 1] = TextCell(job.to, job.at)]
  /\ job' = [job EXCEPT !.step = "close"]
  /\ UNCHANGED <<exists, header, record, saved, con, countVars, historyVars>>

\* ... and the header, which reaches the file when it is closed.
CloseText ==
  /\ job.step = "close"
  /\ header' = job.at + 1
  /\ job' = NoJob
  /\ spoiled' = ~job.sound
  /\ log' = IF spoiled THEN (IF job.sound THEN <<job.to>> ELSE <<>>) ELSE Append(log, job.to)
  /\ UNCHANGED <<exists, cells, record, saved, con, countVars>>

AddDiff == AddDiffHeader \/ AddDiffDiff \/ AddDiffText

-----------------------------------------------------------------------------
(* The console's diff command.                                               *)

DiffOpen(n) ==
  /\ con.step = "idle" /\ cmds < MaxCmds
  /\ cmds' = cmds + 1
  /\ con' = [NoDiffCommand EXCEPT !.max = n,
                                  !.step = IF exists THEN "header" ELSE "create"]
  /\ UNCHANGED <<fileVars, record, saved, job, writes, crashes, historyVars>>

\* The file was not there: it is made, or emptied if it has been made since, maybe while
\* a handler is reading it.
DiffCreate ==
  /\ con.step = "create"
  /\ exists' = TRUE /\ header' = 0 /\ cells' = [c \in Cells |-> NoCell]
  /\ con' = [con EXCEPT !.step = "header"]
  /\ \E from \in {job.from} \cup (IF job.step = "header" THEN {Garbage} ELSE {}) :
       job' = [job EXCEPT !.sound = Idle, !.from = from]
  /\ spoiled' = (spoiled \/ log # <<>> \/ ~Idle)
  /\ UNCHANGED <<record, saved, countVars, log>>

\* Without a header, "text does not exist".
DiffHeader ==
  /\ con.step = "header"
  /\ con' = IF HeaderMissing THEN NoDiffCommand
            ELSE [con EXCEPT !.step = "text", !.at = header]
  /\ UNCHANGED <<fileVars, record, saved, job, countVars, historyVars>>

\* Where the header says 0 the link is the header itself: once that is turned, it leads to
\* a text, and what is read there as a diff can be anything.
Misled == con.at = 0 /\ header # 0

\* The link is read, and what comes with it into the buffer.
DiffText ==
  /\ con.step = "text" /\ ~Misled
  /\ con' = [con EXCEPT !.step = "rest", !.text = TextAt(con.at), !.link = PrevAt(con.at)]
  /\ UNCHANGED <<fileVars, record, saved, job, countVars, historyVars>>

Untouched == con.text = TextAt(con.at) /\ con.link = PrevAt(con.at)

\* Mutant: the diffs are looked for from the header.
DiffRestByHeader ==
  /\ con.step = "rest" /\ ~Misled
  /\ con' = [con EXCEPT !.step = "diffs", !.at = PrevAt(header)]
  /\ UNCHANGED <<fileVars, record, saved, job, countVars, historyVars>>

\* The rest of the text is read.  When a diff was put over it meanwhile, what is shown is
\* the old text, a mixture, or the diff's zeros, with the old link or with none.
DiffRest ==
  /\ con.step = "rest" /\ ~Misled
  /\ \/ /\ Untouched
        /\ con' = [con EXCEPT !.step = "diffs", !.at = con.link]
     \/ /\ ~Untouched
        /\ \E t \in {con.text, Garbage, TextAt(con.at)}, p \in {con.link, PrevAt(con.at)} :
             con' = [con EXCEPT !.step = "diffs", !.text = t, !.at = p, !.torn = TRUE]
  /\ UNCHANGED <<fileVars, record, saved, job, countVars, historyVars>>

\* The link itself is read in two parts, around the end of a buffer, or is no link: from
\* here on the command reads and shows whatever is there.
DiffLost ==
  /\ \/ con.step \in {"text", "rest"} /\ Misled
     \/ con.step = "rest" /\ ~Untouched
  /\ con' = [con EXCEPT !.step = "lost"]
  /\ UNCHANGED <<fileVars, record, saved, job, countVars, historyVars>>

DiffMore == con.step = "diffs" /\ con.at > 0 /\ Len(con.diffs) < con.max

DiffDiff ==
  /\ DiffMore
  /\ con' = [con EXCEPT !.diffs = Append(@, DiffAt(con.at)), !.at = DiffAt(con.at).prev]
  /\ UNCHANGED <<fileVars, record, saved, job, countVars, historyVars>>

DiffShow ==
  /\ con.step = "lost" \/ (con.step = "diffs" /\ ~DiffMore)
  /\ con' = NoDiffCommand
  /\ UNCHANGED <<fileVars, record, saved, job, countVars, historyVars>>

DiffCommand ==
  \/ \E n \in DiffCounts : DiffOpen(n)
  \/ DiffCreate \/ DiffHeader \/ DiffText \/ DiffRest \/ DiffLost
  \/ DiffDiff \/ DiffShow

-----------------------------------------------------------------------------
\* The timer of the loop writes the tables back.
WriteBack ==
  /\ Idle /\ saved # record
  /\ saved' = record
  /\ UNCHANGED <<fileVars, record, job, con, countVars, historyVars>>

\* The process ends and is started again.  What was written stays; the header of a file
\* that was not closed does not, and the tables are those of now or of the write-back.
Crash ==
  /\ crashes < MaxCrashes
  /\ crashes' = crashes + 1
  /\ job' = NoJob /\ con' = NoDiffCommand
  /\ \E t \in {record, saved} : record' = t /\ saved' = t
  /\ spoiled' = (spoiled \/ job.step \in {"text", "close"}
                         \/ (job.step = "diff" /\ cells[job.at] = NoCell))
  /\ UNCHANGED <<fileVars, writes, cmds, log>>

Write == NewText \/ EditText \/ RerenderText \/ DeleteText
TextNext == Write \/ ReadMissing \/ AddDiff \/ CloseText \/ DiffCommand \/ WriteBack \/ Crash

TextSpec == TextInit /\ [][TextNext]_textVars
-----------------------------------------------------------------------------
(* Properties.                                                               *)

\* Every variable holds a value of its kind, and links only lead back in the file.
TextTypeOK ==
  /\ exists \in BOOLEAN /\ header \in Cells
  /\ \A c \in Cells :
       \/ cells[c] = NoCell
       \/ \E t \in Texts, p \in Cells : cells[c] = TextCell(t, p) /\ (p < c \/ p = 0)
       \/ \E f, t \in Texts, p \in Cells : cells[c] = DiffCell(f, t, p) /\ (p < c \/ p = 0)
  /\ record \in {"none", "live", "dead"} /\ saved \in {"none", "live", "dead"}
  /\ job.op \in {"none", "new", "edit", "rerender", "delete"}
  /\ job.step \in {"idle", "header", "diff", "text", "close", "dead"}
  /\ con.step \in {"idle", "create", "header", "text", "rest", "diffs", "lost"}
  /\ writes \in 0..MaxWrites /\ crashes \in 0..MaxCrashes /\ cmds \in 0..MaxCmds
  /\ log \in Seq(Texts) /\ spoiled \in BOOLEAN

\* The writes of the file, from the newest: what its chain of diffs should tell.
Newest(texts, diffs) ==
  /\ Len(diffs) >= Len(texts)
  /\ \A i \in 1..Len(texts) : diffs[i].to = texts[Len(texts) - i + 1]

\* A diff from f goes on where the diff to t ended, up to what rendering changes.
GoesOn(f, t) == f \in {t, Rendered(t)}
\* The newest diff leads to the text, an older one to where the one before it starts.
Leads(text, diffs, i) ==
  IF i = 1 THEN diffs[i].to = text ELSE GoesOn(diffs[i - 1].from, diffs[i].to)
Linked(text, diffs) == \A i \in 1..Len(diffs) : Leads(text, diffs, i)

\* Between writes the header points to the last text written and the diffs tell every
\* text since the file was damaged, in order, each starting from the text before it or
\* from what rendering makes of that.  Damage is what a stop between the diff and the
\* header does, or a diff command that empties the file: the next write repairs it, at the
\* price of the history before.  Without damage the whole history is there.
HistoryIntact ==
  Idle /\ ~spoiled /\ log # <<>> =>
    /\ CurrentText = Last(log)
    /\ Newest(log, Chain)
    /\ Linked(CurrentText, SubSeq(Chain, 1, Len(log)))
    /\ crashes = 0 /\ cmds = 0 => Len(Chain) = Len(log) /\ Last(Chain).from = NoText

\* What the console shows, although it reads without a lock while texts are written, are
\* diffs of this file that hang together, at worst none of them or, at their end, one that
\* was emptied away; and they lead to the text it shows, unless that was overwritten while
\* it was read.  (Nothing is said of a command whose link was torn.)
ConsoleCoherent ==
  con.step = "diffs" =>
    \A i \in 1..Len(con.diffs) :
      con.diffs[i] = Erased \/ (con.torn /\ i = 1) \/ Leads(con.text, con.diffs, i)

\* A handler finds no text for a record, or finds what is no text, only after the process
\* was stopped or the console emptied the file, and then only when that has damaged the
\* file, or left a record whose first text was never written.  A stop at any other point
\* costs nothing.
FatalOnlyAfterFault ==
  /\ job.step = "dead" \/ job.from = Garbage => crashes > 0 \/ cmds > 0
  /\ job.step = "dead" => spoiled \/ log = <<>>
  /\ job.from = Garbage => spoiled \/ \E i \in 1..Len(log) : log[i] = Garbage
=============================================================================

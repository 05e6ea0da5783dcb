--------------------------- MODULE PageCacheProofs ---------------------------
(***************************************************************************)
(* The properties of TextFile and PageCache, for any number of writes,     *)
(* crashes and diff commands.  As long as the file is not spoiled, the     *)
(* cells below its text tell the log: WholeInv says so at every step of    *)
(* add_diff, SoundInv says what a write leaves behind whatever the file    *)
(* was like before, and CalmInv what cannot happen without a crash or the  *)
(* console.  ChainInv holds of every file: below its header the diffs hang *)
(* together, and ShowInv is what the console, which reads them without a   *)
(* lock, may rely on.                                                      *)
(***************************************************************************)
EXTENDS PageCache, WellFoundedInduction, TLAPS

TextRec == [kind : {"text"}, text : Texts, prev : Cells]
DiffRec == [kind : {"diff"}, from : Texts, to : Texts, prev : Cells]
Cell(c) == {NoCell} \cup {x \in TextRec \cup DiffRec : x.prev < c \/ x.prev = 0}

Records == {"none", "live", "dead"}
JobType == [op : {"none", "new", "edit", "rerender", "delete"},
            step : {"idle", "header", "diff", "text", "close", "dead"},
            at : Cells, prev : Cells, from : Texts, to : Texts, sound : BOOLEAN]
ConType == [step : {"idle", "create", "header", "text", "rest", "diffs", "lost"},
            max : Nat, at : Cells, text : Texts, link : Cells, torn : BOOLEAN, diffs : Seq(DiffRec)]

TypeInv ==
  /\ exists \in BOOLEAN /\ header \in Cells
  /\ DOMAIN cells = Cells /\ \A c \in Cells : cells[c] \in Cell(c)
  /\ record \in Records /\ saved \in Records
  /\ job \in JobType /\ con \in ConType
  /\ writes \in 0..MaxWrites /\ crashes \in 0..MaxCrashes /\ cmds \in 0..MaxCmds
  /\ log \in Seq(Texts) /\ spoiled \in BOOLEAN

\* Each write needs one more cell, which the bound leaves.
PlaceInv ==
  /\ header <= writes + 1
  /\ job.step = "header" => header <= writes /\ writes >= 1
  /\ job.step \in {"diff", "text", "close"} =>
       job.at <= writes /\ (job.prev < job.at \/ job.prev = 0)
  /\ job.step \in {"idle", "dead"} => job.from = NoText

\* The cells below h tell the log, from the newest text on.
Told(h, i) ==
  /\ cells[h - i] \in DiffRec /\ cells[h - i].to = log[Len(log) - i + 1]
  /\ i < Len(log) =>
       cells[h - i].prev = h - i - 1 /\ GoesOn(cells[h - i].from, log[Len(log) - i])
Tells(h) == Len(log) < h /\ \A i \in 1..Len(log) : Told(h, i)

Reading == job.step \in {"idle", "header", "dead"}
Writing == job.step \in {"diff", "text", "close"}

WholeInv ==
  ~spoiled =>
    /\ job.sound
    /\ log = <<>> /\ Reading => HeaderMissing
    /\ log = <<>> /\ job.step = "diff" => Written = {}
    /\ log # <<>> => Tells(header) /\ job.step # "dead"
    /\ log # <<>> /\ (Reading \/ job.step = "diff") =>
         cells[header] = TextCell(Last(log), header - 1)
    /\ log # <<>> /\ Writing => job.prev = header - 1
    /\ job.step = "header" \/ Writing =>
         GoesOn(job.from, IF log = <<>> THEN NoText ELSE Last(log))

SoundInv ==
  job.sound =>
    /\ Writing => job.at = header /\ header >= 1
    /\ job.step \in {"text", "close"} => cells[job.at] = DiffCell(job.from, job.to, job.prev)
    /\ job.step = "close" => cells[job.at + 1] = TextCell(job.to, job.at)

Calm == crashes = 0 /\ cmds = 0
CalmInv ==
  Calm =>
    /\ ~spoiled /\ con.step = "idle" /\ job.step # "dead"
    /\ \A i \in 1..Len(log) : log[i] \in Blank..MaxWrites
    /\ IF Idle THEN job.from = NoText ELSE job.to \in Blank..MaxWrites
    /\ log # <<>> => header = Len(log) + 1 /\ cells[1].prev = 0 /\ cells[1].from = NoText
    /\ Writing /\ log = <<>> => header = 1 /\ job.prev = 0
    /\ Idle /\ record # "none" => log # <<>>

IsDiff(c) == cells[c].kind = "diff"
\* The cell at p, when it is a diff, comes to text t; or a diff from f goes on after it.
ComesTo(p, t) == p > 0 /\ IsDiff(p) => cells[p].to = t
LeadsTo(p, f) == p > 0 /\ IsDiff(p) => GoesOn(f, cells[p].to)

\* What a chain is made of, whole or not: below the header there are diffs that hang
\* together; a handler's place is not below the header, with nothing between them.
ChainInv ==
  /\ cells[0].kind # "text"
  /\ \A c \in Cells : c < header =>
       /\ cells[c].kind # "text"
       /\ IsDiff(c) => LeadsTo(cells[c].prev, cells[c].from)
  /\ cells[header].kind = "text" => ComesTo(cells[header].prev, cells[header].text)
  /\ job.step = "header" /\ cells[header].kind = "text" => GoesOn(job.from, cells[header].text)
  /\ Writing =>
       /\ job.at >= header /\ LeadsTo(job.prev, job.from)
       /\ \A c \in Cells : header <= c /\ c < job.at => cells[c] = NoCell
  /\ job.step \in {"text", "close"} =>
       cells[job.at] \in {NoCell, DiffCell(job.from, job.to, job.prev)}
  /\ job.step = "close" => cells[job.at + 1] \in {NoCell, TextCell(job.to, job.at)}

\* What the console holds: it reads at or below the header, what led to what it has read.
ShowInv ==
  /\ con.step # "diffs" => con.diffs = <<>>
  /\ con.step \in {"text", "rest"} => con.at <= header
  /\ con.step = "rest" => con.link = 0 \/ con.link < header
  /\ con.step = "diffs" =>
       /\ con.at = 0 \/ con.at < header
       /\ \A i \in 1..Len(con.diffs) :
            con.diffs[i] = Erased \/ (con.torn /\ i = 1) \/ Leads(con.text, con.diffs, i)
       /\ con.diffs = <<>> => con.torn \/ ComesTo(con.at, con.text)
       /\ con.diffs # <<>> => LeadsTo(con.at, Last(con.diffs).from)

PageInv ==
  /\ page \in Texts \cup {NoPage, Freed} /\ stale \in BOOLEAN
  /\ page = NoPage \/ record = "live"
  /\ ~Idle => page = NoPage \/ job.op \in {"edit", "rerender"} \/ job.step = "dead"
  /\ CacheFresh

TextInv == TypeInv /\ PlaceInv /\ WholeInv /\ SoundInv /\ CalmInv /\ ChainInv /\ ShowInv
-----------------------------------------------------------------------------
(* What is read.                                                             *)

\* The numbers of the model are what they should be.
LEMMA Numbers ==
  /\ MaxWrites \in Nat \ {0} /\ Cells = 0..(MaxWrites + 1)
  /\ Texts = {NoText, Garbage} \cup 0..(2 * MaxWrites) /\ Blank = 0 /\ NoText = -1 /\ Garbage = -2
  /\ First = 1 /\ DiffCounts \subseteq Nat /\ MaxCrashes \in Nat /\ MaxCmds \in Nat
  BY BoundsAssumption DEF Cells, Texts, Blank, NoText, Garbage, First

\* What a cell of a kind holds.
LEMMA CellKinds ==
  ASSUME TypeInv, NEW c \in Cells
  PROVE  /\ cells[c] = NoCell <=> cells[c].kind \notin {"text", "diff"}
         /\ cells[c].kind = "text" => cells[c] \in TextRec
         /\ cells[c].kind = "diff" => cells[c] \in DiffRec
         /\ cells[c].kind \in {"text", "diff"} => cells[c].prev < c \/ cells[c].prev = 0
  BY DEF TypeInv, Cell, NoCell, TextRec, DiffRec

\* Reading finds a text, and links that lead back.
LEMMA ReadTypes ==
  ASSUME TypeInv, NEW c \in Cells
  PROVE  /\ TextAt(c) \in Texts
         /\ PrevAt(c) \in Cells /\ (PrevAt(c) < c \/ PrevAt(c) = 0)
         /\ DiffAt(c) \in DiffRec
<1>1. TextAt(c) \in Texts
  BY CellKinds, Numbers DEF TextAt, TextRec
<1>2. PrevAt(c) \in Cells /\ (PrevAt(c) < c \/ PrevAt(c) = 0)
  BY CellKinds, Numbers DEF PrevAt, TextRec
<1>3. DiffAt(c) \in DiffRec
  <2>1. Erased \in DiffRec
    BY Numbers DEF Erased, DiffCell, DiffRec
  <2>. QED
    BY <2>1, CellKinds DEF DiffAt
<1>. QED
  BY <1>1, <1>2, <1>3

\* The current text is a text or none.
LEMMA CurrentType == ASSUME TypeInv PROVE CurrentText \in Texts
  BY ReadTypes, Numbers DEF CurrentText, TypeInv

\* What rendering makes of a text is a text, which goes on from it.
LEMMA RenderedType ==
  ASSUME NEW t \in Texts
  PROVE  /\ Rendered(t) \in Texts /\ GoesOn(Rendered(t), t) /\ GoesOn(t, t)
         /\ t \in {NoText, Blank} => Rendered(t) = t
  BY BoundsAssumption, Numbers DEF Rendered, GoesOn

\* The writes of the loop begin in the same way.
Begun == \E o \in {"new", "edit", "rerender", "delete"}, from, to \in Texts :
  /\ Idle /\ writes < MaxWrites /\ record' \in Records
  /\ GoesOn(from, CurrentText)
  /\ to \in Blank..MaxWrites \/ (o = "rerender" /\ to = CurrentText)
  /\ o # "new" => record # "none" /\ CurrentText # NoText
  /\ o = "new" => record # "live"
  /\ Start(o, from, to)

\* Only the text a handler is reading is lost to it when the file is emptied.
LEMMA Emptied ==
  ASSUME TypeInv, DiffCreate
  PROVE  /\ job' \in JobType /\ job'.op = job.op /\ job'.step = job.step /\ job'.at = job.at
         /\ job'.prev = job.prev /\ job'.to = job.to /\ (job'.sound <=> job.step = "idle")
         /\ job.step # "header" => job'.from = job.from
<1>1. PICK from \in {job.from} \cup (IF job.step = "header" THEN {Garbage} ELSE {}) :
        job' = [job EXCEPT !.sound = Idle, !.from = from]
  BY DEF DiffCreate
<1>2. job \in JobType /\ from \in Texts /\ (job.step # "header" => from = job.from)
  BY <1>1, Numbers DEF TypeInv, JobType
<1>. QED
  BY <1>1, <1>2 DEF JobType, Idle

\* So every write begins.
LEMMA WriteBegins == TypeInv /\ Write => Begun
<1>. SUFFICES ASSUME TypeInv, Write PROVE Begun
  OBVIOUS
<1>1. /\ CurrentText \in Texts
      /\ writes < MaxWrites => NextText \in Texts /\ NextText \in Blank..MaxWrites
      /\ Blank \in Texts /\ Blank \in Blank..MaxWrites
      /\ Rendered(CurrentText) \in Texts
      /\ GoesOn(Rendered(CurrentText), CurrentText) /\ GoesOn(CurrentText, CurrentText)
      /\ {"none", "live", "dead"} \subseteq Records
  BY CurrentType, RenderedType, Numbers DEF NextText, TypeInv, Records
<1>2. CASE NewText
  BY <1>1, <1>2 DEF NewText, CanWrite, Begun
<1>3. CASE EditText
  BY <1>1, <1>3 DEF EditText, CanWrite, Begun, TypeInv
<1>4. CASE RerenderText
  BY <1>1, <1>4 DEF RerenderText, CanWrite, Begun, TypeInv
<1>5. CASE DeleteText
  BY <1>1, <1>5 DEF DeleteText, CanWrite, Begun
<1>. QED
  BY <1>2, <1>3, <1>4, <1>5 DEF Write
-----------------------------------------------------------------------------
(* Types and places.                                                         *)

\* The steps of the console that leave the file alone.
ConsoleReads == (\E n \in DiffCounts : DiffOpen(n)) \/ DiffHeader \/ DiffText \/ DiffRest
                \/ DiffLost \/ DiffDiff \/ DiffShow

\* No step leaves the types, or the room the bound gives.
LEMMA TypeStep == TypeInv /\ PlaceInv /\ [TextNext]_textVars => TypeInv' /\ PlaceInv'
<1>. SUFFICES ASSUME TypeInv, PlaceInv, [TextNext]_textVars PROVE TypeInv' /\ PlaceInv'
  OBVIOUS
<1>. USE Numbers
<1>0. /\ NoJob \in JobType /\ NoDiffCommand \in ConType
      /\ \A c : NoCell \in Cell(c)
  BY DEF NoJob, JobType, NoDiffCommand, ConType, Cell
<1>1. CASE Write
  <2>1. PICK o \in {"new", "edit", "rerender", "delete"}, from, to \in Texts :
          Idle /\ writes < MaxWrites /\ record' \in Records /\ Start(o, from, to)
    BY <1>1, WriteBegins DEF Begun
  <2>2. job' = [op |-> o, step |-> "header", at |-> 0, prev |-> 0,
                from |-> from, to |-> to, sound |-> TRUE]
    BY <2>1 DEF Start, NoJob
  <2>3. job' \in JobType
    BY <2>2 DEF JobType
  <2>4. TypeInv'
    BY <2>1, <2>3 DEF Start, TypeInv, historyVars
  <2>5. PlaceInv'
    BY <2>1, <2>2 DEF Start, PlaceInv, TypeInv
  <2>. QED
    BY <2>4, <2>5
<1>2. CASE ReadMissing
  <2>1. job' \in JobType /\ job'.step = "dead" /\ job'.from = NoText
    <3>1. job' = [op |-> "none", step |-> "dead", at |-> 0, prev |-> 0,
                  from |-> NoText, to |-> NoText, sound |-> TRUE]
      BY <1>2 DEF ReadMissing, NoJob
    <3>. QED
      BY <3>1 DEF JobType
  <2>. QED
    BY <1>2, <2>1 DEF ReadMissing, TypeInv, PlaceInv, countVars, historyVars
<1>3. CASE AddDiffHeader
  <2>. DEFINE at == IF HeaderMissing THEN First ELSE header
  <2>1. /\ job.step = "header" /\ header' = at
        /\ job' = [job EXCEPT !.step = "diff", !.at = at, !.prev = PrevAt(at),
                              !.sound = @ /\ at # 0]
        /\ UNCHANGED <<exists, cells, record, saved, con, countVars, historyVars>>
    BY <1>3 DEF AddDiffHeader
  <2>2. at \in Cells /\ at <= writes
    BY <2>1 DEF TypeInv, PlaceInv
  <2>3. PrevAt(at) \in Cells /\ (PrevAt(at) < at \/ PrevAt(at) = 0)
    BY <2>2, ReadTypes
  <2>4. job \in JobType
    BY DEF TypeInv
  <2>5. /\ job' \in JobType /\ job'.step = "diff" /\ job'.at = header'
        /\ job'.at <= writes /\ (job'.prev < job'.at \/ job'.prev = 0)
    <3>. HIDE DEF at
    <3>. QED
      BY <2>1, <2>2, <2>3, <2>4 DEF JobType
  <2>6. header' \in Cells /\ header' <= writes + 1
    <3>. HIDE DEF at
    <3>. QED
      BY <2>1, <2>2 DEF TypeInv
  <2>7. TypeInv'
    BY <2>1, <2>5, <2>6 DEF TypeInv, countVars, historyVars
  <2>8. PlaceInv'
    BY <2>1, <2>5, <2>6 DEF PlaceInv, countVars
  <2>. QED
    BY <2>7, <2>8
<1>4. CASE AddDiffDiff
  <2>1. /\ job.step = "diff"
        /\ cells' = [cells EXCEPT ![job.at] = DiffCell(job.from, job.to, job.prev)]
        /\ job' = [job EXCEPT !.step = "text"]
        /\ UNCHANGED <<exists, header, record, saved, con, countVars, historyVars>>
    BY <1>4 DEF AddDiffDiff
  <2>2. /\ job' \in JobType /\ job'.step = "text" /\ job'.at = job.at /\ job'.prev = job.prev
        /\ job.at \in Cells
    BY <2>1 DEF TypeInv, JobType
  <2>3. DiffCell(job.from, job.to, job.prev) \in Cell(job.at)
    BY <2>1 DEF TypeInv, JobType, PlaceInv, DiffCell, DiffRec, Cell
  <2>4. DOMAIN cells' = Cells /\ \A c \in Cells : cells'[c] \in Cell(c)
    BY <2>1, <2>2, <2>3 DEF TypeInv
  <2>. QED
    BY <2>1, <2>2, <2>4 DEF TypeInv, PlaceInv, countVars, historyVars
<1>5. CASE AddDiffText
  <2>1. /\ job.step = "text"
        /\ cells' = [cells EXCEPT ![job.at + 1] = TextCell(job.to, job.at)]
        /\ job' = [job EXCEPT !.step = "close"]
        /\ UNCHANGED <<exists, header, record, saved, con, countVars, historyVars>>
    BY <1>5 DEF AddDiffText
  <2>2. /\ job' \in JobType /\ job'.step = "close" /\ job'.at = job.at /\ job'.prev = job.prev
        /\ job.at \in Cells /\ job.at + 1 \in Cells
    <3>1. job \in JobType /\ job.at \in Cells /\ job.at <= writes /\ writes \in 0..MaxWrites
      BY <2>1 DEF TypeInv, JobType, PlaceInv
    <3>2. job.at + 1 \in Cells
      BY <3>1
    <3>. QED
      BY <2>1, <3>1, <3>2 DEF JobType
  <2>3. TextCell(job.to, job.at) \in Cell(job.at + 1)
    BY <2>1, <2>2 DEF TypeInv, JobType, PlaceInv, TextCell, TextRec, Cell
  <2>4. DOMAIN cells' = Cells /\ \A c \in Cells : cells'[c] \in Cell(c)
    BY <2>1, <2>2, <2>3 DEF TypeInv
  <2>. QED
    BY <2>1, <2>2, <2>4 DEF TypeInv, PlaceInv, countVars, historyVars
<1>6. CASE CloseText
  <2>1. /\ job.step = "close" /\ header' = job.at + 1 /\ job' = NoJob /\ spoiled' = ~job.sound
        /\ log' = IF spoiled THEN (IF job.sound THEN <<job.to>> ELSE <<>>) ELSE Append(log, job.to)
        /\ UNCHANGED <<exists, cells, record, saved, con, countVars>>
    BY <1>6 DEF CloseText
  <2>2. job.at \in Cells /\ job.to \in Texts /\ job.sound \in BOOLEAN /\ job.at <= writes
    BY <2>1 DEF TypeInv, PlaceInv, JobType
  <2>3. log' \in Seq(Texts)
    <3>1. log \in Seq(Texts)
      BY DEF TypeInv
    <3>2. log' = <<job.to>> \/ log' = <<>> \/ log' = Append(log, job.to)
      BY <2>1
    <3>3. ASSUME NEW T, NEW t \in T, NEW s \in Seq(T)
          PROVE  <<t>> \in Seq(T) /\ <<>> \in Seq(T) /\ Append(s, t) \in Seq(T)
      OBVIOUS
    <3>4. <<job.to>> \in Seq(Texts) /\ <<>> \in Seq(Texts) /\ Append(log, job.to) \in Seq(Texts)
      BY <2>2, <3>1, <3>3, Zenon
    <3>. QED
      BY <3>2, <3>4, Zenon
  <2>4. job'.step = "idle" /\ job'.from = NoText
    BY <2>1 DEF NoJob
  <2>. QED
    BY <1>0, <2>1, <2>2, <2>3, <2>4 DEF TypeInv, PlaceInv, countVars
<1>7. CASE DiffCreate
  <2>1. /\ con.step = "create" /\ exists' = TRUE /\ header' = 0
        /\ cells' = [c \in Cells |-> NoCell] /\ con' = [con EXCEPT !.step = "header"]
        /\ spoiled' \in BOOLEAN
        /\ UNCHANGED <<record, saved, countVars, log>>
    BY <1>7 DEF DiffCreate, TypeInv
  <2>2. /\ job' \in JobType /\ job'.step = job.step /\ job'.at = job.at /\ job'.prev = job.prev
        /\ con' \in ConType /\ (job.step # "header" => job'.from = job.from)
    BY <1>7, <2>1, Emptied DEF TypeInv, ConType
  <2>. QED
    BY <1>0, <2>1, <2>2 DEF TypeInv, PlaceInv, countVars
<1>8. CASE ConsoleReads
  <2>1. /\ UNCHANGED <<exists, header, cells, record, saved, job, writes, crashes, log, spoiled>>
        /\ cmds' \in 0..MaxCmds
    <3>. USE DEF fileVars, historyVars, countVars, TypeInv
    <3>1. CASE \E n \in DiffCounts : DiffOpen(n)
      BY <3>1 DEF DiffOpen
    <3>2. CASE DiffHeader \/ DiffText \/ DiffRest \/ DiffLost \/ DiffDiff \/ DiffShow
      BY <3>2 DEF DiffHeader, DiffText, DiffRest, DiffLost, DiffDiff, DiffShow
    <3>. QED
      BY <1>8, <3>1, <3>2 DEF ConsoleReads
  <2>. con \in ConType /\ header \in Cells
    BY DEF TypeInv
  <2>2. con' \in ConType
    <3>1. ASSUME NEW n \in DiffCounts, DiffOpen(n) PROVE con' \in ConType
      <4>1. con' = [NoDiffCommand EXCEPT !.max = n, !.step = IF exists THEN "header" ELSE "create"]
        BY <3>1 DEF DiffOpen
      <4>. QED
        BY <1>0, <4>1 DEF ConType
    <3>2. CASE DiffHeader
      BY <1>0, <3>2 DEF DiffHeader, ConType
    <3>3. CASE DiffText
      <4>1. con.at \in Cells /\ TextAt(con.at) \in Texts /\ PrevAt(con.at) \in Cells
        BY ReadTypes DEF ConType
      <4>. QED
        BY <3>3, <4>1 DEF DiffText, ConType
    <3>6. CASE DiffRest \/ DiffLost
      <4>1. con.at \in Cells /\ TextAt(con.at) \in Texts /\ PrevAt(con.at) \in Cells
        BY ReadTypes DEF ConType
      <4>2. CASE DiffLost
        BY <4>2 DEF DiffLost, ConType
      <4>3. CASE DiffRest
        <5>. DEFINE P == PrevAt(con.at)
                    T == TextAt(con.at)
        <5>1. con \in ConType /\ con.link \in Cells /\ con.text \in Texts /\ Garbage \in Texts
          BY DEF ConType
        <5>2. \/ con' = [con EXCEPT !.step = "diffs", !.at = con.link]
              \/ \E t \in {con.text, Garbage, T}, p \in {con.link, P} :
                   con' = [con EXCEPT !.step = "diffs", !.text = t, !.at = p, !.torn = TRUE]
          BY <4>3 DEF DiffRest
        <5>. HIDE DEF P, T
        <5>3. CASE con' = [con EXCEPT !.step = "diffs", !.at = con.link]
          BY <5>1, <5>3 DEF ConType
        <5>4. CASE \E t \in {con.text, Garbage, T}, p \in {con.link, P} :
                     con' = [con EXCEPT !.step = "diffs", !.text = t, !.at = p, !.torn = TRUE]
          <6>1. T \in Texts /\ P \in Cells
            BY <4>1 DEF P, T
          <6>2. PICK t \in Texts, p \in Cells :
                  con' = [con EXCEPT !.step = "diffs", !.text = t, !.at = p, !.torn = TRUE]
            <7>1. {con.text, Garbage, T} \subseteq Texts /\ {con.link, P} \subseteq Cells
              BY <5>1, <6>1
            <7>. QED
              BY <5>4, <7>1, Zenon
          <6>. QED
            BY <5>1, <6>2 DEF ConType
        <5>. QED
          BY <5>2, <5>3, <5>4
      <4>. QED
        BY <3>6, <4>2, <4>3
    <3>4. CASE DiffDiff
      <4>. DEFINE d == DiffAt(con.at)
      <4>1. d \in DiffRec /\ con.diffs \in Seq(DiffRec)
        BY ReadTypes DEF ConType
      <4>2. Append(con.diffs, d) \in Seq(DiffRec) /\ d.prev \in Cells
        BY <4>1 DEF DiffRec
      <4>3. con' = [con EXCEPT !.diffs = Append(con.diffs, d), !.at = d.prev]
        BY <3>4 DEF DiffDiff
      <4>. HIDE DEF d
      <4>. QED
        BY <4>2, <4>3 DEF ConType
    <3>5. CASE DiffShow
      BY <1>0, <3>5 DEF DiffShow
    <3>. QED
      BY <1>8, <3>1, <3>2, <3>3, <3>4, <3>5, <3>6 DEF ConsoleReads
  <2>. QED
    BY <2>1, <2>2 DEF TypeInv, PlaceInv
<1>9. CASE WriteBack
  BY <1>9 DEF WriteBack, TypeInv, PlaceInv, fileVars, countVars, historyVars
<1>10. CASE Crash
  <2>1. /\ crashes' = crashes + 1 /\ crashes < MaxCrashes /\ job' = NoJob /\ con' = NoDiffCommand
        /\ record' \in Records /\ saved' \in Records /\ spoiled' \in BOOLEAN
        /\ UNCHANGED <<exists, header, cells, writes, cmds, log>>
    BY <1>10 DEF Crash, TypeInv, fileVars
  <2>2. job'.step = "idle" /\ job'.from = NoText
    BY <2>1 DEF NoJob
  <2>. QED
    BY <1>0, <2>1, <2>2 DEF TypeInv, PlaceInv
<1>11. CASE UNCHANGED textVars
  BY <1>11 DEF textVars, fileVars, countVars, historyVars, TypeInv, PlaceInv
<1>. QED
  BY <1>1, <1>2, <1>3, <1>4, <1>5, <1>6, <1>7, <1>8, <1>9, <1>10, <1>11
     DEF TextNext, AddDiff, DiffCommand, ConsoleReads
-----------------------------------------------------------------------------
(* The file.                                                                 *)

\* The log is empty or has a last text.
LEMMA LogType ==
  ASSUME TypeInv
  PROVE  /\ Len(log) \in Nat
         /\ log # <<>> => Len(log) >= 1 /\ Last(log) = log[Len(log)] /\ Last(log) \in Texts
         /\ log = <<>> => Len(log) = 0
         /\ \A i \in 1..Len(log) : log[i] \in Texts
<1>1. log \in Seq(Texts)
  BY DEF TypeInv
<1>2. \A T : \A s \in Seq(T) : Len(s) \in Nat /\ (s # <<>> => Len(s) >= 1)
                               /\ \A i \in 1..Len(s) : s[i] \in T
  OBVIOUS
<1>3. Len(log) \in Nat /\ (log # <<>> => Len(log) >= 1) /\ \A i \in 1..Len(log) : log[i] \in Texts
  BY <1>1, <1>2, Zenon
<1>4. log # <<>> => Len(log) \in 1..Len(log)
  BY <1>3
<1>. QED
  BY <1>3, <1>4 DEF Last

\* While the file is whole its text is the last one of the log.
LEMMA CurrentIs ==
  ASSUME TypeInv, WholeInv, ~spoiled
  PROVE  /\ Reading => CurrentText = IF log = <<>> THEN NoText ELSE Last(log)
         /\ log # <<>> => header >= 2
         /\ log # <<>> /\ (Reading \/ job.step = "diff") =>
              PrevAt(header) = header - 1 /\ ~HeaderMissing
<1>1. header \in Cells /\ header \in Nat
  BY Numbers DEF TypeInv
<1>2. log # <<>> => Len(log) \in Nat /\ Len(log) >= 1 /\ Len(log) < header
  BY LogType DEF WholeInv, Tells
<1>3. ASSUME log # <<>>, Reading \/ job.step = "diff"
      PROVE  /\ cells[header].kind = "text" /\ cells[header].text = Last(log)
             /\ cells[header].prev = header - 1 /\ ~HeaderMissing
  <2>1. cells[header] = TextCell(Last(log), header - 1)
    BY <1>3 DEF WholeInv
  <2>. QED
    BY <1>1, <1>2, <1>3, <2>1 DEF TextCell, HeaderMissing
<1>4. log = <<>> /\ Reading => HeaderMissing
  BY DEF WholeInv
<1>5. Reading => CurrentText = IF log = <<>> THEN NoText ELSE Last(log)
  <2>1. ASSUME log # <<>>, Reading
        PROVE  CurrentText = Last(log)
    <3>1. header # 0 /\ ~Hole(header)
      BY <1>1, <1>2, <1>3, <2>1 DEF Hole, NoCell
    <3>2. TextAt(header) = Last(log)
      BY <1>3, <2>1, <3>1 DEF TextAt
    <3>. QED
      BY <1>3, <2>1, <3>2 DEF CurrentText
  <2>2. log = <<>> /\ Reading => CurrentText = NoText
    BY <1>4 DEF CurrentText
  <2>. QED
    BY <2>1, <2>2
<1>6. log # <<>> /\ (Reading \/ job.step = "diff") => PrevAt(header) = header - 1 /\ ~HeaderMissing
  BY <1>3 DEF PrevAt
<1>. QED
  BY <1>1, <1>2, <1>5, <1>6

\* What a whole write leaves behind does not depend on what the file was like.
LEMMA SoundStep == TypeInv /\ PlaceInv /\ SoundInv /\ [TextNext]_textVars => SoundInv'
<1>. SUFFICES ASSUME TypeInv, PlaceInv, SoundInv, [TextNext]_textVars PROVE SoundInv'
  OBVIOUS
<1>0. job \in JobType /\ header \in Nat /\ DOMAIN cells = Cells
  BY Numbers DEF TypeInv
<1>1. CASE Write
  <2>1. PICK o \in {"new", "edit", "rerender", "delete"}, from, to \in Texts : Start(o, from, to)
    BY <1>1, WriteBegins DEF Begun
  <2>2. job'.step = "header"
    BY <2>1 DEF Start, NoJob
  <2>. QED
    BY <2>2 DEF SoundInv, Writing
<1>2. CASE ReadMissing \/ CloseText \/ Crash
  <2>1. job'.step \in {"dead", "idle"}
    BY <1>2 DEF ReadMissing, CloseText, Crash, NoJob
  <2>. QED
    BY <2>1 DEF SoundInv, Writing
<1>3. CASE AddDiffHeader
  <2>. DEFINE at == IF HeaderMissing THEN First ELSE header
  <2>1. /\ header' = at /\ at \in Nat
        /\ job' = [job EXCEPT !.step = "diff", !.at = at, !.prev = PrevAt(at),
                              !.sound = @ /\ at # 0]
    BY <1>0, <1>3, Numbers DEF AddDiffHeader
  <2>2. job'.step = "diff" /\ job'.at = header' /\ (job'.sound => header' # 0)
    <3>. HIDE DEF at
    <3>. QED
      BY <1>0, <2>1 DEF JobType
  <2>3. header' \in Nat
    BY <2>1
  <2>. QED
    BY <2>2, <2>3 DEF SoundInv, Writing
<1>4. CASE AddDiffDiff
  <2>1. /\ job.step = "diff" /\ header' = header
        /\ cells' = [cells EXCEPT ![job.at] = DiffCell(job.from, job.to, job.prev)]
        /\ job' = [job EXCEPT !.step = "text"]
    BY <1>4 DEF AddDiffDiff
  <2>2. job'.step = "text" /\ job'.at = job.at /\ job'.from = job.from /\ job'.to = job.to
        /\ job'.prev = job.prev /\ job'.sound = job.sound /\ job.at \in Cells
    BY <1>0, <2>1 DEF JobType
  <2>3. cells'[job.at] = DiffCell(job.from, job.to, job.prev)
    BY <1>0, <2>1, <2>2
  <2>. QED
    BY <2>1, <2>2, <2>3 DEF SoundInv, Writing, DiffCell
<1>5. CASE AddDiffText
  <2>1. /\ job.step = "text" /\ header' = header
        /\ cells' = [cells EXCEPT ![job.at + 1] = TextCell(job.to, job.at)]
        /\ job' = [job EXCEPT !.step = "close"]
    BY <1>5 DEF AddDiffText
  <2>2. job'.step = "close" /\ job'.at = job.at /\ job'.from = job.from /\ job'.to = job.to
        /\ job'.prev = job.prev /\ job'.sound = job.sound
    BY <1>0, <2>1 DEF JobType
  <2>3. job.at \in Cells /\ job.at <= writes /\ writes \in 0..MaxWrites
    BY <1>0, <2>1 DEF JobType, PlaceInv, TypeInv
  <2>4. job.at + 1 \in Cells /\ job.at + 1 # job.at
    BY <2>3, Numbers
  <2>5. cells'[job.at + 1] = TextCell(job.to, job.at) /\ cells'[job.at] = cells[job.at]
    BY <1>0, <2>1, <2>3, <2>4
  <2>. QED
    BY <2>1, <2>2, <2>5 DEF SoundInv, Writing, DiffCell, TextCell
<1>6. CASE DiffCreate
  <2>2. job'.step = job.step /\ (job'.sound => job.step = "idle")
    BY <1>6, Emptied
  <2>. QED
    BY <2>2 DEF SoundInv, Writing
<1>7. CASE ConsoleReads \/ WriteBack \/ UNCHANGED textVars
  <2>1. UNCHANGED <<header, cells, job>>
    BY <1>7 DEF ConsoleReads, DiffOpen, DiffHeader, DiffText, DiffRest, DiffLost, DiffDiff,
                DiffShow, WriteBack,
                fileVars, textVars
  <2>. QED
    BY <2>1 DEF SoundInv, Writing, DiffCell, TextCell
<1>. QED
  BY <1>1, <1>2, <1>3, <1>4, <1>5, <1>6, <1>7 DEF TextNext, AddDiff, DiffCommand, ConsoleReads

\* A step that leaves the cells of the log alone leaves it told.
LEMMA TellsKept ==
  ASSUME NEW h, Tells(h), log' = log, \A i \in 1..Len(log) : cells'[h - i] = cells[h - i]
  PROVE  Tells(h)'
  BY DEF Tells, Told
-----------------------------------------------------------------------------
\* A file that is whole stays whole until it is spoiled, and a whole write repairs it.
LEMMA WholeStep ==
  TypeInv /\ PlaceInv /\ SoundInv /\ WholeInv /\ [TextNext]_textVars => WholeInv'
<1>. SUFFICES ASSUME TypeInv, PlaceInv, SoundInv, WholeInv, [TextNext]_textVars, ~spoiled'
              PROVE  WholeInv'
  BY DEF WholeInv
<1>0. job \in JobType /\ header \in Cells /\ header \in Nat /\ DOMAIN cells = Cells /\ Len(log) \in Nat
  BY Numbers, LogType DEF TypeInv
<1>00. PICK h : h = header
  OBVIOUS
\* Where the log and what it tells of do not change, the text and the handler are left to see.
<1>a. ASSUME ~spoiled, log' = log, header' = header,
             \A i \in 1..Len(log) : cells'[header - i] = cells[header - i]
      PROVE  log' # <<>> => Tells(header)'
  <2>1. log # <<>> => Tells(h)
    BY <1>a, <1>00 DEF WholeInv
  <2>2. log # <<>> => Tells(h)'
    BY <1>a, <1>00, <2>1, TellsKept
  <2>. QED
    BY <1>a, <1>00, <2>2 DEF Tells, Told
<1>1. CASE Write
  <2>1. PICK o \in {"new", "edit", "rerender", "delete"}, from, to \in Texts :
          Idle /\ GoesOn(from, CurrentText) /\ Start(o, from, to)
    BY <1>1, WriteBegins DEF Begun
  <2>2. /\ job' = [NoJob EXCEPT !.op = o, !.step = "header", !.from = from, !.to = to]
        /\ UNCHANGED <<header, cells, log, spoiled>>
    BY <2>1 DEF Start, historyVars
  <2>3. job'.step = "header" /\ job'.sound /\ GoesOn(job'.from, CurrentText)
    BY <2>1, <2>2 DEF NoJob
  <2>4. Reading
    BY <2>1 DEF Idle, Reading
  <2>5. GoesOn(job'.from, IF log' = <<>> THEN NoText ELSE Last(log'))
    BY <2>2, <2>3, <2>4, CurrentIs
  <2>. QED
    BY <1>a, <2>2, <2>3, <2>4, <2>5
       DEF WholeInv, Reading, Writing, HeaderMissing, Written, TextCell, GoesOn
<1>2. CASE ReadMissing
  <2>1. /\ job'.step = "dead" /\ job'.sound /\ Reading
        /\ UNCHANGED <<header, cells, log, spoiled>>
    BY <1>2 DEF ReadMissing, NoJob, historyVars, Idle, Reading
  <2>2. ~spoiled => log = <<>>
    BY <1>2, <2>1, CurrentIs DEF ReadMissing
  <2>. QED
    BY <1>a, <2>1, <2>2 DEF WholeInv, Reading, Writing, HeaderMissing, Written, TextCell
<1>3. CASE AddDiffHeader
  <2>. DEFINE at == IF HeaderMissing THEN First ELSE header
  <2>1. /\ job.step = "header" /\ header' = at
        /\ job' = [job EXCEPT !.step = "diff", !.at = at, !.prev = PrevAt(at),
                              !.sound = @ /\ at # 0]
        /\ UNCHANGED <<cells, log, spoiled>>
    BY <1>3 DEF AddDiffHeader, historyVars
  <2>2. /\ job'.step = "diff" /\ job'.prev = PrevAt(at) /\ job'.from = job.from
        /\ job'.sound <=> job.sound /\ at # 0
    <3>. HIDE DEF at
    <3>. QED
      BY <1>0, <2>1 DEF JobType
  <2>3. ~spoiled /\ job.sound /\ Reading
    BY <2>1 DEF WholeInv, Reading
  <2>4. CASE log = <<>>
    <3>1. HeaderMissing
      BY <2>3, <2>4 DEF WholeInv
    <3>2. Written' = {} /\ job'.sound /\ log' = <<>>
      BY <2>1, <2>2, <2>3, <2>4, <3>1, Numbers DEF HeaderMissing, Written
    <3>3. GoesOn(job'.from, NoText)
      BY <2>1, <2>2, <2>3, <2>4 DEF WholeInv
    <3>. QED
      BY <2>2, <3>2, <3>3 DEF WholeInv, Reading, Writing, GoesOn
  <2>5. CASE log # <<>>
    <3>1. header >= 2 /\ PrevAt(header) = header - 1
      BY <2>3, <2>5, CurrentIs
    <3>2. at = header
      BY <3>1 DEF HeaderMissing
    <3>3. header' = header /\ job'.sound /\ job'.prev = header - 1
      BY <2>1, <2>2, <2>3, <3>1, <3>2
    <3>4. cells[header] = TextCell(Last(log), header - 1) /\ GoesOn(job.from, Last(log))
      BY <2>1, <2>3, <2>5 DEF WholeInv
    <3>. HIDE DEF at
    <3>. QED
      BY <1>a, <2>1, <2>2, <2>3, <2>5, <3>3, <3>4 DEF WholeInv, Reading, Writing, TextCell, GoesOn
  <2>. QED
    BY <2>4, <2>5
<1>4. CASE AddDiffDiff
  <2>1. /\ job.step = "diff"
        /\ cells' = [cells EXCEPT ![job.at] = DiffCell(job.from, job.to, job.prev)]
        /\ job' = [job EXCEPT !.step = "text"]
        /\ UNCHANGED <<header, log, spoiled>>
    BY <1>4 DEF AddDiffDiff, historyVars
  <2>2. job'.step = "text" /\ job'.prev = job.prev /\ job'.from = job.from /\ job'.sound = job.sound
    BY <1>0, <2>1 DEF JobType
  <2>3. ~spoiled /\ job.sound /\ job.at = header
    BY <2>1 DEF WholeInv, SoundInv, Writing
  <2>4. \A i \in 1..Len(log) : cells'[header - i] = cells[header - i]
    <3>1. \A i \in 1..Len(log) : header - i # job.at
      BY <1>0, <2>3
    <3>. QED
      BY <2>1, <3>1
  <2>. QED
    BY <1>a, <2>1, <2>2, <2>3, <2>4 DEF WholeInv, Reading, Writing, GoesOn
<1>5. CASE AddDiffText
  <2>1. /\ job.step = "text"
        /\ cells' = [cells EXCEPT ![job.at + 1] = TextCell(job.to, job.at)]
        /\ job' = [job EXCEPT !.step = "close"]
        /\ UNCHANGED <<header, log, spoiled>>
    BY <1>5 DEF AddDiffText, historyVars
  <2>2. job'.step = "close" /\ job'.prev = job.prev /\ job'.from = job.from /\ job'.sound = job.sound
    BY <1>0, <2>1 DEF JobType
  <2>3. ~spoiled /\ job.sound /\ job.at = header
    BY <2>1 DEF WholeInv, SoundInv, Writing
  <2>4. \A i \in 1..Len(log) : cells'[header - i] = cells[header - i]
    <3>1. \A i \in 1..Len(log) : header - i # job.at + 1
      BY <1>0, <2>3
    <3>. QED
      BY <2>1, <3>1
  <2>. QED
    BY <1>a, <2>1, <2>2, <2>3, <2>4 DEF WholeInv, Reading, Writing, GoesOn
<1>6. CASE CloseText
  <2>1. /\ job.step = "close" /\ header' = job.at + 1 /\ job' = NoJob /\ spoiled' = ~job.sound
        /\ log' = IF spoiled THEN (IF job.sound THEN <<job.to>> ELSE <<>>) ELSE Append(log, job.to)
        /\ cells' = cells
    BY <1>6 DEF CloseText
  <2>2. /\ job.sound /\ job.at = header /\ header >= 1
        /\ cells[header] = DiffCell(job.from, job.to, job.prev)
        /\ cells[header + 1] = TextCell(job.to, header)
    BY <2>1 DEF SoundInv, Writing
  <2>3. job.from \in Texts /\ job.to \in Texts /\ job.prev \in Cells /\ log \in Seq(Texts)
    BY <1>0 DEF JobType, TypeInv
  <2>4. DiffCell(job.from, job.to, job.prev) \in DiffRec
    BY <2>3 DEF DiffCell, DiffRec
  <2>5. /\ cells[header] \in DiffRec /\ cells[header].to = job.to /\ cells[header].from = job.from
        /\ cells[header].prev = job.prev
    BY <2>2, <2>4 DEF DiffCell
  <2>6. job'.step = "idle" /\ job'.sound
    BY <2>1 DEF NoJob
  <2>7. log' # <<>> /\ Last(log') = job.to /\ Tells(header)'
    <3>1. CASE spoiled
      <4>1. log' = <<job.to>>
        BY <2>1, <2>2, <3>1
      <4>2. Len(log') = 1 /\ log'[1] = job.to /\ header' = header + 1
        BY <2>1, <2>2, <4>1
      <4>3. ASSUME NEW i \in 1..Len(log') PROVE Told(header, i)'
        <5>1. i = 1 /\ header' - i = header
          BY <1>0, <4>2, <4>3
        <5>. QED
          BY <2>1, <2>5, <4>2, <5>1 DEF Told
      <4>4. log' # <<>> /\ Last(log') = job.to
        BY <4>1, <4>2 DEF Last
      <4>5. Len(log') < header'
        BY <1>0, <2>2, <4>2
      <4>. QED
        BY <4>3, <4>4, <4>5 DEF Tells
    <3>2. CASE ~spoiled
      <4>. DEFINE n == Len(log)
      <4>1. log' = Append(log, job.to)
        BY <2>1, <3>2
      <4>2. /\ Len(log') = n + 1 /\ log'[n + 1] = job.to /\ header' = header + 1
            /\ \A i \in 1..n : log'[i] = log[i]
        BY <2>1, <2>2, <2>3, <4>1
      <4>3. n > 0 => /\ Tells(header) /\ log # <<>>
                     /\ job.prev = header - 1 /\ GoesOn(job.from, log[n])
        BY <2>1, <3>2, LogType DEF WholeInv, Writing
      <4>4. n < header
        BY <1>0, <2>2, <4>3 DEF Tells
      <4>5. ASSUME NEW i \in 1..Len(log') PROVE Told(header, i)'
        <5>1. CASE i = 1
          <6>1. header' - i = header /\ Len(log') - i + 1 = n + 1 /\ Len(log') - i = n
            BY <1>0, <4>2, <5>1
          <6>2. i < Len(log') => n > 0 /\ log'[n] = log[n]
            BY <1>0, <4>2, <5>1
          <6>3. cells'[header' - i] = cells[header]
            BY <2>1, <6>1
          <6>4. header' - i - 1 = header - 1
            BY <1>0, <4>2, <5>1
          <6>. QED
            BY <2>5, <4>2, <4>3, <6>1, <6>2, <6>3, <6>4 DEF Told, GoesOn
        <5>2. CASE i > 1
          <6>. DEFINE j == i - 1
          <6>1. /\ j \in 1..n /\ header' - i = header - j /\ Len(log') - i + 1 = n - j + 1
                /\ Len(log') - i = n - j /\ header' - i - 1 = header - j - 1
                /\ i < Len(log') => j < n
            BY <1>0, <4>2, <4>5, <5>2
          <6>2. Told(header, j)
            BY <4>3, <6>1 DEF Tells
          <6>3. log'[n - j + 1] = log[n - j + 1] /\ (j < n => log'[n - j] = log[n - j])
            BY <1>0, <4>2, <6>1
          <6>4. /\ cells[header - j] \in DiffRec /\ cells[header - j].to = log[n - j + 1]
                /\ j < n => /\ cells[header - j].prev = header - j - 1
                            /\ GoesOn(cells[header - j].from, log[n - j])
            BY <6>2 DEF Told
          <6>5. cells'[header' - i] = cells[header - j]
            BY <2>1, <6>1
          <6>. HIDE DEF j
          <6>6. /\ cells'[header' - i] \in DiffRec
                /\ cells'[header' - i].to = log'[Len(log') - i + 1]
            BY <6>1, <6>3, <6>4, <6>5
          <6>7. i < Len(log') => /\ cells'[header' - i].prev = header' - i - 1
                                 /\ GoesOn(cells'[header' - i].from, log'[Len(log') - i])
            BY <6>1, <6>3, <6>4, <6>5
          <6>. QED
            BY <6>6, <6>7 DEF Told, GoesOn
        <5>. QED
          BY <5>1, <5>2
      <4>6. Len(log') < header'
        BY <1>0, <4>2, <4>4
      <4>7. log' # <<>> /\ Last(log') = job.to
        BY <2>3, <4>1, <4>2 DEF Last
      <4>. QED
        BY <4>5, <4>6, <4>7 DEF Tells
    <3>. QED
      BY <3>1, <3>2
  <2>8. cells'[header'] = TextCell(Last(log'), header' - 1)
    BY <1>0, <2>1, <2>2, <2>7
  <2>. QED
    BY <2>6, <2>7, <2>8 DEF WholeInv, Reading, Writing, TextCell
<1>7. CASE DiffCreate
  <2>1. /\ ~spoiled /\ log = <<>> /\ Idle /\ header' = 0 /\ log' = log
        /\ cells' = [c \in Cells |-> NoCell]
    BY <1>7 DEF DiffCreate
  <2>2. job'.step = "idle" /\ job'.sound
    BY <1>7, <2>1, Emptied DEF Idle
  <2>3. Written' = {}
    BY <2>1 DEF Written
  <2>. QED
    BY <2>1, <2>2, <2>3 DEF WholeInv, Reading, Writing, HeaderMissing
<1>8. CASE ConsoleReads \/ WriteBack \/ UNCHANGED textVars
  <2>1. UNCHANGED <<header, cells, job, log, spoiled>>
    <3>. USE DEF fileVars, historyVars, textVars
    <3>1. CASE ConsoleReads
      BY <3>1 DEF ConsoleReads, DiffOpen, DiffHeader, DiffText, DiffRest, DiffLost, DiffDiff, DiffShow
    <3>2. CASE WriteBack \/ UNCHANGED textVars
      BY <3>2 DEF WriteBack
    <3>. QED
      BY <1>8, <3>1, <3>2
  <2>. QED
    BY <1>a, <2>1 DEF WholeInv, Reading, Writing, HeaderMissing, Written, TextCell
<1>9. CASE Crash
  <2>1. /\ job' = NoJob /\ UNCHANGED <<header, cells, log>> /\ ~spoiled
        /\ job.step \notin {"text", "close"}
        /\ job.step = "diff" => cells[job.at] # NoCell
    BY <1>9 DEF Crash, fileVars
  <2>2. job'.step = "idle" /\ job'.sound
    BY <2>1 DEF NoJob
  <2>3. Reading \/ (job.step = "diff" /\ log # <<>>)
    <3>1. job.step = "diff" => Written # {}
      <4>1. job.at \in Cells
        BY <1>0 DEF JobType
      <4>. QED
        BY <2>1, <4>1 DEF Written
    <3>. QED
      BY <1>0, <2>1, <3>1 DEF WholeInv, JobType, Reading
  <2>. QED
    BY <1>a, <2>1, <2>2, <2>3 DEF WholeInv, Reading, Writing, HeaderMissing, Written, TextCell
<1>. QED
  BY <1>1, <1>2, <1>3, <1>4, <1>5, <1>6, <1>7, <1>8, <1>9
     DEF TextNext, AddDiff, DiffCommand, ConsoleReads
-----------------------------------------------------------------------------
(* What the console reads.                                                   *)

\* Below the header every diff is preceded by the one its link names, also while a write
\* goes on, after a stop and in an emptied file.
LEMMA ChainStep ==
  TypeInv /\ PlaceInv /\ ChainInv /\ [TextNext]_textVars => ChainInv'
<1>. SUFFICES ASSUME TypeInv, PlaceInv, ChainInv, [TextNext]_textVars PROVE ChainInv'
  OBVIOUS
<1>0. /\ job \in JobType /\ DOMAIN cells = Cells /\ header \in Cells /\ header \in Nat
      /\ 0 \in Cells /\ MaxWrites \in Nat
  BY Numbers DEF TypeInv
<1>a. \A c \in Cells : c \in Nat
  BY Numbers
<1>b. ASSUME NEW c \in Cells, IsDiff(c) \/ cells[c].kind = "text"
      PROVE  /\ cells[c].prev \in Cells /\ cells[c].prev \in Nat /\ c \in Nat
             /\ cells[c].prev < c \/ cells[c].prev = 0
  BY <1>a, <1>b, CellKinds DEF IsDiff, TextRec, DiffRec
<1>1. CASE Write
  <2>1. PICK o \in {"new", "edit", "rerender", "delete"}, from, to \in Texts :
          GoesOn(from, CurrentText) /\ Start(o, from, to)
    BY <1>1, WriteBegins DEF Begun
  <2>2. job'.step = "header" /\ GoesOn(job'.from, CurrentText) /\ UNCHANGED <<header, cells>>
    BY <2>1 DEF Start, NoJob
  <2>3. cells[header].kind = "text" => CurrentText = cells[header].text
    <3>. SUFFICES ASSUME cells[header].kind = "text" PROVE CurrentText = cells[header].text
      OBVIOUS
    <3>1. header # 0 /\ cells[header] # NoCell
      BY DEF ChainInv, NoCell
    <3>2. ~HeaderMissing /\ ~Hole(header)
      BY <3>1 DEF HeaderMissing, Hole
    <3>. QED
      BY <3>1, <3>2 DEF CurrentText, TextAt
  <2>. QED
    BY <2>2, <2>3 DEF ChainInv, Writing, ComesTo, LeadsTo, GoesOn, IsDiff
<1>2. CASE ReadMissing \/ Crash
  <2>1. job'.step \in {"dead", "idle"} /\ UNCHANGED <<header, cells>>
    BY <1>2 DEF ReadMissing, Crash, NoJob, fileVars
  <2>. QED
    BY <2>1 DEF ChainInv, Writing, ComesTo, LeadsTo, GoesOn, IsDiff
<1>3. CASE AddDiffHeader
  <2>. DEFINE at == IF HeaderMissing THEN First ELSE header
  <2>1. /\ job.step = "header" /\ header' = at /\ cells' = cells
        /\ job' = [job EXCEPT !.step = "diff", !.at = at, !.prev = PrevAt(at),
                              !.sound = @ /\ at # 0]
    BY <1>3 DEF AddDiffHeader
  <2>2. /\ job'.step = "diff" /\ job'.at = at /\ job'.prev = PrevAt(at) /\ job'.from = job.from
    <3>. HIDE DEF at
    <3>. QED
      BY <1>0, <2>1 DEF JobType
  <2>3. CASE HeaderMissing
    <3>1. \A c \in Cells : cells'[c].kind \notin {"text", "diff"}
      BY <2>1, <2>3 DEF HeaderMissing, Written, NoCell
    <3>2. header' = 1 /\ job'.at = 1 /\ 1 \in Cells
      BY <2>1, <2>2, <2>3, Numbers
    <3>3. job'.prev = 0
      BY <2>1, <2>2, <2>3, <3>1, Numbers DEF PrevAt
    <3>4. \A c \in Cells : ~(1 <= c /\ c < 1)
      BY <1>0
    <3>. QED
      BY <1>0, <2>2, <3>1, <3>2, <3>3, <3>4 DEF ChainInv, Writing, ComesTo, LeadsTo, GoesOn, IsDiff
  <2>4. CASE ~HeaderMissing
    <3>1. header' = header /\ job'.at = header
      BY <2>1, <2>2, <2>4
    <3>2. LeadsTo(job'.prev, job.from)
      BY <2>1, <2>2, <2>4 DEF PrevAt, ChainInv, ComesTo, LeadsTo, GoesOn
    <3>3. \A c \in Cells : ~(header <= c /\ c < header)
      BY <1>0
    <3>. HIDE DEF at
    <3>. QED
      BY <1>0, <2>1, <2>2, <3>1, <3>2, <3>3 DEF ChainInv, Writing, ComesTo, LeadsTo, GoesOn, IsDiff
  <2>. QED
    BY <2>3, <2>4
<1>4. CASE AddDiffDiff
  <2>. DEFINE d == DiffCell(job.from, job.to, job.prev)
  <2>1. /\ job.step = "diff" /\ header' = header /\ cells' = [cells EXCEPT ![job.at] = d]
        /\ job' = [job EXCEPT !.step = "text"]
    BY <1>4 DEF AddDiffDiff
  <2>2. /\ job'.step = "text" /\ job'.at = job.at /\ job'.prev = job.prev
        /\ job'.from = job.from /\ job'.to = job.to
    BY <1>0, <2>1 DEF JobType
  <2>3. /\ job.at \in Cells /\ job.at >= header /\ job.prev \in Cells
        /\ job.prev < job.at \/ job.prev = 0
    BY <1>0, <2>1 DEF JobType, PlaceInv, ChainInv, Writing
  <2>4. cells'[job.at] = d /\ d.kind = "diff"
    BY <1>0, <2>1, <2>3 DEF DiffCell
  <2>. HIDE DEF d
  <2>5. \A c \in Cells : c # job.at => cells'[c] = cells[c]
    BY <1>0, <2>1
  <2>6. \A c \in Cells : c < job.at => cells'[c] = cells[c]
    BY <1>0, <2>3, <2>5
  <2>7. ASSUME NEW p \in Cells, NEW t, p < job.at \/ p = 0, LeadsTo(p, t)
        PROVE  LeadsTo(p, t)'
    <3>1. CASE p < job.at
      <4>1. cells'[p] = cells[p]
        BY <2>6, <3>1
      <4>. QED
        BY <2>7, <4>1 DEF LeadsTo, IsDiff
    <3>2. CASE p = 0
      <4>1. ~(p > 0)
        BY <3>2
      <4>. QED
        BY <4>1 DEF LeadsTo
    <3>. QED
      BY <2>7, <3>1, <3>2
  <2>8. ASSUME NEW c \in Cells, c < header'
        PROVE  /\ cells'[c].kind # "text"
               /\ IsDiff(c)' => LeadsTo(cells[c].prev, cells[c].from)'
    <3>1. c < header /\ c < job.at /\ cells'[c] = cells[c]
      BY <1>0, <1>a, <2>1, <2>3, <2>6, <2>8
    <3>2. cells[c].kind # "text" /\ (IsDiff(c) => LeadsTo(cells[c].prev, cells[c].from))
      BY <3>1 DEF ChainInv
    <3>3. IsDiff(c) => cells[c].prev \in Cells /\ (cells[c].prev < job.at \/ cells[c].prev = 0)
      <4>1. job.at \in Nat
        BY <1>a, <2>3
      <4>. QED
        BY <1>b, <3>1, <4>1
    <3>4. IsDiff(c) => LeadsTo(cells[c].prev, cells[c].from)'
      <4>1. ASSUME IsDiff(c), NEW p, NEW t, p = cells[c].prev, t = cells[c].from
            PROVE  LeadsTo(p, t)'
        BY <2>7, <3>2, <3>3, <4>1
      <4>2. ASSUME IsDiff(c) PROVE LeadsTo(cells[c].prev, cells[c].from)'
        BY <3>1, <4>1, <4>2 DEF LeadsTo
      <4>. QED
        BY <4>2
    <3>. QED
      BY <3>1, <3>2, <3>4 DEF IsDiff
  <2>9. (cells[header].kind = "text" => ComesTo(cells[header].prev, cells[header].text))'
    <3>. SUFFICES ASSUME cells'[header'].kind = "text"
                  PROVE  ComesTo(cells[header].prev, cells[header].text)'
      OBVIOUS
    <3>1. header # job.at /\ header < job.at
      BY <1>0, <1>a, <2>1, <2>3, <2>4
    <3>2. cells'[header'] = cells[header]
      BY <1>0, <2>1, <2>6, <3>1
    <3>3. ComesTo(cells[header].prev, cells[header].text)
      BY <3>2 DEF ChainInv
    <3>4. cells[header].prev \in Cells /\ (cells[header].prev < job.at \/ cells[header].prev = 0)
      <4>1. job.at \in Nat
        BY <1>a, <2>3
      <4>. QED
        BY <1>0, <1>b, <3>1, <3>2, <4>1
    <3>5. header' = header
      BY <2>1
    <3>6. cells[header].prev > 0 => cells'[cells[header].prev] = cells[cells[header].prev]
      BY <1>a, <2>6, <3>4
    <3>. QED
      BY <3>2, <3>3, <3>5, <3>6 DEF ComesTo, IsDiff
  <2>10. LeadsTo(job.prev, job.from)'
    <3>1. LeadsTo(job.prev, job.from)
      BY <2>1 DEF ChainInv, Writing
    <3>2. job.prev > 0 => cells'[job.prev] = cells[job.prev]
      BY <1>a, <2>3, <2>6
    <3>. QED
      BY <2>2, <3>1, <3>2 DEF LeadsTo, IsDiff
  <2>11. \A c \in Cells : header' <= c /\ c < job'.at => cells'[c] = NoCell
    BY <2>1, <2>2, <2>6 DEF ChainInv, Writing
  <2>12. cells'[job'.at] = DiffCell(job'.from, job'.to, job'.prev)
    BY <2>2, <2>4 DEF d
  <2>13. job'.at >= header' /\ cells'[0].kind # "text"
    BY <1>0, <2>1, <2>2, <2>3, <2>4, <2>5 DEF ChainInv
  <2>. QED
    BY <2>2, <2>8, <2>9, <2>10, <2>11, <2>12, <2>13 DEF ChainInv
<1>5. CASE AddDiffText
  <2>. DEFINE x == job.at + 1
              u == TextCell(job.to, job.at)
  <2>1. /\ job.step = "text" /\ header' = header /\ cells' = [cells EXCEPT ![x] = u]
        /\ job' = [job EXCEPT !.step = "close"]
    BY <1>5 DEF AddDiffText
  <2>2. /\ job'.step = "close" /\ job'.at = job.at /\ job'.prev = job.prev
        /\ job'.from = job.from /\ job'.to = job.to
    BY <1>0, <2>1 DEF JobType
  <2>3. /\ job.at \in Cells /\ job.at >= header /\ job.prev \in Cells /\ x \in Cells
        /\ job.prev < job.at \/ job.prev = 0
    <3>1. writes \in 0..MaxWrites /\ job.at <= writes /\ job.at \in Cells
      BY <1>0, <2>1 DEF TypeInv, PlaceInv, JobType
    <3>2. x \in Cells
      BY <1>0, <3>1, Numbers
    <3>. QED
      BY <1>0, <2>1, <3>2 DEF JobType, PlaceInv, ChainInv, Writing
  <2>4. cells'[x] = u
    BY <1>0, <2>1, <2>3
  <2>5. \A c \in Cells : c <= job.at => cells'[c] = cells[c]
    <3>1. \A c \in Cells : c <= job.at => c # x
      BY <1>a, <2>3
    <3>. HIDE DEF x, u
    <3>. QED
      BY <1>0, <2>1, <3>1
  <2>. HIDE DEF u
  <2>6. ASSUME NEW c \in Cells, c <= header'
        PROVE  cells'[c] = cells[c] /\ (IsDiff(c) \/ cells[c].kind = "text" =>
                 cells'[cells[c].prev] = cells[cells[c].prev])
    <3>1. c <= job.at
      BY <1>0, <1>a, <2>1, <2>3, <2>6
    <3>2. IsDiff(c) \/ cells[c].kind = "text" => cells[c].prev \in Cells /\ cells[c].prev <= job.at
      <4>1. job.at \in Nat
        BY <1>a, <2>3
      <4>. QED
        BY <1>b, <3>1, <4>1
    <3>. QED
      BY <2>5, <3>1, <3>2
  <2>7. ASSUME NEW c \in Cells, c < header'
        PROVE  /\ cells'[c].kind # "text"
               /\ IsDiff(c)' => LeadsTo(cells[c].prev, cells[c].from)'
    <3>1. c <= header'
      BY <1>0, <1>a, <2>1, <2>7
    <3>. QED
      BY <2>1, <2>6, <2>7, <3>1 DEF ChainInv, LeadsTo, IsDiff
  <2>8. (cells[header].kind = "text" => ComesTo(cells[header].prev, cells[header].text))'
    <3>1. header' \in Cells /\ header' <= header'
      BY <1>0, <2>1
    <3>. QED
      BY <2>1, <2>6, <3>1 DEF ChainInv, ComesTo, IsDiff
  <2>9. LeadsTo(job.prev, job.from)'
    <3>1. LeadsTo(job.prev, job.from) /\ job.prev <= job.at
      BY <1>0, <1>a, <2>1, <2>3 DEF ChainInv, Writing
    <3>. QED
      BY <2>2, <2>3, <2>5, <3>1 DEF LeadsTo, IsDiff
  <2>10. \A c \in Cells : header' <= c /\ c < job'.at => cells'[c] = NoCell
    <3>1. \A c \in Cells : c < job.at => c <= job.at
      BY <1>a, <2>3
    <3>. QED
      BY <2>1, <2>2, <2>5, <3>1 DEF ChainInv, Writing
  <2>11. cells'[job'.at] \in {NoCell, DiffCell(job'.from, job'.to, job'.prev)}
    <3>1. job.at <= job.at
      BY <1>a, <2>3
    <3>. QED
      BY <2>1, <2>2, <2>3, <2>5, <3>1 DEF ChainInv
  <2>12. cells'[job'.at + 1] = TextCell(job'.to, job'.at)
    BY <2>2, <2>4 DEF u
  <2>13. job'.at >= header' /\ cells'[0].kind # "text"
    <3>1. 0 <= job.at
      BY <1>a, <2>3
    <3>. QED
      BY <1>0, <2>1, <2>2, <2>3, <2>5, <3>1 DEF ChainInv
  <2>. QED
    BY <2>2, <2>7, <2>8, <2>9, <2>10, <2>11, <2>12, <2>13 DEF ChainInv
<1>6. CASE CloseText
  <2>. DEFINE a == job.at
  <2>1. job.step = "close" /\ header' = a + 1 /\ job' = NoJob /\ cells' = cells
    BY <1>6 DEF CloseText
  <2>2. /\ a \in Cells /\ a \in Nat /\ header <= a
        /\ cells[a] \in {NoCell, DiffCell(job.from, job.to, job.prev)}
        /\ cells[a + 1] \in {NoCell, TextCell(job.to, a)}
        /\ LeadsTo(job.prev, job.from)
        /\ \A c \in Cells : header <= c /\ c < a => cells[c] = NoCell
    BY <1>0, <1>a, <2>1 DEF JobType, ChainInv, Writing
  <2>. HIDE DEF a
  <2>3. ASSUME NEW c \in Cells, c < header'
        PROVE  cells[c].kind # "text" /\ (IsDiff(c) => LeadsTo(cells[c].prev, cells[c].from))
    <3>1. CASE c < header
      BY <3>1 DEF ChainInv
    <3>2. CASE header <= c /\ c < a
      <4>1. cells[c] = NoCell
        BY <2>2, <3>2
      <4>2. NoCell.kind = "none"
        BY DEF NoCell
      <4>. QED
        BY <4>1, <4>2 DEF IsDiff
    <3>3. CASE c = a
      BY <2>2, <3>3 DEF IsDiff, NoCell, DiffCell
    <3>4. c \in Nat /\ c < a + 1
      BY <1>a, <2>1, <2>3
    <3>. QED
      BY <1>0, <2>2, <3>1, <3>2, <3>3, <3>4
  <2>4. cells[a + 1].kind = "text" => ComesTo(cells[a + 1].prev, cells[a + 1].text)
    <3>. SUFFICES ASSUME cells[a + 1].kind = "text"
                  PROVE  ComesTo(cells[a + 1].prev, cells[a + 1].text)
      OBVIOUS
    <3>1. cells[a + 1].prev = a /\ cells[a + 1].text = job.to
      BY <2>2 DEF NoCell, TextCell
    <3>2. IsDiff(a) => cells[a].to = job.to
      BY <2>2 DEF IsDiff, NoCell, DiffCell
    <3>. QED
      BY <3>1, <3>2 DEF ComesTo
  <2>5. job'.step = "idle"
    BY <2>1 DEF NoJob
  <2>. QED
    BY <2>1, <2>3, <2>4, <2>5 DEF ChainInv, Writing, ComesTo, LeadsTo, GoesOn, IsDiff
<1>7. CASE DiffCreate
  <2>1. /\ header' = 0 /\ cells' = [c \in Cells |-> NoCell]
    BY <1>7 DEF DiffCreate
  <2>2. job'.step = job.step /\ job'.at = job.at /\ job'.prev = job.prev
    BY <1>7, Emptied
  <2>3. \A c \in Cells : cells'[c] = NoCell /\ cells'[c].kind \notin {"text", "diff"}
    BY <2>1 DEF NoCell
  <2>4. job.at \in Cells /\ job.at >= 0 /\ job.prev \in Cells
    <3>1. job.at \in Cells /\ job.prev \in Cells
      BY <1>0 DEF JobType
    <3>. QED
      BY <1>a, <3>1
  <2>5. job'.step = "close" => job'.at + 1 \in Cells
    <3>1. job.step = "close" => job.at <= writes /\ writes \in 0..MaxWrites
      BY DEF TypeInv, PlaceInv
    <3>. QED
      BY <2>2, <2>4, <3>1, Numbers
  <2>. QED
    BY <1>0, <2>1, <2>2, <2>3, <2>4, <2>5 DEF ChainInv, LeadsTo, IsDiff
<1>8. CASE ConsoleReads \/ WriteBack \/ UNCHANGED textVars
  <2>1. UNCHANGED <<header, cells, job>>
    <3>. USE DEF fileVars, textVars
    <3>1. CASE ConsoleReads
      BY <3>1 DEF ConsoleReads, DiffOpen, DiffHeader, DiffText, DiffRest, DiffLost, DiffDiff, DiffShow
    <3>2. CASE WriteBack \/ UNCHANGED textVars
      BY <3>2 DEF WriteBack
    <3>. QED
      BY <1>8, <3>1, <3>2
  <2>. QED
    BY <2>1 DEF ChainInv, Writing, ComesTo, LeadsTo, GoesOn, IsDiff
<1>. QED
  BY <1>1, <1>2, <1>3, <1>4, <1>5, <1>6, <1>7, <1>8
     DEF TextNext, AddDiff, DiffCommand, ConsoleReads

\* The header does not go back while the console reads, and what it has passed stays.
LEMMA ShowStep ==
  TypeInv /\ PlaceInv /\ ChainInv /\ ShowInv /\ [TextNext]_textVars => ShowInv'
<1>. SUFFICES ASSUME TypeInv, PlaceInv, ChainInv, ShowInv, [TextNext]_textVars PROVE ShowInv'
  OBVIOUS
<1>0. /\ job \in JobType /\ con \in ConType /\ DOMAIN cells = Cells /\ header \in Cells
      /\ header \in Nat /\ con.at \in Cells /\ con.at \in Nat /\ con.diffs \in Seq(DiffRec)
      /\ con.link \in Cells /\ con.link \in Nat
  BY Numbers DEF TypeInv, ConType
<1>a. \A c \in Cells : c \in Nat
  BY Numbers
<1>1. ASSUME con' = con, header' \in Nat, header' >= header,
             \A c \in Cells : c < header => cells'[c] = cells[c]
      PROVE  ShowInv'
  <2>1. con.step \in {"text", "rest"} => con.at <= header'
    BY <1>0, <1>1 DEF ShowInv
  <2>2. con.step = "rest" => con.link = 0 \/ con.link < header'
    BY <1>0, <1>1 DEF ShowInv
  <2>3. con.step = "diffs" => con.at = 0 \/ (con.at < header' /\ cells'[con.at] = cells[con.at])
    BY <1>0, <1>1 DEF ShowInv
  <2>. QED
    BY <1>0, <1>1, <2>1, <2>2, <2>3 DEF ShowInv, ComesTo, LeadsTo, IsDiff
<1>2. CASE Write \/ ReadMissing \/ WriteBack \/ UNCHANGED textVars
  <2>1. UNCHANGED <<header, cells, con>>
    <3>. USE DEF fileVars, textVars
    <3>1. CASE Write
      BY <3>1, WriteBegins DEF Begun, Start
    <3>2. CASE ReadMissing \/ WriteBack \/ UNCHANGED textVars
      BY <3>2 DEF ReadMissing, WriteBack
    <3>. QED
      BY <1>2, <3>1, <3>2
  <2>. QED
    BY <1>0, <1>1, <2>1
<1>3. CASE AddDiff \/ CloseText
  <2>1. con' = con /\ header' \in Nat /\ header' >= header
        /\ \A c \in Cells : c < header => cells'[c] = cells[c]
    <3>1. CASE AddDiffHeader
      BY <1>0, <3>1, Numbers DEF AddDiffHeader, HeaderMissing
    <3>2. CASE AddDiffDiff \/ AddDiffText
      <4>1. job.at \in Nat /\ job.at >= header
        BY <1>0, <1>a, <3>2 DEF JobType, ChainInv, Writing, AddDiffDiff, AddDiffText
      <4>2. \A c \in Cells : c < header => c # job.at /\ c # job.at + 1
        BY <1>0, <1>a, <4>1
      <4>3. \/ cells' = [cells EXCEPT ![job.at] = DiffCell(job.from, job.to, job.prev)]
            \/ cells' = [cells EXCEPT ![job.at + 1] = TextCell(job.to, job.at)]
        BY <3>2 DEF AddDiffDiff, AddDiffText
      <4>4. header' = header /\ con' = con
        BY <3>2 DEF AddDiffDiff, AddDiffText
      <4>5. \A c \in Cells : c < header => cells'[c] = cells[c]
        BY <1>0, <4>2, <4>3
      <4>. QED
        BY <1>0, <4>4, <4>5
    <3>3. CASE CloseText
      <4>1. job.at \in Nat /\ job.at >= header
        BY <1>0, <1>a, <3>3 DEF JobType, ChainInv, Writing, CloseText
      <4>. QED
        BY <1>0, <3>3, <4>1 DEF CloseText
    <3>. QED
      BY <1>3, <3>1, <3>2, <3>3 DEF AddDiff
  <2>. QED
    BY <1>1, <2>1
<1>4. CASE (\E n \in DiffCounts : DiffOpen(n)) \/ DiffShow \/ Crash
  <2>1. con'.step \in {"idle", "header", "create"} /\ con'.diffs = <<>>
    <3>1. CASE \E n \in DiffCounts : DiffOpen(n)
      BY <3>1 DEF DiffOpen, NoDiffCommand
    <3>2. CASE DiffShow \/ Crash
      BY <3>2 DEF DiffShow, Crash, NoDiffCommand
    <3>. QED
      BY <1>4, <3>1, <3>2
  <2>. QED
    BY <2>1 DEF ShowInv
<1>5. CASE DiffCreate
  <2>1. con'.step = "header" /\ con'.diffs = con.diffs /\ con.step = "create"
    BY <1>0, <1>5 DEF DiffCreate, ConType
  <2>. QED
    BY <2>1 DEF ShowInv
<1>6. CASE DiffHeader
  <2>1. con.step = "header" /\ header' = header
        /\ con' = IF HeaderMissing THEN NoDiffCommand ELSE [con EXCEPT !.step = "text", !.at = header]
    BY <1>6 DEF DiffHeader, fileVars
  <2>2. CASE HeaderMissing
    <3>1. con'.step = "idle" /\ con'.diffs = <<>>
      BY <2>1, <2>2 DEF NoDiffCommand
    <3>. QED
      BY <3>1 DEF ShowInv
  <2>3. CASE ~HeaderMissing
    <3>1. con'.step = "text" /\ con'.at = header /\ con'.diffs = con.diffs
      BY <1>0, <2>1, <2>3 DEF ConType
    <3>. QED
      BY <1>0, <2>1, <3>1 DEF ShowInv
  <2>. QED
    BY <2>2, <2>3
<1>b. ASSUME con.at <= header
      PROVE  /\ PrevAt(con.at) \in Cells
             /\ PrevAt(con.at) = 0 \/ (PrevAt(con.at) < header
                                     /\ ComesTo(PrevAt(con.at), TextAt(con.at)))
  <2>. DEFINE c == con.at
  <2>. SUFFICES ASSUME cells[c].kind = "text"
                PROVE  PrevAt(c) = 0 \/ (PrevAt(c) < header /\ ComesTo(PrevAt(c), TextAt(c)))
    BY <1>0, ReadTypes, Numbers DEF PrevAt
  <2>1. c = header
    BY <1>0, <1>b DEF ChainInv
  <2>2. header # 0 /\ cells[header] # NoCell
    BY <2>1 DEF ChainInv, NoCell
  <2>3. PrevAt(header) = cells[header].prev /\ TextAt(header) = cells[header].text
    <3>1. ~Hole(header)
      BY <2>2 DEF Hole
    <3>. QED
      BY <2>1, <2>2, <3>1 DEF PrevAt, TextAt
  <2>4. ComesTo(cells[header].prev, cells[header].text)
    BY <2>1 DEF ChainInv
  <2>5. PrevAt(header) < header \/ PrevAt(header) = 0
    BY <1>0, ReadTypes
  <2>. QED
    BY <2>1, <2>3, <2>4, <2>5
<1>7. CASE DiffText
  <2>. DEFINE c == con.at
  <2>1. /\ con.step = "text" /\ UNCHANGED <<header, cells>> /\ con.diffs = <<>> /\ c <= header
        /\ con' = [con EXCEPT !.step = "rest", !.text = TextAt(c), !.link = PrevAt(c)]
    BY <1>7 DEF DiffText, fileVars, ShowInv
  <2>2. con'.step = "rest" /\ con'.link = PrevAt(c) /\ con'.at = c /\ con'.diffs = <<>>
    <3>. HIDE DEF c
    <3>1. con.at = c
      BY DEF c
    <3>. QED
      BY <1>0, <2>1, <3>1 DEF ConType
  <2>. QED
    BY <1>b, <2>1, <2>2 DEF ShowInv
<1>9. CASE DiffRest
  <2>1. /\ con.step = "rest" /\ UNCHANGED <<header, cells>> /\ con.diffs = <<>>
        /\ con.at <= header /\ (con.link = 0 \/ con.link < header)
    BY <1>9 DEF DiffRest, fileVars, ShowInv
  <2>2. /\ con'.step = "diffs" /\ con'.diffs = <<>>
        /\ \/ Untouched /\ con'.at = con.link /\ con'.text = con.text
           \/ con'.torn /\ con'.at \in {con.link, PrevAt(con.at)}
    BY <1>0, <1>9, <2>1 DEF DiffRest, ConType
  <2>3. con'.at = 0 \/ con'.at < header'
    BY <1>b, <2>1, <2>2 DEF Untouched
  <2>4. con'.torn \/ ComesTo(con.at, con.text)'
    BY <1>b, <2>1, <2>2 DEF Untouched, ComesTo, IsDiff
  <2>. QED
    BY <2>2, <2>3, <2>4 DEF ShowInv
<1>10. CASE DiffLost
  <2>1. con'.step = "lost" /\ con'.diffs = <<>>
    BY <1>0, <1>10 DEF DiffLost, ConType, ShowInv
  <2>. QED
    BY <2>1 DEF ShowInv
<1>8. CASE DiffDiff
  <2>. DEFINE c == con.at
              d == DiffAt(c)
              s == con.diffs
  <2>1. /\ con.step = "diffs" /\ c > 0 /\ c < header /\ UNCHANGED <<header, cells>>
        /\ con' = [con EXCEPT !.diffs = Append(s, d), !.at = d.prev]
    BY <1>0, <1>8 DEF DiffDiff, DiffMore, fileVars, ShowInv
  <2>2. /\ con'.step = "diffs" /\ con'.text = con.text /\ con'.torn = con.torn /\ con'.at = d.prev
        /\ con'.diffs = Append(s, d)
    <3>. HIDE DEF c, d, s
    <3>. QED
      BY <1>0, <2>1 DEF ConType
  <2>3. d \in DiffRec /\ s \in Seq(DiffRec) /\ d.prev \in Cells /\ d.prev \in Nat
    <3>1. d \in DiffRec
      BY <1>0, ReadTypes
    <3>2. d.prev \in Cells
      BY <3>1 DEF DiffRec
    <3>. QED
      BY <1>0, <1>a, <3>1, <3>2
  <2>4. /\ \A i \in 1..Len(s) : s[i] = Erased \/ (con.torn /\ i = 1) \/ Leads(con.text, s, i)
        /\ s = <<>> => con.torn \/ ComesTo(c, con.text)
        /\ s # <<>> => LeadsTo(c, Last(s).from)
    BY <2>1 DEF ShowInv
  <2>5. \/ d = Erased /\ d.prev = 0
        \/ IsDiff(c) /\ d = cells[c] /\ LeadsTo(d.prev, d.from) /\ (d.prev < c \/ d.prev = 0)
    <3>1. CASE IsDiff(c)
      <4>1. d = cells[c] /\ (d.prev < c \/ d.prev = 0)
        BY <1>0, <3>1, CellKinds DEF DiffAt, IsDiff
      <4>2. LeadsTo(cells[c].prev, cells[c].from)
        BY <1>0, <2>1, <3>1 DEF ChainInv
      <4>. QED
        BY <3>1, <4>1, <4>2
    <3>2. CASE ~IsDiff(c)
      BY <3>2 DEF DiffAt, IsDiff, Erased, DiffCell
    <3>. QED
      BY <3>1, <3>2
  <2>. HIDE DEF d, s
  <2>. DEFINE n == Len(s)
              t == Append(s, d)
  <2>6. /\ n \in Nat /\ Len(t) = n + 1 /\ t[n + 1] = d /\ t # <<>> /\ Last(t) = d
        /\ \A i \in 1..n : t[i] = s[i]
        /\ n > 0 => s # <<>> /\ Last(s) = s[n]
        /\ n = 0 => s = <<>>
    BY <2>3 DEF Last
  <2>7. ASSUME NEW i \in 1..(n + 1) PROVE t[i] = Erased \/ (con.torn /\ i = 1) \/ Leads(con.text, t, i)
    <3>. HIDE DEF t
    <3>1. CASE i <= n
      <4>1. i \in 1..n /\ t[i] = s[i] /\ (i # 1 => i - 1 \in 1..n /\ t[i - 1] = s[i - 1])
        BY <2>6, <2>7, <3>1
      <4>. QED
        BY <2>4, <4>1 DEF Leads
    <3>2. CASE i = n + 1
      <4>. SUFFICES ASSUME IsDiff(c), d = cells[c], ~(con.torn /\ i = 1)
                    PROVE  Leads(con.text, t, i)
        BY <2>5, <2>6, <3>2
      <4>2. CASE n = 0
        <5>1. d.to = con.text
          BY <2>1, <2>4, <2>6, <3>2, <4>2 DEF ComesTo
        <5>. QED
          BY <2>6, <3>2, <4>2, <5>1 DEF Leads
      <4>3. CASE n > 0
        <5>1. i # 1 /\ i - 1 = n /\ n \in 1..n
          BY <2>6, <3>2, <4>3
        <5>2. GoesOn(Last(s).from, d.to)
          BY <2>1, <2>4, <2>6, <4>3 DEF LeadsTo
        <5>. QED
          BY <2>6, <3>2, <4>3, <5>1, <5>2 DEF Leads
      <4>. QED
        BY <2>6, <4>2, <4>3
    <3>. QED
      BY <2>6, <2>7, <3>1, <3>2
  <2>8. d.prev = 0 \/ (d.prev < header /\ LeadsTo(d.prev, d.from))
    BY <1>0, <2>1, <2>3, <2>5
  <2>9. \A i \in 1..Len(con'.diffs) :
          con'.diffs[i] = Erased \/ (con'.torn /\ i = 1) \/ Leads(con.text, con.diffs, i)'
    BY <2>2, <2>6, <2>7 DEF Leads
  <2>10. LeadsTo(con.at, Last(con.diffs).from)' /\ (con'.at = 0 \/ con'.at < header')
         /\ con'.diffs # <<>>
    <3>1. con'.diffs = t /\ Last(con'.diffs) = d
      BY <2>2, <2>6
    <3>. HIDE DEF t
    <3>. QED
      BY <2>1, <2>2, <2>6, <2>8, <3>1 DEF LeadsTo, IsDiff
  <2>. QED
    BY <2>2, <2>9, <2>10 DEF ShowInv
<1>. QED
  BY <1>2, <1>3, <1>4, <1>5, <1>6, <1>7, <1>8, <1>9, <1>10 DEF TextNext, DiffCommand
-----------------------------------------------------------------------------
(* Without a crash and without the console, and the page.                    *)

\* Until the process has been stopped or a diff command given, nothing is missing.
LEMMA CalmStep ==
  TypeInv /\ PlaceInv /\ SoundInv /\ WholeInv /\ CalmInv /\ [TextNext]_textVars => CalmInv'
<1>. SUFFICES ASSUME TypeInv, PlaceInv, SoundInv, WholeInv, CalmInv, [TextNext]_textVars, Calm'
              PROVE  CalmInv'
  BY DEF CalmInv
<1>0. /\ job \in JobType /\ con \in ConType /\ header \in Cells /\ header \in Nat /\ 1 \in Cells
      /\ DOMAIN cells = Cells /\ Len(log) \in Nat
      /\ crashes \in Nat /\ cmds \in Nat
  BY Numbers, LogType DEF TypeInv
<1>1. Calm
  <2>1. /\ crashes' = crashes \/ crashes' = crashes + 1
        /\ cmds' = cmds \/ cmds' = cmds + 1
    <3>. USE DEF countVars
    <3>1. CASE Write
      BY <3>1, WriteBegins DEF Begun, Start
    <3>2. CASE ReadMissing \/ AddDiff \/ CloseText
      BY <3>2 DEF ReadMissing, AddDiff, AddDiffHeader, AddDiffDiff, AddDiffText, CloseText
    <3>3. CASE DiffCommand
      BY <3>3 DEF DiffCommand, DiffOpen, DiffCreate, DiffHeader, DiffText, DiffRest, DiffLost, DiffDiff, DiffShow
    <3>4. CASE WriteBack \/ Crash \/ UNCHANGED textVars
      BY <3>4 DEF WriteBack, Crash, textVars
    <3>. QED
      BY <3>1, <3>2, <3>3, <3>4 DEF TextNext
  <2>. QED
    BY <1>0, <2>1 DEF Calm
<1>2. /\ ~spoiled /\ con.step = "idle" /\ job.step # "dead"
      /\ \A i \in 1..Len(log) : log[i] \in Blank..MaxWrites
      /\ IF Idle THEN job.from = NoText ELSE job.to \in Blank..MaxWrites
      /\ log # <<>> => header = Len(log) + 1 /\ cells[1].prev = 0 /\ cells[1].from = NoText
      /\ Writing /\ log = <<>> => header = 1 /\ job.prev = 0
      /\ Idle /\ record # "none" => log # <<>>
  BY <1>1 DEF CalmInv
<1>3. log # <<>> => Last(log) \in Blank..MaxWrites /\ Last(log) # NoText
  <2>1. log # <<>> => Len(log) \in 1..Len(log) /\ Last(log) = log[Len(log)]
    BY <1>0, LogType
  <2>. QED
    BY <1>2, <2>1, Numbers
<1>4. CASE Write
  <2>1. PICK o \in {"new", "edit", "rerender", "delete"}, from, to \in Texts :
          /\ Idle /\ Start(o, from, to)
          /\ to \in Blank..MaxWrites \/ (o = "rerender" /\ to = CurrentText)
          /\ o # "new" => record # "none" /\ CurrentText # NoText
    BY <1>4, WriteBegins DEF Begun
  <2>2. /\ job' = [NoJob EXCEPT !.op = o, !.step = "header", !.from = from, !.to = to]
        /\ UNCHANGED <<header, cells, log, spoiled, con>>
    BY <2>1 DEF Start, historyVars
  <2>3. job'.step = "header" /\ job'.to = to
    BY <2>2 DEF NoJob
  <2>4. to \in Blank..MaxWrites
    <3>1. CurrentText = IF log = <<>> THEN NoText ELSE Last(log)
      BY <1>2, <2>1, CurrentIs DEF Idle, Reading
    <3>. QED
      BY <1>3, <2>1, <3>1
  <2>. QED
    BY <1>1, <1>2, <2>2, <2>3, <2>4 DEF CalmInv, Writing, Idle
<1>5. CASE ReadMissing
  <2>1. ~HeaderMissing
    BY <1>2, <1>5, CurrentIs DEF ReadMissing, Idle, Reading
  <2>. QED
    BY <1>5, <2>1 DEF ReadMissing
<1>6. CASE AddDiffHeader
  <2>. DEFINE at == IF HeaderMissing THEN First ELSE header
  <2>1. /\ job.step = "header" /\ header' = at
        /\ job' = [job EXCEPT !.step = "diff", !.at = at, !.prev = PrevAt(at),
                              !.sound = @ /\ at # 0]
        /\ UNCHANGED <<cells, log, spoiled, con>>
    BY <1>6 DEF AddDiffHeader, historyVars
  <2>2. job'.step = "diff" /\ job'.prev = PrevAt(at) /\ job'.to = job.to
    <3>. HIDE DEF at
    <3>. QED
      BY <1>0, <2>1 DEF JobType
  <2>3. CASE log = <<>>
    <3>1. HeaderMissing
      BY <1>2, <2>1, <2>3 DEF WholeInv, Reading
    <3>2. at = 1 /\ cells[1] = NoCell
      BY <1>0, <3>1, Numbers DEF HeaderMissing, Written
    <3>3. PrevAt(1) = 0
      BY <3>2 DEF PrevAt, NoCell
    <3>4. header' = 1 /\ job'.prev = 0
      BY <2>1, <2>2, <3>2, <3>3
    <3>. QED
      BY <1>2, <2>1, <2>2, <2>3, <3>4 DEF CalmInv, Writing, Idle
  <2>4. CASE log # <<>>
    <3>1. header >= 2
      BY <1>2, <2>4, CurrentIs
    <3>2. header' = header
      BY <2>1, <3>1 DEF HeaderMissing
    <3>. HIDE DEF at
    <3>. QED
      BY <1>2, <2>1, <2>2, <2>4, <3>2 DEF CalmInv, Writing, Idle
  <2>. QED
    BY <2>3, <2>4
<1>7. CASE AddDiffDiff
  <2>1. /\ job.step = "diff" /\ UNCHANGED <<header, log, spoiled, con>>
        /\ cells' = [cells EXCEPT ![job.at] = DiffCell(job.from, job.to, job.prev)]
        /\ job' = [job EXCEPT !.step = "text"]
    BY <1>7 DEF AddDiffDiff, historyVars
  <2>2. job'.step = "text" /\ job'.prev = job.prev /\ job'.to = job.to
    BY <1>0, <2>1 DEF JobType
  <2>3. job.at = header
    BY <1>2, <2>1 DEF WholeInv, SoundInv, Writing
  <2>4. log # <<>> => cells'[1] = cells[1]
    BY <1>2, <2>1, <2>3, CurrentIs
  <2>. QED
    BY <1>2, <2>1, <2>2, <2>4 DEF CalmInv, Writing, Idle
<1>8. CASE AddDiffText
  <2>1. /\ job.step = "text" /\ UNCHANGED <<header, log, spoiled, con>>
        /\ cells' = [cells EXCEPT ![job.at + 1] = TextCell(job.to, job.at)]
        /\ job' = [job EXCEPT !.step = "close"]
    BY <1>8 DEF AddDiffText, historyVars
  <2>2. job'.step = "close" /\ job'.prev = job.prev /\ job'.to = job.to
    BY <1>0, <2>1 DEF JobType
  <2>3. job.at = header
    BY <1>2, <2>1 DEF WholeInv, SoundInv, Writing
  <2>4. log # <<>> => cells'[1] = cells[1]
    BY <1>0, <1>2, <2>1, <2>3, CurrentIs
  <2>. QED
    BY <1>2, <2>1, <2>2, <2>4 DEF CalmInv, Writing, Idle
<1>9. CASE CloseText
  <2>1. /\ job.step = "close" /\ header' = job.at + 1 /\ job' = NoJob /\ spoiled' = ~job.sound
        /\ log' = Append(log, job.to) /\ UNCHANGED <<cells, con>>
    BY <1>2, <1>9 DEF CloseText
  <2>2. job.sound /\ job.at = header /\ cells[header] = DiffCell(job.from, job.to, job.prev)
    BY <1>2, <2>1 DEF WholeInv, SoundInv, Writing
  <2>3. /\ log \in Seq(Texts) /\ job.to \in Texts /\ job.to \in Blank..MaxWrites
    BY <1>0, <1>2, <2>1 DEF TypeInv, JobType, Idle
  <2>4. /\ Len(log') = Len(log) + 1 /\ log' # <<>> /\ log'[Len(log) + 1] = job.to
        /\ \A i \in 1..Len(log) : log'[i] = log[i]
    BY <2>1, <2>3
  <2>5. \A i \in 1..Len(log') : log'[i] \in Blank..MaxWrites
    BY <1>0, <1>2, <2>3, <2>4
  <2>6. header' = Len(log') + 1 /\ cells[1].prev = 0 /\ cells[1].from = NoText
    <3>1. CASE log = <<>>
      <4>1. header = 1 /\ job.prev = 0 /\ job.from = NoText /\ Len(log) = 0
        <5>1. GoesOn(job.from, NoText)
          BY <1>2, <2>1, <3>1 DEF WholeInv, Writing
        <5>2. job.from = NoText
          BY <5>1, RenderedType, Numbers DEF GoesOn
        <5>. QED
          BY <1>2, <2>1, <3>1, <5>2, LogType DEF Writing
      <4>. QED
        BY <2>1, <2>2, <2>4, <4>1 DEF DiffCell
    <3>2. CASE log # <<>>
      BY <1>0, <1>2, <2>1, <2>2, <2>4, <3>2
    <3>. QED
      BY <3>1, <3>2
  <2>7. job'.step = "idle" /\ job'.from = NoText
    BY <2>1 DEF NoJob
  <2>. QED
    BY <1>2, <2>1, <2>2, <2>4, <2>5, <2>6, <2>7 DEF CalmInv, Writing, Idle
<1>10. CASE DiffCommand
  <2>1. PICK n \in DiffCounts : DiffOpen(n)
    BY <1>2, <1>10 DEF DiffCommand, DiffCreate, DiffHeader, DiffText, DiffRest, DiffLost,
                        DiffDiff, DiffMore, DiffShow
  <2>. QED
    BY <1>0, <2>1 DEF DiffOpen, Calm
<1>11. CASE Crash
  BY <1>0, <1>11 DEF Crash, Calm
<1>12. CASE WriteBack \/ UNCHANGED textVars
  <2>1. UNCHANGED <<header, cells, job, con, log, spoiled, record>>
    BY <1>12 DEF WriteBack, fileVars, historyVars, textVars
  <2>. QED
    BY <1>2, <2>1 DEF CalmInv, Writing, Idle
<1>. QED
  BY <1>4, <1>5, <1>6, <1>7, <1>8, <1>9, <1>10, <1>11, <1>12 DEF TextNext, AddDiff

\* The file's part of the invariant is kept by its steps.
LEMMA TextStep == TextInv /\ [TextNext]_textVars => TextInv'
  BY TypeStep, SoundStep, WholeStep, CalmStep, ChainStep, ShowStep DEF TextInv

\* A step of the page's module is one of the file's, or leaves the file alone.
LEMMA PageStepIsTextStep == [Next]_vars => [TextNext]_textVars
  BY DEF Next, TextNext, ViewPage, ViewForContributors, EditSame, Delete, Finish, Restart, Write,
         vars
-----------------------------------------------------------------------------
\* A page that is kept is the text of the file, or was rewritten by a rerendering.
LEMMA PageStep == TextInv /\ PageInv /\ [Next]_vars => PageInv'
<1>. SUFFICES ASSUME TextInv, PageInv, [Next]_vars PROVE PageInv'
  OBVIOUS
<1>. USE DEF PageInv, CacheFresh
<1>0. TypeInv /\ WholeInv /\ job \in JobType
  BY DEF TextInv, TypeInv
<1>1. NoPage \notin Texts /\ Freed \notin Texts /\ NoPage # Freed /\ CurrentText \in Texts
  BY <1>0, Numbers, CurrentType DEF NoPage, Freed
<1>2. CASE ViewPage
  <2>1. UNCHANGED <<job, record, spoiled>> /\ CurrentText' = CurrentText
    BY <1>2 DEF ViewPage, textVars, fileVars, historyVars, CurrentText, TextAt, HeaderMissing, Hole, Written
  <2>2. Idle /\ record = "live" /\ Shown # NoText
    BY <1>2 DEF ViewPage
  <2>3. \/ page' = Shown /\ stale' = stale
        \/ page' \in {NoPage, Freed} /\ stale' = FALSE
    BY <1>2 DEF ViewPage, DropPage
  <2>4. Shown \in Texts \cup {Freed}
    BY <1>1 DEF Shown
  <2>5. CacheFresh'
    BY <1>1, <2>1, <2>2, <2>3 DEF Shown, Idle
  <2>. QED
    BY <2>1, <2>2, <2>3, <2>4, <2>5 DEF Idle
<1>3. CASE ViewForContributors
  <2>1. UNCHANGED <<job, record, spoiled>> /\ CurrentText' = CurrentText
    BY <1>3 DEF ViewForContributors, textVars, fileVars, historyVars, CurrentText, TextAt, HeaderMissing,
                Hole, Written
  <2>2. Idle /\ record = "live" /\ Shown # NoText
    BY <1>3 DEF ViewForContributors
  <2>3. \/ page' = Shown /\ stale' = stale
        \/ page' \in {NoPage, Freed} /\ stale' = FALSE
    BY <1>3 DEF ViewForContributors, DropPage
  <2>4. Shown \in Texts \cup {Freed}
    BY <1>1 DEF Shown
  <2>5. CacheFresh'
    BY <1>1, <2>1, <2>2, <2>3 DEF Shown, Idle
  <2>. QED
    BY <2>1, <2>2, <2>3, <2>4, <2>5 DEF Idle
<1>4. CASE EditSame \/ Delete \/ Restart
  BY <1>1, <1>4 DEF EditSame, Delete, Restart, DropPage
<1>5. CASE Finish
  <2>1. job.step = "close" /\ job' = NoJob /\ record' = record
    BY <1>5 DEF Finish, CloseText
  <2>2. page = NoPage \/ job.op \in {"edit", "rerender"}
    BY <2>1 DEF Idle
  <2>3. \/ page' = NoPage /\ stale' \in BOOLEAN
        \/ page' = page /\ job.op = "rerender" /\ stale' = TRUE
    BY <1>5, <2>2 DEF Finish, KeepPage, DropPage
  <2>4. job'.step = "idle"
    BY <2>1 DEF NoJob
  <2>. QED
    BY <1>1, <2>1, <2>3, <2>4 DEF Idle
<1>6. CASE NewText /\ UNCHANGED pageVars
  <2>1. record # "live" /\ record' = "live" /\ job'.step = "header"
    BY <1>6 DEF NewText, Start, NoJob
  <2>. QED
    BY <1>1, <1>6, <2>1 DEF pageVars, Idle
<1>7. CASE (EditText \/ RerenderText) /\ UNCHANGED pageVars
  <2>1. record' = record /\ job'.step = "header" /\ job'.op \in {"edit", "rerender"}
    BY <1>7 DEF EditText, RerenderText, Start, NoJob
  <2>. QED
    BY <1>7, <2>1 DEF pageVars, Idle
<1>8. CASE ReadMissing /\ UNCHANGED pageVars
  <2>1. record' = record /\ job'.step = "dead"
    BY <1>8 DEF ReadMissing, NoJob
  <2>. QED
    BY <1>8, <2>1 DEF pageVars, Idle
<1>9. CASE AddDiff /\ UNCHANGED pageVars
  <2>1. record' = record /\ ~Idle /\ job'.step \in {"diff", "text", "close"} /\ job'.op = job.op
        /\ job.step # "dead"
    BY <1>0, <1>9 DEF AddDiff, AddDiffHeader, AddDiffDiff, AddDiffText, JobType, Idle
  <2>. QED
    BY <1>9, <2>1 DEF pageVars, Idle
<1>10. CASE DiffCreate /\ UNCHANGED pageVars
  <2>1. /\ record' = record /\ header' = 0
        /\ cells' = [c \in Cells |-> NoCell]
        /\ spoiled' = (spoiled \/ log # <<>> \/ ~Idle)
    BY <1>10 DEF DiffCreate
  <2>2. job'.op = job.op /\ job'.step = job.step
    BY <1>0, <1>10, Emptied
  <2>3. ~spoiled' => CurrentText' = CurrentText
    <3>1. ASSUME ~spoiled' PROVE HeaderMissing
      BY <1>0, <2>1, <3>1 DEF WholeInv, Reading, Idle
    <3>2. HeaderMissing'
      BY <2>1 DEF HeaderMissing, Written
    <3>. QED
      BY <3>1, <3>2 DEF CurrentText
  <2>. QED
    BY <1>10, <2>1, <2>2, <2>3 DEF pageVars, Idle
<1>11. CASE (ConsoleReads \/ WriteBack \/ UNCHANGED textVars) /\ UNCHANGED pageVars
  <2>1. UNCHANGED <<header, cells, job, record, spoiled>>
    <3>. USE DEF fileVars, historyVars, textVars
    <3>1. CASE ConsoleReads
      BY <3>1 DEF ConsoleReads, DiffOpen, DiffHeader, DiffText, DiffRest, DiffLost, DiffDiff, DiffShow
    <3>2. CASE WriteBack \/ UNCHANGED textVars
      BY <3>2 DEF WriteBack
    <3>. QED
      BY <1>11, <3>1, <3>2
  <2>2. CurrentText' = CurrentText
    BY <2>1 DEF CurrentText, TextAt, HeaderMissing, Hole, Written
  <2>. QED
    BY <1>11, <2>1, <2>2 DEF pageVars, Idle
<1>. QED
  BY <1>2, <1>3, <1>4, <1>5, <1>6, <1>7, <1>8, <1>9, <1>10, <1>11
     DEF Next, DiffCommand, ConsoleReads, vars

\* At the start there is no file and no page.
LEMMA InitInv == Init => TextInv /\ PageInv
<1>. SUFFICES ASSUME Init PROVE TextInv /\ PageInv
  OBVIOUS
<1>. USE Numbers DEF Init, TextInit
<1>1. job.step = "idle" /\ job.sound /\ con.step = "idle"
  BY DEF NoJob, NoDiffCommand
<1>2. TypeInv
  <2>1. NoJob \in JobType /\ NoDiffCommand \in ConType /\ \A c : NoCell \in Cell(c)
    BY DEF NoJob, JobType, NoDiffCommand, ConType, Cell
  <2>2. log \in Seq(Texts)
    OBVIOUS
  <2>3. DOMAIN cells = Cells /\ \A c \in Cells : cells[c] = NoCell
    OBVIOUS
  <2>4. header \in Cells /\ writes \in 0..MaxWrites /\ crashes \in 0..MaxCrashes
        /\ cmds \in 0..MaxCmds
    OBVIOUS
  <2>. QED
    BY <2>1, <2>2, <2>3, <2>4 DEF TypeInv
<1>3. Len(log) = 0 /\ Written = {} /\ HeaderMissing
  BY DEF Written, HeaderMissing
<1>4. PlaceInv /\ WholeInv /\ SoundInv
  <2>1. job.from = NoText
    BY DEF NoJob
  <2>. QED
    BY <1>1, <1>3, <2>1 DEF PlaceInv, WholeInv, SoundInv, Reading, Writing
<1>5. CalmInv
  <2>1. job.from = NoText /\ record = "none" /\ ~spoiled /\ log = <<>>
    BY DEF NoJob
  <2>. QED
    BY <1>1, <1>3, <2>1 DEF CalmInv, Writing, Idle
<1>6. PageInv
  <2>1. NoPage \notin Texts
    BY DEF NoPage
  <2>. QED
    BY <1>1, <2>1 DEF PageInv, CacheFresh, Idle
<1>7. ChainInv /\ ShowInv
  <2>1. \A c \in Cells : cells[c].kind = "none"
    BY DEF NoCell
  <2>2. header = 0 /\ con.diffs = <<>> /\ 0 \in Cells /\ Cells \subseteq Nat
    BY DEF NoDiffCommand
  <2>. QED
    BY <1>1, <2>1, <2>2 DEF ChainInv, ShowInv, Writing
<1>. QED
  BY <1>2, <1>4, <1>5, <1>6, <1>7 DEF TextInv

\* The invariant holds in every state.
LEMMA Invariant == Spec => [](TextInv /\ PageInv)
<1>1. TextInv /\ PageInv /\ [Next]_vars => (TextInv /\ PageInv)'
  BY PageStepIsTextStep, TextStep, PageStep
<1>. QED
  BY <1>1, InitInv, PTL DEF Spec
-----------------------------------------------------------------------------
\* Cells, links, the handler and the console keep their types, for any number of writes,
\* crashes and commands, and links only lead back in the file.
THEOREM TypeCorrect == Spec => []TypeOK
<1>1. TextInv /\ PageInv => TypeOK
  <2>. SUFFICES ASSUME TextInv, PageInv PROVE TypeOK
    OBVIOUS
  <2>. TypeInv
    BY DEF TextInv
  <2>1. ASSUME NEW c \in Cells
        PROVE  \/ cells[c] = NoCell
               \/ \E t \in Texts, p \in Cells : cells[c] = TextCell(t, p) /\ (p < c \/ p = 0)
               \/ \E f, t \in Texts, p \in Cells :
                    cells[c] = DiffCell(f, t, p) /\ (p < c \/ p = 0)
    <3>1. CASE cells[c] \in TextRec /\ (cells[c].prev < c \/ cells[c].prev = 0)
      <4>1. cells[c] = TextCell(cells[c].text, cells[c].prev)
            /\ cells[c].text \in Texts /\ cells[c].prev \in Cells
        BY <3>1 DEF TextRec, TextCell
      <4>. QED
        BY <3>1, <4>1
    <3>2. CASE cells[c] \in DiffRec /\ (cells[c].prev < c \/ cells[c].prev = 0)
      <4>1. cells[c] = DiffCell(cells[c].from, cells[c].to, cells[c].prev)
            /\ cells[c].from \in Texts /\ cells[c].to \in Texts /\ cells[c].prev \in Cells
        BY <3>2 DEF DiffRec, DiffCell
      <4>. QED
        BY <3>2, <4>1
    <3>. QED
      BY <3>1, <3>2 DEF TypeInv, Cell
  <2>2. TextTypeOK
    BY <2>1 DEF TextTypeOK, TypeInv, Records, JobType, ConType
  <2>. QED
    BY <2>2 DEF TypeOK, PageInv
<1>. QED
  BY <1>1, Invariant, PTL

\* Between requests a cached page is the text of the file, whatever was deleted, made
\* again, stopped or read by the console; only a rerendering makes it stale.
THEOREM CacheIsFresh == Spec => []CacheFresh
<1>1. PageInv => CacheFresh
  BY DEF PageInv
<1>. QED
  BY <1>1, Invariant, PTL

\* The loop finds a record without a text, or with what is no text, only after a crash or a
\* diff command, and then only in a damaged file or one that never had a text: a stop at
\* any other point costs nothing.
THEOREM FaultsNeedACause == Spec => []FatalOnlyAfterFault
<1>1. TextInv => FatalOnlyAfterFault
  <2>. SUFFICES ASSUME TextInv PROVE FatalOnlyAfterFault
    OBVIOUS
  <2>0. TypeInv /\ PlaceInv /\ WholeInv /\ CalmInv /\ Garbage # NoText
    BY Numbers DEF TextInv
  <2>1. job.step = "dead" => spoiled \/ log = <<>>
    BY <2>0 DEF WholeInv
  <2>2. ASSUME job.from = Garbage, ~spoiled
        PROVE  log # <<>> /\ Last(log) = Garbage
    <3>1. job.step = "header" \/ Writing
      BY <2>0, <2>2 DEF PlaceInv, TypeInv, JobType, Writing
    <3>2. GoesOn(job.from, IF log = <<>> THEN NoText ELSE Last(log))
      BY <2>0, <2>2, <3>1 DEF WholeInv
    <3>3. Rendered(NoText) = NoText
      BY RenderedType, Numbers
    <3>4. ASSUME NEW t, Rendered(t) = Garbage PROVE t = Garbage
      <4>1. CASE t \in Marked
        <5>1. t \in 1..MaxWrites /\ t + MaxWrites = Garbage
          BY <3>4, <4>1, BoundsAssumption DEF Rendered
        <5>. QED
          BY <5>1, Numbers
      <4>. QED
        BY <3>4, <4>1 DEF Rendered
    <3>. QED
      BY <2>0, <2>2, <3>2, <3>3, <3>4 DEF GoesOn
  <2>3. log # <<>> => Len(log) \in 1..Len(log) /\ Last(log) = log[Len(log)]
    BY <2>0, LogType
  <2>4. Calm => ~spoiled /\ job.step # "dead"
                /\ \A i \in 1..Len(log) : log[i] \in Blank..MaxWrites
    BY <2>0 DEF CalmInv
  <2>5. Calm => job.from # Garbage
    <3>. SUFFICES ASSUME Calm, job.from = Garbage PROVE FALSE
      OBVIOUS
    <3>1. log # <<>> /\ Last(log) = Garbage
      BY <2>2, <2>4
    <3>2. Last(log) \in Blank..MaxWrites
      BY <2>3, <2>4, <3>1
    <3>. QED
      BY <3>1, <3>2, Numbers
  <2>6. Calm \/ crashes > 0 \/ cmds > 0
    BY <2>0, Numbers DEF TypeInv, Calm
  <2>. QED
    BY <2>1, <2>2, <2>3, <2>4, <2>5, <2>6 DEF FatalOnlyAfterFault
<1>. QED
  BY <1>1, Invariant, PTL
-----------------------------------------------------------------------------
(* The chain of diffs.                                                       *)

\* A set of numbers that is not empty has a least one.
LEMMA Least ==
  ASSUME NEW T \in SUBSET Nat, T # {}
  PROVE  \E x \in T : \A y \in T : x <= y
<1>. DEFINE R == {ss \in Nat \X Nat : ss[1] < ss[2]}
<1>1. OpToRel(<, Nat) = R
  BY DEF OpToRel
<1>2. IsWellFoundedOn(R, Nat)
  BY <1>1, NatLessThanWellFounded
<1>3. PICK x \in T : \A y \in T : <<y, x>> \notin R
  <2>. HIDE DEF R
  <2>. QED
    BY <1>2, WFMin
<1>4. ASSUME NEW y \in T PROVE x <= y
  <2>1. <<y, x>> \notin R
    <3>. HIDE DEF R
    <3>. QED
      BY <1>3
  <2>2. <<y, x>> \in Nat \X Nat
    OBVIOUS
  <2>3. ~(y < x)
    BY <2>1, <2>2
  <2>. QED
    BY <2>3
<1>. QED
  BY <1>4

\* One link of a chain that is known below.
Link(f, c) ==
  IF c = 0 THEN <<>>
  ELSE <<DiffAt(c)>> \o (IF DiffAt(c).prev < c THEN f[DiffAt(c).prev] ELSE <<>>)

\* Links lead back, so the chains of all cells are defined, from the first cell on.
LEMMA ChainsExist ==
  ASSUME TypeInv PROVE \E f : f = [c \in Cells |-> Link(f, c)]
<1>. DEFINE Good(n) == \E f : DOMAIN f = 0..n /\ \A c \in 0..n : f[c] = Link(f, c)
            Bad == {n \in Cells : ~Good(n)}
<1>0. Bad \subseteq Nat /\ MaxWrites + 1 \in Cells /\ Cells = 0..(MaxWrites + 1)
  BY Numbers
<1>1. Bad = {}
  <2>. SUFFICES ASSUME Bad # {} PROVE FALSE
    OBVIOUS
  <2>. HIDE DEF Good
  <2>1. PICK n \in Bad : \A m \in Bad : n <= m
    BY <1>0, Least
  <2>2. n \in Cells /\ n \in Nat /\ ~Good(n)
    BY <1>0
  <2>3. CASE n = 0
    <3>1. LET f == [c \in 0..0 |-> <<>>] IN DOMAIN f = 0..0 /\ \A c \in 0..0 : f[c] = Link(f, c)
      BY DEF Link
    <3>. QED
      BY <2>2, <2>3, <3>1 DEF Good
  <2>4. CASE n # 0
    <3>1. n - 1 \in Cells /\ n - 1 \in Nat /\ ~(n <= n - 1)
      BY <1>0, <2>2, <2>4
    <3>2. Good(n - 1)
      BY <2>1, <3>1
    <3>3. PICK f : DOMAIN f = 0..(n - 1) /\ \A c \in 0..(n - 1) : f[c] = Link(f, c)
      BY <3>2 DEF Good
    <3>. DEFINE g == [c \in 0..n |-> IF c < n THEN f[c] ELSE Link(f, n)]
    <3>4. ASSUME NEW c \in 0..n PROVE g[c] = Link(g, c)
      <4>1. c \in Cells /\ c \in Nat /\ DiffAt(c).prev \in Nat
        <5>1. c \in Cells /\ c \in Nat
          BY <1>0, <2>2
        <5>. QED
          BY <1>0, <5>1, ReadTypes DEF DiffRec
      <4>2. DiffAt(c).prev < c => g[DiffAt(c).prev] = f[DiffAt(c).prev]
        BY <2>2, <4>1
      <4>3. Link(g, c) = Link(f, c)
        <5>. HIDE DEF g
        <5>. QED
          BY <4>2 DEF Link
      <4>4. g[c] = Link(f, c)
        <5>1. CASE c < n
          BY <2>2, <3>3, <4>1, <5>1
        <5>2. CASE c = n
          BY <2>2, <5>2
        <5>. QED
          BY <2>2, <4>1, <5>1, <5>2
      <4>. HIDE DEF g
      <4>. QED
        BY <4>3, <4>4
    <3>5. DOMAIN g = 0..n
      OBVIOUS
    <3>. HIDE DEF g
    <3>. QED
      BY <2>2, <3>4, <3>5 DEF Good
  <2>. QED
    BY <2>3, <2>4
<1>2. PICK f : DOMAIN f = Cells /\ \A c \in Cells : f[c] = Link(f, c)
  BY <1>0, <1>1
<1>. DEFINE g == [c \in Cells |-> f[c]]
<1>3. \A c \in Cells : DiffAt(c).prev \in Cells
  BY ReadTypes DEF DiffRec
<1>4. \A c \in Cells : Link(g, c) = Link(f, c)
  BY <1>3 DEF Link
<1>5. g = [c \in Cells |-> Link(g, c)]
  <2>1. \A c \in Cells : g[c] = Link(g, c)
    <3>1. \A c \in Cells : g[c] = f[c]
      OBVIOUS
    <3>. HIDE DEF g
    <3>. QED
      BY <1>2, <1>4, <3>1
  <2>2. g = [c \in Cells |-> g[c]]
    OBVIOUS
  <2>. HIDE DEF g
  <2>3. [c \in Cells |-> g[c]] = [c \in Cells |-> Link(g, c)]
    BY <2>1
  <2>. QED
    BY <2>2, <2>3
<1>. QED
  BY <1>5

\* The chain is what the links make of the text's link.
LEMMA ChainIs ==
  ASSUME TypeInv
  PROVE  \E f \in [Cells -> Seq(DiffRec)] :
           /\ Chain = f[PrevAt(header)]
           /\ \A c \in Cells : f[c] = Link(f, c)
<1>. DEFINE older == CHOOSE f : f = [c \in Cells |-> Link(f, c)]
            Odd == {c \in Cells : older[c] \notin Seq(DiffRec)}
<1>1. Chain = older[PrevAt(header)]
  BY DEF Chain, Link
<1>2. older = [c \in Cells |-> Link(older, c)]
  BY ChainsExist
<1>. HIDE DEF older
<1>3. \A c \in Cells : older[c] = Link(older, c)
  BY <1>2
<1>4. Odd = {}
  <2>. SUFFICES ASSUME Odd # {} PROVE FALSE
    OBVIOUS
  <2>0. Odd \subseteq Nat
    BY Numbers
  <2>1. PICK c \in Odd : \A d \in Odd : c <= d
    BY <2>0, Least
  <2>2. c \in Cells /\ c \in Nat /\ older[c] \notin Seq(DiffRec) /\ older[c] = Link(older, c)
    BY <1>3, <2>0
  <2>. DEFINE d == DiffAt(c)
  <2>3. d \in DiffRec /\ d.prev \in Cells /\ d.prev \in Nat
    <3>1. DiffAt(c) \in DiffRec
      BY <2>2, ReadTypes
    <3>2. DiffAt(c).prev \in Cells
      BY <3>1 DEF DiffRec
    <3>. QED
      BY <3>1, <3>2, Numbers
  <2>4. d.prev < c => older[d.prev] \in Seq(DiffRec)
    BY <2>1, <2>2, <2>3
  <2>5. \A T : \A t \in T : \A s \in Seq(T) : <<t>> \o s \in Seq(T) /\ <<>> \in Seq(T)
    OBVIOUS
  <2>6. Link(older, c) \in Seq(DiffRec)
    <3>1. <<>> \in Seq(DiffRec)
      OBVIOUS
    <3>2. \A s \in Seq(DiffRec) : <<d>> \o s \in Seq(DiffRec)
      BY <2>3, <2>5, Zenon
    <3>. HIDE DEF d
    <3>3. Link(older, c) = IF c = 0 THEN <<>>
                           ELSE <<d>> \o (IF d.prev < c THEN older[d.prev] ELSE <<>>)
      BY DEF Link, d
    <3>. QED
      BY <2>4, <3>1, <3>2, <3>3
  <2>. QED
    BY <2>2, <2>6
<1>5. older \in [Cells -> Seq(DiffRec)]
  BY <1>2, <1>4
<1>6. PrevAt(header) \in Cells
  BY ReadTypes DEF TypeInv
<1>. QED
  BY <1>1, <1>3, <1>5
-----------------------------------------------------------------------------
\* The chain of a whole file begins with the diffs of the log, from the newest on; without
\* a crash and a diff command there are no others.
LEMMA ChainTells ==
  ASSUME TextInv, Idle, ~spoiled, log # <<>>
  PROVE  /\ Chain \in Seq(DiffRec) /\ Len(Chain) >= Len(log)
         /\ \A i \in 1..Len(log) : Chain[i] = cells[header - i] /\ Told(header, i)
         /\ Calm => Len(Chain) = Len(log)
<1>. DEFINE n == Len(log)
            h == header
<1>0. TypeInv /\ WholeInv /\ CalmInv
  BY DEF TextInv
<1>1. n \in Nat /\ n >= 1 /\ h \in Cells /\ h \in Nat /\ n < h /\ \A i \in 1..n : Told(h, i)
  BY <1>0, LogType, Numbers DEF TypeInv, WholeInv, Tells
<1>2. PICK f \in [Cells -> Seq(DiffRec)] :
        Chain = f[PrevAt(h)] /\ \A c \in Cells : f[c] = Link(f, c)
  BY <1>0, ChainIs
<1>3. PrevAt(h) = h - 1
  BY <1>0, CurrentIs DEF Idle, Reading
<1>4. Calm => h = n + 1 /\ cells[1].prev = 0
  BY <1>0 DEF CalmInv
<1>. DEFINE Has(j) ==
       LET s == f[h - (n - j)]
       IN /\ Len(s) >= j + 1
          /\ \A i \in 1..(j + 1) : s[i] = cells[h - (n - j) - i + 1]
          /\ Calm => Len(s) = j + 1
       Lacks == {j \in 0..(n - 1) : ~Has(j)}
<1>5. ASSUME NEW i \in 1..n
      PROVE  /\ h - i \in Cells /\ h - i # 0 /\ h - i \in Nat
             /\ DiffAt(h - i) = cells[h - i] /\ cells[h - i] \in DiffRec
             /\ i < n => cells[h - i].prev = h - i - 1
  <2>1. h - i \in Cells /\ h - i # 0 /\ h - i \in Nat
    BY <1>1, Numbers
  <2>2. cells[h - i] \in DiffRec /\ (i < n => cells[h - i].prev = h - i - 1)
    BY <1>1 DEF Told
  <2>3. DiffAt(h - i) = cells[h - i]
    BY <2>2 DEF DiffAt, DiffRec
  <2>. QED
    BY <2>1, <2>2, <2>3
<1>6. Lacks = {}
  <2>. SUFFICES ASSUME Lacks # {} PROVE FALSE
    OBVIOUS
  <2>. HIDE DEF Has
  <2>1. Lacks \subseteq Nat
    OBVIOUS
  <2>2. PICK j \in Lacks : \A k \in Lacks : j <= k
    BY <2>1, Least
  <2>3. j \in 0..(n - 1) /\ ~Has(j)
    OBVIOUS
  <2>. DEFINE c == h - (n - j)
              d == cells[c]
  <2>4. /\ n - j \in 1..n /\ c \in Cells /\ c # 0 /\ c \in Nat
        /\ DiffAt(c) = d /\ d \in DiffRec /\ (j > 0 => d.prev = c - 1)
    <3>1. n - j \in 1..n /\ (j > 0 => n - j < n)
      BY <1>1, <2>3
    <3>. DEFINE k == n - j
    <3>2. k \in 1..n /\ (j > 0 => k < n)
      BY <3>1
    <3>. HIDE DEF k
    <3>3. /\ h - k \in Cells /\ h - k # 0 /\ h - k \in Nat
          /\ DiffAt(h - k) = cells[h - k] /\ cells[h - k] \in DiffRec
          /\ k < n => cells[h - k].prev = h - k - 1
      BY <1>5, <3>2
    <3>. QED
      BY <3>2, <3>3 DEF k
  <2>5. f[c] = <<d>> \o (IF d.prev < c THEN f[d.prev] ELSE <<>>)
    BY <1>2, <2>4 DEF Link
  <2>6. CASE j = 0
    <3>. DEFINE r == IF d.prev < c THEN f[d.prev] ELSE <<>>
    <3>1. r \in Seq(DiffRec)
      <4>1. d.prev \in Cells
        BY <2>4 DEF DiffRec
      <4>. QED
        BY <1>2, <4>1
    <3>2. Calm => Len(r) = 0
      <4>. SUFFICES ASSUME Calm PROVE Len(r) = 0
        OBVIOUS
      <4>1. c = 1 /\ d.prev = 0
        BY <1>1, <1>4, <2>6
      <4>2. f[0] = <<>>
        <5>1. 0 \in Cells /\ Link(f, 0) = <<>>
          BY Numbers DEF Link
        <5>. QED
          BY <1>2, <5>1
      <4>. QED
        BY <4>1, <4>2
    <3>3. f[c] = <<d>> \o r
      BY <2>5
    <3>. HIDE DEF r
    <3>4. Len(f[c]) = 1 + Len(r) /\ f[c][1] = d /\ Len(r) \in Nat
      BY <2>4, <3>1, <3>3
    <3>5. c - 1 + 1 = c
      BY <2>4
    <3>6. \A i \in 1..(j + 1) : f[c][i] = cells[c - i + 1]
      <4>1. \A i \in 1..(j + 1) : i = 1
        BY <2>6
      <4>. QED
        BY <3>4, <3>5, <4>1
    <3>7. Len(f[c]) >= j + 1 /\ (Calm => Len(f[c]) = j + 1)
      BY <2>6, <3>2, <3>4
    <3>. QED
      BY <2>3, <3>6, <3>7 DEF Has
  <2>7. CASE j > 0
    <3>1. j - 1 \in 0..(n - 1) /\ ~(j <= j - 1) /\ j - 1 + 1 = j
      BY <2>3, <2>7, <1>1
    <3>2. Has(j - 1)
      BY <2>2, <3>1
    <3>3. h - (n - (j - 1)) = c - 1
      BY <1>1, <2>3
    <3>. DEFINE r == f[c - 1]
    <3>4. /\ Len(r) >= j /\ (Calm => Len(r) = j)
          /\ \A i \in 1..j : r[i] = cells[c - 1 - i + 1]
      <4>. HIDE DEF c
      <4>. QED
        BY <3>1, <3>2, <3>3 DEF Has
    <3>5. c - 1 \in Cells /\ r \in Seq(DiffRec) /\ f[c] = <<d>> \o r
      <4>1. d.prev = c - 1 /\ d.prev \in Cells /\ d.prev < c
        BY <2>4, <2>7 DEF DiffRec
      <4>. QED
        BY <1>2, <2>5, <4>1
    <3>. HIDE DEF r
    <3>6. /\ Len(r) \in Nat /\ Len(f[c]) = 1 + Len(r) /\ f[c][1] = d
          /\ \A i \in 2..(Len(r) + 1) : f[c][i] = r[i - 1]
      BY <2>4, <3>5
    <3>7. ASSUME NEW i \in 1..(j + 1) PROVE f[c][i] = cells[c - i + 1]
      <4>1. CASE i = 1
        <5>1. c - i + 1 = c
          BY <2>4, <4>1
        <5>. QED
          BY <3>6, <4>1, <5>1
      <4>2. CASE i > 1
        <5>1. i - 1 \in 1..j /\ i \in 2..(Len(r) + 1) /\ c - 1 - (i - 1) + 1 = c - i + 1
          <6>1. c \in Nat /\ j \in Nat /\ Len(r) \in Nat /\ Len(r) >= j
            BY <2>3, <2>4, <3>4, <3>6
          <6>. HIDE DEF c
          <6>. QED
            BY <4>2, <6>1
        <5>. HIDE DEF c
        <5>. QED
          BY <3>4, <3>6, <5>1
      <4>. QED
        BY <2>3, <4>1, <4>2
    <3>8. Len(f[c]) >= j + 1 /\ (Calm => Len(f[c]) = j + 1)
      BY <2>3, <3>4, <3>6
    <3>. QED
      BY <2>3, <3>7, <3>8 DEF Has
  <2>. QED
    BY <2>3, <2>6, <2>7
<1>7. Has(n - 1)
  <2>1. n - 1 \in 0..(n - 1)
    BY <1>1
  <2>. HIDE DEF Has
  <2>. QED
    BY <1>6, <2>1
<1>8. n - (n - 1) = 1 /\ n - 1 + 1 = n
  BY <1>1
<1>9. /\ Len(Chain) >= n /\ (Calm => Len(Chain) = n)
      /\ \A i \in 1..n : Chain[i] = cells[h - 1 - i + 1]
  BY <1>2, <1>3, <1>7, <1>8
<1>10. Chain \in Seq(DiffRec)
  <2>1. h - 1 \in Cells
    BY <1>1, <1>5
  <2>. QED
    BY <1>2, <1>3, <2>1
<1>11. \A i \in 1..n : h - 1 - i + 1 = h - i
  BY <1>1
<1>. QED
  BY <1>1, <1>9, <1>10, <1>11

\* Between writes of an undamaged file the chain of diffs tells every text since the
\* damage, in order, and each diff starts from the text before it or from what rendering
\* makes of that, whichever writes hold what rendering replaces, for any number of writes,
\* stops and diff commands; without damage the whole history is there.
THEOREM HistoryIsIntact == Spec => []HistoryIntact
<1>1. TextInv => HistoryIntact
  <2>. SUFFICES ASSUME TextInv, Idle, ~spoiled, log # <<>>
                PROVE  /\ CurrentText = Last(log)
                       /\ Newest(log, Chain)
                       /\ Linked(CurrentText, SubSeq(Chain, 1, Len(log)))
                       /\ Calm => Len(Chain) = Len(log) /\ Last(Chain).from = NoText
    BY DEF HistoryIntact, Calm
  <2>. DEFINE n == Len(log)
              h == header
  <2>0. TypeInv /\ WholeInv /\ CalmInv
    BY DEF TextInv
  <2>1. CurrentText = Last(log)
    BY <2>0, CurrentIs DEF Idle, Reading
  <2>2. n \in Nat /\ n >= 1 /\ Last(log) = log[n]
    BY <2>0, LogType
  <2>3. /\ Chain \in Seq(DiffRec) /\ Len(Chain) >= n /\ (Calm => Len(Chain) = n)
        /\ \A i \in 1..n : Chain[i] = cells[h - i] /\ Told(h, i)
    BY ChainTells
  <2>4. \A i \in 1..n : /\ Chain[i].to = log[n - i + 1]
                        /\ i < n => GoesOn(Chain[i].from, log[n - i])
    BY <2>3 DEF Told
  <2>5. Newest(log, Chain)
    BY <2>3, <2>4 DEF Newest
  <2>6. Linked(CurrentText, SubSeq(Chain, 1, n))
    <3>. DEFINE s == SubSeq(Chain, 1, n)
    <3>1. Len(s) = n /\ \A i \in 1..n : s[i] = Chain[i]
      BY <2>2, <2>3
    <3>. HIDE DEF s
    <3>2. ASSUME NEW i \in 1..n
          PROVE  Leads(CurrentText, s, i)
      <4>1. CASE i = 1
        <5>1. n - i + 1 = n
          BY <2>2, <4>1
        <5>. QED
          BY <2>1, <2>2, <2>4, <3>1, <4>1, <5>1 DEF Leads
      <4>2. CASE i # 1
        <5>1. i - 1 \in 1..n /\ i - 1 < n /\ n - (i - 1) = n - i + 1
          BY <2>2, <4>2
        <5>2. s[i].to = log[n - i + 1] /\ GoesOn(s[i - 1].from, log[n - i + 1])
          BY <2>4, <3>1, <4>2, <5>1
        <5>. QED
          BY <4>2, <5>2 DEF Leads
      <4>. QED
        BY <4>1, <4>2
    <3>3. Linked(CurrentText, s)
      BY <3>1, <3>2 DEF Linked
    <3>. QED
      BY <3>3 DEF s
  <2>7. Calm => Last(Chain).from = NoText
    <3>. SUFFICES ASSUME Calm PROVE Last(Chain).from = NoText
      OBVIOUS
    <3>1. h = n + 1 /\ cells[1].from = NoText
      BY <2>0 DEF CalmInv
    <3>2. Last(Chain) = Chain[n] /\ n \in 1..n /\ h - n = 1
      BY <2>2, <2>3, <3>1 DEF Last
    <3>. QED
      BY <2>3, <3>1, <3>2
  <2>. QED
    BY <2>1, <2>3, <2>5, <2>6, <2>7
<1>. QED
  BY <1>1, Invariant, PTL

\* What the console shows hangs together, whatever was written while it read: each diff
\* leads on to the one shown before it, or is what was emptied away, and the newest leads to
\* the text, unless that was overwritten while it was read.
THEOREM ConsoleIsCoherent == Spec => []ConsoleCoherent
<1>1. TextInv => ConsoleCoherent
  BY DEF TextInv, ShowInv, ConsoleCoherent
<1>. QED
  BY <1>1, Invariant, PTL
=============================================================================

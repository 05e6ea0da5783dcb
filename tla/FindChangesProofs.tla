-------------------------- MODULE FindChangesProofs --------------------------
(***************************************************************************)
(* What find_changes records, for texts of any length over any letters.    *)
(***************************************************************************)
EXTENDS FindChanges, SequenceTheorems, NaturalsInduction, WellFoundedInduction, TLAPS

Chars == Letters \cup Breaks

\* A set of numbers that is not empty has a least one.
LEMMA Least ==
  ASSUME NEW T \in SUBSET Nat, T # {}
  PROVE  \E x \in T : \A y \in T : x <= y
<1>. DEFINE R == {ss \in Nat \X Nat : ss[1] < ss[2]}
<1>1. OpToRel(<, Nat) = R
  BY DEF OpToRel
<1>2. IsWellFoundedOn(R, Nat)
  BY <1>1, NatLessThanWellFounded
<1>3. PICK x \in T : \A y \in T : <<y, x>> \notin R
  <2>. HIDE DEF R
  <2>. QED
    BY <1>2, WFMin
<1>4. ASSUME NEW y \in T PROVE x <= y
  <2>1. <<y, x>> \notin R
    <3>. HIDE DEF R
    <3>. QED
      BY <1>3
  <2>2. <<y, x>> \in Nat \X Nat
    OBVIOUS
  <2>3. ~(y < x)
    BY <2>1, <2>2
  <2>. QED
    BY <2>3
<1>. QED
  BY <1>4

-----------------------------------------------------------------------------
(* Lines.                                                                    *)

\* A line ends at the first break, or with the text.
LEMMA LineLenIs ==
  ASSUME NEW t \in Seq(Chars), NEW i \in 0..Len(t)
  PROVE  /\ LineLen(t, i) \in 0..(Len(t) - i)
         /\ i + LineLen(t, i) = Len(t) \/ t[i + LineLen(t, i) + 1] \in Breaks
         /\ \A n \in 0..(Len(t) - i) : n < LineLen(t, i) => i + n # Len(t) /\ t[i + n + 1] \notin Breaks
<1>. DEFINE S == {n \in 0..(Len(t) - i) : i + n = Len(t) \/ t[i + n + 1] \in Breaks}
<1>1. Len(t) \in Nat
  BY LenProperties
<1>2. Len(t) - i \in S /\ S \in SUBSET Nat
  BY <1>1
<1>3. LineLen(t, i) = CHOOSE x \in S : \A y \in S : x <= y
  BY DEF LineLen, Min
<1>4. LineLen(t, i) \in S /\ \A y \in S : LineLen(t, i) <= y
  <2>. HIDE DEF S
  <2>1. \E x \in S : \A y \in S : x <= y
    BY <1>2, Least
  <2>. QED
    BY <1>3, <2>1
<1>. QED
  BY <1>1, <1>4

\* Skipping a line goes on, up to the end of the text.
LEMMA SkipLineIs ==
  ASSUME NEW t \in Seq(Chars), NEW i \in 0..Len(t)
  PROVE  /\ SkipLine(t, i) \in i..Len(t) /\ i + LineLen(t, i) <= SkipLine(t, i)
         /\ i < Len(t) => i < SkipLine(t, i)
         /\ i + LineLen(t, i) < Len(t) => i + LineLen(t, i) < SkipLine(t, i)
<1>. DEFINE e == i + LineLen(t, i)
<1>1. Len(t) \in Nat /\ LineLen(t, i) \in 0..(Len(t) - i)
  BY LineLenIs, LenProperties
<1>2. e \in i..Len(t) /\ e \in Nat /\ i \in Nat
  BY <1>1
<1>3. SkipLine(t, i) = IF e = Len(t) THEN e
                       ELSE IF e + 1 < Len(t) /\ t[e + 2] = LF THEN e + 2 ELSE e + 1
  BY DEF SkipLine
<1>. HIDE DEF e
<1>4. /\ SkipLine(t, i) \in i..Len(t) /\ e <= SkipLine(t, i)
      /\ i < Len(t) => i < SkipLine(t, i)
      /\ e < Len(t) => e < SkipLine(t, i)
  BY <1>1, <1>2, <1>3
<1>. QED
  BY <1>4 DEF e

\* One turn of search_line, given its result for what is behind.
Turn(t, line, f, j) ==
  IF LineLen(t, j) = 0 THEN NotFound
  ELSE IF Line(t, j) = line THEN j
  ELSE f[SkipLine(t, j)]

LEMMA SearchExists ==
  ASSUME NEW t \in Seq(Chars), NEW line
  PROVE  \E f : f = [j \in 0..Len(t) |-> Turn(t, line, f, j)]
<1>. DEFINE N == Len(t)
            Good(n) == \E f : DOMAIN f = (N - n)..N /\ \A j \in (N - n)..N : f[j] = Turn(t, line, f, j)
            Bad == {n \in 0..N : ~Good(n)}
<1>n. N \in Nat
  BY LenProperties
<1>0. N \in Nat /\ Bad \in SUBSET Nat
  BY <1>n
<1>a. \A j \in 0..N : /\ LineLen(t, j) \in 0..(N - j)
                       /\ SkipLine(t, j) \in j..N /\ (j < N => j < SkipLine(t, j))
  BY LineLenIs, SkipLineIs
<1>1. Bad = {}
  <2>. SUFFICES ASSUME Bad # {} PROVE FALSE
    OBVIOUS
  <2>. HIDE DEF Good
  <2>1. PICK n \in Bad : \A m \in Bad : n <= m
    BY <1>0, Least
  <2>2. n \in 0..N /\ ~Good(n)
    OBVIOUS
  <2>3. CASE n = 0
    <3>. DEFINE f == [j \in N..N |-> NotFound]
    <3>1. LineLen(t, N) = 0
      <4>1. N \in 0..N /\ N - N = 0
        BY <1>n
      <4>2. LineLen(t, N) \in 0..(N - N)
        BY <1>a, <4>1
      <4>. QED
        BY <4>1, <4>2
    <3>2. \A j \in N..N : f[j] = Turn(t, line, f, j)
      BY <1>0, <3>1 DEF Turn
    <3>3. DOMAIN f = (N - 0)..N /\ (N - 0)..N = N..N
      BY <1>0
    <3>. HIDE DEF f
    <3>. QED
      BY <2>2, <2>3, <3>2, <3>3 DEF Good
  <2>4. CASE n # 0
    <3>1. n - 1 \in 0..N /\ ~(n <= n - 1)
      BY <1>0, <2>2, <2>4
    <3>2. Good(n - 1)
      BY <2>1, <3>1
    <3>3. PICK f : /\ DOMAIN f = (N - (n - 1))..N
                   /\ \A j \in (N - (n - 1))..N : f[j] = Turn(t, line, f, j)
      BY <3>2 DEF Good
    <3>. DEFINE g == [j \in (N - n)..N |-> IF j = N - n THEN Turn(t, line, f, j) ELSE f[j]]
    <3>4. ASSUME NEW j \in (N - n)..N PROVE g[j] = Turn(t, line, g, j)
      <4>1. j \in 0..N /\ N - n < N
        BY <1>0, <2>2, <2>4
      <4>2. LineLen(t, j) # 0 => SkipLine(t, j) \in (N - (n - 1))..N
        <5>1. LineLen(t, j) # 0 => j < N
          BY <1>n, <1>a, <4>1
        <5>2. j < N => SkipLine(t, j) \in (N - (n - 1))..N
          BY <1>n, <1>a, <2>2, <4>1
        <5>. QED
          BY <5>1, <5>2
      <4>3. LineLen(t, j) # 0 => g[SkipLine(t, j)] = f[SkipLine(t, j)]
        <5>1. \A k \in (N - (n - 1))..N : k \in (N - n)..N /\ k # N - n
          BY <1>0, <2>2
        <5>. QED
          BY <4>2, <5>1
      <4>4. Turn(t, line, g, j) = Turn(t, line, f, j)
        <5>. HIDE DEF g
        <5>. QED
          BY <4>3 DEF Turn
      <4>5. g[j] = Turn(t, line, f, j)
        <5>1. CASE j = N - n
          BY <5>1
        <5>2. CASE j # N - n
          <6>1. j \in (N - (n - 1))..N
            BY <1>0, <2>2, <5>2
          <6>. QED
            BY <3>3, <5>2, <6>1
        <5>. QED
          BY <5>1, <5>2
      <4>. HIDE DEF g
      <4>. QED
        BY <4>4, <4>5
    <3>5. DOMAIN g = (N - n)..N
      OBVIOUS
    <3>. HIDE DEF g
    <3>. QED
      BY <2>2, <3>4, <3>5 DEF Good
  <2>. QED
    BY <2>3, <2>4
<1>2. N \in 0..N /\ N - N = 0
  BY <1>0
<1>3. PICK f : DOMAIN f = 0..N /\ \A j \in 0..N : f[j] = Turn(t, line, f, j)
  BY <1>1, <1>2
<1>. DEFINE g == [j \in 0..N |-> f[j]]
<1>4. \A j \in 0..N : Turn(t, line, g, j) = Turn(t, line, f, j)
  <2>1. \A j \in 0..N : SkipLine(t, j) \in 0..N
    BY <1>0, SkipLineIs
  <2>. QED
    BY <2>1 DEF Turn
<1>5. g = [j \in 0..N |-> Turn(t, line, g, j)]
  <2>1. \A j \in 0..N : g[j] = Turn(t, line, g, j)
    <3>1. \A j \in 0..N : g[j] = f[j]
      OBVIOUS
    <3>. HIDE DEF g
    <3>. QED
      BY <1>3, <1>4, <3>1
  <2>2. g = [j \in 0..N |-> g[j]]
    OBVIOUS
  <2>. HIDE DEF g
  <2>3. [j \in 0..N |-> g[j]] = [j \in 0..N |-> Turn(t, line, g, j)]
    BY <2>1
  <2>. QED
    BY <2>2, <2>3
<1>. QED
  BY <1>5

\* Where texts have been cut into lines.
Begins(t, i) == i \in {0, Len(t)} \/ t[i] = LF

\* search_line stops at a line that is the given one and not empty, or finds none.
LEMMA SearchLineIs ==
  ASSUME NEW t \in Seq(Chars), NEW i \in 0..Len(t), NEW line
  PROVE  \/ SearchLine(t, i, line) = NotFound
         \/ /\ SearchLine(t, i, line) \in i..Len(t)
            /\ LineLen(t, SearchLine(t, i, line)) # 0
            /\ Line(t, SearchLine(t, i, line)) = line
            /\ (\A j \in 0..Len(t) : Begins(t, j) => Begins(t, SkipLine(t, j))) /\ Begins(t, i) =>
                 Begins(t, SearchLine(t, i, line))
<1>. DEFINE N == Len(t)
            search == CHOOSE f : f = [j \in 0..N |-> Turn(t, line, f, j)]
            Follows == \A j \in 0..N : Begins(t, j) => Begins(t, SkipLine(t, j))
            Found(j, r) == /\ r \in j..N /\ LineLen(t, r) # 0 /\ Line(t, r) = line
                           /\ Follows /\ Begins(t, j) => Begins(t, r)
            Fine(j) == search[j] = NotFound \/ Found(j, search[j])
            Bad == {n \in 0..N : ~Fine(N - n)}
<1>n. N \in Nat
  BY LenProperties
<1>0. N \in Nat /\ Bad \in SUBSET Nat
  BY <1>n
<1>a. \A j \in 0..N : /\ LineLen(t, j) \in 0..(N - j)
                       /\ SkipLine(t, j) \in j..N /\ (j < N => j < SkipLine(t, j))
  BY LineLenIs, SkipLineIs
<1>1. SearchLine(t, i, line) = search[i]
  BY DEF SearchLine, Turn
<1>2. search = [j \in 0..N |-> Turn(t, line, search, j)]
  BY SearchExists
<1>. HIDE DEF search
<1>3. \A j \in 0..N : search[j] = Turn(t, line, search, j)
  <2>1. \A j \in 0..N : [k \in 0..N |-> Turn(t, line, search, k)][j] = Turn(t, line, search, j)
    OBVIOUS
  <2>. QED
    BY <1>2, <2>1
<1>4. Bad = {}
  <2>. SUFFICES ASSUME Bad # {} PROVE FALSE
    OBVIOUS
  <2>. HIDE DEF Fine
  <2>1. PICK n \in Bad : \A m \in Bad : n <= m
    BY <1>0, Least
  <2>. DEFINE j == N - n
              k == SkipLine(t, j)
  <2>2. n \in 0..N /\ ~Fine(j) /\ j \in 0..N
    BY <1>0
  <2>j. j \in 0..N
    BY <2>2
  <2>3. search[j] = Turn(t, line, search, j)
    BY <1>3, <2>2
  <2>4. CASE LineLen(t, j) = 0
    BY <2>2, <2>3, <2>4 DEF Turn, Fine
  <2>5. CASE LineLen(t, j) # 0 /\ Line(t, j) = line
    <3>1. search[j] = j /\ j \in j..N
      BY <1>0, <2>2, <2>3, <2>5 DEF Turn
    <3>2. Found(j, j)
      BY <2>5, <3>1
    <3>. QED
      BY <2>2, <3>1, <3>2 DEF Fine
  <2>6. CASE LineLen(t, j) # 0 /\ Line(t, j) # line
    <3>1. search[j] = search[k]
      BY <2>3, <2>6 DEF Turn
    <3>2. j < N
      <4>. HIDE DEF j
      <4>. QED
        BY <1>n, <1>a, <2>j, <2>6
    <3>3. k \in 0..N /\ j < k
      <4>. HIDE DEF j
      <4>. QED
        BY <1>n, <1>a, <2>j, <3>2
    <3>4. N - k \in 0..N /\ ~(n <= N - k) /\ N - (N - k) = k
      BY <1>0, <2>2, <3>3
    <3>5. Fine(k)
      BY <2>1, <3>4
    <3>6. Found(k, search[k]) => Found(j, search[k])
      BY <1>0, <2>2, <3>3
    <3>. HIDE DEF Found, j, k
    <3>. QED
      BY <2>2, <3>1, <3>5, <3>6 DEF Fine
  <2>. QED
    BY <2>4, <2>5, <2>6
<1>5. N - i \in 0..N /\ N - (N - i) = i
  BY <1>0
<1>6. Fine(i)
  BY <1>4, <1>5
<1>. QED
  BY <1>1, <1>6
-----------------------------------------------------------------------------
(* Types and order.                                                          *)

Changes == [pos : Nat, txt : Seq(Chars)]
TypeInv ==
  /\ old \in Seq(Chars) /\ new \in Seq(Chars)
  /\ TypeOK
  /\ adds \in Seq(Changes) /\ dels \in Seq(Changes)

\* A line that is found is not behind, and is that of the new text, or the end of both.
LEMMA DeletionIs ==
  ASSUME TypeInv, Deletion # NotFound
  PROVE  /\ Deletion \in from..Len(old)
         /\ to = Len(new) => Deletion = Len(old)
         /\ to # Len(new) => /\ LineLen(old, Deletion) # 0 /\ Deletion < Len(old)
                             /\ Line(old, Deletion) = Line(new, to)
<1>1. /\ old \in Seq(Chars) /\ Len(old) \in Nat /\ from \in 0..Len(old)
  BY LenProperties DEF TypeInv, TypeOK
<1>2. CASE to = Len(new)
  BY <1>1, <1>2 DEF Deletion
<1>3. CASE to # Len(new)
  <2>. DEFINE line == Line(new, to)
              r == SearchLine(old, from, line)
  <2>1. Deletion = r
    BY <1>3 DEF Deletion
  <2>. HIDE DEF line
  <2>2. r \in from..Len(old) /\ LineLen(old, r) # 0 /\ Line(old, r) = line
    BY <1>1, <2>1, SearchLineIs
  <2>. HIDE DEF r
  <2>3. r < Len(old)
    <3>1. r \in 0..Len(old)
      BY <1>1, <2>2
    <3>2. LineLen(old, r) \in 0..(Len(old) - r)
      BY <1>1, <3>1, LineLenIs
    <3>. QED
      BY <1>1, <2>2, <3>1, <3>2
  <2>. QED
    BY <1>3, <2>1, <2>2, <2>3 DEF line
<1>. QED
  BY <1>2, <1>3

\* At the end of a text there is an empty line, and elsewhere one of its length.
LEMMA LineIs ==
  ASSUME NEW t \in Seq(Chars), NEW i \in 0..Len(t)
  PROVE  /\ i = Len(t) => Line(t, i) = <<>>
         /\ LineLen(t, i) > 0 => Line(t, i) # <<>>
<1>1. Len(t) \in Nat /\ LineLen(t, i) \in 0..(Len(t) - i)
  BY LenProperties, LineLenIs
<1>2. ASSUME i = Len(t) PROVE Line(t, i) = <<>>
  <2>1. i + LineLen(t, i) < i + 1
    BY <1>1, <1>2
  <2>. QED
    BY <1>1, <2>1, SubSeqEmpty DEF Line
<1>3. ASSUME LineLen(t, i) > 0 PROVE Line(t, i) # <<>>
  <2>. DEFINE e == i + LineLen(t, i)
  <2>1. i + 1 \in Int /\ e \in Int /\ i + 1 <= e /\ e - (i + 1) + 1 > 0
    BY <1>1, <1>3
  <2>2. \A k \in i + 1..e : t[k] \in Chars
    <3>1. \A k \in i + 1..e : k \in 1..Len(t)
      BY <1>1
    <3>. QED
      BY <3>1, ElementOfSeq
  <2>. HIDE DEF e
  <2>3. Len(SubSeq(t, i + 1, e)) # 0
    BY <2>1, <2>2, SubSeqProperties
  <2>4. Len(<<>>) = 0
    BY EmptySeq
  <2>5. SubSeq(t, i + 1, e) # <<>>
    BY <2>3, <2>4, Zenon
  <2>. QED
    BY <2>5 DEF Line, e
<1>. QED
  BY <1>2, <1>3

\* At the ends of both texts the lines are the same, empty ones.
LEMMA SameAtEnd == ASSUME TypeInv, AtEnd PROVE SameLine
<1>1. /\ old \in Seq(Chars) /\ Len(old) \in Nat /\ new \in Seq(Chars) /\ Len(new) \in Nat
  BY LenProperties DEF TypeInv
<1>2. Len(old) \in 0..Len(old) /\ Len(new) \in 0..Len(new)
  BY <1>1
<1>. QED
  BY <1>1, <1>2, LineIs DEF AtEnd, SameLine

\* What is recorded is a change.
LEMMA Recorded ==
  ASSUME TypeInv, Deletion # NotFound
  PROVE  LET add == Change(from, SubSeq(new, insertion + 1, to))
             del == Change(from, SubSeq(old, from + 1, Deletion))
         IN /\ add \in Changes /\ add.pos = from /\ add.txt = SubSeq(new, insertion + 1, to)
            /\ del \in Changes /\ del.pos = from /\ del.txt = SubSeq(old, from + 1, Deletion)
            /\ Len(add.txt) = to - insertion
            /\ Len(del.txt) = Deletion - from
<1>1. /\ old \in Seq(Chars) /\ Len(old) \in Nat /\ new \in Seq(Chars) /\ Len(new) \in Nat
      /\ from \in 0..Len(old) /\ to \in 0..Len(new) /\ insertion \in 0..to
      /\ Deletion \in from..Len(old)
  BY LenProperties, DeletionIs DEF TypeInv, TypeOK
<1>2. ASSUME NEW t \in Seq(Chars), NEW i \in Nat, NEW j \in Nat, i <= j, j <= Len(t), Len(t) \in Nat
      PROVE  SubSeq(t, i + 1, j) \in Seq(Chars) /\ Len(SubSeq(t, i + 1, j)) = j - i
  <2>1. \A k \in i + 1..j : t[k] \in Chars
    BY <1>2, ElementOfSeq
  <2>. QED
    BY <1>2, <2>1, SubSeqProperties
<1>3. /\ from \in Nat /\ to \in Nat /\ insertion \in Nat /\ Deletion \in Nat /\ from <= Deletion
      /\ insertion <= to /\ to <= Len(new) /\ Deletion <= Len(old)
  BY <1>1
<1>4. /\ SubSeq(new, insertion + 1, to) \in Seq(Chars)
      /\ Len(SubSeq(new, insertion + 1, to)) = to - insertion
      /\ SubSeq(old, from + 1, Deletion) \in Seq(Chars)
      /\ Len(SubSeq(old, from + 1, Deletion)) = Deletion - from
  BY <1>1, <1>2, <1>3
<1>. QED
  BY <1>3, <1>4 DEF Change, Changes

\* How far the next turn of the loops goes.
LEMMA Onward ==
  ASSUME TypeInv
  PROVE  /\ Len(old) \in Nat /\ from \in 0..Len(old)
         /\ SkipLine(old, from) \in from..Len(old)
         /\ from < Len(old) => from < SkipLine(old, from)
         /\ Len(new) \in Nat /\ to \in 0..Len(new) /\ insertion \in 0..to
         /\ SkipLine(new, to) \in to..Len(new)
         /\ to < Len(new) => to < SkipLine(new, to)
         /\ to + LineLen(new, to) \in to..SkipLine(new, to)
<1>1. /\ old \in Seq(Chars) /\ Len(old) \in Nat /\ new \in Seq(Chars) /\ Len(new) \in Nat
      /\ from \in 0..Len(old) /\ to \in 0..Len(new) /\ insertion \in 0..to
  BY LenProperties DEF TypeInv, TypeOK
<1>2. /\ SkipLine(old, from) \in from..Len(old)
      /\ from < Len(old) => from < SkipLine(old, from)
  BY <1>1, SkipLineIs
<1>3. /\ SkipLine(new, to) \in to..Len(new)
      /\ to < Len(new) => to < SkipLine(new, to)
      /\ to + LineLen(new, to) <= SkipLine(new, to)
      /\ LineLen(new, to) \in 0..(Len(new) - to)
  BY <1>1, SkipLineIs, LineLenIs
<1>4. to + LineLen(new, to) \in to..SkipLine(new, to)
  BY <1>1, <1>3
<1>. QED
  BY <1>1, <1>2, <1>3, <1>4

LEMMA TypeStep == TypeInv /\ [Next]_vars => TypeInv'
<1>. SUFFICES ASSUME TypeInv, [Next]_vars PROVE TypeInv'
  OBVIOUS
<1>0. /\ old \in Seq(Chars) /\ new \in Seq(Chars) /\ adds \in Seq(Changes) /\ dels \in Seq(Changes)
      /\ pc \in {"lines", "search", "done"}
  BY DEF TypeInv, TypeOK
<1>1. CASE Equal
  <2>1. /\ from' = SkipLine(old, from) /\ to' = SkipLine(new, to)
        /\ insertion' \in {to + LineLen(new, to), SkipLine(new, to)}
        /\ UNCHANGED <<old, new, adds, dels, pc>>
    BY <1>1 DEF Equal
  <2>2. from' \in 0..Len(old) /\ to' \in 0..Len(new) /\ insertion' \in 0..to'
    BY <2>1, Onward
  <2>. QED
    BY <1>0, <2>1, <2>2 DEF TypeInv, TypeOK
<1>2. CASE Differ
  BY <1>2 DEF Differ, TypeInv, TypeOK
<1>3. CASE Advance
  <2>1. to' = SkipLine(new, to) /\ UNCHANGED <<old, new, from, insertion, adds, dels, pc>>
    BY <1>3 DEF Advance
  <2>2. from' \in 0..Len(old) /\ to' \in 0..Len(new) /\ insertion' \in 0..to'
    BY <2>1, Onward
  <2>. QED
    BY <1>0, <2>1, <2>2 DEF TypeInv, TypeOK
<1>4. CASE Record
  <2>. DEFINE add == Change(from, SubSeq(new, insertion + 1, to))
              del == Change(from, SubSeq(old, from + 1, Deletion))
  <2>1. /\ adds' \in {adds, Append(adds, add)} /\ dels' \in {dels, Append(dels, del)}
        /\ from' = Deletion /\ pc' = "lines" /\ UNCHANGED <<old, new, to, insertion>>
        /\ Deletion # NotFound
    BY <1>4 DEF Record
  <2>2. add \in Changes /\ del \in Changes
    BY <2>1, Recorded
  <2>. HIDE DEF add, del
  <2>3. adds' \in Seq(Changes) /\ dels' \in Seq(Changes)
    <3>1. \A s \in Seq(Changes), c \in Changes : Append(s, c) \in Seq(Changes)
      BY AppendProperties
    <3>2. Append(adds, add) \in Seq(Changes) /\ Append(dels, del) \in Seq(Changes)
      BY <1>0, <2>2, <3>1
    <3>. QED
      BY <1>0, <2>1, <3>2
  <2>4. Deletion \in 0..Len(old)
    BY <2>1, DeletionIs, Onward
  <2>. QED
    BY <1>0, <2>1, <2>3, <2>4, Onward DEF TypeInv, TypeOK
<1>5. CASE Return
  BY <1>5 DEF Return, TypeInv, TypeOK
<1>6. CASE UNCHANGED vars
  BY <1>6 DEF vars, TypeInv, TypeOK
<1>. QED
  BY <1>1, <1>2, <1>3, <1>4, <1>5, <1>6 DEF Next

LEMMA TypeHolds == Spec => []TypeInv
<1>1. Init => TypeInv
  <2>. SUFFICES ASSUME Init PROVE TypeInv
    OBVIOUS
  <2>1. old \in Seq(Chars) /\ new \in Seq(Chars)
    BY TextsAssumption DEF Init, Chars
  <2>2. 0 \in 0..Len(old) /\ 0 \in 0..Len(new) /\ 0 \in 0..0
    BY <2>1, LenProperties
  <2>. QED
    BY <2>1, <2>2 DEF Init, TypeInv, TypeOK
<1>. QED
  BY <1>1, TypeStep, PTL DEF Spec

\* The offsets find_changes works with stay in their texts, however long these are.
THEOREM TypeCorrect == Spec => []TypeOK
<1>1. TypeInv => TypeOK
  BY DEF TypeInv
<1>. QED
  BY <1>1, TypeHolds, PTL

-----------------------------------------------------------------------------
(* Order.                                                                    *)

\* What has been recorded is behind: an equal line lies between.
Apart ==
  /\ \A k \in DOMAIN adds : adds[k].pos < from
  /\ \A k \in DOMAIN dels : End(dels[k]) < from
\* After a change the next lines are the same, so that they are not changed as well.
OrderInv ==
  /\ ChangesInOrder
  /\ pc = "lines" => AtEnd \/ Apart \/ (SameLine /\ from < Len(old))
  /\ pc = "search" => Apart

LEMMA OrderStep == TypeInv /\ OrderInv /\ [Next]_vars => OrderInv'
<1>. SUFFICES ASSUME TypeInv, OrderInv, [Next]_vars PROVE OrderInv'
  OBVIOUS
<1>0. /\ adds \in Seq(Changes) /\ dels \in Seq(Changes)
      /\ Len(old) \in Nat /\ from \in 0..Len(old) /\ Len(new) \in Nat /\ to \in 0..Len(new)
  BY Onward DEF TypeInv
<1>a. /\ \A k \in DOMAIN adds : adds[k].pos \in Nat
      /\ \A k \in DOMAIN dels : End(dels[k]) \in Nat
  <2>1. \A c \in Changes : c.pos \in Nat /\ c.txt \in Seq(Chars) /\ Len(c.txt) \in Nat
    BY LenProperties DEF Changes
  <2>2. \A c \in Changes : End(c) \in Nat
    BY <2>1 DEF End
  <2>3. \A k \in DOMAIN adds : adds[k] \in Changes
    BY <1>0
  <2>4. \A k \in DOMAIN dels : dels[k] \in Changes
    BY <1>0
  <2>. QED
    BY <2>1, <2>2, <2>3, <2>4
<1>1. CASE Equal
  <2>1. /\ pc = "lines" /\ ~AtEnd /\ SameLine
        /\ from' = SkipLine(old, from) /\ UNCHANGED <<old, adds, dels, pc>>
        /\ to' = SkipLine(new, to) /\ new' = new
    BY <1>1 DEF Equal
  <2>2. from' \in from..Len(old) /\ (from < Len(old) => from < from')
    BY <2>1, Onward
  <2>3. ChangesInOrder'
    BY <1>0, <1>a, <2>1, <2>2 DEF OrderInv, ChangesInOrder, End
  <2>4. from < Len(old) \/ Apart
    BY <1>0, <2>1 DEF OrderInv
  <2>5. Apart'
    <3>1. CASE Apart
      BY <1>0, <1>a, <2>1, <2>2, <3>1 DEF Apart, End
    <3>2. CASE from < Len(old)
      BY <1>0, <1>a, <2>1, <2>2, <3>2 DEF Apart, End, OrderInv, ChangesInOrder
    <3>. QED
      BY <2>4, <3>1, <3>2
  <2>. QED
    BY <2>1, <2>3, <2>5 DEF OrderInv
<1>2. CASE Differ
  <2>1. /\ pc = "lines" /\ ~AtEnd /\ ~SameLine /\ pc' = "search"
        /\ UNCHANGED <<old, new, from, to, insertion, adds, dels>>
    BY <1>2 DEF Differ
  <2>2. Apart /\ ChangesInOrder
    BY <2>1 DEF OrderInv
  <2>3. Apart' /\ ChangesInOrder'
    BY <2>1, <2>2 DEF Apart, ChangesInOrder, End
  <2>. QED
    BY <2>1, <2>3 DEF OrderInv
<1>3. CASE Advance
  <2>1. pc = "search" /\ UNCHANGED <<old, new, from, insertion, adds, dels, pc>>
    BY <1>3 DEF Advance
  <2>2. Apart /\ ChangesInOrder
    BY <2>1 DEF OrderInv
  <2>3. Apart' /\ ChangesInOrder'
    BY <2>1, <2>2 DEF Apart, ChangesInOrder, End
  <2>. QED
    BY <2>1, <2>3 DEF OrderInv
<1>4. CASE Record
  <2>. DEFINE add == Change(from, SubSeq(new, insertion + 1, to))
              del == Change(from, SubSeq(old, from + 1, Deletion))
  <2>1. /\ pc = "search" /\ Deletion # NotFound
        /\ adds' = IF to > insertion THEN Append(adds, add) ELSE adds
        /\ dels' = IF Deletion > from THEN Append(dels, del) ELSE dels
        /\ from' = Deletion /\ pc' = "lines" /\ UNCHANGED <<old, new, to, insertion>>
    BY <1>4 DEF Record
  <2>2. Apart /\ ChangesInOrder
    BY <2>1 DEF OrderInv
  <2>3. /\ add.pos = from /\ Len(add.txt) = to - insertion
        /\ del.pos = from /\ Len(del.txt) = Deletion - from
        /\ del.txt = SubSeq(old, from + 1, Deletion)
    BY <2>1, Recorded
  <2>4. Deletion \in from..Len(old) /\ insertion \in 0..to
    BY <2>1, DeletionIs, Onward
  <2>. HIDE DEF add, del
  <2>5. End(del) = Deletion
    BY <1>0, <2>3, <2>4 DEF End
  <2>6. /\ to > insertion => add.txt # <<>>
        /\ Deletion > from => del.txt # <<>>
    <3>1. Len(<<>>) = 0
      BY EmptySeq
    <3>2. to > insertion => Len(add.txt) # 0
      BY <1>0, <2>3, <2>4
    <3>3. Deletion > from => Len(del.txt) # 0
      BY <1>0, <2>3, <2>4
    <3>. QED
      BY <3>1, <3>2, <3>3, Zenon
  <2>7. /\ \A k \in DOMAIN adds' : adds'[k].txt # <<>> /\ adds'[k].pos <= from'
        /\ \A j, k \in DOMAIN adds' : j < k => adds'[j].pos < adds'[k].pos
    <3>1. CASE to > insertion
      <4>1. adds' = Append(adds, add) /\ DOMAIN adds' = 1..Len(adds) + 1
            /\ DOMAIN adds = 1..Len(adds) /\ Len(adds) \in Nat
            /\ (\A k \in DOMAIN adds : adds'[k] = adds[k]) /\ adds'[Len(adds) + 1] = add
        BY <1>0, <2>1, <3>1
      <4>2. \A k \in DOMAIN adds' : k \in DOMAIN adds \/ k = Len(adds) + 1
        BY <4>1
      <4>3. \A k \in DOMAIN adds' : adds'[k].txt # <<>> /\ adds'[k].pos <= from'
        BY <1>0, <1>a, <2>1, <2>2, <2>3, <2>4, <2>6, <3>1, <4>1, <4>2 DEF Apart, ChangesInOrder
      <4>4. ASSUME NEW j \in DOMAIN adds', NEW k \in DOMAIN adds', j < k
            PROVE  adds'[j].pos < adds'[k].pos
        <5>1. j \in DOMAIN adds
          BY <4>1, <4>4
        <5>2. CASE k \in DOMAIN adds
          BY <2>2, <4>1, <4>4, <5>1, <5>2 DEF ChangesInOrder
        <5>3. CASE k = Len(adds) + 1
          BY <2>2, <2>3, <4>1, <5>1, <5>3 DEF Apart
        <5>. QED
          BY <4>2, <5>2, <5>3
      <4>. QED
        BY <4>3, <4>4
    <3>2. CASE ~(to > insertion)
      <4>1. adds' = adds
        BY <2>1, <3>2
      <4>. QED
        BY <1>0, <1>a, <2>1, <2>2, <2>4, <4>1 DEF Apart, ChangesInOrder
    <3>. QED
      BY <3>1, <3>2
  <2>8. /\ \A k \in DOMAIN dels' :
             /\ dels'[k].txt # <<>> /\ End(dels'[k]) <= from'
             /\ dels'[k].txt = SubSeq(old, dels'[k].pos + 1, End(dels'[k]))
        /\ \A j, k \in DOMAIN dels' : j < k => End(dels'[j]) < dels'[k].pos
    <3>1. CASE Deletion > from
      <4>1. dels' = Append(dels, del) /\ DOMAIN dels' = 1..Len(dels) + 1
            /\ DOMAIN dels = 1..Len(dels) /\ Len(dels) \in Nat
            /\ (\A k \in DOMAIN dels : dels'[k] = dels[k]) /\ dels'[Len(dels) + 1] = del
        BY <1>0, <2>1, <3>1
      <4>2. \A k \in DOMAIN dels' : k \in DOMAIN dels \/ k = Len(dels) + 1
        BY <4>1
      <4>3. ASSUME NEW k \in DOMAIN dels'
            PROVE  /\ dels'[k].txt # <<>> /\ End(dels'[k]) <= from'
                   /\ dels'[k].txt = SubSeq(old, dels'[k].pos + 1, End(dels'[k]))
        <5>1. CASE k \in DOMAIN dels
          BY <1>0, <1>a, <2>1, <2>2, <2>4, <4>1, <5>1 DEF Apart, ChangesInOrder
        <5>2. CASE k = Len(dels) + 1
          <6>1. dels'[k] = del
            BY <4>1, <5>2
          <6>2. del.txt # <<>> /\ End(del) <= from'
            BY <1>0, <2>1, <2>4, <2>5, <2>6, <3>1
          <6>3. del.txt = SubSeq(old, del.pos + 1, End(del))
            BY <2>3, <2>5
          <6>. QED
            BY <6>1, <6>2, <6>3
        <5>. QED
          BY <4>2, <5>1, <5>2
      <4>4. ASSUME NEW j \in DOMAIN dels', NEW k \in DOMAIN dels', j < k
            PROVE  End(dels'[j]) < dels'[k].pos
        <5>1. j \in DOMAIN dels
          BY <4>1, <4>4
        <5>2. CASE k \in DOMAIN dels
          BY <2>2, <4>1, <4>4, <5>1, <5>2 DEF ChangesInOrder
        <5>3. CASE k = Len(dels) + 1
          BY <2>2, <2>3, <4>1, <5>1, <5>3 DEF Apart
        <5>. QED
          BY <4>2, <5>2, <5>3
      <4>. QED
        BY <4>3, <4>4
    <3>2. CASE ~(Deletion > from)
      <4>1. dels' = dels
        BY <2>1, <3>2
      <4>. QED
        BY <1>0, <1>a, <2>1, <2>2, <2>4, <4>1 DEF Apart, ChangesInOrder
    <3>. QED
      BY <3>1, <3>2
  <2>9. ChangesInOrder'
    BY <2>1, <2>7, <2>8 DEF ChangesInOrder, End
  <2>10. AtEnd' \/ (SameLine /\ from < Len(old))'
    <3>1. CASE to = Len(new)
      <4>1. Deletion = Len(old)
        BY <2>1, <3>1, DeletionIs
      <4>. QED
        BY <2>1, <3>1, <4>1 DEF AtEnd
    <3>2. CASE to # Len(new)
      <4>1. Deletion < Len(old) /\ Line(old, Deletion) = Line(new, to)
        BY <2>1, <3>2, DeletionIs
      <4>. QED
        BY <2>1, <4>1 DEF SameLine
    <3>. QED
      BY <3>1, <3>2
  <2>. QED
    BY <2>1, <2>9, <2>10 DEF OrderInv
<1>5. CASE Return
  <2>1. pc' = "done" /\ UNCHANGED <<old, new, from, to, insertion, adds, dels>>
    BY <1>5 DEF Return
  <2>. QED
    BY <2>1 DEF OrderInv, ChangesInOrder, End
<1>6. CASE UNCHANGED vars
  BY <1>6 DEF vars, OrderInv, ChangesInOrder, End, Apart, AtEnd, SameLine
<1>. QED
  BY <1>1, <1>2, <1>3, <1>4, <1>5, <1>6 DEF Next

LEMMA OrderHolds == Spec => []OrderInv
<1>1. Init => OrderInv
  <2>. SUFFICES ASSUME Init PROVE OrderInv
    OBVIOUS
  <2>1. DOMAIN adds = {} /\ DOMAIN dels = {} /\ pc = "lines"
    BY DEF Init
  <2>. QED
    BY <2>1 DEF OrderInv, ChangesInOrder, Apart
<1>. QED
  BY <1>1, OrderStep, TypeHolds, PTL DEF Spec

\* The additions and deletions that are recorded do not touch each other and are in the
\* order of the old text, of which each deletion is a part.
THEOREM ChangesAreInOrder == Spec => []ChangesInOrder
<1>1. OrderInv => ChangesInOrder
  BY DEF OrderInv
<1>. QED
  BY <1>1, OrderHolds, PTL

-----------------------------------------------------------------------------
(* The end.                                                                  *)

\* The turns the loops may take without reading on.
Turns == CASE pc = "lines" -> 2
           [] pc = "search" -> IF SameLine THEN 3 ELSE 1
           [] OTHER -> 0

\* What is left to do: the characters to be read, and those turns.
Remaining == 3 * ((Len(old) - from) + (Len(new) - to)) + Turns

LEMMA FewerLeft ==
  TypeInv /\ [Next]_vars => [Remaining' \in Nat /\ Remaining' < Remaining]_vars
<1>. SUFFICES ASSUME TypeInv, Next PROVE Remaining' \in Nat /\ Remaining' < Remaining
  OBVIOUS
<1>. DEFINE left == (Len(old) - from) + (Len(new) - to)
<1>0. /\ Len(old) \in Nat /\ from \in 0..Len(old) /\ Len(new) \in Nat /\ to \in 0..Len(new)
      /\ left \in Nat /\ Turns \in 0..3 /\ pc \in {"lines", "search", "done"}
  BY Onward DEF Turns, TypeInv, TypeOK
<1>a. Remaining = 3 * left + Turns /\ Remaining' = 3 * left' + Turns'
  BY DEF Remaining
<1>b. TypeInv'
  BY TypeStep
<1>c. left' \in Nat /\ Turns' \in 0..3
  <2>1. /\ Len(old') \in Nat /\ from' \in 0..Len(old') /\ Len(new') \in Nat /\ to' \in 0..Len(new')
    BY <1>b, LenProperties DEF TypeInv, TypeOK
  <2>2. left' \in Nat
    BY <2>1
  <2>3. Turns' \in 0..3
    BY DEF Turns
  <2>. QED
    BY <2>2, <2>3
<1>d. \A a, b \in Nat, p, q \in 0..3 : a < b /\ p < q + 3 => 3 * a + p < 3 * b + q
  OBVIOUS
<1>e. left' < left /\ Turns' < Turns + 3 => Remaining' \in Nat /\ Remaining' < Remaining
  <2>. HIDE DEF left
  <2>1. \A a \in Nat, p \in 0..3 : 3 * a + p \in Nat
    OBVIOUS
  <2>2. Remaining' \in Nat
    BY <1>a, <1>c, <2>1
  <2>. QED
    BY <1>0, <1>a, <1>c, <1>d, <2>2
<1>1. CASE Equal
  <2>1. /\ pc = "lines" /\ ~AtEnd /\ from' = SkipLine(old, from) /\ to' = SkipLine(new, to)
        /\ UNCHANGED <<old, new, pc>>
    BY <1>1 DEF Equal
  <2>2. left' < left
    <3>1. from < Len(old) \/ to < Len(new)
      BY <1>0, <2>1 DEF AtEnd
    <3>2. left' = (Len(old) - SkipLine(old, from)) + (Len(new) - SkipLine(new, to))
      BY <2>1
    <3>. QED
      BY <3>1, <3>2, Onward
  <2>3. Turns = 2 /\ Turns' = 2
    BY <2>1 DEF Turns
  <2>. HIDE DEF left
  <2>. QED
    BY <1>e, <2>2, <2>3
<1>2. CASE Differ
  <2>1. /\ pc = "lines" /\ ~SameLine /\ pc' = "search" /\ UNCHANGED <<old, new, from, to>>
    BY <1>2 DEF Differ
  <2>2. left' = left
    BY <2>1
  <2>3. Turns = 2 /\ Turns' = 1
    BY <2>1 DEF Turns, SameLine
  <2>. HIDE DEF left
  <2>. QED
    BY <1>0, <1>a, <1>c, <2>2, <2>3
<1>3. CASE Advance
  <2>1. /\ pc = "search" /\ Deletion = NotFound /\ to' = SkipLine(new, to)
        /\ UNCHANGED <<old, new, from, pc>>
    BY <1>3 DEF Advance
  <2>2. left' < left
    <3>1. to < Len(new)
      <4>1. Len(old) # NotFound
        BY <1>0 DEF NotFound
      <4>2. to # Len(new)
        BY <2>1, <4>1 DEF Deletion
      <4>. QED
        BY <1>0, <4>2
    <3>2. left' = (Len(old) - from) + (Len(new) - SkipLine(new, to))
      BY <2>1
    <3>. QED
      BY <3>1, <3>2, Onward
  <2>3. Turns \in {1, 3} /\ Turns' \in {1, 3}
    BY <2>1 DEF Turns
  <2>. HIDE DEF left
  <2>. QED
    BY <1>e, <2>2, <2>3
<1>4. CASE Record
  <2>1. /\ pc = "search" /\ Deletion # NotFound /\ from' = Deletion /\ pc' = "lines"
        /\ UNCHANGED <<old, new, to>>
    BY <1>4 DEF Record
  <2>2. Deletion \in from..Len(old)
    BY <2>1, DeletionIs
  <2>3. Turns \in {1, 3} /\ Turns' = 2
    BY <2>1 DEF Turns
  <2>4. left' = (Len(old) - Deletion) + (Len(new) - to)
    BY <2>1
  <2>5. CASE Deletion = from
    <3>1. SameLine
      <4>1. CASE to = Len(new)
        <5>1. AtEnd
          BY <2>1, <2>5, <4>1, DeletionIs DEF AtEnd
        <5>. QED
          BY <5>1, SameAtEnd
      <4>2. CASE to # Len(new)
        BY <2>1, <2>5, <4>2, DeletionIs DEF SameLine
      <4>. QED
        BY <4>1, <4>2
    <3>2. left' = left /\ Turns = 3
      BY <2>1, <2>4, <2>5, <3>1 DEF Turns
    <3>. HIDE DEF left
    <3>. QED
      BY <1>0, <1>a, <1>c, <2>3, <3>2
  <2>6. CASE Deletion # from
    <3>1. left' < left
      BY <1>0, <2>2, <2>4, <2>6
    <3>. HIDE DEF left
    <3>. QED
      BY <1>e, <2>3, <3>1
  <2>. QED
    BY <2>5, <2>6
<1>5. CASE Return
  <2>1. pc = "lines" /\ pc' = "done" /\ UNCHANGED <<old, new, from, to>>
    BY <1>5 DEF Return
  <2>2. left' = left /\ Turns = 2 /\ Turns' = 0
    BY <2>1 DEF Turns
  <2>. HIDE DEF left
  <2>. QED
    BY <1>0, <1>a, <1>c, <2>2
<1>. QED
  BY <1>1, <1>2, <1>3, <1>4, <1>5 DEF Next

\* The search never goes round: every turn of the loops leaves less to do, so that there are
\* at most three for each character and two more.
THEOREM TurnsAreBounded == Spec => [][Remaining' \in Nat /\ Remaining' < Remaining]_vars
<1>. QED
  BY FewerLeft, TypeHolds, PTL DEF Spec

-----------------------------------------------------------------------------
(* Regular texts.                                                            *)

\* What ends the lines of a text that is regular.
Ends(t, B) == (LFLines(t) /\ B = <<LF>>) \/ (CRLFLines(t) /\ B = <<CR>> \o <<LF>>)

\* Where a line ends in a regular text, and where the next one begins.
LEMMA RegularBreak ==
  ASSUME NEW t \in Seq(Chars), NEW B, Ends(t, B),
         NEW i \in 0..Len(t), i < Len(t), Begins(t, i)
  PROVE  LET e == i + LineLen(t, i)
         IN /\ e < Len(t)
            /\ i > 0 => LineLen(t, i) > 0
            /\ \/ B = <<LF>> /\ t[e + 1] = LF /\ SkipLine(t, i) = e + 1
               \/ /\ B = <<CR>> \o <<LF>> /\ t[e + 1] = CR /\ t[e + 2] = LF
                  /\ SkipLine(t, i) = e + 2 /\ e + 2 <= Len(t)
<1>. DEFINE L == LineLen(t, i)
            e == i + L
<1>a. DOMAIN t = 1..Len(t) /\ (e = Len(t) \/ t[e + 1] \in Breaks)
  BY LenProperties, LineLenIs
<1>b. \A n \in 0..(Len(t) - i) : n < L => t[i + n + 1] \notin Breaks
  BY LineLenIs
<1>1. Len(t) \in Nat /\ L \in 0..(Len(t) - i) /\ i \in Nat /\ i < Len(t)
  BY LenProperties, LineLenIs
<1>2. /\ LF \in Breaks /\ CR \in Breaks /\ LF # CR /\ LF \notin Letters
      /\ \A c \in Breaks : c = LF \/ c = CR
  BY CharsAssumption DEF Breaks
<1>3. t[Len(t)] = LF
  BY DEF Ends, LFLines, CRLFLines, Last
<1>4. SkipLine(t, i) = IF e = Len(t) THEN e
                       ELSE IF e + 1 < Len(t) /\ t[e + 2] = LF THEN e + 2 ELSE e + 1
  BY DEF SkipLine
<1>. HIDE DEF L
<1>5. e < Len(t)
  <2>1. ASSUME e = Len(t) PROVE FALSE
    <3>1. L - 1 \in 0..(Len(t) - i) /\ L - 1 < L /\ i + (L - 1) + 1 = Len(t)
      BY <1>1, <2>1
    <3>2. t[i + (L - 1) + 1] \notin Breaks
      BY <1>b, <3>1
    <3>. QED
      BY <1>2, <1>3, <3>1, <3>2
  <2>. QED
    BY <1>1, <2>1
<1>6. t[e + 1] \in {LF, CR}
  BY <1>a, <1>2, <1>5
<1>7. i > 0 => t[i] = LF
  BY <1>1 DEF Begins
<1>8. CASE LFLines(t) /\ B = <<LF>>
  <2>1. /\ \A k \in 1..Len(t) : t[k] # CR
        /\ \A k \in 2..Len(t) : t[k] # LF \/ t[k - 1] # LF
    BY <1>a, <1>8 DEF LFLines, ToSet
  <2>2. t[e + 1] = LF
    BY <1>1, <1>5, <1>6, <2>1
  <2>3. SkipLine(t, i) = e + 1
    <3>1. ASSUME e + 1 < Len(t), t[e + 2] = LF PROVE FALSE
      <4>1. e + 2 \in 2..Len(t) /\ (e + 2) - 1 = e + 1
        BY <1>1, <3>1
      <4>. QED
        BY <2>1, <2>2, <3>1, <4>1
    <3>. QED
      BY <1>1, <1>4, <1>5, <3>1
  <2>4. i > 0 => L > 0
    <3>1. ASSUME i > 0, L = 0 PROVE FALSE
      <4>1. i + 1 \in 2..Len(t) /\ (i + 1) - 1 = i /\ e + 1 = i + 1
        BY <1>1, <1>5, <3>1
      <4>. QED
        BY <1>7, <2>1, <2>2, <3>1, <4>1
    <3>. QED
      BY <1>1, <3>1
  <2>. QED
    BY <1>5, <1>8, <2>2, <2>3, <2>4 DEF L
<1>9. CASE CRLFLines(t) /\ B = <<CR>> \o <<LF>>
  <2>1. \A k \in 1..Len(t) : /\ t[k] = LF <=> k > 1 /\ t[k - 1] = CR
                             /\ t[k] = CR => k > 1 /\ t[k - 1] \in Letters
    BY <1>9 DEF CRLFLines
  <2>2. t[e + 1] = CR
    <3>1. ASSUME t[e + 1] = LF PROVE FALSE
      <4>1. e + 1 \in 1..Len(t) /\ (e + 1) - 1 = e
        BY <1>1, <1>5
      <4>2. e > 0 /\ t[e] = CR
        BY <1>1, <2>1, <3>1, <4>1
      <4>3. CASE L = 0
        <5>1. e = i
          BY <4>3, <1>1
        <5>. QED
          BY <1>2, <1>7, <4>2, <5>1
      <4>4. CASE L # 0
        <5>1. L - 1 \in 0..(Len(t) - i) /\ L - 1 < L /\ i + (L - 1) + 1 = e
          BY <1>1, <4>4
        <5>2. t[i + (L - 1) + 1] \notin Breaks
          BY <1>b, <5>1
        <5>. QED
          BY <1>2, <4>2, <5>1, <5>2
      <4>. QED
        BY <4>3, <4>4
    <3>. QED
      BY <1>6, <3>1
  <2>3. e + 1 < Len(t)
    <3>1. e + 1 # Len(t)
      BY <1>2, <1>3, <2>2
    <3>. QED
      BY <1>1, <1>5, <3>1
  <2>4. t[e + 2] = LF
    <3>1. e + 2 \in 1..Len(t) /\ e + 2 > 1 /\ (e + 2) - 1 = e + 1
      BY <1>1, <2>3
    <3>. QED
      BY <2>1, <2>2, <3>1
  <2>5. SkipLine(t, i) = e + 2 /\ e + 2 <= Len(t)
    BY <1>1, <1>4, <1>5, <2>3, <2>4
  <2>6. i > 0 => L > 0
    <3>1. ASSUME i > 0, L = 0 PROVE FALSE
      <4>1. i + 1 \in 1..Len(t) /\ (i + 1) - 1 = i /\ e + 1 = i + 1
        BY <1>1, <1>5, <3>1
      <4>. QED
        BY <1>2, <1>7, <2>1, <2>2, <3>1, <4>1
    <3>. QED
      BY <1>1, <3>1
  <2>. QED
    BY <1>5, <1>9, <2>2, <2>4, <2>5, <2>6 DEF L
<1>. QED
  BY <1>8, <1>9 DEF Ends

\* Each line of a regular text, with its break, and the next one begins behind it.
LEMMA RegularLine ==
  ASSUME NEW t \in Seq(Chars), NEW B, Ends(t, B),
         NEW i \in 0..Len(t), i < Len(t), Begins(t, i)
  PROVE  /\ i + LineLen(t, i) < Len(t)
         /\ i > 0 => LineLen(t, i) > 0
         /\ SubSeq(t, i + 1, SkipLine(t, i)) = Line(t, i) \o B
         /\ Begins(t, SkipLine(t, i))
<1>. DEFINE e == i + LineLen(t, i)
            s == SkipLine(t, i)
<1>1. /\ Len(t) \in Nat /\ LineLen(t, i) \in 0..(Len(t) - i) /\ s \in i..Len(t)
  BY LenProperties, LineLenIs, SkipLineIs
<1>2. /\ e < Len(t)
      /\ i > 0 => LineLen(t, i) > 0
      /\ \/ B = <<LF>> /\ t[e + 1] = LF /\ s = e + 1
         \/ B = <<CR>> \o <<LF>> /\ t[e + 1] = CR /\ t[e + 2] = LF /\ s = e + 2 /\ e + 2 <= Len(t)
  BY RegularBreak
<1>3. e \in i..Len(t) /\ Line(t, i) = SubSeq(t, i + 1, e)
  BY <1>1 DEF Line
<1>. HIDE DEF e, s
<1>4. SubSeq(t, i + 1, e) \o SubSeq(t, e + 1, s) = SubSeq(t, i + 1, s)
  <2>1. i + 1 \in 1..Len(t) + 1 /\ e \in (i + 1) - 1..Len(t) /\ s \in e..Len(t)
    BY <1>1, <1>2, <1>3
  <2>. QED
    BY <2>1, ConcatAdjacentSubSeq
<1>5. SubSeq(t, e + 1, s) = B /\ t[s] = LF
  <2>1. CASE B = <<LF>> /\ t[e + 1] = LF /\ s = e + 1
    <3>1. e + 1 \in 1..Len(t) /\ s \in e + 1..Len(t) /\ s - 1 < e + 1
      BY <1>1, <1>2, <1>3, <2>1
    <3>2. SubSeq(t, e + 1, s) = SubSeq(t, e + 1, s - 1) \o <<t[s]>>
      BY <3>1, SubSeqRecursiveSecond
    <3>3. SubSeq(t, e + 1, s - 1) = <<>>
      BY <3>1, SubSeqEmpty
    <3>4. <<>> \o <<LF>> = <<LF>>
      BY ConcatEmptySeq
    <3>. QED
      BY <2>1, <3>2, <3>3, <3>4
  <2>2. CASE B = <<CR>> \o <<LF>> /\ t[e + 1] = CR /\ t[e + 2] = LF /\ s = e + 2 /\ e + 2 <= Len(t)
    <3>1. /\ e + 1 \in 1..Len(t) /\ s \in e + 1..Len(t) /\ s - 1 = e + 1
          /\ e + 1 \in e + 1..Len(t) /\ (e + 1) - 1 < e + 1
      BY <1>1, <1>2, <1>3, <2>2
    <3>2. SubSeq(t, e + 1, s) = SubSeq(t, e + 1, s - 1) \o <<t[s]>>
      BY <3>1, SubSeqRecursiveSecond
    <3>3. SubSeq(t, e + 1, e + 1) = SubSeq(t, e + 1, (e + 1) - 1) \o <<t[e + 1]>>
      BY <3>1, SubSeqRecursiveSecond
    <3>4. SubSeq(t, e + 1, (e + 1) - 1) = <<>>
      BY <3>1, SubSeqEmpty
    <3>5. <<>> \o <<CR>> = <<CR>>
      <4>1. LF \in Chars /\ CR \in Chars
        BY DEF Chars, Breaks
      <4>2. <<CR>> \in Seq(Chars)
        BY <4>1
      <4>. QED
        BY <4>2, ConcatEmptySeq
    <3>. QED
      BY <2>2, <3>1, <3>2, <3>3, <3>4, <3>5
  <2>. QED
    BY <1>2, <2>1, <2>2
<1>. QED
  BY <1>2, <1>3, <1>4, <1>5 DEF Begins, e, s

\* Lines follow each other to the end.
LEMMA RegularFollows ==
  ASSUME NEW t \in Seq(Chars), NEW B, Ends(t, B)
  PROVE  \A j \in 0..Len(t) : Begins(t, j) => Begins(t, SkipLine(t, j))
<1>. SUFFICES ASSUME NEW j \in 0..Len(t), Begins(t, j) PROVE Begins(t, SkipLine(t, j))
  OBVIOUS
<1>1. Len(t) \in Nat /\ SkipLine(t, j) \in j..Len(t)
  BY LenProperties, SkipLineIs
<1>2. CASE j < Len(t)
  BY <1>2, RegularLine
<1>3. CASE j = Len(t)
  BY <1>1, <1>3 DEF Begins
<1>. QED
  BY <1>1, <1>2, <1>3

-----------------------------------------------------------------------------
(* What a diff makes.                                                        *)

\* One character of the text further.
Further(t, A, D, f, i) ==
  (IF i = 0 THEN <<>> ELSE f[i - 1] \o KeptAt(t, D, i)) \o AddedAt(A, i)

LEMMA MadeExists ==
  ASSUME NEW t \in Seq(Chars), NEW A, NEW D
  PROVE  \E f : f = [i \in 0..Len(t) |-> Further(t, A, D, f, i)]
<1>. DEFINE N == Len(t)
            Good(n) == \E f : DOMAIN f = 0..n /\ \A i \in 0..n : f[i] = Further(t, A, D, f, i)
            Bad == {n \in 0..N : ~Good(n)}
<1>n. N \in Nat
  BY LenProperties
<1>0. Bad \in SUBSET Nat
  OBVIOUS
<1>1. Bad = {}
  <2>. SUFFICES ASSUME Bad # {} PROVE FALSE
    OBVIOUS
  <2>. HIDE DEF Good
  <2>1. PICK n \in Bad : \A m \in Bad : n <= m
    BY <1>0, Least
  <2>2. n \in 0..N /\ ~Good(n) /\ n \in Nat
    OBVIOUS
  <2>3. CASE n = 0
    <3>. DEFINE f == [i \in 0..0 |-> <<>> \o AddedAt(A, i)]
    <3>1. \A i \in 0..0 : f[i] = Further(t, A, D, f, i)
      <4>1. \A i \in 0..0 : i = 0
        OBVIOUS
      <4>. QED
        BY <4>1 DEF Further
    <3>2. DOMAIN f = 0..0
      OBVIOUS
    <3>. HIDE DEF f
    <3>. QED
      BY <2>2, <2>3, <3>1, <3>2 DEF Good
  <2>4. CASE n # 0
    <3>1. n - 1 \in 0..N /\ ~(n <= n - 1)
      BY <1>n, <2>2, <2>4
    <3>2. Good(n - 1)
      BY <2>1, <3>1
    <3>3. PICK f : DOMAIN f = 0..(n - 1) /\ \A i \in 0..(n - 1) : f[i] = Further(t, A, D, f, i)
      BY <3>2 DEF Good
    <3>. DEFINE g == [i \in 0..n |-> IF i = n THEN Further(t, A, D, f, i) ELSE f[i]]
    <3>4. ASSUME NEW i \in 0..n PROVE g[i] = Further(t, A, D, g, i)
      <4>1. i # 0 => i - 1 \in 0..n /\ i - 1 # n
        BY <2>2
      <4>2. i # 0 => g[i - 1] = f[i - 1]
        BY <4>1
      <4>3. Further(t, A, D, g, i) = Further(t, A, D, f, i)
        <5>. HIDE DEF g
        <5>. QED
          BY <4>2 DEF Further
      <4>4. g[i] = Further(t, A, D, f, i)
        <5>1. CASE i = n
          BY <5>1
        <5>2. CASE i # n
          <6>1. i \in 0..(n - 1)
            BY <2>2, <5>2
          <6>. QED
            BY <3>3, <5>2, <6>1
        <5>. QED
          BY <5>1, <5>2
      <4>. HIDE DEF g
      <4>. QED
        BY <4>3, <4>4
    <3>5. DOMAIN g = 0..n
      OBVIOUS
    <3>. HIDE DEF g
    <3>. QED
      BY <2>2, <3>4, <3>5 DEF Good
  <2>. QED
    BY <2>3, <2>4
<1>2. N \in 0..N
  BY <1>n
<1>3. PICK f : DOMAIN f = 0..N /\ \A i \in 0..N : f[i] = Further(t, A, D, f, i)
  BY <1>1, <1>2
<1>. DEFINE g == [i \in 0..N |-> f[i]]
<1>4. \A i \in 0..N : Further(t, A, D, g, i) = Further(t, A, D, f, i)
  <2>1. \A i \in 0..N : i # 0 => i - 1 \in 0..N
    BY <1>n
  <2>2. \A i \in 0..N : i # 0 => g[i - 1] = f[i - 1]
    BY <2>1
  <2>. HIDE DEF g
  <2>. QED
    BY <2>2 DEF Further
<1>5. g = [i \in 0..N |-> Further(t, A, D, g, i)]
  <2>1. \A i \in 0..N : g[i] = Further(t, A, D, g, i)
    <3>1. \A i \in 0..N : g[i] = f[i]
      OBVIOUS
    <3>. HIDE DEF g
    <3>. QED
      BY <1>3, <1>4, <3>1
  <2>2. g = [i \in 0..N |-> g[i]]
    OBVIOUS
  <2>. HIDE DEF g
  <2>3. [i \in 0..N |-> g[i]] = [i \in 0..N |-> Further(t, A, D, g, i)]
    BY <2>1
  <2>. QED
    BY <2>2, <2>3
<1>. QED
  BY <1>5

LEMMA MadeIs ==
  ASSUME NEW t \in Seq(Chars), NEW A, NEW D, NEW i \in 0..Len(t)
  PROVE  Made(t, A, D)[i] = Further(t, A, D, Made(t, A, D), i)
<1>. DEFINE made == CHOOSE f : f = [j \in 0..Len(t) |-> Further(t, A, D, f, j)]
<1>1. Made(t, A, D) = made
  BY DEF Made, Further
<1>2. made = [j \in 0..Len(t) |-> Further(t, A, D, made, j)]
  BY MadeExists
<1>. HIDE DEF made
<1>3. [j \in 0..Len(t) |-> Further(t, A, D, made, j)][i] = Further(t, A, D, made, i)
  OBVIOUS
<1>. QED
  BY <1>1, <1>2, <1>3

\* What is added at a place, and what is kept of it, are texts.
LEMMA PartsAreTexts ==
  ASSUME NEW t \in Seq(Chars), NEW A \in Seq(Changes), NEW D
  PROVE  /\ \A p : AddedAt(A, p) \in Seq(Chars)
         /\ \A p \in 1..Len(t) : KeptAt(t, D, p) \in Seq(Chars)
<1>1. <<>> \in Seq(Chars)
  OBVIOUS
<1>2. ASSUME NEW p PROVE AddedAt(A, p) \in Seq(Chars)
  <2>1. \A k \in DOMAIN A : A[k].txt \in Seq(Chars)
    <3>1. \A c \in Changes : c.txt \in Seq(Chars)
      BY DEF Changes
    <3>2. \A k \in DOMAIN A : A[k] \in Changes
      BY ElementOfSeq, LenProperties
    <3>. QED
      BY <3>1, <3>2
  <2>2. CASE \E k \in DOMAIN A : A[k].pos = p
    <3>. DEFINE c == CHOOSE k \in DOMAIN A : A[k].pos = p
    <3>1. c \in DOMAIN A
      BY <2>2
    <3>2. AddedAt(A, p) = A[c].txt
      BY <2>2 DEF AddedAt
    <3>. HIDE DEF c
    <3>. QED
      BY <2>1, <3>1, <3>2
  <2>3. CASE ~\E k \in DOMAIN A : A[k].pos = p
    BY <1>1, <2>3 DEF AddedAt
  <2>. QED
    BY <2>2, <2>3
<1>3. ASSUME NEW p \in 1..Len(t) PROVE KeptAt(t, D, p) \in Seq(Chars)
  <2>1. t[p] \in Chars
    BY ElementOfSeq
  <2>2. <<t[p]>> \in Seq(Chars)
    BY <2>1
  <2>. QED
    BY <1>1, <2>2 DEF KeptAt
<1>. QED
  BY <1>2, <1>3

LEMMA MadeIsText ==
  ASSUME NEW t \in Seq(Chars), NEW A \in Seq(Changes), NEW D
  PROVE  \A i \in 0..Len(t) : Made(t, A, D)[i] \in Seq(Chars)
<1>. DEFINE M == Made(t, A, D)
            Bad == {i \in 0..Len(t) : M[i] \notin Seq(Chars)}
<1>0. Len(t) \in Nat /\ Bad \in SUBSET Nat
  BY LenProperties
<1>1. \A i \in 0..Len(t) : M[i] = Further(t, A, D, M, i)
  BY MadeIs
<1>. HIDE DEF M
<1>2. Bad = {}
  <2>. SUFFICES ASSUME Bad # {} PROVE FALSE
    OBVIOUS
  <2>1. PICK n \in Bad : \A m \in Bad : n <= m
    BY <1>0, Least
  <2>2. n \in 0..Len(t) /\ M[n] \notin Seq(Chars)
    OBVIOUS
  <2>3. n # 0 => M[n - 1] \in Seq(Chars) /\ KeptAt(t, D, n) \in Seq(Chars)
    <3>1. n # 0 => n - 1 \in 0..Len(t) /\ ~(n <= n - 1) /\ n \in 1..Len(t)
      BY <1>0, <2>2
    <3>2. n # 0 => n - 1 \notin Bad
      BY <2>1, <3>1
    <3>. QED
      BY <3>1, <3>2, PartsAreTexts
  <2>4. M[n] = (IF n = 0 THEN <<>> ELSE M[n - 1] \o KeptAt(t, D, n)) \o AddedAt(A, n)
    BY <1>1, <2>2 DEF Further
  <2>5. (IF n = 0 THEN <<>> ELSE M[n - 1] \o KeptAt(t, D, n)) \in Seq(Chars)
    <3>1. n # 0 => M[n - 1] \o KeptAt(t, D, n) \in Seq(Chars)
      BY <2>3, ConcatProperties
    <3>. QED
      BY <3>1
  <2>6. M[n] \in Seq(Chars)
    <3>1. AddedAt(A, n) \in Seq(Chars)
      BY PartsAreTexts
    <3>2. \A a, b \in Seq(Chars) : a \o b \in Seq(Chars)
      BY ConcatProperties
    <3>. QED
      BY <2>4, <2>5, <3>1, <3>2
  <2>. QED
    BY <2>2, <2>6
<1>. QED
  BY <1>2 DEF M

\* Two diffs that agree up to a place make the same up to there.
Agree(t, A, D, B, E, n) ==
  /\ \A p \in 0..n : AddedAt(A, p) = AddedAt(B, p)
  /\ \A p \in 1..n : KeptAt(t, D, p) = KeptAt(t, E, p)

LEMMA MadeSame ==
  ASSUME NEW t \in Seq(Chars), NEW A, NEW D, NEW B, NEW E, NEW n \in 0..Len(t),
         Agree(t, A, D, B, E, n)
  PROVE  Made(t, A, D)[n] = Made(t, B, E)[n]
<1>. DEFINE M == Made(t, A, D)
            O == Made(t, B, E)
            Bad == {i \in 0..n : M[i] # O[i]}
<1>0. Len(t) \in Nat /\ n \in Nat /\ Bad \in SUBSET Nat
  BY LenProperties
<1>1. \A i \in 0..n : M[i] = Further(t, A, D, M, i) /\ O[i] = Further(t, B, E, O, i)
  <2>1. \A i \in 0..n : i \in 0..Len(t)
    BY <1>0
  <2>. QED
    BY <2>1, MadeIs
<1>. HIDE DEF M, O
<1>2. Bad = {}
  <2>. SUFFICES ASSUME Bad # {} PROVE FALSE
    OBVIOUS
  <2>1. PICK i \in Bad : \A m \in Bad : i <= m
    BY <1>0, Least
  <2>2. i \in 0..n /\ M[i] # O[i]
    OBVIOUS
  <2>3. i # 0 => M[i - 1] = O[i - 1] /\ KeptAt(t, D, i) = KeptAt(t, E, i)
    <3>1. i # 0 => i - 1 \in 0..n /\ ~(i <= i - 1) /\ i \in 1..n
      BY <1>0, <2>2
    <3>2. i # 0 => i - 1 \notin Bad
      BY <2>1, <3>1
    <3>. QED
      BY <3>1, <3>2 DEF Agree
  <2>4. AddedAt(A, i) = AddedAt(B, i)
    BY <2>2 DEF Agree
  <2>5. Further(t, A, D, M, i) = Further(t, B, E, O, i)
    BY <2>3, <2>4 DEF Further
  <2>. QED
    BY <1>1, <2>2, <2>5
<1>3. n \in 0..n
  BY <1>0
<1>4. M[n] = O[n]
  BY <1>2, <1>3
<1>. QED
  BY <1>4 DEF M, O

\* Concatenation is associative.
Associates(S) == \A a, b, c \in Seq(S) : (a \o b) \o c = a \o (b \o c)

LEMMA Regroup == ASSUME NEW S PROVE Associates(S)
<1>1. ASSUME NEW a \in Seq(S), NEW b \in Seq(S), NEW c \in Seq(S)
      PROVE  (a \o b) \o c = a \o (b \o c)
  <2>. DEFINE ab == a \o b
              bc == b \o c
              lhs == ab \o c
              rhs == a \o bc
  <2>1. Len(a) \in Nat /\ Len(b) \in Nat /\ Len(c) \in Nat
    BY LenProperties
  <2>2. /\ ab \in Seq(S) /\ Len(ab) = Len(a) + Len(b)
        /\ \A i \in 1..Len(a) + Len(b) : ab[i] = IF i <= Len(a) THEN a[i] ELSE b[i - Len(a)]
    BY ConcatProperties
  <2>3. /\ bc \in Seq(S) /\ Len(bc) = Len(b) + Len(c)
        /\ \A i \in 1..Len(b) + Len(c) : bc[i] = IF i <= Len(b) THEN b[i] ELSE c[i - Len(b)]
    BY ConcatProperties
  <2>. HIDE DEF ab, bc
  <2>c. \A x, y \in Seq(S) :
         /\ x \o y \in Seq(S) /\ Len(x \o y) = Len(x) + Len(y)
         /\ \A i \in 1..Len(x) + Len(y) : (x \o y)[i] = IF i <= Len(x) THEN x[i] ELSE y[i - Len(x)]
    BY ConcatProperties
  <2>4. /\ lhs \in Seq(S) /\ Len(lhs) = Len(ab) + Len(c)
        /\ \A i \in 1..Len(ab) + Len(c) : lhs[i] = IF i <= Len(ab) THEN ab[i] ELSE c[i - Len(ab)]
    BY <2>2, <2>c, Zenon
  <2>5. /\ rhs \in Seq(S) /\ Len(rhs) = Len(a) + Len(bc)
        /\ \A i \in 1..Len(a) + Len(bc) : rhs[i] = IF i <= Len(a) THEN a[i] ELSE bc[i - Len(a)]
    BY <2>3, <2>c, Zenon
  <2>. HIDE DEF lhs, rhs
  <2>6. Len(lhs) = Len(rhs) /\ Len(lhs) = Len(a) + Len(b) + Len(c)
    BY <2>1, <2>2, <2>3, <2>4, <2>5
  <2>7. ASSUME NEW i \in 1..Len(lhs) PROVE lhs[i] = rhs[i]
    <3>1. CASE i <= Len(a)
      <4>1. /\ i \in 1..Len(ab) + Len(c) /\ i <= Len(ab) /\ i \in 1..Len(a) + Len(b)
            /\ i \in 1..Len(a) + Len(bc)
        BY <2>1, <2>2, <2>3, <2>6, <3>1
      <4>2. lhs[i] = a[i] /\ rhs[i] = a[i]
        BY <2>2, <2>4, <2>5, <3>1, <4>1
      <4>. QED
        BY <4>2
    <3>2. CASE ~(i <= Len(a)) /\ i <= Len(a) + Len(b)
      <4>1. /\ i \in 1..Len(ab) + Len(c) /\ i <= Len(ab) /\ i \in 1..Len(a) + Len(b)
            /\ i \in 1..Len(a) + Len(bc) /\ i - Len(a) \in 1..Len(b) + Len(c) /\ i - Len(a) <= Len(b)
        BY <2>1, <2>2, <2>3, <2>6, <3>2
      <4>2. lhs[i] = b[i - Len(a)] /\ rhs[i] = b[i - Len(a)]
        BY <2>2, <2>3, <2>4, <2>5, <3>2, <4>1
      <4>. QED
        BY <4>2
    <3>3. CASE ~(i <= Len(a) + Len(b))
      <4>1. /\ i \in 1..Len(ab) + Len(c) /\ ~(i <= Len(ab)) /\ ~(i <= Len(a))
            /\ i \in 1..Len(a) + Len(bc) /\ i - Len(a) \in 1..Len(b) + Len(c) /\ ~(i - Len(a) <= Len(b))
            /\ i - Len(ab) = (i - Len(a)) - Len(b)
        BY <2>1, <2>2, <2>3, <2>6, <3>3
      <4>2. lhs[i] = c[i - Len(ab)] /\ rhs[i] = c[(i - Len(a)) - Len(b)]
        BY <2>3, <2>4, <2>5, <4>1
      <4>. QED
        BY <4>1, <4>2
    <3>. QED
      BY <2>1, <3>1, <3>2, <3>3
  <2>8. lhs = rhs
    BY <2>4, <2>5, <2>6, <2>7, SeqEqual
  <2>. QED
    BY <2>8 DEF lhs, rhs, ab, bc
<1>. QED
  BY <1>1 DEF Associates

\* What is neither changed nor cut is there as it was.
LEMMA MadeGrows ==
  ASSUME NEW t \in Seq(Chars), NEW A \in Seq(Changes), NEW D, NEW i \in 0..Len(t), NEW n \in i..Len(t),
         \A p \in i + 1..n : AddedAt(A, p) = <<>> /\ KeptAt(t, D, p) = <<t[p]>>
  PROVE  Made(t, A, D)[n] = Made(t, A, D)[i] \o SubSeq(t, i + 1, n)
<1>. DEFINE M == Made(t, A, D)
            Bad == {j \in i..n : M[j] # M[i] \o SubSeq(t, i + 1, j)}
<1>n. Len(t) \in Nat
  BY LenProperties
<1>0. n \in Nat /\ i \in Nat /\ i <= n /\ n <= Len(t)
  BY <1>n
<1>b. Bad \in SUBSET Nat
  <2>1. \A j \in i..n : j \in Nat
    BY <1>0
  <2>. QED
    BY <2>1
<1>1. \A j \in 0..Len(t) : M[j] = Further(t, A, D, M, j) /\ M[j] \in Seq(Chars)
  BY MadeIs, MadeIsText
<1>. HIDE DEF M
<1>2. Bad = {}
  <2>. SUFFICES ASSUME Bad # {} PROVE FALSE
    OBVIOUS
  <2>1. PICK j \in Bad : \A m \in Bad : j <= m
    BY <1>b, Least
  <2>2. j \in i..n /\ M[j] # M[i] \o SubSeq(t, i + 1, j)
    OBVIOUS
  <2>3. M[i] \in Seq(Chars)
    BY <1>1
  <2>4. CASE j = i
    <3>1. SubSeq(t, i + 1, i) = <<>>
      BY <1>0, SubSeqEmpty
    <3>. QED
      BY <2>2, <2>3, <2>4, <3>1, ConcatEmptySeq
  <2>5. CASE j # i
    <3>1. /\ j - 1 \in i..n /\ ~(j <= j - 1) /\ j \in i + 1..n /\ j \in 0..Len(t) /\ j # 0
          /\ i + 1 \in 1..Len(t) /\ j \in i + 1..Len(t) /\ j - 1 \in 0..Len(t)
      BY <1>n, <1>0, <2>2, <2>5
    <3>2. j - 1 \notin Bad
      BY <2>1, <3>1
    <3>3. M[j - 1] = M[i] \o SubSeq(t, i + 1, j - 1)
      BY <3>1, <3>2
    <3>4. AddedAt(A, j) = <<>> /\ KeptAt(t, D, j) = <<t[j]>>
      BY <3>1
    <3>5. M[j] = (M[j - 1] \o <<t[j]>>) \o <<>>
      BY <1>1, <3>1, <3>4 DEF Further
    <3>6. M[j] = M[j - 1] \o <<t[j]>>
      <4>1. t[j] \in Chars
        BY <3>1, ElementOfSeq
      <4>2. <<t[j]>> \in Seq(Chars) /\ M[j - 1] \in Seq(Chars)
        BY <1>1, <3>1, <4>1
      <4>3. M[j - 1] \o <<t[j]>> \in Seq(Chars)
        BY <4>2, ConcatProperties
      <4>. QED
        BY <3>5, <4>3, ConcatEmptySeq
    <3>7. SubSeq(t, i + 1, j) = SubSeq(t, i + 1, j - 1) \o <<t[j]>>
      BY <3>1, SubSeqRecursiveSecond
    <3>8. (M[i] \o SubSeq(t, i + 1, j - 1)) \o <<t[j]>> = M[i] \o (SubSeq(t, i + 1, j - 1) \o <<t[j]>>)
      <4>1. \A k \in i + 1..j - 1 : k \in 1..Len(t)
        BY <1>n, <1>0, <3>1
      <4>2. \A k \in i + 1..j - 1 : t[k] \in Chars
        BY <4>1, ElementOfSeq
      <4>3. SubSeq(t, i + 1, j - 1) \in Seq(Chars)
        <5>1. i + 1 \in Int /\ j - 1 \in Int
          BY <1>0, <3>1
        <5>. QED
          BY <4>2, <5>1, SubSeqProperties
      <4>4. t[j] \in Chars
        BY <3>1, ElementOfSeq
      <4>5. <<t[j]>> \in Seq(Chars)
        BY <4>4
      <4>6. Associates(Chars)
        BY Regroup
      <4>. QED
        BY <2>3, <4>3, <4>5, <4>6 DEF Associates
    <3>. QED
      BY <2>2, <3>3, <3>6, <3>7, <3>8
  <2>. QED
    BY <2>4, <2>5
<1>3. n \in i..n
  BY <1>0
<1>4. M[n] = M[i] \o SubSeq(t, i + 1, n)
  BY <1>2, <1>3
<1>. QED
  BY <1>4 DEF M

\* Where all is cut, nothing comes of it.
LEMMA MadeStays ==
  ASSUME NEW t \in Seq(Chars), NEW A \in Seq(Changes), NEW D, NEW i \in 0..Len(t), NEW n \in i..Len(t),
         \A p \in i + 1..n : AddedAt(A, p) = <<>> /\ KeptAt(t, D, p) = <<>>
  PROVE  Made(t, A, D)[n] = Made(t, A, D)[i]
<1>. DEFINE M == Made(t, A, D)
            Bad == {j \in i..n : M[j] # M[i]}
<1>n. Len(t) \in Nat
  BY LenProperties
<1>0. n \in Nat /\ i \in Nat /\ i <= n /\ n <= Len(t)
  BY <1>n
<1>b. Bad \in SUBSET Nat
  <2>1. \A j \in i..n : j \in Nat
    BY <1>0
  <2>. QED
    BY <2>1
<1>1. \A j \in 0..Len(t) : M[j] = Further(t, A, D, M, j) /\ M[j] \in Seq(Chars)
  BY MadeIs, MadeIsText
<1>. HIDE DEF M
<1>2. Bad = {}
  <2>. SUFFICES ASSUME Bad # {} PROVE FALSE
    OBVIOUS
  <2>1. PICK j \in Bad : \A m \in Bad : j <= m
    BY <1>b, Least
  <2>2. j \in i..n /\ M[j] # M[i] /\ j # i
    OBVIOUS
  <2>3. j - 1 \in i..n /\ ~(j <= j - 1) /\ j \in i + 1..n /\ j \in 0..Len(t) /\ j # 0 /\ j - 1 \in 0..Len(t)
    BY <1>n, <1>0, <2>2
  <2>4. M[j - 1] = M[i]
    BY <2>1, <2>3
  <2>5. AddedAt(A, j) = <<>> /\ KeptAt(t, D, j) = <<>>
    BY <2>3
  <2>6. M[j] = (M[j - 1] \o <<>>) \o <<>>
    BY <1>1, <2>3, <2>5 DEF Further
  <2>7. M[j] = M[j - 1]
    BY <1>1, <2>3, <2>6, ConcatEmptySeq
  <2>. QED
    BY <2>2, <2>4, <2>7
<1>3. n \in i..n
  BY <1>0
<1>4. M[n] = M[i]
  BY <1>2, <1>3
<1>. QED
  BY <1>4 DEF M

\* At a place where nothing was recorded, nothing is added.
LEMMA NothingAdded ==
  ASSUME NEW A, NEW p, \A k \in DOMAIN A : A[k].pos # p
  PROVE  AddedAt(A, p) = <<>>
BY DEF AddedAt

\* Additions that are at different places.
Single(A) == \A j, k \in DOMAIN A : A[j].pos = A[k].pos => j = k

LEMMA AddedIs ==
  ASSUME NEW A, Single(A), NEW k \in DOMAIN A
  PROVE  AddedAt(A, A[k].pos) = A[k].txt
<1>. DEFINE c == CHOOSE j \in DOMAIN A : A[j].pos = A[k].pos
<1>1. c \in DOMAIN A /\ A[c].pos = A[k].pos
  OBVIOUS
<1>2. AddedAt(A, A[k].pos) = A[c].txt
  BY DEF AddedAt
<1>. HIDE DEF c
<1>3. c = k
  BY <1>1 DEF Single
<1>. QED
  BY <1>2, <1>3

\* One addition more changes what is added at its own place only.
LEMMA AddedOneMore ==
  ASSUME NEW A \in Seq(Changes), NEW c \in Changes, Single(A), Single(Append(A, c))
  PROVE  /\ AddedAt(Append(A, c), c.pos) = c.txt
         /\ \A p : p # c.pos => AddedAt(Append(A, c), p) = AddedAt(A, p)
<1>. DEFINE B == Append(A, c)
<1>1. /\ DOMAIN A = 1..Len(A) /\ DOMAIN B = 1..Len(A) + 1 /\ Len(A) \in Nat
      /\ (\A k \in 1..Len(A) : B[k] = A[k]) /\ B[Len(A) + 1] = c
  BY LenProperties, AppendProperties
<1>. HIDE DEF B
<1>2. \A k \in DOMAIN B : k \in DOMAIN A \/ k = Len(A) + 1
  BY <1>1
<1>3. Len(A) + 1 \in DOMAIN B /\ \A k \in DOMAIN A : k \in DOMAIN B /\ B[k] = A[k]
  BY <1>1
<1>4. AddedAt(B, c.pos) = c.txt
  <2>1. Single(B)
    BY DEF B
  <2>. QED
    BY <1>1, <1>3, <2>1, AddedIs
<1>5. ASSUME NEW p, p # c.pos PROVE AddedAt(B, p) = AddedAt(A, p)
  <2>1. CASE \E k \in DOMAIN A : A[k].pos = p
    <3>1. PICK k \in DOMAIN A : A[k].pos = p
      BY <2>1
    <3>2. Single(B) /\ k \in DOMAIN B /\ B[k] = A[k]
      BY <1>3 DEF B
    <3>3. AddedAt(A, p) = A[k].txt
      BY <3>1, AddedIs
    <3>4. AddedAt(B, B[k].pos) = B[k].txt
      BY <3>2, AddedIs
    <3>. QED
      BY <3>1, <3>2, <3>3, <3>4
  <2>2. CASE \A k \in DOMAIN A : A[k].pos # p
    <3>1. \A k \in DOMAIN B : B[k].pos # p
      BY <1>1, <1>2, <1>3, <1>5, <2>2
    <3>. QED
      BY <2>2, <3>1, NothingAdded
  <2>. QED
    BY <2>1, <2>2
<1>. QED
  BY <1>4, <1>5 DEF B

\* One deletion more cuts what is behind its place, up to its end.
LEMMA CutOneMore ==
  ASSUME NEW t, NEW D \in Seq(Changes), NEW c \in Changes, NEW p \in Nat
  PROVE  /\ p <= c.pos => KeptAt(t, Append(D, c), p) = KeptAt(t, D, p)
         /\ c.pos < p /\ p <= End(c) => KeptAt(t, Append(D, c), p) = <<>>
<1>. DEFINE E == Append(D, c)
            Cut(d) == d.pos < p /\ p <= End(d)
<1>1. /\ DOMAIN D = 1..Len(D) /\ DOMAIN E = 1..Len(D) + 1 /\ Len(D) \in Nat
      /\ (\A k \in 1..Len(D) : E[k] = D[k]) /\ E[Len(D) + 1] = c
  BY LenProperties, AppendProperties
<1>2. c.pos \in Nat
  BY DEF Changes
<1>3. /\ KeptAt(t, E, p) = IF \E k \in DOMAIN E : Cut(E[k]) THEN <<>> ELSE <<t[p]>>
      /\ KeptAt(t, D, p) = IF \E k \in DOMAIN D : Cut(D[k]) THEN <<>> ELSE <<t[p]>>
  BY DEF KeptAt
<1>4. p <= c.pos => ~Cut(c)
  BY <1>2
<1>. HIDE DEF E, Cut
<1>5. (\E k \in DOMAIN E : Cut(E[k])) <=> Cut(c) \/ \E k \in DOMAIN D : Cut(D[k])
  <2>1. \A k \in DOMAIN E : k \in DOMAIN D \/ k = Len(D) + 1
    BY <1>1
  <2>2. Len(D) + 1 \in DOMAIN E /\ \A k \in DOMAIN D : k \in DOMAIN E /\ E[k] = D[k]
    BY <1>1
  <2>3. E[Len(D) + 1] = c
    BY <1>1
  <2>. QED
    BY <2>1, <2>2, <2>3
<1>6. p <= c.pos => KeptAt(t, E, p) = KeptAt(t, D, p)
  BY <1>3, <1>4, <1>5
<1>7. Cut(c) => KeptAt(t, E, p) = <<>>
  BY <1>3, <1>5
<1>. QED
  BY <1>6, <1>7 DEF E, Cut

-----------------------------------------------------------------------------
(* Diffs of regular texts.                                                   *)

\* Behind from nothing has been recorded, so the text goes on there as it was.
LEMMA UntouchedBehind ==
  ASSUME TypeInv, ChangesInOrder, NEW n \in from..Len(old)
  PROVE  Made(old, adds, dels)[n] = Made(old, adds, dels)[from] \o SubSeq(old, from + 1, n)
<1>1. /\ old \in Seq(Chars) /\ adds \in Seq(Changes) /\ dels \in Seq(Changes)
      /\ Len(old) \in Nat /\ from \in 0..Len(old)
  BY Onward DEF TypeInv
<1>2. ASSUME NEW p \in from + 1..n PROVE AddedAt(adds, p) = <<>> /\ KeptAt(old, dels, p) = <<old[p]>>
  <2>1. p \in Nat /\ from < p
    BY <1>1
  <2>2. \A k \in DOMAIN adds : adds[k].pos # p
    <3>1. \A k \in DOMAIN adds : adds[k].pos \in Nat /\ adds[k].pos <= from
      <4>1. \A k \in DOMAIN adds : adds[k] \in Changes
        BY <1>1
      <4>. QED
        BY <4>1 DEF ChangesInOrder, Changes
    <3>. QED
      BY <1>1, <2>1, <3>1
  <2>3. \A k \in DOMAIN dels : ~(p <= End(dels[k]))
    <3>1. \A k \in DOMAIN dels : End(dels[k]) \in Nat /\ End(dels[k]) <= from
      <4>1. \A k \in DOMAIN dels : dels[k] \in Changes
        BY <1>1
      <4>2. \A c \in Changes : c.pos \in Nat /\ Len(c.txt) \in Nat
        BY LenProperties DEF Changes
      <4>3. \A c \in Changes : End(c) \in Nat
        BY <4>2 DEF End
      <4>. QED
        BY <4>1, <4>3 DEF ChangesInOrder
    <3>. QED
      BY <1>1, <2>1, <3>1
  <2>. QED
    BY <2>2, <2>3, NothingAdded DEF KeptAt
<1>. QED
  BY <1>1, <1>2, MadeGrows

\* In order, no two additions are at one place.
LEMMA OrderIsSingle == ASSUME TypeInv, ChangesInOrder PROVE Single(adds)
<1>1. adds \in Seq(Changes)
  BY DEF TypeInv
<1>2. DOMAIN adds = 1..Len(adds) /\ Len(adds) \in Nat
  BY <1>1, LenProperties
<1>3. \A k \in DOMAIN adds : adds[k].pos \in Nat
  <2>1. \A k \in DOMAIN adds : adds[k] \in Changes
    BY <1>1
  <2>. QED
    BY <2>1 DEF Changes
<1>4. ASSUME NEW j \in DOMAIN adds, NEW k \in DOMAIN adds, adds[j].pos = adds[k].pos PROVE j = k
  <2>1. j < k => adds[j].pos < adds[k].pos
    BY DEF ChangesInOrder
  <2>2. k < j => adds[k].pos < adds[j].pos
    BY DEF ChangesInOrder
  <2>. QED
    BY <1>2, <1>3, <1>4, <2>1, <2>2
<1>. QED
  BY <1>4 DEF Single

\* What is recorded makes what was skipped of the new text, in place of that of the old one.
LEMMA RecordMakes ==
  ASSUME TypeInv, TypeInv', OrderInv, OrderInv', Record
  PROVE  Made(old, adds', dels')[Deletion] =
           Made(old, adds, dels)[from] \o SubSeq(new, insertion + 1, to)
<1>. DEFINE add == Change(from, SubSeq(new, insertion + 1, to))
            del == Change(from, SubSeq(old, from + 1, Deletion))
            X == SubSeq(new, insertion + 1, to)
            M == Made(old, adds, dels)
            O == Made(old, adds', dels')
<1>1. /\ adds' = IF to > insertion THEN Append(adds, add) ELSE adds
      /\ dels' = IF Deletion > from THEN Append(dels, del) ELSE dels
      /\ Deletion # NotFound /\ Apart
  BY DEF Record, OrderInv
<1>2. /\ old \in Seq(Chars) /\ adds \in Seq(Changes) /\ dels \in Seq(Changes)
      /\ adds' \in Seq(Changes) /\ dels' \in Seq(Changes)
  BY DEF TypeInv
<1>3. /\ add \in Changes /\ add.pos = from /\ add.txt = X
      /\ del \in Changes /\ del.pos = from /\ Len(del.txt) = Deletion - from
  BY <1>1, Recorded
<1>4. /\ Len(old) \in Nat /\ from \in 0..Len(old) /\ Deletion \in from..Len(old)
      /\ to \in Nat /\ insertion \in 0..to
  BY <1>1, Onward, DeletionIs
<1>5. Single(adds) /\ Single(adds')
  <2>1. Single(adds)
    BY OrderIsSingle DEF OrderInv
  <2>2. ASSUME NEW j \in DOMAIN adds', NEW k \in DOMAIN adds', adds'[j].pos = adds'[k].pos PROVE j = k
    <3>1. \A h \in DOMAIN adds' : adds'[h].pos \in Nat
      <4>1. \A h \in DOMAIN adds' : adds'[h] \in Changes
        BY <1>2
      <4>. QED
        BY <4>1 DEF Changes
    <3>2. \A g, h \in DOMAIN adds' : g < h => adds'[g].pos < adds'[h].pos
      BY DEF OrderInv, ChangesInOrder
    <3>3. DOMAIN adds' = 1..Len(adds') /\ Len(adds') \in Nat
      BY <1>2, LenProperties
    <3>4. ~(j < k) /\ ~(k < j)
      BY <2>2, <3>1, <3>2
    <3>. QED
      BY <3>3, <3>4
  <2>. QED
    BY <2>1, <2>2 DEF Single
<1>. HIDE DEF add, del
<1>6. End(del) = Deletion
  BY <1>3, <1>4 DEF End
<1>7. \A p : p # from => AddedAt(adds', p) = AddedAt(adds, p)
  <2>1. CASE to > insertion
    <3>1. adds' = Append(adds, add)
      BY <1>1, <2>1
    <3>. QED
      BY <1>2, <1>3, <1>5, <3>1, AddedOneMore
  <2>2. CASE ~(to > insertion)
    BY <1>1, <2>2
  <2>. QED
    BY <2>1, <2>2
<1>8. AddedAt(adds, from) = <<>>
  <2>1. \A k \in DOMAIN adds : adds[k].pos \in Nat
    <3>1. \A h \in DOMAIN adds : adds[h] \in Changes
      BY <1>2
    <3>. QED
      BY <3>1 DEF Changes
  <2>2. \A k \in DOMAIN adds : adds[k].pos # from
    BY <1>1, <1>4, <2>1 DEF Apart
  <2>. QED
    BY <2>2, NothingAdded
<1>9. AddedAt(adds', from) = X
  <2>1. CASE to > insertion
    <3>1. adds' = Append(adds, add)
      BY <1>1, <2>1
    <3>2. AddedAt(Append(adds, add), add.pos) = add.txt
      BY <1>2, <1>3, <1>5, <3>1, AddedOneMore
    <3>. QED
      BY <1>3, <3>1, <3>2
  <2>2. CASE ~(to > insertion)
    <3>1. to < insertion + 1 /\ to \in Int /\ insertion + 1 \in Int
      BY <1>4, <2>2
    <3>2. X = <<>>
      BY <3>1, SubSeqEmpty
    <3>. QED
      BY <1>1, <1>8, <2>2, <3>2
  <2>. QED
    BY <2>1, <2>2
<1>10. \A p \in Nat : p <= from => KeptAt(old, dels', p) = KeptAt(old, dels, p)
  <2>1. CASE Deletion > from
    <3>1. dels' = Append(dels, del)
      BY <1>1, <2>1
    <3>. QED
      BY <1>2, <1>3, <3>1, CutOneMore
  <2>2. CASE ~(Deletion > from)
    BY <1>1, <2>2
  <2>. QED
    BY <2>1, <2>2
<1>. HIDE DEF X
<1>11. X \in Seq(Chars)
  BY <1>2, <1>9, PartsAreTexts
<1>. DEFINE P == IF from = 0 THEN <<>> ELSE M[from - 1] \o KeptAt(old, dels, from)
<1>12. P \in Seq(Chars)
  <2>1. CASE from = 0
    BY <2>1
  <2>2. CASE from # 0
    <3>1. from - 1 \in 0..Len(old) /\ from \in 1..Len(old)
      BY <1>4, <2>2
    <3>2. M[from - 1] \in Seq(Chars) /\ KeptAt(old, dels, from) \in Seq(Chars)
      BY <1>2, <3>1, MadeIsText, PartsAreTexts
    <3>. HIDE DEF M
    <3>3. M[from - 1] \o KeptAt(old, dels, from) \in Seq(Chars)
      BY <3>2, ConcatProperties
    <3>. QED
      BY <2>2, <3>3
  <2>. QED
    BY <2>1, <2>2
<1>13. M[from] = P
  <2>1. M[from] = Further(old, adds, dels, M, from)
    BY <1>2, <1>4, MadeIs
  <2>. HIDE DEF M
  <2>2. M[from] = P \o <<>>
    BY <1>8, <2>1 DEF Further
  <2>. HIDE DEF P
  <2>. QED
    BY <1>12, <2>2, ConcatEmptySeq
<1>14. O[from] = P \o X
  <2>1. O[from] = Further(old, adds', dels', O, from)
    BY <1>2, <1>4, MadeIs
  <2>2. from # 0 => O[from - 1] = M[from - 1]
    <3>1. CASE from # 0
      <4>1. /\ from - 1 \in 0..Len(old)
            /\ \A p \in 0..from - 1 : p # from
            /\ \A p \in 1..from - 1 : p \in Nat /\ p <= from
        BY <1>4, <3>1
      <4>2. \A p \in 0..from - 1 : AddedAt(adds', p) = AddedAt(adds, p)
        BY <1>7, <4>1
      <4>3. \A p \in 1..from - 1 : KeptAt(old, dels', p) = KeptAt(old, dels, p)
        BY <1>10, <4>1
      <4>4. Agree(old, adds', dels', adds, dels, from - 1)
        BY <4>2, <4>3 DEF Agree
      <4>. QED
        BY <1>2, <4>1, <4>4, MadeSame
    <3>. QED
      BY <3>1
  <2>3. KeptAt(old, dels', from) = KeptAt(old, dels, from)
    BY <1>4, <1>10
  <2>. HIDE DEF M, O
  <2>. QED
    BY <1>9, <2>1, <2>2, <2>3 DEF Further
<1>15. O[Deletion] = O[from]
  <2>1. ASSUME NEW p \in from + 1..Deletion PROVE AddedAt(adds', p) = <<>> /\ KeptAt(old, dels', p) = <<>>
    <3>1. p \in Nat /\ from < p /\ p <= Deletion /\ p # from /\ Deletion > from
      BY <1>4
    <3>2. AddedAt(adds, p) = <<>>
      <4>1. \A k \in DOMAIN adds : adds[k].pos \in Nat
        <5>1. \A h \in DOMAIN adds : adds[h] \in Changes
          BY <1>2
        <5>. QED
          BY <5>1 DEF Changes
      <4>2. \A k \in DOMAIN adds : adds[k].pos # p
        BY <1>1, <1>4, <3>1, <4>1 DEF Apart
      <4>. QED
        BY <4>2, NothingAdded
    <3>3. dels' = Append(dels, del)
      BY <1>1, <3>1
    <3>4. KeptAt(old, Append(dels, del), p) = <<>>
      BY <1>2, <1>3, <1>6, <3>1, CutOneMore
    <3>. QED
      BY <1>7, <3>1, <3>2, <3>3, <3>4
  <2>. QED
    BY <1>2, <1>4, <2>1, MadeStays
<1>. QED
  BY <1>13, <1>14, <1>15 DEF X

\* Before anything is recorded nothing is made.
LEMMA NothingMade ==
  ASSUME TypeInv, adds = <<>>
  PROVE  Made(old, adds, dels)[0] = <<>>
<1>1. old \in Seq(Chars) /\ adds \in Seq(Changes) /\ Len(old) \in Nat
  BY LenProperties DEF TypeInv
<1>2. 0 \in 0..Len(old)
  BY <1>1
<1>3. Made(old, adds, dels)[0] = Further(old, adds, dels, Made(old, adds, dels), 0)
  BY <1>1, <1>2, MadeIs
<1>4. AddedAt(adds, 0) = <<>>
  <2>1. \A k \in DOMAIN adds : FALSE
    OBVIOUS
  <2>. QED
    BY <2>1, NothingAdded
<1>5. <<>> \o <<>> = <<>>
  <2>1. <<>> \in Seq(Chars)
    OBVIOUS
  <2>. QED
    BY <2>1, ConcatEmptySeq
<1>. QED
  BY <1>3, <1>4, <1>5 DEF Further

\* What is recorded leads to the same line in both texts, or to their ends.
LEMMA RecordMeets ==
  ASSUME TypeInv, Record
  PROVE  SameLine'
<1>0. /\ old' = old /\ new' = new /\ from' = Deletion /\ to' = to /\ Deletion # NotFound
  BY DEF Record
<1>1. /\ to = Len(new) => Deletion = Len(old)
      /\ to # Len(new) => Line(old, Deletion) = Line(new, to)
  BY <1>0, DeletionIs
<1>2. CASE to = Len(new)
  <2>1. old \in Seq(Chars) /\ new \in Seq(Chars) /\ Len(old) \in Nat /\ Len(new) \in Nat
    BY LenProperties DEF TypeInv
  <2>2. Len(old) \in 0..Len(old) /\ Len(new) \in 0..Len(new)
    BY <2>1
  <2>3. Line(old, Len(old)) = <<>> /\ Line(new, Len(new)) = <<>>
    BY <2>1, <2>2, LineIs
  <2>. QED
    BY <1>0, <1>1, <1>2, <2>3 DEF SameLine
<1>3. CASE to # Len(new)
  BY <1>0, <1>1, <1>3 DEF SameLine
<1>. QED
  BY <1>2, <1>3

\* Once the texts are regular: both have been read up to the beginning of a line, and what
\* has been recorded makes, of what has been read of the old text, what has been read of the
\* new one, or during a search, what had been.
PatchInv ==
  \A B : Ends(old, B) /\ Ends(new, B) =>
    /\ Begins(old, from) /\ Begins(new, to)
    /\ pc # "search" => /\ Made(old, adds, dels)[from] = SubSeq(new, 1, to)
                        /\ from = Len(old) => to > 0
                        /\ to = Len(new) => from > 0
    /\ pc = "lines" => SameLine \/ insertion = to
    /\ pc = "search" => Made(old, adds, dels)[from] = SubSeq(new, 1, insertion)
    /\ pc = "done" => AtEnd

LEMMA RegularIsLong ==
  ASSUME NEW t \in Seq(Chars), NEW B, Ends(t, B)
  PROVE  Len(t) > 0
<1>1. t # <<>>
  BY DEF Ends, LFLines, CRLFLines
<1>2. Len(t) \in Nat /\ (Len(t) = 0 <=> t = <<>>)
  BY LenProperties, EmptySeq
<1>. QED
  BY <1>1, <1>2

LEMMA PatchInit == Init /\ TypeInv => PatchInv
<1>. SUFFICES ASSUME Init, TypeInv, NEW B, Ends(old, B), Ends(new, B)
              PROVE  /\ Begins(old, from) /\ Begins(new, to)
                     /\ Made(old, adds, dels)[from] = SubSeq(new, 1, to)
                     /\ from # Len(old) /\ to # Len(new) /\ insertion = to /\ pc = "lines"
  BY DEF PatchInv
<1>1. old \in Seq(Chars) /\ new \in Seq(Chars) /\ adds \in Seq(Changes)
  BY DEF TypeInv
<1>2. from = 0 /\ to = 0 /\ insertion = to /\ pc = "lines" /\ adds = <<>>
  BY DEF Init
<1>3. Len(old) > 0 /\ Len(new) > 0 /\ Len(old) \in Nat
  BY <1>1, RegularIsLong, LenProperties
<1>4. Made(old, adds, dels)[0] = SubSeq(new, 1, 0)
  <2>1. SubSeq(new, 1, 0) = <<>>
    BY SubSeqEmpty
  <2>. QED
    BY <1>2, <2>1, NothingMade
<1>. QED
  BY <1>2, <1>3, <1>4 DEF Begins

\* While lines agree neither text has ended: at the end of one, the line is empty, and at
\* the beginning of a line in the other it is not.
LEMMA BothGoOn ==
  ASSUME TypeInv, PatchInv, pc = "lines", ~AtEnd, SameLine,
         NEW B, Ends(old, B), Ends(new, B)
  PROVE  from < Len(old) /\ to < Len(new)
<1>1. /\ Len(old) \in Nat /\ from \in 0..Len(old) /\ Len(new) \in Nat /\ to \in 0..Len(new)
      /\ old \in Seq(Chars) /\ new \in Seq(Chars)
  BY Onward DEF TypeInv
<1>2. /\ Begins(old, from) /\ Begins(new, to)
      /\ from = Len(old) => to > 0
      /\ to = Len(new) => from > 0
  BY DEF PatchInv
<1>3. from = Len(old) => Line(old, from) = <<>>
  BY <1>1, LineIs
<1>4. to = Len(new) => Line(new, to) = <<>>
  BY <1>1, LineIs
<1>5. ASSUME from = Len(old) PROVE FALSE
  <2>1. to < Len(new) /\ to > 0
    BY <1>1, <1>2, <1>5 DEF AtEnd
  <2>2. Line(new, to) # <<>>
    BY <1>1, <1>2, <2>1, RegularLine, LineIs
  <2>. QED
    BY <1>3, <1>5, <2>2 DEF SameLine
<1>6. ASSUME to = Len(new) PROVE FALSE
  <2>1. from < Len(old) /\ from > 0
    BY <1>1, <1>2, <1>6 DEF AtEnd
  <2>2. Line(old, from) # <<>>
    BY <1>1, <1>2, <2>1, RegularLine, LineIs
  <2>. QED
    BY <1>4, <1>6, <2>2 DEF SameLine
<1>. QED
  BY <1>1, <1>5, <1>6

LEMMA PatchStep ==
  TypeInv /\ TypeInv' /\ OrderInv /\ OrderInv' /\ PatchInv /\ [Next]_vars => PatchInv'
<1>. SUFFICES ASSUME TypeInv, TypeInv', OrderInv, OrderInv', PatchInv, [Next]_vars,
                     NEW B, Ends(old', B), Ends(new', B)
              PROVE  /\ Begins(old', from') /\ Begins(new', to')
                     /\ pc' # "search" => /\ Made(old', adds', dels')[from'] = SubSeq(new', 1, to')
                                          /\ from' = Len(old') => to' > 0
                                          /\ to' = Len(new') => from' > 0
                     /\ pc' = "lines" => SameLine' \/ insertion' = to'
                     /\ pc' = "search" => Made(old', adds', dels')[from'] = SubSeq(new', 1, insertion')
                     /\ pc' = "done" => AtEnd'
  BY DEF PatchInv
<1>0. old' = old /\ new' = new
  BY DEF Next, Equal, Differ, Advance, Record, Return, vars
<1>1. Ends(old, B) /\ Ends(new, B)
  BY <1>0
<1>2. /\ Len(old) \in Nat /\ from \in 0..Len(old) /\ Len(new) \in Nat /\ to \in 0..Len(new)
      /\ insertion \in 0..to /\ old \in Seq(Chars) /\ new \in Seq(Chars)
  BY Onward DEF TypeInv
<1>3. /\ Begins(old, from) /\ Begins(new, to)
      /\ pc # "search" => /\ Made(old, adds, dels)[from] = SubSeq(new, 1, to)
                          /\ from = Len(old) => to > 0
                          /\ to = Len(new) => from > 0
      /\ pc = "lines" => SameLine \/ insertion = to
      /\ pc = "search" => Made(old, adds, dels)[from] = SubSeq(new, 1, insertion)
      /\ pc = "done" => AtEnd
  BY <1>1 DEF PatchInv
<1>4. ChangesInOrder
  BY DEF OrderInv
<1>5. CASE Equal
  <2>1. /\ pc = "lines" /\ ~AtEnd /\ SameLine /\ pc' = pc /\ adds' = adds /\ dels' = dels
        /\ from' = SkipLine(old, from) /\ to' = SkipLine(new, to)
        /\ insertion' = IF from + LineLen(old, from) = Len(old)
                          THEN to + LineLen(new, to) ELSE SkipLine(new, to)
    BY <1>5 DEF Equal
  <2>2. from < Len(old) /\ to < Len(new)
    BY <1>1, <2>1, BothGoOn
  <2>3. /\ from + LineLen(old, from) < Len(old)
        /\ SubSeq(old, from + 1, from') = Line(old, from) \o B
        /\ Begins(old, from')
    BY <1>1, <1>2, <1>3, <2>1, <2>2, RegularLine
  <2>4. /\ SubSeq(new, to + 1, to') = Line(new, to) \o B
        /\ Begins(new, to')
    BY <1>1, <1>2, <1>3, <2>1, <2>2, RegularLine
  <2>5. from' \in from..Len(old) /\ from < from' /\ to' \in to..Len(new) /\ to < to'
    BY <2>1, <2>2, Onward
  <2>6. Made(old, adds, dels)[from'] = Made(old, adds, dels)[from] \o SubSeq(old, from + 1, from')
    BY <1>4, <2>5, UntouchedBehind
  <2>7. SubSeq(old, from + 1, from') = SubSeq(new, to + 1, to')
    BY <2>1, <2>3, <2>4 DEF SameLine
  <2>8. SubSeq(new, 1, to) \o SubSeq(new, to + 1, to') = SubSeq(new, 1, to')
    <3>1. 1 \in 1..Len(new) + 1 /\ to \in 1 - 1..Len(new) /\ to' \in to..Len(new)
      BY <1>2, <2>5
    <3>. QED
      BY <1>2, <3>1, ConcatAdjacentSubSeq
  <2>9. Made(old, adds, dels)[from'] = SubSeq(new, 1, to')
    BY <1>3, <2>1, <2>6, <2>7, <2>8
  <2>10. insertion' = to' /\ from' > 0 /\ to' > 0
    BY <1>2, <2>1, <2>3, <2>5
  <2>. QED
    BY <1>0, <2>1, <2>3, <2>4, <2>9, <2>10
<1>6. CASE Differ
  <2>1. /\ pc = "lines" /\ ~SameLine /\ pc' = "search"
        /\ UNCHANGED <<from, to, insertion, adds, dels>>
    BY <1>6 DEF Differ
  <2>. QED
    BY <1>0, <1>3, <2>1
<1>7. CASE Advance
  <2>1. /\ pc = "search" /\ pc' = pc /\ to' = SkipLine(new, to)
        /\ UNCHANGED <<from, insertion, adds, dels>>
    BY <1>7 DEF Advance
  <2>2. Begins(new, to')
    BY <1>1, <1>2, <1>3, <2>1, RegularFollows
  <2>. QED
    BY <1>0, <1>3, <2>1, <2>2
<1>8. CASE Record
  <2>1. /\ pc = "search" /\ Deletion # NotFound /\ pc' = "lines"
        /\ from' = Deletion /\ to' = to /\ insertion' = insertion
    BY <1>8 DEF Record
  <2>2. /\ Deletion \in from..Len(old)
        /\ to = Len(new) => Deletion = Len(old)
        /\ to # Len(new) => Deletion < Len(old) /\ Line(old, Deletion) = Line(new, to)
    BY <2>1, DeletionIs
  <2>3. Made(old, adds', dels')[Deletion] = Made(old, adds, dels)[from] \o SubSeq(new, insertion + 1, to)
    BY <1>8, RecordMakes
  <2>4. SubSeq(new, 1, insertion) \o SubSeq(new, insertion + 1, to) = SubSeq(new, 1, to)
    <3>1. 1 \in 1..Len(new) + 1 /\ insertion \in 1 - 1..Len(new) /\ to \in insertion..Len(new)
      BY <1>2
    <3>. QED
      BY <1>2, <3>1, ConcatAdjacentSubSeq
  <2>5. Made(old, adds', dels')[Deletion] = SubSeq(new, 1, to)
    BY <1>3, <2>1, <2>3, <2>4
  <2>6. Begins(old, Deletion)
    <3>1. CASE to = Len(new)
      BY <2>2, <3>1 DEF Begins
    <3>2. CASE to # Len(new)
      <4>. DEFINE r == SearchLine(old, from, Line(new, to))
      <4>1. Deletion = r
        BY <3>2 DEF Deletion
      <4>2. \A j \in 0..Len(old) : Begins(old, j) => Begins(old, SkipLine(old, j))
        BY <1>1, <1>2, RegularFollows
      <4>3. r = NotFound \/ Begins(old, r)
        BY <1>2, <1>3, <4>2, SearchLineIs
      <4>. QED
        BY <2>1, <4>1, <4>3
    <3>. QED
      BY <3>1, <3>2
  <2>7. SameLine'
    BY <1>8, RecordMeets
  <2>8. /\ Deletion = Len(old) => to > 0
        /\ to = Len(new) => Deletion > 0
    <3>1. Len(old) > 0 /\ Len(new) > 0
      BY <1>1, <1>2, RegularIsLong
    <3>. QED
      BY <1>2, <2>2, <3>1
  <2>. QED
    BY <1>0, <1>3, <2>1, <2>5, <2>6, <2>7, <2>8
<1>9. CASE Return
  <2>1. /\ pc = "lines" /\ AtEnd /\ pc' = "done"
        /\ UNCHANGED <<from, to, insertion, adds, dels>>
    BY <1>9 DEF Return
  <2>2. AtEnd'
    BY <1>0, <2>1 DEF AtEnd
  <2>. QED
    BY <1>0, <1>3, <2>1, <2>2
<1>10. CASE UNCHANGED vars
  <2>1. UNCHANGED <<from, to, insertion, adds, dels, pc>>
    BY <1>10 DEF vars
  <2>2. (AtEnd' <=> AtEnd) /\ (SameLine' <=> SameLine)
    BY <1>0, <2>1 DEF AtEnd, SameLine
  <2>. QED
    BY <1>0, <1>3, <2>1, <2>2
<1>. QED
  BY <1>5, <1>6, <1>7, <1>8, <1>9, <1>10 DEF Next

LEMMA PatchHolds == Spec => []PatchInv
<1>. QED
  BY PatchInit, PatchStep, TypeHolds, OrderHolds, PTL DEF Spec

\* Of texts whose lines are all ended alike and not empty, the diff rebuilds the new one
\* from the old one, character by character.
THEOREM RegularTextsAreExact == Spec => []ExactOnRegular
<1>1. TypeInv /\ PatchInv => ExactOnRegular
  <2>. SUFFICES ASSUME TypeInv, PatchInv, pc = "done", NEW B, Ends(old, B), Ends(new, B)
                PROVE  Patched = new
    BY DEF ExactOnRegular, Ends
  <2>1. AtEnd /\ Made(old, adds, dels)[from] = SubSeq(new, 1, to)
    BY DEF PatchInv
  <2>2. SubSeq(new, 1, Len(new)) = new
    BY SubSeqFull DEF TypeInv
  <2>. QED
    BY <2>1, <2>2 DEF AtEnd, Patched
<1>. QED
  BY <1>1, TypeHolds, PatchHolds, PTL

-----------------------------------------------------------------------------
(* The lines of a text, whatever its breaks.                                 *)

\* One line and those behind it, given the lines from every later place.
LineAnd(t, f, i) ==
  IF i = Len(t) THEN <<>>
  ELSE (IF LineLen(t, i) = 0 THEN <<>> ELSE <<Line(t, i)>>) \o f[SkipLine(t, i)]

\* The lines from each place of a text on.
LinesFrom(t) == CHOOSE f : f = [i \in 0..Len(t) |-> LineAnd(t, f, i)]

LEMMA LinesExist ==
  ASSUME NEW t \in Seq(Chars)
  PROVE  \E f : f = [i \in 0..Len(t) |-> LineAnd(t, f, i)]
<1>. DEFINE N == Len(t)
            Good(n) == \E f : DOMAIN f = (N - n)..N /\ \A j \in (N - n)..N : f[j] = LineAnd(t, f, j)
            Bad == {n \in 0..N : ~Good(n)}
<1>n. N \in Nat
  BY LenProperties
<1>0. N \in Nat /\ Bad \in SUBSET Nat
  BY <1>n
<1>a. \A j \in 0..N : SkipLine(t, j) \in j..N /\ (j < N => j < SkipLine(t, j))
  BY SkipLineIs
<1>1. Bad = {}
  <2>. SUFFICES ASSUME Bad # {} PROVE FALSE
    OBVIOUS
  <2>. HIDE DEF Good
  <2>1. PICK n \in Bad : \A m \in Bad : n <= m
    BY <1>0, Least
  <2>2. n \in 0..N /\ ~Good(n)
    OBVIOUS
  <2>3. CASE n = 0
    <3>. DEFINE f == [j \in N..N |-> <<>>]
    <3>1. \A j \in N..N : f[j] = LineAnd(t, f, j)
      BY <1>n DEF LineAnd
    <3>2. DOMAIN f = (N - 0)..N /\ (N - 0)..N = N..N
      BY <1>0
    <3>. HIDE DEF f
    <3>. QED
      BY <2>2, <2>3, <3>1, <3>2 DEF Good
  <2>4. CASE n # 0
    <3>1. n - 1 \in 0..N /\ ~(n <= n - 1)
      BY <1>0, <2>2, <2>4
    <3>2. Good(n - 1)
      BY <2>1, <3>1
    <3>3. PICK f : /\ DOMAIN f = (N - (n - 1))..N
                   /\ \A j \in (N - (n - 1))..N : f[j] = LineAnd(t, f, j)
      BY <3>2 DEF Good
    <3>. DEFINE g == [j \in (N - n)..N |-> IF j = N - n THEN LineAnd(t, f, j) ELSE f[j]]
    <3>4. ASSUME NEW j \in (N - n)..N PROVE g[j] = LineAnd(t, g, j)
      <4>1. j \in 0..N /\ N - n < N
        BY <1>0, <2>2, <2>4
      <4>2. j # N => SkipLine(t, j) \in (N - (n - 1))..N
        <5>1. j # N => SkipLine(t, j) \in j..N /\ j < SkipLine(t, j)
          BY <1>n, <1>a, <4>1
        <5>2. \A k \in j..N : j < k => k \in (N - (n - 1))..N
          BY <1>n, <2>2, <4>1
        <5>. QED
          BY <5>1, <5>2
      <4>3. j # N => g[SkipLine(t, j)] = f[SkipLine(t, j)]
        <5>1. \A k \in (N - (n - 1))..N : k \in (N - n)..N /\ k # N - n
          BY <1>0, <2>2
        <5>. QED
          BY <4>2, <5>1
      <4>4. LineAnd(t, g, j) = LineAnd(t, f, j)
        <5>. HIDE DEF g
        <5>. QED
          BY <4>3 DEF LineAnd
      <4>5. g[j] = LineAnd(t, f, j)
        <5>1. CASE j = N - n
          BY <5>1
        <5>2. CASE j # N - n
          <6>1. j \in (N - (n - 1))..N
            BY <1>0, <2>2, <5>2
          <6>. QED
            BY <3>3, <5>2, <6>1
        <5>. QED
          BY <5>1, <5>2
      <4>. HIDE DEF g
      <4>. QED
        BY <4>4, <4>5
    <3>5. DOMAIN g = (N - n)..N
      OBVIOUS
    <3>. HIDE DEF g
    <3>. QED
      BY <2>2, <3>4, <3>5 DEF Good
  <2>. QED
    BY <2>3, <2>4
<1>2. N \in 0..N /\ N - N = 0
  BY <1>0
<1>3. PICK f : DOMAIN f = 0..N /\ \A j \in 0..N : f[j] = LineAnd(t, f, j)
  BY <1>1, <1>2
<1>. DEFINE g == [j \in 0..N |-> f[j]]
<1>4. \A j \in 0..N : LineAnd(t, g, j) = LineAnd(t, f, j)
  <2>1. \A j \in 0..N : SkipLine(t, j) \in 0..N
    BY <1>0, SkipLineIs
  <2>. QED
    BY <2>1 DEF LineAnd
<1>5. g = [j \in 0..N |-> LineAnd(t, g, j)]
  <2>1. \A j \in 0..N : g[j] = LineAnd(t, g, j)
    <3>1. \A j \in 0..N : g[j] = f[j]
      OBVIOUS
    <3>. HIDE DEF g
    <3>. QED
      BY <1>3, <1>4, <3>1
  <2>2. g = [j \in 0..N |-> g[j]]
    OBVIOUS
  <2>. HIDE DEF g
  <2>3. [j \in 0..N |-> g[j]] = [j \in 0..N |-> LineAnd(t, g, j)]
    BY <2>1
  <2>. QED
    BY <2>2, <2>3
<1>. QED
  BY <1>5

\* The definition's equation, at each place.
LEMMA LinesAre ==
  ASSUME NEW t \in Seq(Chars)
  PROVE  /\ LinesOf(t) = LinesFrom(t)[0]
         /\ \A i \in 0..Len(t) : LinesFrom(t)[i] = LineAnd(t, LinesFrom(t), i)
<1>1. LinesOf(t) = LinesFrom(t)[0]
  BY DEF LinesOf, LinesFrom, LineAnd
<1>2. LinesFrom(t) = [i \in 0..Len(t) |-> LineAnd(t, LinesFrom(t), i)]
  BY LinesExist DEF LinesFrom
<1>. DEFINE L == LinesFrom(t)
<1>. HIDE DEF L
<1>3. L = [i \in 0..Len(t) |-> LineAnd(t, L, i)]
  BY <1>2 DEF L
<1>4. \A i \in 0..Len(t) : [j \in 0..Len(t) |-> LineAnd(t, L, j)][i] = LineAnd(t, L, i)
  OBVIOUS
<1>5. \A i \in 0..Len(t) : L[i] = LineAnd(t, L, i)
  BY <1>3, <1>4
<1>. QED
  BY <1>1, <1>5 DEF L

\* A line is a text, of its length.
LEMMA LineIsText ==
  ASSUME NEW t \in Seq(Chars), NEW i \in 0..Len(t)
  PROVE  /\ Line(t, i) \in Seq(Chars) /\ Len(Line(t, i)) = LineLen(t, i)
         /\ \A k \in 1..LineLen(t, i) : Line(t, i)[k] = t[i + k]
<1>1. Len(t) \in Nat /\ LineLen(t, i) \in 0..(Len(t) - i)
  BY LenProperties, LineLenIs
<1>. DEFINE e == i + LineLen(t, i)
<1>2. i + 1 \in Int /\ e \in Int /\ (IF i + 1 <= e THEN e - (i + 1) + 1 ELSE 0) = LineLen(t, i)
      /\ e - (i + 1) + 1 = LineLen(t, i)
  BY <1>1
<1>3. \A k \in i + 1..e : t[k] \in Chars
  <2>1. \A k \in i + 1..e : k \in 1..Len(t)
    BY <1>1
  <2>. QED
    BY <2>1, ElementOfSeq
<1>4. \A k \in 1..LineLen(t, i) : (i + 1) + k - 1 = i + k
  BY <1>1
<1>. DEFINE s == SubSeq(t, i + 1, e)
<1>. HIDE DEF e
<1>5. /\ s \in Seq(Chars) /\ Len(s) = IF i + 1 <= e THEN e - (i + 1) + 1 ELSE 0
      /\ \A k \in 1..e - (i + 1) + 1 : s[k] = t[(i + 1) + k - 1]
  BY <1>2, <1>3, SubSeqProperties
<1>6. Line(t, i) = s
  BY DEF Line, e
<1>. HIDE DEF s
<1>. QED
  BY <1>2, <1>4, <1>5, <1>6

\* At a break there is an empty line; skipping it leads past one break or two.
LEMMA SkipBreak ==
  ASSUME NEW t \in Seq(Chars), NEW i \in 0..Len(t), i < Len(t), t[i + 1] \in Breaks
  PROVE  /\ LineLen(t, i) = 0
         /\ SkipLine(t, i) = i + 1
            \/ (SkipLine(t, i) = i + 2 /\ i + 1 < Len(t) /\ t[i + 2] \in Breaks)
<1>1. Len(t) \in Nat /\ LineLen(t, i) \in 0..(Len(t) - i)
  BY LenProperties, LineLenIs
<1>2. LineLen(t, i) = 0
  <2>1. 0 \in 0..(Len(t) - i) /\ i + 0 = i
    BY <1>1
  <2>2. ~(0 < LineLen(t, i))
    BY <2>1, LineLenIs
  <2>. QED
    BY <1>1, <2>2
<1>3. i + LineLen(t, i) = i /\ i # Len(t)
  BY <1>1, <1>2
<1>4. SkipLine(t, i) = IF i + 1 < Len(t) /\ t[i + 2] = LF THEN i + 2 ELSE i + 1
  BY <1>3 DEF SkipLine
<1>5. LF \in Breaks
  BY DEF Breaks
<1>. QED
  BY <1>2, <1>4, <1>5

\* The lines from a place on: none at the end, those behind a break, or else one and those
\* behind its characters.
LEMMA LinesBehind ==
  ASSUME NEW t \in Seq(Chars)
  PROVE  \A i \in 0..Len(t) :
           /\ LinesFrom(t)[i] \in Seq(Seq(Chars))
           /\ i = Len(t) => LinesFrom(t)[i] = <<>>
           /\ i < Len(t) /\ t[i + 1] \in Breaks => LinesFrom(t)[i] = LinesFrom(t)[i + 1]
           /\ i < Len(t) /\ t[i + 1] \notin Breaks =>
                /\ LineLen(t, i) > 0
                /\ LinesFrom(t)[i] = <<Line(t, i)>> \o LinesFrom(t)[i + LineLen(t, i)]
<1>. DEFINE N == Len(t)
            L == LinesFrom(t)
<1>n. N \in Nat
  BY LenProperties
<1>1. \A i \in 0..N : L[i] = LineAnd(t, L, i)
  BY LinesAre
<1>. HIDE DEF L
<1>a. \A i \in 0..N : /\ LineLen(t, i) \in 0..(N - i)
                       /\ SkipLine(t, i) \in i..N /\ (i < N => i < SkipLine(t, i))
  BY LineLenIs, SkipLineIs
<1>e. L[N] = <<>>
  <2>1. N \in 0..N
    BY <1>n
  <2>2. L[N] = LineAnd(t, L, N)
    BY <1>1, <2>1
  <2>. QED
    BY <2>2 DEF LineAnd
<1>o. <<>> \in Seq(Seq(Chars))
  OBVIOUS
<1>s. \A s \in Seq(Seq(Chars)) : <<>> \o s = s
  BY ConcatEmptySeq
<1>c. \A r, s \in Seq(Seq(Chars)) : r \o s \in Seq(Seq(Chars))
  BY ConcatProperties
<1>t. \A i \in 0..N : (IF LineLen(t, i) = 0 THEN <<>> ELSE <<Line(t, i)>>) \in Seq(Seq(Chars))
  <2>1. \A i \in 0..N : Line(t, i) \in Seq(Chars)
    BY LineIsText
  <2>2. \A l \in Seq(Chars) : <<l>> \in Seq(Seq(Chars))
    OBVIOUS
  <2>3. <<>> \in Seq(Seq(Chars))
    OBVIOUS
  <2>. QED
    BY <2>1, <2>2, <2>3
<1>2. \A i \in 0..N : L[i] \in Seq(Seq(Chars))
  <2>. DEFINE Bad == {n \in 0..N : L[N - n] \notin Seq(Seq(Chars))}
  <2>0. Bad \in SUBSET Nat
    BY <1>n
  <2>1. Bad = {}
    <3>. SUFFICES ASSUME Bad # {} PROVE FALSE
      OBVIOUS
    <3>1. PICK n \in Bad : \A m \in Bad : n <= m
      BY <2>0, Least
    <3>2. n \in 0..N /\ L[N - n] \notin Seq(Seq(Chars)) /\ N - n \in 0..N
      BY <1>n
    <3>3. N - n # N
      BY <1>e, <1>o, <3>2
    <3>. DEFINE j == N - n
                k == SkipLine(t, j)
    <3>4. j \in 0..N /\ j < N
      BY <1>n, <3>2, <3>3
    <3>5. L[j] = (IF LineLen(t, j) = 0 THEN <<>> ELSE <<Line(t, j)>>) \o L[k]
      <4>. HIDE DEF j
      <4>1. L[j] = LineAnd(t, L, j) /\ j # N
        BY <1>n, <1>1, <3>4
      <4>. QED
        BY <4>1 DEF LineAnd
    <3>6. k \in j..N /\ j < k
      <4>. HIDE DEF j
      <4>. QED
        BY <1>a, <3>4
    <3>7. N - k \in 0..N /\ ~(n <= N - k) /\ N - (N - k) = k
      <4>. HIDE DEF k
      <4>. QED
        BY <1>n, <3>2, <3>6
    <3>8. L[k] \in Seq(Seq(Chars))
      <4>. HIDE DEF k
      <4>1. N - k \notin Bad
        BY <3>1, <3>7
      <4>. QED
        BY <3>7, <4>1
    <3>. HIDE DEF k
    <3>9. L[j] \in Seq(Seq(Chars))
      <4>. HIDE DEF j
      <4>1. (IF LineLen(t, j) = 0 THEN <<>> ELSE <<Line(t, j)>>) \in Seq(Seq(Chars))
        BY <1>t, <3>4
      <4>. QED
        BY <1>c, <3>5, <3>8, <4>1, Zenon
    <3>. QED
      BY <3>2, <3>9
  <2>2. \A i \in 0..N : N - i \in 0..N /\ N - (N - i) = i
    BY <1>n
  <2>. QED
    BY <2>1, <2>2
<1>3. ASSUME NEW i \in 0..N, i < N PROVE SkipLine(t, i) \in 0..N /\ LineLen(t, i) = 0 => L[i] = L[SkipLine(t, i)]
  <2>1. L[i] = LineAnd(t, L, i) /\ i # N
    BY <1>n, <1>1, <1>3
  <2>2. LineLen(t, i) = 0 => L[i] = <<>> \o L[SkipLine(t, i)]
    BY <2>1 DEF LineAnd
  <2>. QED
    BY <1>2, <1>s, <2>2
<1>4. \A i \in 0..N : i < N /\ t[i + 1] \in Breaks => L[i] = L[i + 1]
  <2>. DEFINE Fine(i) == i < N /\ t[i + 1] \in Breaks => L[i] = L[i + 1]
              Bad == {n \in 0..N : ~Fine(N - n)}
  <2>0. Bad \in SUBSET Nat
    BY <1>n
  <2>1. Bad = {}
    <3>. SUFFICES ASSUME Bad # {} PROVE FALSE
      OBVIOUS
    <3>. HIDE DEF Fine
    <3>1. PICK n \in Bad : \A m \in Bad : n <= m
      BY <2>0, Least
    <3>. DEFINE j == N - n
    <3>2. n \in 0..N /\ ~Fine(j)
      OBVIOUS
    <3>3. j \in 0..N /\ j < N /\ t[j + 1] \in Breaks /\ L[j] # L[j + 1]
      BY <1>n, <3>2 DEF Fine
    <3>4. N - (j + 1) \in 0..N /\ ~(n <= N - (j + 1)) /\ N - (N - (j + 1)) = j + 1
      BY <1>n, <3>2, <3>3
    <3>5. Fine(j + 1)
      BY <3>1, <3>4
    <3>. HIDE DEF j
    <3>6. /\ LineLen(t, j) = 0
          /\ SkipLine(t, j) = j + 1
             \/ (SkipLine(t, j) = j + 2 /\ j + 1 < N /\ t[j + 2] \in Breaks)
      BY <3>3, SkipBreak
    <3>7. SkipLine(t, j) \in 0..N
      <4>1. SkipLine(t, j) \in j..N
        BY <1>a, <3>3
      <4>. QED
        BY <3>3, <4>1
    <3>8. L[j] = L[SkipLine(t, j)]
      BY <1>3, <3>3, <3>6, <3>7
    <3>9. SkipLine(t, j) = j + 2 /\ j + 1 < N /\ t[j + 2] \in Breaks
      BY <3>3, <3>6, <3>8
    <3>10. (j + 1) + 1 = j + 2
      BY <3>3
    <3>11. L[j + 1] = L[j + 2]
      BY <3>5, <3>9, <3>10 DEF Fine
    <3>. QED
      BY <3>3, <3>8, <3>9, <3>11
  <2>2. \A i \in 0..N : N - i \in 0..N /\ N - (N - i) = i
    BY <1>n
  <2>. HIDE DEF Fine
  <2>3. \A i \in 0..N : Fine(i)
    BY <2>1, <2>2
  <2>. QED
    BY <2>3 DEF Fine
<1>5. ASSUME NEW i \in 0..N, i < N, t[i + 1] \notin Breaks
      PROVE  LineLen(t, i) > 0 /\ L[i] = <<Line(t, i)>> \o L[i + LineLen(t, i)]
  <2>. DEFINE e == i + LineLen(t, i)
  <2>1. LineLen(t, i) \in 0..(N - i) /\ (e = N \/ t[e + 1] \in Breaks)
    BY LineLenIs
  <2>2. LineLen(t, i) > 0
    <3>1. CASE LineLen(t, i) = 0
      <4>1. e = i
        BY <1>n, <3>1
      <4>. QED
        BY <1>n, <1>5, <2>1, <4>1
    <3>. QED
      BY <2>1, <3>1
  <2>3. e \in 0..N
    BY <1>n, <2>1
  <2>4. L[i] = <<Line(t, i)>> \o L[SkipLine(t, i)]
    <3>1. L[i] = LineAnd(t, L, i) /\ i # N /\ LineLen(t, i) # 0
      BY <1>n, <1>1, <1>5, <2>2
    <3>. QED
      BY <3>1 DEF LineAnd
  <2>5. L[SkipLine(t, i)] = L[e]
    <3>1. CASE e = N
      BY <3>1 DEF SkipLine
    <3>2. CASE e # N
      <4>. HIDE DEF e
      <4>1. e < N /\ t[e + 1] \in Breaks
        BY <1>n, <2>1, <2>3, <3>2
      <4>2. LineLen(t, e) = 0 /\ e + LineLen(t, e) = e
        BY <2>3, <4>1, SkipBreak
      <4>3. SkipLine(t, e) = SkipLine(t, i)
        BY <4>2 DEF SkipLine, e
      <4>4. SkipLine(t, e) \in 0..N
        <5>1. SkipLine(t, e) \in e..N
          BY <1>a, <2>3
        <5>. QED
          BY <2>3, <5>1
      <4>. QED
        BY <1>3, <2>3, <4>1, <4>2, <4>3, <4>4
    <3>. QED
      BY <3>1, <3>2
  <2>. QED
    BY <2>2, <2>4, <2>5
<1>. QED
  BY <1>e, <1>2, <1>4, <1>5 DEF L

\* The length of a line is known by where it ends, and lines of the same characters are the
\* same.
LEMMA LineLenUnique ==
  ASSUME NEW t \in Seq(Chars), NEW i \in 0..Len(t), NEW n \in 0..(Len(t) - i),
         i + n = Len(t) \/ t[i + n + 1] \in Breaks,
         \A k \in 1..n : t[i + k] \notin Breaks
  PROVE  LineLen(t, i) = n
<1>1. Len(t) \in Nat
  BY LenProperties
<1>2. /\ LineLen(t, i) \in 0..(Len(t) - i)
      /\ i + LineLen(t, i) = Len(t) \/ t[i + LineLen(t, i) + 1] \in Breaks
      /\ n < LineLen(t, i) => i + n # Len(t) /\ t[i + n + 1] \notin Breaks
  BY LineLenIs
<1>3. ~(n < LineLen(t, i))
  BY <1>2
<1>. DEFINE l == LineLen(t, i)
<1>4. l \in 0..(Len(t) - i) /\ (i + l = Len(t) \/ t[i + l + 1] \in Breaks)
  BY <1>2
<1>. HIDE DEF l
<1>5. ~(l < n)
  <2>. SUFFICES ASSUME l < n PROVE FALSE
    OBVIOUS
  <2>1. i + l # Len(t) /\ l + 1 \in 1..n /\ i + (l + 1) = i + l + 1
    BY <1>1, <1>4
  <2>2. t[i + (l + 1)] \notin Breaks
    BY <2>1
  <2>. QED
    BY <1>4, <2>1, <2>2
<1>. QED
  BY <1>1, <1>3, <1>4, <1>5 DEF l

LEMMA LineSame ==
  ASSUME NEW t \in Seq(Chars), NEW i \in 0..Len(t), NEW u \in Seq(Chars), NEW j \in 0..Len(u),
         LineLen(u, j) = LineLen(t, i), \A k \in 1..LineLen(t, i) : u[j + k] = t[i + k]
  PROVE  Line(u, j) = Line(t, i)
<1>1. /\ Line(t, i) \in Seq(Chars) /\ Len(Line(t, i)) = LineLen(t, i)
      /\ \A k \in 1..LineLen(t, i) : Line(t, i)[k] = t[i + k]
  BY LineIsText
<1>2. /\ Line(u, j) \in Seq(Chars) /\ Len(Line(u, j)) = LineLen(u, j)
      /\ \A k \in 1..LineLen(u, j) : Line(u, j)[k] = u[j + k]
  BY LineIsText
<1>. DEFINE a == Line(u, j)
            b == Line(t, i)
<1>3. /\ a \in Seq(Chars) /\ b \in Seq(Chars) /\ Len(a) = Len(b)
      /\ \A k \in 1..Len(a) : a[k] = b[k]
  BY <1>1, <1>2
<1>. HIDE DEF a, b
<1>4. a = b
  BY <1>3, SeqEqual
<1>. QED
  BY <1>4 DEF a, b

\* No character of a line is a break.
LEMMA LineHasNoBreak ==
  ASSUME NEW t \in Seq(Chars), NEW i \in 0..Len(t), NEW k \in 1..LineLen(t, i)
  PROVE  i + k \in 1..Len(t) /\ t[i + k] \notin Breaks
<1>1. Len(t) \in Nat /\ LineLen(t, i) \in 0..(Len(t) - i)
  BY LenProperties, LineLenIs
<1>. DEFINE n == k - 1
<1>2. n \in 0..(Len(t) - i) /\ n < LineLen(t, i) /\ i + n + 1 = i + k /\ i + k \in 1..Len(t)
  BY <1>1
<1>. HIDE DEF n
<1>3. t[i + n + 1] \notin Breaks
  BY <1>2, LineLenIs
<1>. QED
  BY <1>2, <1>3

\* The lines behind the first of two texts are those of the second.
LEMMA LinesOfSecond ==
  ASSUME NEW s \in Seq(Chars), NEW t \in Seq(Chars)
  PROVE  \A i \in 0..Len(t) : LinesFrom(s \o t)[Len(s) + i] = LinesFrom(t)[i]
<1>. DEFINE u == s \o t
            m == Len(s)
            N == Len(t)
            L == LinesFrom(t)
            M == LinesFrom(u)
            Fine(i) == M[m + i] = L[i]
            Bad == {n \in 0..N : ~Fine(N - n)}
<1>n. m \in Nat /\ N \in Nat
  BY LenProperties
<1>0. Bad \in SUBSET Nat
  BY <1>n
<1>1. /\ u \in Seq(Chars) /\ Len(u) = m + N
      /\ \A i \in 1..m + N : u[i] = IF i <= m THEN s[i] ELSE t[i - m]
  BY ConcatProperties
<1>. HIDE DEF u
<1>2. \A i \in 1..N : u[m + i] = t[i]
  <2>. TAKE i \in 1..N
  <2>1. m + i \in 1..m + N /\ ~(m + i <= m) /\ (m + i) - m = i
    BY <1>n
  <2>. QED
    BY <1>1, <2>1
<1>3. Bad = {}
  <2>. SUFFICES ASSUME Bad # {} PROVE FALSE
    OBVIOUS
  <2>. HIDE DEF Fine
  <2>1. PICK n \in Bad : \A k \in Bad : n <= k
    BY <1>0, Least
  <2>. DEFINE j == N - n
  <2>2. n \in 0..N /\ ~Fine(j) /\ j \in 0..N
    BY <1>n
  <2>3. ASSUME NEW k \in j..N, j < k PROVE Fine(k)
    <3>1. N - k \in 0..N /\ ~(n <= N - k) /\ N - (N - k) = k
      BY <1>n, <2>2, <2>3
    <3>. QED
      BY <2>1, <3>1
  <2>4. j \in 0..N /\ m + j \in 0..Len(u)
    BY <1>n, <1>1, <2>2
  <2>. HIDE DEF j
  <2>5. CASE j = N
    <3>1. m + j = Len(u)
      BY <1>1, <2>5
    <3>2. L[j] = <<>>
      BY <2>4, <2>5, LinesBehind
    <3>3. M[m + j] = <<>>
      BY <1>1, <2>4, <3>1, LinesBehind
    <3>. QED
      BY <2>2, <3>2, <3>3 DEF Fine
  <2>6. CASE j # N /\ t[j + 1] \in Breaks
    <3>1. /\ j < N /\ m + j < Len(u) /\ j + 1 \in 1..N /\ j + 1 \in j..N
          /\ (m + j) + 1 = m + (j + 1) /\ j < j + 1
      BY <1>n, <1>1, <2>4, <2>6
    <3>2. u[(m + j) + 1] = t[j + 1]
      BY <1>2, <3>1
    <3>3. L[j] = L[j + 1]
      BY <2>4, <2>6, <3>1, LinesBehind
    <3>4. M[m + j] = M[(m + j) + 1]
      BY <1>1, <2>4, <2>6, <3>1, <3>2, LinesBehind
    <3>5. Fine(j + 1)
      BY <2>3, <3>1
    <3>. QED
      BY <2>2, <3>1, <3>3, <3>4, <3>5 DEF Fine
  <2>7. CASE j # N /\ t[j + 1] \notin Breaks
    <3>. DEFINE e == LineLen(t, j)
    <3>1. /\ j < N /\ m + j < Len(u) /\ j + 1 \in 1..N /\ (m + j) + 1 = m + (j + 1)
      BY <1>n, <1>1, <2>4, <2>7
    <3>2. u[(m + j) + 1] = t[j + 1]
      BY <1>2, <3>1
    <3>3. e > 0 /\ L[j] = <<Line(t, j)>> \o L[j + e]
      BY <2>4, <2>7, <3>1, LinesBehind
    <3>4. M[m + j] = <<Line(u, m + j)>> \o M[(m + j) + LineLen(u, m + j)]
      BY <1>1, <2>4, <2>7, <3>1, <3>2, LinesBehind
    <3>5. e \in 0..(N - j) /\ (j + e = N \/ t[j + e + 1] \in Breaks)
      BY <2>4, LineLenIs
    <3>6. \A k \in 1..e : j + k \in 1..N /\ t[j + k] \notin Breaks
      BY <2>4, LineHasNoBreak
    <3>. HIDE DEF e
    <3>7. \A k \in 1..e : (m + j) + k = m + (j + k)
      BY <1>n, <2>4, <3>5
    <3>8. \A k \in 1..e : u[(m + j) + k] = t[j + k]
      BY <1>2, <3>6, <3>7
    <3>9. LineLen(u, m + j) = e
      <4>1. e \in 0..(Len(u) - (m + j))
        BY <1>n, <1>1, <2>4, <3>5
      <4>2. (m + j) + e = Len(u) \/ u[(m + j) + e + 1] \in Breaks
        <5>1. CASE j + e = N
          BY <1>n, <1>1, <2>4, <3>5, <5>1
        <5>2. CASE j + e # N
          <6>1. j + e + 1 \in 1..N /\ (m + j) + e + 1 = m + (j + e + 1)
            BY <1>n, <2>4, <3>5, <5>2
          <6>2. u[(m + j) + e + 1] = t[j + e + 1]
            BY <1>2, <6>1
          <6>. QED
            BY <3>5, <5>2, <6>2
        <5>. QED
          BY <5>1, <5>2
      <4>3. \A k \in 1..e : u[(m + j) + k] \notin Breaks
        BY <3>6, <3>8
      <4>. QED
        BY <1>1, <2>4, <4>1, <4>2, <4>3, LineLenUnique
    <3>10. Line(u, m + j) = Line(t, j)
      BY <1>1, <2>4, <3>8, <3>9, LineSame DEF e
    <3>11. j + e \in j..N /\ j < j + e /\ (m + j) + e = m + (j + e)
      BY <1>n, <2>4, <3>3, <3>5
    <3>12. Fine(j + e)
      BY <2>3, <3>11
    <3>13. M[m + (j + e)] = L[j + e]
      BY <3>12 DEF Fine
    <3>14. M[m + j] = L[j]
      BY <3>3, <3>4, <3>9, <3>10, <3>11, <3>13
    <3>. QED
      BY <2>2, <3>14 DEF Fine
  <2>. QED
    BY <2>5, <2>6, <2>7
<1>4. \A i \in 0..N : N - i \in 0..N /\ N - (N - i) = i
  BY <1>n
<1>. HIDE DEF Fine
<1>5. \A i \in 0..N : Fine(i)
  BY <1>3, <1>4
<1>. QED
  BY <1>5 DEF Fine, u

\* Where a text may be cut between lines: at either end or at a break.
CutAt(t, i) == i = 0 \/ i = Len(t) \/ t[i] \in Breaks
Opens(t, i) == i = Len(t) \/ t[i + 1] \in Breaks
Ended(t) == Len(t) = 0 \/ t[Len(t)] \in Breaks

\* The lines of two texts, one behind the other, are those of the first and then those of the
\* second, if there is a break between them.
LEMMA LinesJoin ==
  ASSUME NEW s \in Seq(Chars), NEW t \in Seq(Chars), Ended(s) \/ Opens(t, 0)
  PROVE  LinesOf(s \o t) = LinesOf(s) \o LinesOf(t)
<1>. DEFINE u == s \o t
            m == Len(s)
            N == Len(t)
            K == LinesFrom(s)
            L == LinesFrom(t)[0]
            M == LinesFrom(u)
            Fine(i) == M[i] = K[i] \o L
            Bad == {n \in 0..m : ~Fine(m - n)}
<1>n. m \in Nat /\ N \in Nat
  BY LenProperties
<1>0. Bad \in SUBSET Nat
  <2>. HIDE DEF Fine
  <2>. QED
    BY <1>n
<1>1. /\ u \in Seq(Chars) /\ Len(u) = m + N
      /\ \A i \in 1..m + N : u[i] = IF i <= m THEN s[i] ELSE t[i - m]
  BY ConcatProperties
<1>2. \A i \in 1..m : u[i] = s[i]
  <2>. TAKE i \in 1..m
  <2>1. i \in 1..m + N /\ i <= m
    BY <1>n
  <2>. QED
    BY <1>1, <2>1
<1>3. N # 0 => u[m + 1] = t[1]
  <2>. HAVE N # 0
  <2>1. m + 1 \in 1..m + N /\ ~(m + 1 <= m) /\ (m + 1) - m = 1
    BY <1>n
  <2>. QED
    BY <1>1, <2>1
<1>4. M[m] = L
  <2>1. 0 \in 0..N /\ m + 0 = m
    BY <1>n
  <2>2. M[m + 0] = L
    BY <2>1, LinesOfSecond
  <2>. QED
    BY <2>1, <2>2
<1>l. L \in Seq(Seq(Chars))
  <2>1. 0 \in 0..N
    BY <1>n
  <2>. QED
    BY <2>1, LinesBehind
<1>k. \A i \in 0..m : K[i] \in Seq(Seq(Chars))
  BY LinesBehind
<1>b. (m = 0 \/ s[m] \in Breaks) \/ (N = 0 \/ t[1] \in Breaks)
  <2>1. 0 + 1 = 1
    OBVIOUS
  <2>. QED
    BY <2>1 DEF Ended, Opens
<1>. HIDE DEF u, L
<1>5. Bad = {}
  <2>. SUFFICES ASSUME Bad # {} PROVE FALSE
    OBVIOUS
  <2>. HIDE DEF Fine
  <2>1. PICK n \in Bad : \A k \in Bad : n <= k
    BY <1>0, Least
  <2>. DEFINE j == m - n
  <2>2. n \in 0..m /\ ~Fine(j) /\ j \in 0..m
    BY <1>n
  <2>3. ASSUME NEW k \in j..m, j < k PROVE Fine(k)
    <3>1. m - k \in 0..m /\ ~(n <= m - k) /\ m - (m - k) = k
      BY <1>n, <2>2, <2>3
    <3>. QED
      BY <2>1, <3>1
  <2>4. j \in 0..m /\ j \in 0..Len(u)
    BY <1>n, <1>1, <2>2
  <2>. HIDE DEF j
  <2>5. CASE j = m
    <3>1. K[j] = <<>>
      BY <2>4, <2>5, LinesBehind
    <3>2. <<>> \o L = L
      BY <1>l, ConcatEmptySeq
    <3>. QED
      BY <1>4, <2>2, <2>5, <3>1, <3>2 DEF Fine
  <2>6. CASE j # m /\ s[j + 1] \in Breaks
    <3>1. j < m /\ j < Len(u) /\ j + 1 \in 1..m /\ j + 1 \in j..m /\ j < j + 1
      BY <1>n, <1>1, <2>4, <2>6
    <3>2. u[j + 1] = s[j + 1]
      BY <1>2, <3>1
    <3>3. K[j] = K[j + 1]
      BY <2>4, <2>6, <3>1, LinesBehind
    <3>4. M[j] = M[j + 1]
      BY <1>1, <2>4, <2>6, <3>1, <3>2, LinesBehind
    <3>5. Fine(j + 1)
      BY <2>3, <3>1
    <3>. QED
      BY <2>2, <3>3, <3>4, <3>5 DEF Fine
  <2>7. CASE j # m /\ s[j + 1] \notin Breaks
    <3>. DEFINE e == LineLen(s, j)
    <3>1. j < m /\ j < Len(u) /\ j + 1 \in 1..m
      BY <1>n, <1>1, <2>4, <2>7
    <3>2. u[j + 1] = s[j + 1]
      BY <1>2, <3>1
    <3>3. e > 0 /\ K[j] = <<Line(s, j)>> \o K[j + e]
      BY <2>4, <2>7, <3>1, LinesBehind
    <3>4. M[j] = <<Line(u, j)>> \o M[j + LineLen(u, j)]
      BY <1>1, <2>4, <2>7, <3>1, <3>2, LinesBehind
    <3>5. e \in 0..(m - j) /\ (j + e = m \/ s[j + e + 1] \in Breaks)
      BY <2>4, LineLenIs
    <3>6. \A k \in 1..e : j + k \in 1..m /\ s[j + k] \notin Breaks
      BY <2>4, LineHasNoBreak
    <3>t. Line(s, j) \in Seq(Chars)
      BY <2>4, LineIsText
    <3>. HIDE DEF e
    <3>8. \A k \in 1..e : u[j + k] = s[j + k]
      BY <1>2, <3>6
    <3>9. LineLen(u, j) = e
      <4>1. e \in 0..(Len(u) - j)
        BY <1>n, <1>1, <2>4, <3>5
      <4>2. j + e = Len(u) \/ u[j + e + 1] \in Breaks
        <5>1. CASE j + e = m
          <6>1. s[m] \notin Breaks /\ m # 0
            <7>1. e \in 1..e
              BY <3>3, <3>5
            <7>. QED
              BY <1>n, <2>4, <3>1, <3>6, <5>1, <7>1
          <6>2. N = 0 \/ t[1] \in Breaks
            BY <1>b, <6>1
          <6>3. N = 0 => j + e = Len(u)
            BY <1>n, <1>1, <5>1
          <6>. QED
            BY <1>3, <5>1, <6>2, <6>3
        <5>2. CASE j + e # m
          <6>1. j + e + 1 \in 1..m
            BY <1>n, <2>4, <3>5, <5>2
          <6>2. u[j + e + 1] = s[j + e + 1]
            BY <1>2, <6>1
          <6>. QED
            BY <3>5, <5>2, <6>2
        <5>. QED
          BY <5>1, <5>2
      <4>3. \A k \in 1..e : u[j + k] \notin Breaks
        BY <3>6, <3>8
      <4>. QED
        BY <1>1, <2>4, <4>1, <4>2, <4>3, LineLenUnique
    <3>10. Line(u, j) = Line(s, j)
      BY <1>1, <2>4, <3>8, <3>9, LineSame DEF e
    <3>11. j + e \in j..m /\ j < j + e /\ j + e \in 0..m
      BY <1>n, <2>4, <3>3, <3>5
    <3>12. M[j + e] = K[j + e] \o L
      <4>1. Fine(j + e)
        BY <2>3, <3>11
      <4>. QED
        BY <4>1 DEF Fine
    <3>13. M[j] = <<Line(s, j)>> \o (K[j + e] \o L)
      BY <3>4, <3>9, <3>10, <3>12
    <3>14. (<<Line(s, j)>> \o K[j + e]) \o L = <<Line(s, j)>> \o (K[j + e] \o L)
      <4>1. Associates(Seq(Chars))
        BY Regroup
      <4>2. <<Line(s, j)>> \in Seq(Seq(Chars)) /\ K[j + e] \in Seq(Seq(Chars))
        BY <1>k, <3>t, <3>11
      <4>. QED
        BY <1>l, <4>1, <4>2 DEF Associates
    <3>. QED
      BY <2>2, <3>3, <3>13, <3>14 DEF Fine
  <2>. QED
    BY <2>5, <2>6, <2>7
<1>6. 0 \in 0..m /\ m \in 0..m /\ m - m = 0
  BY <1>n
<1>7. M[0] = K[0] \o L
  BY <1>5, <1>6
<1>8. LinesOf(u) = M[0] /\ LinesOf(s) = K[0] /\ LinesOf(t) = L
  BY <1>1, LinesAre DEF L
<1>. QED
  BY <1>7, <1>8 DEF u

\* The part of a text between two places.
LEMMA PartIs ==
  ASSUME NEW t \in Seq(Chars), NEW i \in 0..Len(t), NEW j \in i..Len(t)
  PROVE  /\ SubSeq(t, i + 1, j) \in Seq(Chars) /\ Len(SubSeq(t, i + 1, j)) = j - i
         /\ \A k \in 1..j - i : SubSeq(t, i + 1, j)[k] = t[i + k]
<1>1. Len(t) \in Nat
  BY LenProperties
<1>2. \A k \in i + 1..j : t[k] \in Chars
  <2>1. \A k \in i + 1..j : k \in 1..Len(t)
    BY <1>1
  <2>. QED
    BY <2>1, ElementOfSeq
<1>3. i + 1 \in Int /\ j \in Int /\ j - (i + 1) + 1 = j - i /\ (IF i + 1 <= j THEN j - (i + 1) + 1 ELSE 0) = j - i
  BY <1>1
<1>4. \A k \in 1..j - i : (i + 1) + k - 1 = i + k
  BY <1>1
<1>. DEFINE s == SubSeq(t, i + 1, j)
<1>5. /\ s \in Seq(Chars) /\ Len(s) = IF i + 1 <= j THEN j - (i + 1) + 1 ELSE 0
      /\ \A k \in 1..j - (i + 1) + 1 : s[k] = t[(i + 1) + k - 1]
  BY <1>2, <1>3, SubSeqProperties
<1>. HIDE DEF s
<1>6. s \in Seq(Chars) /\ Len(s) = j - i /\ \A k \in 1..j - i : s[k] = t[i + k]
  BY <1>3, <1>4, <1>5
<1>. QED
  BY <1>6 DEF s

\* What is read of a text from its front, cut in two.
LEMMA LinesSplit ==
  ASSUME NEW t \in Seq(Chars), NEW i \in 0..Len(t), NEW j \in i..Len(t), CutAt(t, i) \/ Opens(t, i)
  PROVE  LinesOf(SubSeq(t, 1, j)) = LinesOf(SubSeq(t, 1, i)) \o LinesOf(SubSeq(t, i + 1, j))
<1>. DEFINE a == SubSeq(t, 1, i)
            b == SubSeq(t, i + 1, j)
<1>n. Len(t) \in Nat
  BY LenProperties
<1>1. 0 \in 0..Len(t) /\ i \in 0..Len(t) /\ 0 + 1 = 1 /\ i - 0 = i /\ \A k \in 1..i : 0 + k = k
  BY <1>n
<1>2. /\ a \in Seq(Chars) /\ Len(a) = i /\ \A k \in 1..i : a[k] = t[k]
  <2>1. /\ SubSeq(t, 0 + 1, i) \in Seq(Chars) /\ Len(SubSeq(t, 0 + 1, i)) = i - 0
        /\ \A k \in 1..i - 0 : SubSeq(t, 0 + 1, i)[k] = t[0 + k]
    BY <1>1, PartIs
  <2>. QED
    BY <1>1, <2>1
<1>3. b \in Seq(Chars) /\ Len(b) = j - i /\ \A k \in 1..j - i : b[k] = t[i + k]
  BY PartIs
<1>4. a \o b = SubSeq(t, 1, j)
  <2>1. 1 \in 1..Len(t) + 1 /\ i \in 1 - 1..Len(t) /\ j \in i..Len(t)
    BY <1>n
  <2>. QED
    BY <2>1, ConcatAdjacentSubSeq
<1>. HIDE DEF a, b
<1>5. Ended(a) \/ Opens(b, 0)
  <2>1. CASE i = 0 \/ t[i] \in Breaks
    <3>1. CASE i = 0
      BY <1>2, <3>1 DEF Ended
    <3>2. CASE i # 0 /\ t[i] \in Breaks
      <4>1. i \in 1..i
        BY <1>n, <3>2
      <4>. QED
        BY <1>2, <3>2, <4>1 DEF Ended
    <3>. QED
      BY <2>1, <3>1, <3>2
  <2>2. CASE j = i
    <3>1. Len(b) = 0
      BY <1>n, <1>3, <2>2
    <3>. QED
      BY <3>1 DEF Opens
  <2>3. CASE j # i /\ t[i + 1] \in Breaks
    <3>1. 1 \in 1..j - i /\ 0 + 1 = 1
      BY <1>n, <2>3
    <3>2. b[0 + 1] \in Breaks
      BY <1>3, <2>3, <3>1
    <3>. QED
      BY <3>2 DEF Opens
  <2>4. i = Len(t) => j = i
    BY <1>n
  <2>. QED
    BY <2>1, <2>2, <2>3, <2>4 DEF CutAt, Opens
<1>6. LinesOf(a \o b) = LinesOf(a) \o LinesOf(b)
  BY <1>2, <1>3, <1>5, LinesJoin
<1>. QED
  BY <1>4, <1>6 DEF a, b

\* Behind a line and its break, a text may be cut.
LEMMA SkipIs ==
  ASSUME NEW t \in Seq(Chars), NEW i \in 0..Len(t)
  PROVE  /\ \A k \in i + LineLen(t, i) + 1..SkipLine(t, i) : t[k] \in Breaks
         /\ i + LineLen(t, i) # Len(t) => t[SkipLine(t, i)] \in Breaks
         /\ CutAt(t, SkipLine(t, i))
<1>. DEFINE e == i + LineLen(t, i)
            n == SkipLine(t, i)
<1>1. Len(t) \in Nat /\ LineLen(t, i) \in 0..(Len(t) - i) /\ (e = Len(t) \/ t[e + 1] \in Breaks)
  BY LenProperties, LineLenIs
<1>2. e \in Nat
  BY <1>1
<1>3. n = IF e = Len(t) THEN e
          ELSE IF e + 1 < Len(t) /\ t[e + 2] = LF THEN e + 2 ELSE e + 1
  BY DEF SkipLine
<1>. HIDE DEF e, n
<1>4. LF \in Breaks
  BY DEF Breaks
<1>5. CASE e = Len(t)
  <2>1. n = e /\ \A k \in e + 1..n : FALSE
    BY <1>2, <1>3, <1>5
  <2>. QED
    BY <1>5, <2>1 DEF CutAt, e, n
<1>6. CASE e # Len(t) /\ n = e + 1
  <2>1. t[n] \in Breaks /\ \A k \in e + 1..n : k = n
    BY <1>1, <1>2, <1>6
  <2>. QED
    BY <1>6, <2>1 DEF CutAt, e, n
<1>7. CASE e # Len(t) /\ n = e + 2
  <2>1. e + 1 # e + 2
    BY <1>2
  <2>2. t[e + 2] = LF
    BY <1>3, <1>7, <2>1
  <2>3. \A k \in e + 1..n : k = e + 1 \/ k = e + 2
    BY <1>2, <1>7
  <2>4. t[n] \in Breaks /\ \A k \in e + 1..n : t[k] \in Breaks
    BY <1>1, <1>4, <1>7, <2>2, <2>3
  <2>. QED
    BY <1>7, <2>4 DEF CutAt, e, n
<1>. QED
  BY <1>3, <1>5, <1>6, <1>7

\* Where only breaks are left there are no lines.
LEMMA NoLinesInBreaks ==
  ASSUME NEW t \in Seq(Chars), NEW e \in 0..Len(t), \A k \in e + 1..Len(t) : t[k] \in Breaks
  PROVE  LinesFrom(t)[e] = <<>>
<1>. DEFINE N == Len(t)
            L == LinesFrom(t)
            Bad == {n \in 0..N - e : L[N - n] # <<>>}
<1>n. N \in Nat
  BY LenProperties
<1>0. Bad \in SUBSET Nat
  <2>. HIDE DEF L
  <2>. QED
    BY <1>n
<1>1. /\ N \in 0..N => L[N] = <<>>
      /\ \A i \in 0..N : i < N /\ t[i + 1] \in Breaks => L[i] = L[i + 1]
  BY LinesBehind
<1>. HIDE DEF L
<1>2. Bad = {}
  <2>. SUFFICES ASSUME Bad # {} PROVE FALSE
    OBVIOUS
  <2>1. PICK n \in Bad : \A m \in Bad : n <= m
    BY <1>0, Least
  <2>2. n \in 0..N - e /\ L[N - n] # <<>>
    OBVIOUS
  <2>3. CASE n = 0
    <3>1. N - n = N /\ N \in 0..N
      BY <1>n, <2>3
    <3>. QED
      BY <1>1, <2>2, <3>1
  <2>4. CASE n # 0
    <3>1. /\ n - 1 \in 0..N - e /\ ~(n <= n - 1) /\ N - (n - 1) = (N - n) + 1
          /\ N - n \in 0..N /\ N - n < N /\ (N - n) + 1 \in e + 1..N
      BY <1>n, <2>2, <2>4
    <3>2. n - 1 \notin Bad
      BY <2>1, <3>1
    <3>3. L[(N - n) + 1] = <<>>
      BY <3>1, <3>2
    <3>4. t[(N - n) + 1] \in Breaks
      BY <3>1
    <3>. QED
      BY <1>1, <2>2, <3>1, <3>3, <3>4
  <2>. QED
    BY <2>3, <2>4
<1>3. N - e \in 0..N - e /\ N - (N - e) = e
  BY <1>n
<1>4. L[e] = <<>>
  BY <1>2, <1>3
<1>. QED
  BY <1>4 DEF L

\* The lines of one line, with its break or without: it, unless it is empty.
LEMMA OneLine ==
  ASSUME NEW t \in Seq(Chars), NEW i \in 0..Len(t), NEW j,
         j = i + LineLen(t, i) \/ j = SkipLine(t, i)
  PROVE  LinesOf(SubSeq(t, i + 1, j)) = IF Line(t, i) = <<>> THEN <<>> ELSE <<Line(t, i)>>
<1>. DEFINE e == LineLen(t, i)
            b == SubSeq(t, i + 1, j)
<1>1. Len(t) \in Nat /\ e \in 0..(Len(t) - i) /\ (i + e = Len(t) \/ t[i + e + 1] \in Breaks)
  BY LenProperties, LineLenIs
<1>2. SkipLine(t, i) \in i..Len(t) /\ i + e <= SkipLine(t, i)
  BY SkipLineIs
<1>3. \A k \in i + e + 1..SkipLine(t, i) : t[k] \in Breaks
  BY SkipIs
<1>4. Line(t, i) \in Seq(Chars) /\ Len(Line(t, i)) = e
  BY LineIsText
<1>5. \A k \in 1..e : t[i + k] \notin Breaks
  BY LineHasNoBreak
<1>. HIDE DEF e
<1>6. j \in i..Len(t) /\ i + e <= j
  <2>1. i + e \in i..Len(t) /\ i + e <= i + e
    BY <1>1
  <2>. QED
    BY <1>2, <2>1 DEF e
<1>7. \A k \in i + e + 1..j : t[k] \in Breaks
  <2>1. CASE j = SkipLine(t, i)
    BY <1>3, <2>1
  <2>2. CASE j = i + e
    <3>1. \A k \in i + e + 1..j : FALSE
      BY <1>1, <2>2
    <3>. QED
      BY <3>1
  <2>. QED
    BY <2>1, <2>2 DEF e
<1>8. b \in Seq(Chars) /\ Len(b) = j - i /\ \A k \in 1..j - i : b[k] = t[i + k]
  BY <1>6, PartIs
<1>. HIDE DEF b
<1>9. j - i \in Nat /\ e \in 0..Len(b) /\ 0 \in 0..Len(b) /\ e \in Nat
  BY <1>1, <1>6, <1>8
<1>10. LinesFrom(b)[e] = <<>>
  <2>1. ASSUME NEW k \in e + 1..Len(b) PROVE b[k] \in Breaks
    <3>1. k \in 1..j - i /\ i + k \in i + e + 1..j
      BY <1>1, <1>6, <1>8
    <3>. QED
      BY <1>7, <1>8, <3>1
  <2>. QED
    BY <1>8, <1>9, <2>1, NoLinesInBreaks
<1>11. LinesOf(b) = LinesFrom(b)[0]
  BY <1>8, LinesAre
<1>12. CASE e = 0
  <2>1. Line(t, i) = <<>>
    BY <1>4, <1>12, EmptySeq
  <2>. QED
    BY <1>10, <1>11, <1>12, <2>1 DEF b
<1>13. CASE e # 0
  <2>1. Line(t, i) # <<>>
    <3>1. Len(<<>>) = 0
      BY EmptySeq
    <3>. QED
      BY <1>4, <1>13, <3>1, Zenon
  <2>2. 1 \in 1..e /\ 0 + 1 = 1 /\ 0 < Len(b) /\ \A k \in 1..e : k \in 1..j - i /\ 0 + k = k
    BY <1>1, <1>6, <1>8, <1>9, <1>13
  <2>3. \A k \in 1..e : b[0 + k] = t[i + k] /\ b[0 + k] \notin Breaks
    BY <1>5, <1>8, <2>2
  <2>4. LineLen(b, 0) = e
    <3>1. e \in 0..(Len(b) - 0)
      BY <1>8, <1>9
    <3>2. 0 + e = Len(b) \/ b[0 + e + 1] \in Breaks
      <4>1. CASE e = Len(b)
        BY <1>9, <4>1
      <4>2. CASE e # Len(b)
        <5>1. e + 1 \in 1..j - i /\ 0 + e + 1 = e + 1 /\ i + (e + 1) \in i + e + 1..j
          BY <1>1, <1>6, <1>8, <1>9, <4>2
        <5>. QED
          BY <1>7, <1>8, <5>1
      <4>. QED
        BY <4>1, <4>2
    <3>. QED
      BY <1>8, <1>9, <2>3, <3>1, <3>2, LineLenUnique
  <2>5. Line(b, 0) = Line(t, i)
    BY <1>8, <1>9, <2>3, <2>4, LineSame DEF e
  <2>6. LinesFrom(b)[0] = <<Line(b, 0)>> \o LinesFrom(b)[0 + LineLen(b, 0)]
    <3>1. b[0 + 1] \notin Breaks
      BY <2>2, <2>3
    <3>. QED
      BY <1>8, <1>9, <2>2, <3>1, LinesBehind
  <2>7. 0 + e = e
    BY <1>9
  <2>8. LinesFrom(b)[0] = <<Line(t, i)>> \o <<>>
    BY <1>10, <2>4, <2>5, <2>6, <2>7
  <2>9. <<Line(t, i)>> \o <<>> = <<Line(t, i)>>
    <3>1. <<Line(t, i)>> \in Seq(Seq(Chars))
      BY <1>4
    <3>. QED
      BY <3>1, ConcatEmptySeq
  <2>. QED
    BY <1>11, <2>1, <2>8, <2>9 DEF b
<1>. QED
  BY <1>12, <1>13

\* Two texts end with a break if the second does, or if it is empty and the first does.
LEMMA EndedJoin ==
  ASSUME NEW s \in Seq(Chars), NEW t \in Seq(Chars), Ended(t), Len(t) = 0 => Ended(s)
  PROVE  Ended(s \o t)
<1>. DEFINE u == s \o t
<1>1. /\ u \in Seq(Chars) /\ Len(u) = Len(s) + Len(t)
      /\ \A i \in 1..Len(s) + Len(t) : u[i] = IF i <= Len(s) THEN s[i] ELSE t[i - Len(s)]
  BY ConcatProperties
<1>2. Len(s) \in Nat /\ Len(t) \in Nat
  BY LenProperties
<1>. HIDE DEF u
<1>3. CASE Len(t) = 0
  <2>1. u = s
    <3>1. t = <<>>
      BY <1>3, EmptySeq
    <3>. QED
      BY <3>1, ConcatEmptySeq DEF u
  <2>. QED
    BY <1>3, <2>1 DEF u
<1>4. CASE Len(t) # 0
  <2>1. /\ Len(u) \in 1..Len(s) + Len(t) /\ ~(Len(u) <= Len(s)) /\ Len(u) - Len(s) = Len(t)
    BY <1>1, <1>2, <1>4
  <2>2. u[Len(u)] = t[Len(t)] /\ t[Len(t)] \in Breaks
    BY <1>1, <1>4, <2>1 DEF Ended
  <2>3. Ended(u)
    BY <2>2 DEF Ended
  <2>. QED
    BY <2>3 DEF u
<1>. QED
  BY <1>3, <1>4

-----------------------------------------------------------------------------
(* Diffs of any texts.                                                       *)

\* What the diff so far makes of what has been read of the old text.
SoFar == Made(old, adds, dels)[from]

\* What has been made has the lines of what has been read of the new text, or during a search,
\* of what had been; and whatever is made next is put behind a break, or begins with one.
LinesInv ==
  /\ CutAt(new, to)
  /\ from < Len(old) => Ended(SoFar)
  /\ pc # "search" => LinesOf(SoFar) = LinesOf(SubSeq(new, 1, to))
  /\ pc = "search" \/ (pc = "lines" /\ ~SameLine) =>
       /\ LinesOf(SoFar) = LinesOf(SubSeq(new, 1, insertion))
       /\ (CutAt(new, insertion) /\ Ended(SoFar)) \/ Opens(new, insertion)
  /\ pc = "done" => AtEnd

LEMMA LinesInit == Init /\ TypeInv => LinesInv
<1>. SUFFICES ASSUME Init, TypeInv PROVE LinesInv
  OBVIOUS
<1>1. from = 0 /\ to = 0 /\ insertion = 0 /\ pc = "lines" /\ adds = <<>>
  BY DEF Init
<1>2. SoFar = <<>>
  BY <1>1, NothingMade DEF SoFar
<1>3. SubSeq(new, 1, 0) = <<>>
  BY SubSeqEmpty
<1>4. Ended(SoFar)
  BY <1>2, EmptySeq DEF Ended
<1>5. CutAt(new, 0)
  BY DEF CutAt
<1>. QED
  BY <1>1, <1>2, <1>3, <1>4, <1>5 DEF LinesInv

\* Reading a line of each text that is the same in both.
LEMMA LinesEqual ==
  ASSUME TypeInv, TypeInv', OrderInv, LinesInv, Equal
  PROVE  LinesInv'
<1>0. /\ pc = "lines" /\ SameLine /\ pc' = pc /\ adds' = adds /\ dels' = dels /\ old' = old /\ new' = new
      /\ from' = SkipLine(old, from) /\ to' = SkipLine(new, to)
      /\ insertion' = IF from + LineLen(old, from) = Len(old)
                        THEN to + LineLen(new, to) ELSE SkipLine(new, to)
  BY DEF Equal
<1>1. /\ old \in Seq(Chars) /\ new \in Seq(Chars) /\ adds \in Seq(Changes)
      /\ Len(old) \in Nat /\ Len(new) \in Nat /\ from \in 0..Len(old) /\ to \in 0..Len(new)
  BY Onward DEF TypeInv
<1>2. /\ LineLen(old, from) \in 0..(Len(old) - from) /\ LineLen(new, to) \in 0..(Len(new) - to)
      /\ to + LineLen(new, to) = Len(new) \/ new[to + LineLen(new, to) + 1] \in Breaks
  BY <1>1, LineLenIs
<1>3. /\ from' \in from..Len(old) /\ to' \in to..Len(new)
      /\ from + LineLen(old, from) < Len(old) => from + LineLen(old, from) < from'
      /\ from + LineLen(old, from) <= from'
  BY <1>0, <1>1, SkipLineIs
<1>4. CutAt(new, to') /\ (from + LineLen(old, from) # Len(old) => old[from'] \in Breaks)
  BY <1>0, <1>1, SkipIs
<1>. DEFINE P == SoFar
            a == SubSeq(old, from + 1, from')
            X == IF Line(old, from) = <<>> THEN <<>> ELSE <<Line(old, from)>>
<1>5. SoFar' = P \o a
  <2>1. Made(old, adds, dels)[from'] = Made(old, adds, dels)[from] \o SubSeq(old, from + 1, from')
    BY <1>3, UntouchedBehind DEF OrderInv
  <2>. QED
    BY <1>0, <2>1 DEF SoFar
<1>6. P \in Seq(Chars)
  BY <1>1, MadeIsText DEF SoFar
<1>7. a \in Seq(Chars) /\ Len(a) = from' - from /\ \A k \in 1..from' - from : a[k] = old[from + k]
  BY <1>1, <1>3, PartIs
<1>8. LinesOf(a) = X
  BY <1>0, <1>1, OneLine
<1>9. /\ LinesOf(SubSeq(new, to + 1, to')) = X
      /\ LinesOf(SubSeq(new, to + 1, to + LineLen(new, to))) = X
  <2>1. Line(new, to) = Line(old, from)
    BY <1>0 DEF SameLine
  <2>. QED
    BY <1>0, <1>1, <2>1, OneLine
<1>i. /\ CutAt(new, to)
      /\ from < Len(old) => Ended(P)
      /\ LinesOf(P) = LinesOf(SubSeq(new, 1, to))
  BY <1>0 DEF LinesInv
<1>. HIDE DEF P, a, X
<1>10. LinesOf(P \o a) = LinesOf(P) \o X
  <2>1. Ended(P) \/ Opens(a, 0)
    <3>1. CASE from < Len(old)
      BY <1>i, <3>1
    <3>2. CASE ~(from < Len(old))
      <4>1. Len(a) = 0
        BY <1>1, <1>3, <1>7, <3>2
      <4>. QED
        BY <4>1 DEF Opens
    <3>. QED
      BY <3>1, <3>2
  <2>. QED
    BY <1>6, <1>7, <1>8, <2>1, LinesJoin
<1>11. LinesOf(SubSeq(new, 1, to')) = LinesOf(P \o a)
  <2>1. LinesOf(SubSeq(new, 1, to')) = LinesOf(SubSeq(new, 1, to)) \o LinesOf(SubSeq(new, to + 1, to'))
    BY <1>1, <1>3, <1>i, LinesSplit
  <2>. QED
    BY <1>9, <1>10, <1>i, <2>1
<1>12. from + LineLen(old, from) # Len(old) => Ended(P \o a)
  <2>. HAVE from + LineLen(old, from) # Len(old)
  <2>1. from + LineLen(old, from) < Len(old)
    BY <1>1, <1>2
  <2>2. /\ from' - from \in 1..from' - from /\ from' - from # 0 /\ from + (from' - from) = from'
    <3>1. from < from' /\ from' \in Nat /\ from \in Nat
      BY <1>1, <1>2, <1>3, <2>1
    <3>2. \A f, g \in Nat : f < g => g - f \in 1..g - f /\ g - f # 0 /\ f + (g - f) = g
      OBVIOUS
    <3>. QED
      BY <3>1, <3>2
  <2>3. a[Len(a)] = old[from']
    BY <1>7, <2>2
  <2>4. Ended(a)
    BY <1>4, <2>3 DEF Ended
  <2>. QED
    BY <1>6, <1>7, <2>2, <2>4, EndedJoin
<1>13. from' < Len(old) => Ended(P \o a)
  <2>1. from' < Len(old) => from + LineLen(old, from) # Len(old)
    BY <1>1, <1>2, <1>3
  <2>. QED
    BY <1>12, <2>1
<1>14. /\ LinesOf(SubSeq(new, 1, insertion')) = LinesOf(P \o a)
       /\ (CutAt(new, insertion') /\ Ended(P \o a)) \/ Opens(new, insertion')
  <2>1. CASE from + LineLen(old, from) = Len(old)
    <3>1. insertion' = to + LineLen(new, to)
      BY <1>0, <2>1
    <3>2. insertion' \in to..Len(new)
      BY <1>1, <1>2, <3>1
    <3>3. LinesOf(SubSeq(new, 1, insertion')) =
            LinesOf(SubSeq(new, 1, to)) \o LinesOf(SubSeq(new, to + 1, insertion'))
      BY <1>1, <1>i, <3>2, LinesSplit
    <3>4. LinesOf(SubSeq(new, 1, insertion')) = LinesOf(P \o a)
      BY <1>9, <1>10, <1>i, <3>1, <3>3
    <3>5. Opens(new, insertion')
      BY <1>2, <3>1 DEF Opens
    <3>. QED
      BY <3>4, <3>5
  <2>2. CASE from + LineLen(old, from) # Len(old)
    BY <1>0, <1>4, <1>11, <1>12, <2>2
  <2>. QED
    BY <2>1, <2>2
<1>15. SoFar' = P \o a /\ pc' = "lines" /\ old' = old /\ new' = new
  BY <1>0, <1>5
<1>. DEFINE Q == P \o a
<1>. HIDE DEF Q
<1>16. /\ SoFar' = Q /\ CutAt(new', to') /\ (from' < Len(old') => Ended(Q))
       /\ LinesOf(Q) = LinesOf(SubSeq(new', 1, to'))
       /\ LinesOf(Q) = LinesOf(SubSeq(new', 1, insertion'))
       /\ (CutAt(new', insertion') /\ Ended(Q)) \/ Opens(new', insertion')
       /\ pc' = "lines"
  BY <1>4, <1>11, <1>13, <1>14, <1>15 DEF Q
<1>. QED
  BY <1>16 DEF LinesInv

\* Recording what was skipped.
LEMMA LinesRecord ==
  ASSUME TypeInv, TypeInv', OrderInv, OrderInv', LinesInv, Record
  PROVE  LinesInv'
<1>0. /\ pc = "search" /\ Deletion # NotFound /\ pc' = "lines" /\ old' = old /\ new' = new
      /\ from' = Deletion /\ to' = to /\ insertion' = insertion
  BY DEF Record
<1>1. /\ old \in Seq(Chars) /\ new \in Seq(Chars) /\ adds \in Seq(Changes)
      /\ Len(old) \in Nat /\ Len(new) \in Nat /\ from \in 0..Len(old) /\ to \in 0..Len(new)
      /\ insertion \in 0..to
  BY Onward DEF TypeInv
<1>2. /\ Deletion \in from..Len(old)
      /\ to = Len(new) => Deletion = Len(old)
  BY <1>0, DeletionIs
<1>. DEFINE P == SoFar
            A == SubSeq(new, insertion + 1, to)
<1>3. SoFar' = P \o A
  <2>1. Made(old, adds', dels')[Deletion] = Made(old, adds, dels)[from] \o SubSeq(new, insertion + 1, to)
    BY RecordMakes
  <2>. QED
    BY <1>0, <2>1 DEF SoFar
<1>4. P \in Seq(Chars)
  BY <1>1, MadeIsText DEF SoFar
<1>5. insertion \in 0..Len(new) /\ to \in insertion..Len(new)
  BY <1>1
<1>6. A \in Seq(Chars) /\ Len(A) = to - insertion /\ \A k \in 1..to - insertion : A[k] = new[insertion + k]
  BY <1>1, <1>5, PartIs
<1>i. /\ CutAt(new, to)
      /\ from < Len(old) => Ended(P)
      /\ LinesOf(P) = LinesOf(SubSeq(new, 1, insertion))
      /\ (CutAt(new, insertion) /\ Ended(P)) \/ Opens(new, insertion)
  BY <1>0 DEF LinesInv
<1>7. LinesOf(SubSeq(new, 1, to)) = LinesOf(SubSeq(new, 1, insertion)) \o LinesOf(A)
  BY <1>1, <1>5, <1>i, LinesSplit
<1>. HIDE DEF P, A
<1>8. LinesOf(P \o A) = LinesOf(P) \o LinesOf(A)
  <2>1. Opens(new, insertion) => Opens(A, 0)
    <3>. HAVE Opens(new, insertion)
    <3>1. CASE to = insertion
      <4>1. Len(A) = 0
        BY <1>1, <1>6, <3>1
      <4>. QED
        BY <4>1 DEF Opens
    <3>2. CASE to # insertion
      <4>1. insertion # Len(new) /\ 1 \in 1..to - insertion /\ 0 + 1 = 1
        BY <1>1, <3>2
      <4>2. A[0 + 1] = new[insertion + 1]
        BY <1>6, <4>1
      <4>. QED
        BY <4>1, <4>2 DEF Opens
    <3>. QED
      BY <3>1, <3>2
  <2>. QED
    BY <1>4, <1>6, <1>i, <2>1, LinesJoin
<1>9. Deletion < Len(old) => Ended(P \o A)
  <2>. HAVE Deletion < Len(old)
  <2>1. to # Len(new) /\ from < Len(old)
    BY <1>1, <1>2
  <2>2. Ended(P)
    BY <1>i, <2>1
  <2>3. Ended(A)
    <3>1. CASE to = insertion
      <4>1. Len(A) = 0
        BY <1>1, <1>6, <3>1
      <4>. QED
        BY <4>1 DEF Ended
    <3>2. CASE to # insertion
      <4>1. /\ to # 0 /\ to - insertion \in 1..to - insertion /\ insertion + (to - insertion) = to
        BY <1>1, <3>2
      <4>2. A[Len(A)] = new[to]
        BY <1>6, <4>1
      <4>3. new[to] \in Breaks
        BY <1>i, <2>1, <4>1 DEF CutAt
      <4>. QED
        BY <4>2, <4>3 DEF Ended
    <3>. QED
      BY <3>1, <3>2
  <2>. QED
    BY <1>4, <1>6, <2>2, <2>3, EndedJoin
<1>10. SameLine'
  BY RecordMeets
<1>. DEFINE Q == P \o A
<1>. HIDE DEF Q
<1>11. /\ SoFar' = Q /\ CutAt(new', to') /\ (from' < Len(old') => Ended(Q))
       /\ LinesOf(Q) = LinesOf(SubSeq(new', 1, to'))
       /\ pc' = "lines" /\ SameLine'
  BY <1>0, <1>3, <1>7, <1>8, <1>9, <1>10, <1>i DEF Q
<1>. QED
  BY <1>11 DEF LinesInv

LEMMA LinesStep ==
  TypeInv /\ TypeInv' /\ OrderInv /\ OrderInv' /\ LinesInv /\ [Next]_vars => LinesInv'
<1>. SUFFICES ASSUME TypeInv, TypeInv', OrderInv, OrderInv', LinesInv, [Next]_vars PROVE LinesInv'
  OBVIOUS
<1>1. CASE Equal
  BY <1>1, LinesEqual
<1>2. CASE Differ
  <2>1. /\ pc = "lines" /\ ~SameLine /\ pc' = "search"
        /\ UNCHANGED <<old, new, from, to, insertion, adds, dels>>
    BY <1>2 DEF Differ
  <2>2. SoFar' = SoFar
    BY <2>1 DEF SoFar
  <2>. QED
    BY <2>1, <2>2 DEF LinesInv
<1>3. CASE Advance
  <2>1. /\ pc = "search" /\ pc' = pc /\ to' = SkipLine(new, to)
        /\ UNCHANGED <<old, new, from, insertion, adds, dels>>
    BY <1>3 DEF Advance
  <2>2. new \in Seq(Chars) /\ to \in 0..Len(new)
    BY Onward DEF TypeInv
  <2>3. CutAt(new, to')
    BY <2>1, <2>2, SkipIs
  <2>4. SoFar' = SoFar
    BY <2>1 DEF SoFar
  <2>. QED
    BY <2>1, <2>3, <2>4 DEF LinesInv
<1>4. CASE Record
  BY <1>4, LinesRecord
<1>5. CASE Return
  <2>1. /\ pc = "lines" /\ AtEnd /\ pc' = "done"
        /\ UNCHANGED <<old, new, from, to, insertion, adds, dels>>
    BY <1>5 DEF Return
  <2>2. SoFar' = SoFar /\ AtEnd'
    BY <2>1 DEF SoFar, AtEnd
  <2>. QED
    BY <2>1, <2>2 DEF LinesInv
<1>6. CASE UNCHANGED vars
  <2>1. UNCHANGED <<old, new, from, to, insertion, adds, dels, pc>>
    BY <1>6 DEF vars
  <2>2. SoFar' = SoFar /\ (AtEnd' <=> AtEnd) /\ (SameLine' <=> SameLine)
    BY <2>1 DEF SoFar, AtEnd, SameLine
  <2>. QED
    BY <2>1, <2>2 DEF LinesInv
<1>. QED
  BY <1>1, <1>2, <1>3, <1>4, <1>5, <1>6 DEF Next

LEMMA LinesHold == Spec => []LinesInv
<1>. QED
  BY LinesInit, LinesStep, TypeHolds, OrderHolds, PTL DEF Spec

\* Of any two texts, the diff rebuilds the lines of the new one from the old one; only line
\* breaks may differ.
THEOREM DiffsRebuildLines == Spec => []RebuildsLines
<1>1. TypeInv /\ LinesInv => RebuildsLines
  <2>. SUFFICES ASSUME TypeInv, LinesInv, pc = "done" PROVE LinesOf(Patched) = LinesOf(new)
    BY DEF RebuildsLines
  <2>1. AtEnd /\ LinesOf(SoFar) = LinesOf(SubSeq(new, 1, to))
    BY DEF LinesInv
  <2>2. SubSeq(new, 1, Len(new)) = new
    BY SubSeqFull DEF TypeInv
  <2>3. Patched = SoFar
    BY <2>1 DEF Patched, SoFar, AtEnd
  <2>. QED
    BY <2>1, <2>2, <2>3 DEF AtEnd
<1>. QED
  BY <1>1, TypeHolds, LinesHold, PTL
=============================================================================

------------------------- MODULE ArticleStoreProofs -------------------------
(***************************************************************************)
(* The safety properties of ArticleStore, and what RequestsEnd says apart  *)
(* from fairness, for any finite set of paths and any bounds.              *)
(***************************************************************************)
EXTENDS ArticleStore, TLAPS, FiniteSetTheorems, FunctionTheorems, SequenceTheorems

\* The handlers that enter an article, and the half of a rename before its file is moved.
Entering == op \in {"new", "upload"}
Renaming == op = "edit" /\ newPath # path
BeforeMove == pc \in {"render", "refs", "write", "put"} \/ (pc = "lock_groups" /\ gpath = newPath)

\* Where the groups found are as they were found, and locked.
GroupsFound ==
  \/ pc \in {"lock_groups", "insert", "render", "put", "remove"}
  \/ op = "edit" /\ pc \in {"refs", "write"}

\* What is taken out of its groups was in them.
Removing ==
  \/ op = "delete" /\ pc \in {"rerender", "lock_groups", "remove"}
  \/ Renaming /\ pc \in {"lock_groups", "remove"} /\ ~BeforeMove
RemovalInv ==
  Removing => \A k \in 1..NumGroups(path) : IsGroup(GroupPath(path, k))

\* What each label says of the request.
ControlInv ==
  /\ pc = "idle" => op = "none" /\ path = Root /\ links = {}
  /\ pc # "idle" => op # "none" /\ path \in Paths /\ newPath \in Paths
  /\ op # "edit" => newPath = path
  /\ pc \in {"idle", "lock"} =>
       /\ was = "none" /\ art = NoIdx /\ gpath = Root
       /\ rer = {} /\ adds = {} /\ dels = {}
  /\ pc \in {"idle", "lock", "lock_new"} => groups = <<>>
  /\ pc = "insert" => Entering
  /\ pc = "lock_new" => Renaming
  /\ pc \in {"render", "put"} => op = "edit"
  /\ pc = "refs" => op \in {"new", "edit"}
  /\ pc = "remove" => op = "delete" \/ Renaming
  /\ pc \in {"rerender", "lock_groups"} => op # "edit" \/ Renaming

\* Whose groups are being looked for, and when all of them have been found.
GroupsInv ==
  /\ pc \in {"lock_groups", "insert", "remove"} => gpath \in {path, newPath}
  /\ pc \in {"insert", "remove"} => gpath = path
  /\ op = "edit" /\ pc \in {"render", "refs", "write", "put"} =>
       IF newPath = path THEN groups = <<>>
       ELSE gpath = newPath /\ Len(groups) = NumGroups(gpath)
  /\ pc \in {"insert", "remove"} => Len(groups) = NumGroups(gpath)
  /\ pc = "lock_groups" => Len(groups) <= NumGroups(gpath)
  /\ GroupsFound =>
       \A k \in 1..Len(groups) :
         /\ groups[k] = byName[GroupPath(gpath, k)]
         /\ groups[k] # NoIdx => list[groups[k]].ty = "group"

\* What a handler holds while it is at work.
HoldsInv ==
  /\ pc \notin {"idle", "lock", "dead"} => path \in held
  /\ pc \notin {"idle", "lock", "lock_new", "dead"} => newPath \in held
  /\ GroupsFound => GroupLocks \subseteq held \ {path, newPath}

\* ... and that it holds nothing else.
ReleaseInv ==
  pc # "dead" =>
    held \subseteq leaked \cup (IF pc \in {"idle", "lock"} THEN {}
                                ELSE IF pc = "lock_new" THEN {path} ELSE {path, newPath})
                          \cup (IF GroupsFound THEN GroupLocks ELSE {})

\* Indices that have not been allocated are not used.
NextInv ==
  /\ \A i \in Idx : i > next => list[i] = NoRec
  /\ \A p \in AllPaths : byName[p] <= next

\* What a handler knows of its article from one step to the next.
ArtInv ==
  /\ op = "edit" /\ (pc = "lock_new" \/ BeforeMove) =>
       art = byName[path] /\ art # NoIdx /\ list[art].ty = "text"
  /\ Renaming /\ BeforeMove => byName[newPath] = NoIdx
  /\ Renaming /\ pc \in {"lock_groups", "remove", "rerender", "finish"} /\ ~BeforeMove =>
       /\ byName[newPath] # NoIdx /\ list[byName[newPath]].ty = "text"
       /\ byName[path] = NoIdx
       /\ art # NoIdx /\ list[art].ty = "none"
  /\ Entering /\ pc \in {"lock_groups", "insert"} =>
       art = NoIdx /\ Article(path).ty \in {"none", "dead"}
  /\ Entering /\ pc \in {"rerender", "refs", "write", "finish"} =>
       /\ art = byName[path] /\ art # NoIdx
       /\ list[art].ty = IF op = "new" THEN "text" ELSE "img"
  /\ op = "delete" /\ pc \in {"rerender", "lock_groups", "remove", "write", "finish"} =>
       art = byName[path] /\ art # NoIdx /\ list[art].ty = "dead"

\* Only the paths of articles have contents: / is a group or nothing.
ContentsInv == \A i \in Idx : list[i].ty \in {"text", "img"} => list[i].path \in Paths

\* An article has its file, but for a new one before it is written.
FileInv ==
  \A i \in Idx :
    list[i].ty \in {"text", "img"} /\ (i = art => ~ (Entering /\ pc \in {"rerender", "refs", "write", "dead"})) =>
      file[list[i].path].kind # "none"

\* There is room for the indices that the request may still need.
Ahead ==
  /\ op \in {"new", "upload", "edit"}
  /\ pc \in {"lock", "lock_new", "insert", "render"} \/ (pc = "lock_groups" /\ gpath = newPath)
RoomInv ==
  /\ adds \subseteq links
  /\ Ahead => RoomFor(1 + Cardinality(Missing(Prefixes(newPath) \cup links)))
  /\ op = "edit" /\ pc \in {"refs", "write", "put"} =>
       RoomFor(1 + Cardinality(Missing(Prefixes(newPath) \cup adds)))
  /\ op = "new" /\ pc \in {"rerender", "refs"} => RoomFor(Cardinality(Missing(adds)))

AboveInv ==
    \A p \in Paths : HasContent(p) =>
      \A g \in Prefixes(p) : (g # Root \/ p[1] # Secret) => IsGroup(g)
-----------------------------------------------------------------------------
(* Paths.                                                                    *)

\* The groups above a path are shorter than it, and different from each other.
LEMMA GroupPaths ==
  ASSUME NEW p \in Paths
  PROVE  /\ Len(p) \in Nat \ {0} /\ NumGroups(p) \in 0..Len(p)
         /\ \A k \in 1..Len(p) :
              /\ GroupPath(p, k) \in Prefixes(p) /\ GroupPath(p, k) \in AllPaths
              /\ Len(GroupPath(p, k)) = Len(p) - k
              /\ GroupPath(p, k) # p
         /\ \A j, k \in 1..Len(p) : GroupPath(p, j) = GroupPath(p, k) => j = k
<1>1. p \in Seq(Segments) /\ p # << >> /\ Prefixes(p) \subseteq AllPaths
  BY PathsAssumption DEF Root
<1>2. Len(p) \in Nat /\ Len(p) # 0
  BY <1>1, LenProperties, EmptySeq
<1>3. ASSUME NEW k \in 1..Len(p)
      PROVE  GroupPath(p, k) \in Prefixes(p) /\ Len(GroupPath(p, k)) = Len(p) - k
  <2>1. Len(p) - k \in 0..Len(p) - 1
    BY <1>2
  <2>2. \A i \in 1..Len(p) - k : p[i] \in Segments
    BY <1>1, <1>2, ElementOfSeq
  <2>3. Len(SubSeq(p, 1, Len(p) - k)) = Len(p) - k
    BY <2>1, <2>2, <1>2, SubSeqProperties
  <2>. QED
    BY <2>1, <2>3 DEF GroupPath, Prefixes
<1>4. NumGroups(p) \in 0..Len(p)
  BY <1>2 DEF NumGroups
<1>5. \A k \in 1..Len(p) : GroupPath(p, k) # p
  BY <1>2, <1>3
<1>6. \A j, k \in 1..Len(p) : GroupPath(p, j) = GroupPath(p, k) => j = k
  BY <1>2, <1>3
<1>. QED
  BY <1>1, <1>2, <1>3, <1>4, <1>5, <1>6

\* The groups above an article are those of its prefixes that list it.
LEMMA GroupsOfPrefixes ==
  ASSUME NEW p \in Paths, NEW g \in Prefixes(p), g # Root \/ p[1] # Secret
  PROVE  \E k \in 1..NumGroups(p) : g = GroupPath(p, k)
<1>1. p \in Seq(Segments) /\ Len(p) \in Nat \ {0}
  BY GroupPaths, PathsAssumption
<1>2. PICK n \in 0..Len(p) - 1 : g = SubSeq(p, 1, n)
  BY DEF Prefixes
<1>3. g = GroupPath(p, Len(p) - n) /\ Len(p) - n \in 1..Len(p)
  BY <1>1, <1>2 DEF GroupPath
<1>4. n = 0 => g = Root
  BY <1>2, SubSeqEmpty DEF Root
<1>. QED
  BY <1>1, <1>2, <1>3, <1>4 DEF NumGroups
-----------------------------------------------------------------------------
(* Counting.                                                                 *)

\* How many of the groups are created, below and up to the one at k.
LEMMA CreatedCounts ==
  /\ \A k \in Nat : Created(k) \in 0..k
  /\ \A j, k \in Nat : j <= k => Created(j) <= Created(k)
  /\ \A j, k \in Nat : j < k /\ groups[k] = NoIdx => Created(j) < Created(k)
<1>. DEFINE S(k) == {j \in 1..k : groups[j] = NoIdx}
<1>1. \A k \in Nat : IsFiniteSet(S(k)) /\ Cardinality(S(k)) \in 0..k
  <2>. SUFFICES ASSUME NEW k \in Nat
                PROVE  IsFiniteSet(S(k)) /\ Cardinality(S(k)) \in 0..k
    OBVIOUS
  <2>1. IsFiniteSet(1..k) /\ Cardinality(1..k) = k
    BY FS_Interval
  <2>2. S(k) \in SUBSET (1..k)
    OBVIOUS
  <2>3. IsFiniteSet(S(k)) /\ Cardinality(S(k)) <= k
    BY <2>1, <2>2, FS_Subset
  <2>. QED
    BY <2>3, FS_CardinalityType
<1>2. ASSUME NEW j \in Nat, NEW k \in Nat, j <= k
      PROVE  /\ Cardinality(S(j)) <= Cardinality(S(k))
             /\ j < k /\ groups[k] = NoIdx => Cardinality(S(j)) < Cardinality(S(k))
  <2>1. S(j) \in SUBSET S(k)
    BY <1>2
  <2>2. /\ Cardinality(S(j)) <= Cardinality(S(k))
        /\ Cardinality(S(j)) = Cardinality(S(k)) => S(j) = S(k)
    BY <1>1, <2>1, FS_Subset
  <2>3. j < k /\ groups[k] = NoIdx => k \in S(k) \ S(j)
    BY <1>2
  <2>. HIDE DEF S
  <2>. QED
    BY <1>1, <2>2, <2>3
<1>3. \A k : Created(k) = Cardinality(S(k))
  BY DEF Created
<1>. HIDE DEF S
<1>4. \A k \in Nat : Created(k) \in 0..k
  BY <1>1, <1>3
<1>. QED
  BY <1>2, <1>3, <1>4

\* What is missing of a set of paths can be counted.
LEMMA MissingCounts ==
  ASSUME NEW S \in SUBSET AllPaths
  PROVE  /\ IsFiniteSet(Missing(S)) /\ Cardinality(Missing(S)) \in Nat
         /\ \A T \in SUBSET S : Cardinality(Missing(T)) <= Cardinality(Missing(S))
<1>1. IsFiniteSet(AllPaths)
  BY PathsAssumption, FS_AddElement DEF AllPaths
<1>2. \A T \in SUBSET S : Missing(T) \in SUBSET Missing(S) /\ Missing(S) \in SUBSET AllPaths
  BY DEF Missing
<1>3. IsFiniteSet(Missing(S))
  BY <1>1, <1>2, FS_Subset
<1>4. \A T \in SUBSET S : Cardinality(Missing(T)) <= Cardinality(Missing(S))
  BY <1>2, <1>3, FS_Subset
<1>. QED
  BY <1>3, <1>4, FS_CardinalityType
-----------------------------------------------------------------------------
(* The chain of groups above a new path.                                     *)

\* The groups have been found, and there is room for the missing ones and an article.
Ready ==
  /\ gpath \in Paths
  /\ Len(groups) \in 0..NumGroups(gpath)
  /\ \A k \in 1..Len(groups) :
       /\ groups[k] = byName[GroupPath(gpath, k)]
       /\ groups[k] # NoIdx => list[groups[k]].ty = "group"
  /\ next + 1 + Created(Len(groups)) <= MaxIdx

\* The groups that have to be created are missing prefixes of the path.
LEMMA GroupsFit ==
  ASSUME TypeOK, gpath \in Paths, Len(groups) \in 0..NumGroups(gpath),
         \A k \in 1..Len(groups) : groups[k] = byName[GroupPath(gpath, k)]
  PROVE  Created(Len(groups)) <= Cardinality(Missing(Prefixes(gpath)))
<1>. DEFINE S == {k \in 1..Len(groups) : groups[k] = NoIdx}
            T == Missing(Prefixes(gpath))
            f == [k \in S |-> GroupPath(gpath, k)]
<1>1. Len(groups) \in Nat /\ \A k \in 1..Len(groups) : k \in 1..Len(gpath)
  BY GroupPaths
<1>2. f \in Injection(S, T)
  <2>1. \A k \in S : GroupPath(gpath, k) \in T
    BY <1>1, GroupPaths DEF Missing
  <2>2. \A j, k \in S : GroupPath(gpath, j) = GroupPath(gpath, k) => j = k
    BY <1>1, GroupPaths
  <2>. QED
    BY <2>1, <2>2, Fun_IsInj
<1>3. IsFiniteSet(T)
  BY MissingCounts, PathsAssumption
<1>4. Cardinality(S) <= Cardinality(T)
  BY <1>2, <1>3, FS_Injection
<1>. QED
  BY <1>4 DEF Created

\* Every group of the chain has an index of its own, and the article has another one.
LEMMA Nodes ==
  ASSUME TypeOK, NextInv, NamesMatch, Ready, NEW item, item = next + 1
  PROVE  /\ item \in Idx
         /\ \A k \in 1..Len(groups) :
              /\ NodeOf(item, k) \in Idx
              /\ groups[k] # NoIdx => NodeOf(item, k) = groups[k] /\ groups[k] <= next
              /\ groups[k] = NoIdx => /\ NodeOf(item, k) = item + Created(k)
                                      /\ NodeOf(item, k) > item
                                      /\ NodeOf(item, k) <= item + Created(Len(groups))
         /\ \A j, k \in 1..Len(groups) : NodeOf(item, j) = NodeOf(item, k) => j = k
<1>. DEFINE n == Len(groups)
<1>1. n \in Nat /\ next \in 0..MaxIdx /\ MaxIdx \in Nat /\ n <= Len(gpath) /\ Len(gpath) \in Nat
  BY GroupPaths, BoundAssumption DEF TypeOK, Ready
<1>2. \A k \in 1..n : groups[k] \in Idx \cup {NoIdx}
  BY DEF TypeOK
<1>3. next + 1 + Created(n) <= MaxIdx /\ Created(n) \in Nat
  BY <1>1, CreatedCounts DEF Ready
<1>4. ASSUME NEW k \in 1..n
      PROVE  /\ NodeOf(item, k) \in Idx
             /\ groups[k] # NoIdx => NodeOf(item, k) = groups[k] /\ groups[k] <= next
             /\ groups[k] = NoIdx => /\ NodeOf(item, k) = item + Created(k)
                                     /\ NodeOf(item, k) > item
                                     /\ NodeOf(item, k) <= item + Created(n)
  <2>1. NodeOf(item, k) = IF groups[k] # NoIdx THEN groups[k] ELSE item + Created(k)
    BY DEF NodeOf
  <2>2. groups[k] # NoIdx => groups[k] <= next
    <3>1. gpath \in Paths /\ k \in 1..Len(gpath) /\ groups[k] = byName[GroupPath(gpath, k)]
      BY <1>1 DEF Ready
    <3>2. GroupPath(gpath, k) \in AllPaths
      BY <3>1, GroupPaths
    <3>. QED
      BY <3>1, <3>2 DEF NextInv
  <2>3. Created(k) \in Nat /\ Created(k) <= Created(n) /\ Created(0) \in Nat
        /\ (groups[k] = NoIdx => Created(0) < Created(k))
    BY <1>1, CreatedCounts
  <2>. QED
    BY <1>1, <1>2, <1>3, <2>1, <2>2, <2>3 DEF Idx
<1>5. ASSUME NEW j \in 1..n, NEW k \in 1..n, NodeOf(item, j) = NodeOf(item, k)
      PROVE  j = k
  <2>1. CASE groups[j] = NoIdx /\ groups[k] = NoIdx
    <3>1. j \in Nat /\ k \in Nat
      BY <1>1
    <3>2. Created(j) \in Nat /\ Created(k) \in Nat
      BY <3>1, CreatedCounts
    <3>3. item + Created(j) = item + Created(k)
      BY <1>4, <1>5, <2>1
    <3>4. Created(j) = Created(k)
      BY <1>1, <3>2, <3>3
    <3>5. j < k => Created(j) < Created(k)
      BY <2>1, <3>1, CreatedCounts
    <3>6. k < j => Created(k) < Created(j)
      BY <2>1, <3>1, CreatedCounts
    <3>. QED
      BY <3>1, <3>2, <3>4, <3>5, <3>6
  <2>2. CASE groups[j] # NoIdx /\ groups[k] # NoIdx
    <3>1. groups[j] = groups[k]
      BY <1>4, <1>5, <2>2
    <3>2. /\ GroupPath(gpath, j) \in AllPaths /\ groups[j] = byName[GroupPath(gpath, j)]
          /\ GroupPath(gpath, k) \in AllPaths /\ groups[k] = byName[GroupPath(gpath, k)]
      BY <1>1, GroupPaths DEF Ready
    <3>3. GroupPath(gpath, j) = GroupPath(gpath, k)
      BY <2>2, <3>1, <3>2 DEF NamesMatch
    <3>. QED
      BY <3>3, <1>1, GroupPaths DEF Ready
  <2>. QED
    BY <1>1, <1>2, <1>4, <1>5, <2>1, <2>2 DEF Idx
<1>6. item \in Idx
  BY <1>1, <1>3 DEF Idx
<1>. QED
  BY <1>4, <1>5, <1>6

\* What is entered at each index and under each path.
LEMMA ChainEntered ==
  ASSUME TypeOK, NextInv, NamesMatch, Ready, NEW item, item = next + 1, NEW l, NEW n
  PROVE  /\ \A i \in Idx :
              (\A k \in 1..Len(groups) : NodeOf(item, k) # i) => GroupsInserted(l, item)[i] = l[i]
         /\ \A k \in 1..Len(groups) :
              GroupsInserted(l, item)[NodeOf(item, k)] =
                [ty |-> "group", path |-> GroupPath(gpath, k),
                 items |-> l[NodeOf(item, k)].items \cup {NodeOf(item, k - 1)}]
         /\ \A k \in 1..Len(groups) : GroupNames(n, item)[GroupPath(gpath, k)] = NodeOf(item, k)
         /\ \A p \in AllPaths : p \notin GroupLocks => GroupNames(n, item)[p] = n[p]
<1>1. \A i \in Idx :
        (\A k \in 1..Len(groups) : NodeOf(item, k) # i) => GroupsInserted(l, item)[i] = l[i]
  BY DEF GroupsInserted
<1>2. ASSUME NEW k \in 1..Len(groups)
      PROVE  GroupsInserted(l, item)[NodeOf(item, k)] =
                [ty |-> "group", path |-> GroupPath(gpath, k),
                 items |-> l[NodeOf(item, k)].items \cup {NodeOf(item, k - 1)}]
  <2>. DEFINE c == CHOOSE j \in 1..Len(groups) : NodeOf(item, j) = NodeOf(item, k)
  <2>1. c \in 1..Len(groups) /\ NodeOf(item, c) = NodeOf(item, k)
    OBVIOUS
  <2>2. NodeOf(item, k) \in Idx /\ c = k
    BY <2>1, Nodes
  <2>3. GroupsInserted(l, item)[NodeOf(item, k)] =
          [ty |-> "group", path |-> GroupPath(gpath, c),
           items |-> l[NodeOf(item, k)].items \cup {NodeOf(item, c - 1)}]
    BY <2>2 DEF GroupsInserted
  <2>. QED
    BY <2>2, <2>3
<1>3. ASSUME NEW k \in 1..Len(groups)
      PROVE  GroupNames(n, item)[GroupPath(gpath, k)] = NodeOf(item, k)
  <2>1. /\ k \in 1..Len(gpath) /\ Len(gpath) \in Nat
        /\ GroupPath(gpath, k) \in AllPaths /\ Len(GroupPath(gpath, k)) = Len(gpath) - k
    BY GroupPaths DEF Ready
  <2>2. Len(gpath) - Len(GroupPath(gpath, k)) = k
    BY <2>1
  <2>3. GroupPath(gpath, k) \in GroupLocks
    BY DEF GroupLocks
  <2>. QED
    BY <2>1, <2>2, <2>3 DEF GroupNames
<1>. QED
  BY <1>1, <1>2, <1>3 DEF GroupNames

Records == [ty : Types \cup {"none"}, path : AllPaths, items : SUBSET Idx]
Entry ==
  IF pc = "insert"
    THEN [ty |-> IF op = "new" THEN "text" ELSE "img", path |-> newPath, items |-> rer]
    ELSE [list[art] EXCEPT !.path = newPath]

\* What the two steps that enter an article at newPath have in common.
Enters ==
  LET item == next + 1
  IN /\ item \in Idx /\ next' \in item..MaxIdx
     /\ list' \in [Idx -> Records] /\ byName' \in [AllPaths -> Idx \cup {NoIdx}]
     /\ byName'[newPath] = item /\ list'[item] = Entry
     /\ \A g \in GroupLocks :
          /\ byName'[g] \in Idx \ {item} /\ byName'[g] <= next'
          /\ byName[g] # NoIdx => byName'[g] = byName[g]
          /\ byName[g] = NoIdx => byName'[g] > item
          /\ list'[byName'[g]].ty = "group" /\ list'[byName'[g]].path = g
     /\ \A k \in 1..Len(groups) :
          list'[byName'[GroupPath(gpath, k)]].items =
            Article(GroupPath(gpath, k)).items
              \cup {IF k = 1 THEN item ELSE byName'[GroupPath(gpath, k - 1)]}
     /\ \A p \in AllPaths \ (GroupLocks \cup {newPath}) :
          byName'[p] = IF p = path THEN NoIdx ELSE byName[p]
     /\ \A i \in Idx \ {item} :
          (\A g \in GroupLocks : byName'[g] # i) =>
             list'[i] = IF i = art THEN NoRec ELSE list[i]

IInv ==
  /\ TypeOK /\ NamesMatch
  /\ ControlInv /\ GroupsInv /\ HoldsInv /\ ReleaseInv /\ NextInv /\ ArtInv
  /\ ContentsInv /\ FileInv /\ RoomInv
  /\ AboveInv /\ RemovalInv

\* Its two steps find the groups they need.
LEMMA GetsReady ==
  ASSUME IInv, pc = "insert" \/ (pc = "put" /\ newPath # path)
  PROVE  /\ Ready /\ gpath = newPath /\ newPath \in Paths
         /\ path \notin GroupLocks /\ newPath \notin GroupLocks
         /\ Entry \in Records /\ Entry.ty \in {"text", "img"} /\ Entry.path = newPath
         /\ pc = "insert" => art = NoIdx /\ newPath = path
         /\ pc = "put" => /\ art = byName[path] /\ art \in Idx
                          /\ art <= next /\ list[art].ty = "text"
<1>1. gpath \in Paths /\ gpath = newPath /\ Len(groups) = NumGroups(gpath) /\ newPath \in Paths
      /\ path \in Paths
  BY DEF IInv, ControlInv, GroupsInv, Entering
<1>2. GroupsFound
  BY DEF GroupsFound
<1>3. \A k \in 1..Len(groups) :
        /\ groups[k] = byName[GroupPath(gpath, k)]
        /\ groups[k] # NoIdx => list[groups[k]].ty = "group"
  BY <1>2 DEF IInv, GroupsInv
<1>4. Len(groups) \in 0..NumGroups(gpath) /\ Len(groups) \in Nat
  BY <1>1, GroupPaths
<1>5. next + 1 + Created(Len(groups)) <= MaxIdx
  <2>1. Created(Len(groups)) <= Cardinality(Missing(Prefixes(gpath)))
    BY <1>1, <1>3, <1>4, GroupsFit DEF IInv
  <2>2. PICK L \in SUBSET Paths :
          next + (1 + Cardinality(Missing(Prefixes(newPath) \cup L))) <= MaxIdx
    <3>1. CASE pc = "insert"
      BY <3>1 DEF IInv, RoomInv, Ahead, RoomFor, ControlInv, Entering, TypeOK
    <3>2. CASE pc = "put"
      BY <3>2 DEF IInv, RoomInv, RoomFor, ControlInv, TypeOK
    <3>. QED
      BY <3>1, <3>2
  <2>3. Prefixes(newPath) \cup L \in SUBSET AllPaths
    BY <1>1, PathsAssumption DEF AllPaths
  <2>4. Cardinality(Missing(Prefixes(gpath))) <= Cardinality(Missing(Prefixes(newPath) \cup L))
    BY <1>1, <2>3, MissingCounts
  <2>5. /\ Cardinality(Missing(Prefixes(gpath))) \in Nat
        /\ Cardinality(Missing(Prefixes(newPath) \cup L)) \in Nat
    BY <1>1, <2>3, MissingCounts, PathsAssumption
  <2>6. Created(Len(groups)) \in Nat
    BY <1>4, CreatedCounts
  <2>. QED
    BY <2>1, <2>2, <2>4, <2>5, <2>6, BoundAssumption DEF IInv, TypeOK
<1>6. path \notin GroupLocks /\ newPath \notin GroupLocks
  BY <1>2 DEF IInv, HoldsInv
<1>7. pc = "insert" => art = NoIdx /\ newPath = path
  BY DEF IInv, ControlInv, ArtInv, Entering
<1>8. pc = "put" => /\ art = byName[path] /\ art \in Idx
                    /\ art <= next /\ list[art].ty = "text"
  BY DEF IInv, ControlInv, ArtInv, BeforeMove, NextInv, TypeOK, AllPaths
<1>9. Entry \in Records /\ Entry.ty \in {"text", "img"} /\ Entry.path = newPath
  <2>1. CASE pc = "insert"
    BY <1>1, <2>1 DEF Entry, Records, IInv, TypeOK, Types, AllPaths
  <2>2. CASE pc = "put"
    <3>1. list[art] \in Records /\ newPath \in AllPaths
      BY <1>1, <1>8, <2>2 DEF IInv, TypeOK, Records, AllPaths
    <3>2. Entry = [list[art] EXCEPT !.path = newPath]
      BY <2>2 DEF Entry
    <3>. QED
      BY <3>1, <3>2, <1>8, <2>2 DEF Records
  <2>. QED
    BY <2>1, <2>2
<1>. QED
  BY <1>1, <1>3, <1>4, <1>5, <1>6, <1>7, <1>8, <1>9 DEF Ready

\* A new article and one that is moved enter their groups in the same way.
LEMMA EntersStep ==
  ASSUME IInv, Insert \/ PutRenamed
  PROVE  Enters
<1>. DEFINE item == next + 1
            n == Len(groups)
            l == IF pc = "insert" THEN list ELSE [list EXCEPT ![item] = Entry, ![art] = NoRec]
<1>0. TypeOK /\ NextInv /\ NamesMatch
  BY DEF IInv
<1>1. (pc = "insert" /\ Insert) \/ (pc = "put" /\ newPath # path /\ PutRenamed)
  <2>1. CASE Insert
    <3>1. pc = "insert"
      BY <2>1 DEF Insert
    <3>. QED
      BY <2>1, <3>1
  <2>2. CASE PutRenamed
    <3>1. pc = "put" /\ newPath # path
      BY <2>2 DEF PutRenamed
    <3>. QED
      BY <2>2, <3>1
  <2>. QED
    BY <2>1, <2>2
<1>2. /\ Ready /\ gpath = newPath /\ newPath \in Paths
      /\ path \notin GroupLocks /\ newPath \notin GroupLocks
      /\ Entry \in Records /\ Entry.ty \in {"text", "img"} /\ Entry.path = newPath
      /\ pc = "insert" => art = NoIdx /\ newPath = path
      /\ pc = "put" => art = byName[path] /\ art \in Idx /\ art <= next /\ list[art].ty = "text"
  BY <1>1, GetsReady
<1>3. /\ item \in Idx
      /\ \A k \in 1..n :
              /\ NodeOf(item, k) \in Idx
              /\ groups[k] # NoIdx => NodeOf(item, k) = groups[k] /\ groups[k] <= next
              /\ groups[k] = NoIdx => /\ NodeOf(item, k) = item + Created(k)
                                      /\ NodeOf(item, k) > item
                                      /\ NodeOf(item, k) <= item + Created(n)
      /\ \A j, k \in 1..n : NodeOf(item, j) = NodeOf(item, k) => j = k
  BY <1>0, <1>2, Nodes
<1>4. n \in Nat /\ n <= Len(gpath) /\ Len(gpath) \in Nat /\ Created(n) \in Nat /\ next \in Nat
      /\ MaxIdx \in Nat /\ item + Created(n) <= MaxIdx
  BY <1>0, <1>2, GroupPaths, CreatedCounts, BoundAssumption DEF Ready, TypeOK
<1>5. \A k \in 1..n : NodeOf(item, k) \in Idx \ {item, art}
  <2>. SUFFICES ASSUME NEW k \in 1..n PROVE NodeOf(item, k) \in Idx \ {item, art}
    OBVIOUS
  <2>1. groups[k] # NoIdx => list[groups[k]].ty = "group"
    BY <1>2 DEF Ready
  <2>2. NodeOf(item, k) # item
    BY <1>3, <1>4
  <2>3. NodeOf(item, k) # art
    BY <1>1, <1>2, <1>3, <1>4, <2>1 DEF Idx, NoIdx
  <2>. QED
    BY <1>3, <2>2, <2>3
<1>6. /\ next' = item + Created(n)
      /\ list' = IF pc = "insert" THEN [GroupsInserted(l, item) EXCEPT ![item] = Entry]
                 ELSE GroupsInserted(l, item)
      /\ byName' = IF pc = "insert" THEN [GroupNames(byName, item) EXCEPT ![newPath] = item]
                   ELSE [GroupNames(byName, item) EXCEPT ![newPath] = item, ![path] = NoIdx]
  <2>1. CASE pc = "insert"
    BY <1>1, <1>2, <2>1 DEF Insert, Entry
  <2>2. CASE pc = "put"
    BY <1>1, <1>2, <2>2 DEF PutRenamed, Entry
  <2>. QED
    BY <1>1, <2>1, <2>2
<1>7. /\ \A i \in Idx : (\A k \in 1..n : NodeOf(item, k) # i) => GroupsInserted(l, item)[i] = l[i]
      /\ \A k \in 1..n :
              GroupsInserted(l, item)[NodeOf(item, k)] =
                [ty |-> "group", path |-> GroupPath(gpath, k),
                 items |-> l[NodeOf(item, k)].items \cup {NodeOf(item, k - 1)}]
      /\ \A k \in 1..n : GroupNames(byName, item)[GroupPath(gpath, k)] = NodeOf(item, k)
      /\ \A p \in AllPaths : p \notin GroupLocks => GroupNames(byName, item)[p] = byName[p]
  <2>. HIDE DEF l
  <2>1. item = next + 1
    OBVIOUS
  <2>. HIDE DEF item
  <2>2. Ready
    BY <1>2
  <2>. QED
    BY <1>0, <2>1, <2>2, ChainEntered
<1>8. DOMAIN GroupsInserted(l, item) = Idx /\ DOMAIN GroupNames(byName, item) = AllPaths
  BY DEF GroupsInserted, GroupNames
<1>9. \A k \in 1..n : GroupPath(gpath, k) \in AllPaths \ {path, newPath}
  BY <1>2, <1>4, GroupPaths DEF GroupLocks
<1>10. ASSUME NEW k \in 1..n
       PROVE  /\ byName'[GroupPath(gpath, k)] = NodeOf(item, k)
              /\ list'[NodeOf(item, k)].ty = "group"
              /\ list'[NodeOf(item, k)].path = GroupPath(gpath, k)
              /\ list'[NodeOf(item, k)].items =
                   list[NodeOf(item, k)].items \cup {NodeOf(item, k - 1)}
              /\ list'[NodeOf(item, k)] \in Records
  <2>1. l[NodeOf(item, k)] = list[NodeOf(item, k)]
    BY <1>0, <1>5 DEF TypeOK
  <2>. HIDE DEF l
  <2>2. list'[NodeOf(item, k)] = GroupsInserted(l, item)[NodeOf(item, k)]
    BY <1>5, <1>6, <1>8
  <2>3. byName'[GroupPath(gpath, k)] = GroupNames(byName, item)[GroupPath(gpath, k)]
    BY <1>6, <1>8, <1>9
  <2>. DEFINE its == list[NodeOf(item, k)].items \cup {NodeOf(item, k - 1)}
              rec == [ty |-> "group", path |-> GroupPath(gpath, k), items |-> its]
  <2>4. list'[NodeOf(item, k)] = rec
    BY <1>7, <2>1, <2>2
  <2>5. NodeOf(item, k - 1) \in Idx
    <3>1. CASE k = 1
      BY <1>3, <3>1 DEF NodeOf
    <3>2. CASE k # 1
      BY <1>3, <1>4, <3>2
    <3>. QED
      BY <3>1, <3>2
  <2>6. its \in SUBSET Idx
    BY <1>0, <1>5, <2>5 DEF TypeOK
  <2>. HIDE DEF its
  <2>7. rec \in Records
    BY <1>9, <2>6 DEF Records, Types
  <2>8. rec.ty = "group" /\ rec.path = GroupPath(gpath, k) /\ rec.items = its
    OBVIOUS
  <2>9. byName'[GroupPath(gpath, k)] = NodeOf(item, k)
    BY <1>7, <2>3
  <2>. HIDE DEF rec
  <2>. QED
    BY <2>4, <2>7, <2>8, <2>9 DEF its
<1>11. \A i \in Idx \ {item} :
         (\A k \in 1..n : NodeOf(item, k) # i) => list'[i] = IF i = art THEN NoRec ELSE list[i]
  <2>. SUFFICES ASSUME NEW i \in Idx \ {item}, \A k \in 1..n : NodeOf(item, k) # i
                PROVE  list'[i] = IF i = art THEN NoRec ELSE list[i]
    OBVIOUS
  <2>1. l[i] = IF i = art THEN NoRec ELSE list[i]
    BY <1>0, <1>1, <1>2 DEF TypeOK, Idx, NoIdx
  <2>. HIDE DEF l
  <2>. QED
    BY <1>6, <1>7, <1>8, <2>1
<1>12. list'[item] = Entry
  <2>1. CASE pc = "insert"
    BY <1>3, <1>6, <1>8, <2>1
  <2>2. CASE pc = "put"
    <3>1. l[item] = Entry
      BY <1>0, <1>2, <1>3, <1>4, <2>2 DEF TypeOK, Idx
    <3>. HIDE DEF l
    <3>. QED
      BY <1>3, <1>5, <1>6, <1>7, <2>2, <3>1
  <2>. QED
    BY <1>1, <2>1, <2>2
<1>13. byName'[newPath] = item
  <2>1. newPath \in AllPaths
    BY <1>2 DEF AllPaths
  <2>. QED
    BY <1>1, <1>2, <1>6, <1>8, <2>1
<1>14. \A p \in AllPaths \ (GroupLocks \cup {newPath}) :
          byName'[p] = IF p = path THEN NoIdx ELSE byName[p]
  BY <1>1, <1>2, <1>6, <1>7, <1>8
<1>15. \A k \in 1..n : NodeOf(item, k - 1) = IF k = 1 THEN item ELSE NodeOf(item, k - 1)
  BY <1>4 DEF NodeOf
<1>16. \A k \in 1..n : list[NodeOf(item, k)].items = Article(GroupPath(gpath, k)).items
  <2>. SUFFICES ASSUME NEW k \in 1..n
                PROVE  list[NodeOf(item, k)].items = Article(GroupPath(gpath, k)).items
    OBVIOUS
  <2>1. groups[k] = byName[GroupPath(gpath, k)]
    BY <1>2 DEF Ready
  <2>2. groups[k] = NoIdx => list[NodeOf(item, k)] = NoRec
    <3>1. groups[k] = NoIdx => NodeOf(item, k) \in Idx /\ NodeOf(item, k) > next
      BY <1>3, <1>4 DEF Idx
    <3>. QED
      BY <1>0, <3>1 DEF NextInv
  <2>. QED
    BY <1>3, <2>1, <2>2 DEF Article, RecordAt
<1>. HIDE DEF l, n
<1>17. list' \in [Idx -> Records]
  <2>1. DOMAIN list' = Idx /\ list' = [i \in Idx |-> list'[i]]
    BY <1>6, <1>8 DEF GroupsInserted
  <2>2. ASSUME NEW i \in Idx PROVE list'[i] \in Records
    <3>1. CASE i = item
      BY <1>2, <1>12, <3>1
    <3>2. ASSUME NEW k \in 1..n, i = NodeOf(item, k) PROVE list'[i] \in Records
      BY <1>10, <3>2
    <3>3. CASE i # item /\ \A k \in 1..n : NodeOf(item, k) # i
      <4>1. list[i] \in Records /\ NoRec \in Records
        BY <1>0 DEF TypeOK, Records, NoRec, AllPaths
      <4>. QED
        BY <1>11, <3>3, <4>1
    <3>. QED
      BY <3>1, <3>2, <3>3
  <2>. QED
    BY <2>1, <2>2
<1>18. byName' \in [AllPaths -> Idx \cup {NoIdx}]
  <2>1. byName' = [p \in AllPaths |-> byName'[p]]
    BY <1>6, <1>8 DEF GroupNames
  <2>2. ASSUME NEW p \in AllPaths PROVE byName'[p] \in Idx \cup {NoIdx}
    <3>1. ASSUME NEW k \in 1..n, p = GroupPath(gpath, k) PROVE byName'[p] \in Idx
      BY <1>3, <1>10, <3>1
    <3>2. CASE p \notin GroupLocks
      BY <1>0, <1>3, <1>13, <1>14, <3>2 DEF TypeOK
    <3>. QED
      BY <3>1, <3>2 DEF GroupLocks, n
  <2>. QED
    BY <2>1, <2>2
<1>19. next' \in item..MaxIdx
  BY <1>3, <1>4, <1>6
<1>20. \A g \in GroupLocks :
          /\ byName'[g] \in Idx \ {item} /\ byName'[g] <= next'
          /\ byName[g] # NoIdx => byName'[g] = byName[g]
          /\ byName[g] = NoIdx => byName'[g] > item
          /\ list'[byName'[g]].ty = "group" /\ list'[byName'[g]].path = g
  <2>. SUFFICES ASSUME NEW k \in 1..n, NEW g, g = GroupPath(gpath, k)
                PROVE  /\ byName'[g] \in Idx \ {item} /\ byName'[g] <= next'
                       /\ byName[g] # NoIdx => byName'[g] = byName[g]
                       /\ byName[g] = NoIdx => byName'[g] > item
                       /\ list'[byName'[g]].ty = "group" /\ list'[byName'[g]].path = g
    BY DEF GroupLocks, n
  <2>1. groups[k] = byName[g]
    BY <1>2 DEF Ready, n
  <2>2. NodeOf(item, k) <= next'
    <3>1. next' = next + 1 + Created(n)
      BY <1>6
    <3>2. groups[k] # NoIdx => NodeOf(item, k) <= next
      BY <1>3
    <3>3. NodeOf(item, k) \in Nat
      BY <1>3 DEF Idx
    <3>4. groups[k] = NoIdx => NodeOf(item, k) <= next + 1 + Created(n)
      BY <1>3
    <3>. QED
      BY <1>4, <3>1, <3>2, <3>3, <3>4
  <2>3. byName'[g] = NodeOf(item, k) /\ list'[NodeOf(item, k)].ty = "group"
        /\ list'[NodeOf(item, k)].path = g
    BY <1>10
  <2>. QED
    BY <1>3, <1>5, <2>1, <2>2, <2>3
<1>21. \A k \in 1..n :
          list'[byName'[GroupPath(gpath, k)]].items =
            Article(GroupPath(gpath, k)).items
              \cup {IF k = 1 THEN item ELSE byName'[GroupPath(gpath, k - 1)]}
  <2>. SUFFICES ASSUME NEW k \in 1..n
                PROVE list'[byName'[GroupPath(gpath, k)]].items =
                        Article(GroupPath(gpath, k)).items
                          \cup {IF k = 1 THEN item ELSE byName'[GroupPath(gpath, k - 1)]}
    OBVIOUS
  <2>1. k # 1 => k - 1 \in 1..n
    BY <1>4
  <2>2. k # 1 => byName'[GroupPath(gpath, k - 1)] = NodeOf(item, k - 1)
    BY <1>10, <2>1
  <2>3. list'[NodeOf(item, k)].items = list[NodeOf(item, k)].items \cup {NodeOf(item, k - 1)}
    BY <1>10
  <2>. QED
    BY <1>10, <1>15, <1>16, <2>2, <2>3
<1>22. \A i \in Idx \ {item} :
          (\A g \in GroupLocks : byName'[g] # i) =>
             list'[i] = IF i = art THEN NoRec ELSE list[i]
  <2>. SUFFICES ASSUME NEW i \in Idx \ {item}, \A g \in GroupLocks : byName'[g] # i
                PROVE  list'[i] = IF i = art THEN NoRec ELSE list[i]
    OBVIOUS
  <2>1. \A k \in 1..n : GroupPath(gpath, k) \in GroupLocks
    BY DEF GroupLocks, n
  <2>2. \A k \in 1..n : NodeOf(item, k) # i
    BY <1>10, <2>1
  <2>. QED
    BY <1>11, <2>2
<1>. QED
  BY <1>3, <1>12, <1>13, <1>14, <1>17, <1>18, <1>19, <1>20, <1>21, <1>22 DEF Enters, n

\* A path leads to a record.
LEMMA ArticleTyped ==
  ASSUME TypeOK, NEW p \in AllPaths
  PROVE  /\ Article(p) \in Records
         /\ Article(p).ty # "none" => byName[p] \in Idx
  BY DEF TypeOK, Article, RecordAt, Records, NoRec, AllPaths

\* Changing the items of one record leaves a list of records.
LEMMA ItemsChange ==
  ASSUME list \in [Idx -> Records], NEW i \in Idx, NEW S \in SUBSET Idx
  PROVE  [list EXCEPT ![i].items = S] \in [Idx -> Records]
<1>1. [list[i] EXCEPT !.items = S] \in Records
  BY DEF Records
<1>. QED
  BY <1>1

\* A path that is missing and still wanted has room.
LEMMA RoomForOne ==
  ASSUME TypeOK, NEW S \in SUBSET AllPaths, NEW r \in S, byName[r] = NoIdx, NEW n \in Nat,
         RoomFor(n + Cardinality(Missing(S)))
  PROVE  next + 1 \in Idx
<1>1. r \in Missing(S) /\ IsFiniteSet(Missing(S)) /\ Cardinality(Missing(S)) \in Nat
  BY MissingCounts DEF Missing
<1>2. Cardinality(Missing(S)) # 0
  BY <1>1, FS_EmptySet
<1>. QED
  BY <1>1, <1>2, BoundAssumption DEF RoomFor, TypeOK, Idx

\* A link to nothing has room for the dead article it leaves.
LEMMA RoomForRef ==
  ASSUME TypeOK, ControlInv, RoomInv, pc = "refs", NEW r \in adds, byName[r] = NoIdx
  PROVE  next + 1 \in Idx
<1>1. newPath \in Paths /\ adds \in SUBSET AllPaths /\ op \in {"new", "edit"}
  BY DEF TypeOK, ControlInv, AllPaths
<1>2. CASE op = "edit"
  <2>1. Prefixes(newPath) \cup adds \in SUBSET AllPaths
    BY <1>1, PathsAssumption
  <2>2. RoomFor(1 + Cardinality(Missing(Prefixes(newPath) \cup adds)))
    BY <1>2 DEF RoomInv
  <2>. QED
    BY <2>1, <2>2, RoomForOne
<1>3. CASE op = "new"
  <2>1. Cardinality(Missing(adds)) \in Nat
    BY <1>1, MissingCounts
  <2>2. RoomFor(0 + Cardinality(Missing(adds)))
    BY <1>3, <2>1 DEF RoomInv
  <2>. QED
    BY <1>1, <2>2, RoomForOne
<1>. QED
  BY <1>1, <1>2, <1>3

\* Every step keeps the types; what is entered has an index that there was room for.
LEMMA TypeStep == IInv /\ [Next]_vars => TypeOK'
<1>. SUFFICES ASSUME IInv, [Next]_vars PROVE TypeOK'
  OBVIOUS
<1>0. TypeOK /\ ControlInv /\ NextInv /\ GroupsInv /\ RoomInv /\ ArtInv /\ HoldsInv
  BY DEF IInv
<1>. USE DEF TypeOK, ControlInv, Goto, EndRequest, Records, NoRec, NoFile, Image, Text, Types,
         Labels, AllPaths,
       NoIdx, store, locks, request, job, Entering, Renaming
<1>1. ASSUME NEW p \in Paths, NEW L \in Texts, New(p, L) PROVE TypeOK'
  BY <1>0, <1>1 DEF New, Request, Texts
<1>2. ASSUME NEW p \in Paths, Upload(p) PROVE TypeOK'
  BY <1>0, <1>2 DEF Upload, Request
<1>3. ASSUME NEW p \in Paths, NEW q \in Paths, NEW L \in Texts, Edit(p, q, L) PROVE TypeOK'
  BY <1>0, <1>3 DEF Edit, Request, Texts
<1>4. ASSUME NEW p \in Paths, Delete(p) PROVE TypeOK'
  BY <1>0, <1>4 DEF Delete, Request
<1>5. CASE LockNew
  <2>1. Article(path) \in Records
    BY <1>0, <1>5, ArticleTyped DEF LockNew
  <2>. QED
    BY <1>0, <1>5, <2>1 DEF LockNew
<1>6. CASE LockEdit
  BY <1>0, <1>6 DEF LockEdit
<1>7. CASE LockDelete
  <2>1. Article(path) \in Records /\ byName[path] \in Idx \cup {NoIdx}
    BY <1>0, <1>7, ArticleTyped DEF LockDelete
  <2>2. CASE Article(path).ty \in {"text", "img"}
    <3>1. list' \in [Idx -> Records]
      BY <1>0, <1>7, <2>1, <2>2 DEF LockDelete
    <3>2. was' \in Types /\ art' \in Idx \cup {NoIdx} /\ rer' \subseteq Idx
      BY <1>7, <2>1, <2>2 DEF LockDelete
    <3>. QED
      BY <1>0, <1>7, <2>2, <3>1, <3>2 DEF LockDelete
  <2>3. CASE Article(path).ty \notin {"text", "img"}
    BY <1>0, <1>7, <2>3, EmptySeq DEF LockDelete
  <2>. QED
    BY <2>2, <2>3
<1>8. CASE LockNewPath
  BY <1>0, <1>8 DEF LockNewPath
<1>9. CASE LockGroup
  <2>1. NextGroup \in AllPaths
    <3>1. gpath \in Paths /\ Len(groups) \in Nat /\ Len(groups) < NumGroups(gpath)
      BY <1>0, <1>9 DEF LockGroup, MoreGroups, GroupsInv
    <3>. QED
      BY <3>1, GroupPaths DEF NextGroup
  <2>2. byName[NextGroup] \in Idx \cup {NoIdx}
    BY <1>0, <2>1
  <2>3. groups' \in Seq(Idx \cup {NoIdx})
    BY <1>0, <1>9, <2>2, AppendProperties DEF LockGroup
  <2>. QED
    BY <1>0, <1>9, <2>1, <2>3 DEF LockGroup
<1>10. CASE GroupsBlocked
  <2>1. <<>> \in Seq(Idx \cup {NoIdx})
    BY EmptySeq
  <2>2. pc' \in {"idle", "dead", "remove"} /\ held' \subseteq held /\ groups' \in {groups, <<>>}
    BY <1>10 DEF GroupsBlocked
  <2>3. \/ UNCHANGED <<op, path, newPath, links, was, art, gpath, rer, adds, dels>>
        \/ EndRequest
    BY <1>10 DEF GroupsBlocked
  <2>4. UNCHANGED <<list, byName, next, file, leaked>>
    BY <1>10 DEF GroupsBlocked
  <2>. QED
    BY <1>0, <2>1, <2>2, <2>3, <2>4
<1>11. CASE GroupsLocked
  BY <1>0, <1>11 DEF GroupsLocked
<1>12. CASE Insert
  <2>1. Enters
    BY <1>12, EntersStep
  <2>2. list' \in [Idx -> Records] /\ byName' \in [AllPaths -> Idx \cup {NoIdx}]
        /\ next' \in 0..MaxIdx /\ next + 1 \in Idx
    BY <1>0, <2>1, BoundAssumption DEF Enters, Idx
  <2>. QED
    BY <1>0, <1>12, <2>2 DEF Insert
<1>13. ASSUME NEW i \in Idx, Rerender(i) PROVE TypeOK'
  <2>1. Rewritten(file[list[i].path]) \in {file[list[i].path]} \cup {Text((file[list[i].path].links \ {path}) \cup {newPath})}
    BY DEF Rewritten
  <2>2. newPath \in Paths
    BY <1>0, <1>13 DEF Rerender
  <2>3. file' \in [Paths -> [kind : {"none", "img", "text"}, links : SUBSET Paths]]
    BY <1>0, <1>13, <2>1, <2>2 DEF Rerender
  <2>. QED
    BY <1>0, <1>13, <2>3 DEF Rerender
<1>14. ASSUME NEW i \in Idx, RerenderGone(i) PROVE TypeOK'
  BY <1>0, <1>14 DEF RerenderGone
<1>15. CASE Rerendered
  <2>1. <<>> \in Seq(Idx \cup {NoIdx})
    BY EmptySeq
  <2>2. pc' \in Labels /\ gpath' \in {gpath, path} /\ groups' \in {groups, <<>>}
    BY <1>15 DEF Rerendered
  <2>. QED
    BY <1>0, <1>15, <2>1, <2>2 DEF Rerendered
<1>16. ASSUME NEW r \in Paths, SkipRef(r) PROVE TypeOK'
  BY <1>0, <1>16 DEF SkipRef
<1>17. ASSUME NEW r \in Paths, AddRef(r) PROVE TypeOK'
  <2>1. byName[r] = NoIdx => next + 1 \in Idx
    BY <1>0, <1>17, RoomForRef DEF AddRef
  <2>2. byName[r] # NoIdx => byName[r] \in Idx
    BY <1>0
  <2>3. art \in Idx
    BY <1>0, <1>17 DEF AddRef, ArtInv, BeforeMove
  <2>4. next' \in 0..MaxIdx /\ byName' \in [AllPaths -> Idx \cup {NoIdx}]
    BY <1>0, <1>17, <2>1, BoundAssumption DEF AddRef, Idx
  <2>5. list' \in [Idx -> Records]
    <3>1. CASE byName[r] = NoIdx
      BY <1>0, <1>17, <2>1, <2>3, <3>1 DEF AddRef
    <3>2. CASE byName[r] # NoIdx
      <4>1. list' \in {list, [list EXCEPT ![byName[r]].items = @ \cup {art}]}
        BY <1>17, <3>2 DEF AddRef
      <4>2. list[byName[r]].items \cup {art} \in SUBSET Idx
        BY <1>0, <2>2, <2>3, <3>2
      <4>3. [list EXCEPT ![byName[r]].items = @ \cup {art}] =
              [list EXCEPT ![byName[r]].items = list[byName[r]].items \cup {art}]
        OBVIOUS
      <4>4. list \in [Idx -> Records] /\ byName[r] \in Idx
        BY <1>0, <2>2, <3>2
      <4>. HIDE DEF Records, TypeOK
      <4>5. [list EXCEPT ![byName[r]].items = list[byName[r]].items \cup {art}] \in [Idx -> Records]
        BY <4>2, <4>4, ItemsChange
      <4>. QED
        BY <4>1, <4>3, <4>4, <4>5
    <3>. QED
      BY <3>1, <3>2
  <2>. QED
    BY <1>0, <1>17, <2>4, <2>5 DEF AddRef
<1>18. ASSUME NEW r \in Paths, RemoveRef(r) PROVE TypeOK'
  <2>1. byName[r] \in Idx \cup {NoIdx}
    BY <1>0
  <2>2. list' \in [Idx -> Records]
    <3>1. list' = list \/ (byName[r] # NoIdx /\ list' = [list EXCEPT ![byName[r]].items = @ \ {art}])
      BY <1>18 DEF RemoveRef, Article, RecordAt
    <3>2. byName[r] # NoIdx => list[byName[r]].items \ {art} \in SUBSET Idx
      BY <1>0, <2>1
    <3>3. [list EXCEPT ![byName[r]].items = @ \ {art}] =
              [list EXCEPT ![byName[r]].items = list[byName[r]].items \ {art}]
      OBVIOUS
    <3>4. list \in [Idx -> Records] /\ (byName[r] # NoIdx => byName[r] \in Idx)
      BY <1>0, <2>1
    <3>. HIDE DEF Records, TypeOK
    <3>5. byName[r] # NoIdx =>
            [list EXCEPT ![byName[r]].items = list[byName[r]].items \ {art}] \in [Idx -> Records]
      BY <3>2, <3>4, ItemsChange
    <3>. QED
      BY <3>1, <3>3, <3>4, <3>5
  <2>. QED
    BY <1>0, <1>18, <2>2 DEF RemoveRef
<1>19. CASE RefsDone
  BY <1>0, <1>19 DEF RefsDone
<1>20. CASE WriteNew
  <2>1. file' \in [Paths -> [kind : {"none", "img", "text"}, links : SUBSET Paths]]
    BY <1>0, <1>20 DEF WriteNew
  <2>. QED
    BY <1>0, <1>20, <2>1 DEF WriteNew
<1>21. CASE RenderFails
  <2>0. <<>> \in Seq(Idx \cup {NoIdx})
    BY EmptySeq
  <2>1. GroupLocks \subseteq AllPaths
    BY <1>0, <1>21 DEF RenderFails, GroupsFound, HoldsInv
  <2>2. \/ UNCHANGED <<op, path, newPath, links, was, art, gpath, groups, rer, adds, dels>> /\ pc' = "dead"
        \/ EndRequest
    BY <1>21 DEF RenderFails
  <2>3. UNCHANGED <<list, byName, next, file>> /\ held' \subseteq AllPaths /\ leaked' \subseteq AllPaths
    BY <1>0, <1>21, <2>1 DEF RenderFails
  <2>. QED
    BY <1>0, <2>0, <2>2, <2>3
<1>22. CASE RenderEdit
  BY <1>0, <1>22 DEF RenderEdit
<1>23. CASE WriteEdit
  BY <1>0, <1>23 DEF WriteEdit
<1>24. CASE WriteDelete
  BY <1>0, <1>24 DEF WriteDelete
<1>25. CASE PutInPlace
  BY <1>0, <1>25 DEF PutInPlace
<1>26. CASE PutRenamed
  <2>1. Enters
    BY <1>26, EntersStep
  <2>2. list' \in [Idx -> Records] /\ byName' \in [AllPaths -> Idx \cup {NoIdx}]
        /\ next' \in 0..MaxIdx /\ next + 1 \in Idx
    BY <1>0, <2>1, BoundAssumption DEF Enters, Idx
  <2>3. file' \in [Paths -> [kind : {"none", "img", "text"}, links : SUBSET Paths]]
    BY <1>0, <1>26 DEF PutRenamed
  <2>4. rer' \subseteq Idx /\ gpath' \in AllPaths /\ groups' \in Seq(Idx \cup {NoIdx}) /\ held' \subseteq AllPaths
    <3>1. art \in Idx
      BY <1>0, <1>26 DEF PutRenamed, ArtInv, BeforeMove
    <3>. QED
      BY <1>0, <1>26, <3>1, EmptySeq DEF PutRenamed
  <2>5. pc' = "lock_groups" /\ UNCHANGED <<leaked, op, path, newPath, links, was, art, adds, dels>>
    BY <1>26 DEF PutRenamed
  <2>. QED
    BY <1>0, <2>2, <2>3, <2>4, <2>5
<1>27. CASE Remove
  <2>. DEFINE losing == {k \in 1..Len(groups) : Loses(k)}
              less == [i \in Idx |->
                        IF \E k \in losing : groups[k] = i
                          THEN [list[i] EXCEPT !.items = @ \
                                  {NodeOf(art, k - 1) : k \in {k \in losing : groups[k] = i}}]
                          ELSE list[i]]
  <2>1. list' = list \/ list' = less
    BY <1>27 DEF Remove
  <2>2. less \in [Idx -> Records]
    <3>. HIDE DEF losing
    <3>1. ASSUME NEW i \in Idx, NEW S PROVE [list[i] EXCEPT !.items = @ \ S] \in Records
      BY <1>0
    <3>. QED
      BY <1>0, <3>1
  <2>3. held' \subseteq AllPaths /\ pc' \in Labels
    BY <1>0, <1>27 DEF Remove
  <2>4. UNCHANGED <<byName, next, file, leaked, op, path, newPath, links, was, art, gpath, groups, rer, adds, dels>>
    BY <1>27 DEF Remove
  <2>. HIDE DEF less
  <2>. QED
    BY <1>0, <2>1, <2>2, <2>3, <2>4
<1>28. CASE Finish
  BY <1>0, <1>28 DEF Finish
<1>29. CASE UNCHANGED vars
  BY <1>0, <1>29 DEF vars
<1>. HIDE DEF TypeOK
<1>. QED
  BY <1>1, <1>2, <1>3, <1>4, <1>5, <1>6, <1>7, <1>8, <1>9, <1>10, <1>11, <1>12, <1>13,
     <1>14, <1>15, <1>16, <1>17, <1>18, <1>19, <1>20, <1>21, <1>22, <1>23, <1>24, <1>25,
     <1>26, <1>27, <1>28, <1>29 DEF Next, Handle

\* The next group is added to the ones that are found and locked.
LEMMA OneMoreGroup ==
  ASSUME TypeOK, ControlInv, GroupsInv, pc = "lock_groups", MoreGroups
  PROVE  /\ gpath \in Paths
         /\ NextGroup = GroupPath(gpath, Len(groups) + 1) /\ NextGroup \in AllPaths
         /\ Len(groups) + 1 \in 1..NumGroups(gpath)
         /\ LockGroup =>
              /\ Len(groups') = Len(groups) + 1
              /\ \A k \in 1..Len(groups) : groups'[k] = groups[k]
              /\ groups'[Len(groups) + 1] = byName[NextGroup]
              /\ GroupLocks' = GroupLocks \cup {NextGroup}
<1>1. gpath \in Paths /\ Len(groups) \in Nat /\ Len(groups) < NumGroups(gpath)
  BY LenProperties DEF MoreGroups, ControlInv, GroupsInv, TypeOK
<1>2. Len(groups) + 1 \in 1..NumGroups(gpath)
  BY <1>1, GroupPaths
<1>3. NextGroup = GroupPath(gpath, Len(groups) + 1) /\ NextGroup \in AllPaths
  BY <1>1, <1>2, GroupPaths DEF NextGroup
<1>4. ASSUME LockGroup
      PROVE  /\ Len(groups') = Len(groups) + 1
             /\ \A k \in 1..Len(groups) : groups'[k] = groups[k]
             /\ groups'[Len(groups) + 1] = byName[NextGroup]
             /\ GroupLocks' = GroupLocks \cup {NextGroup}
  <2>1. groups' = Append(groups, byName[NextGroup]) /\ gpath' = gpath
    BY <1>4 DEF LockGroup
  <2>2. groups \in Seq(Idx \cup {NoIdx}) /\ byName[NextGroup] \in Idx \cup {NoIdx}
    BY <1>3 DEF TypeOK
  <2>3. /\ Len(groups') = Len(groups) + 1
        /\ \A k \in 1..Len(groups) : groups'[k] = groups[k]
        /\ groups'[Len(groups) + 1] = byName[NextGroup]
    BY <2>1, <2>2, AppendProperties
  <2>4. GroupLocks' = {GroupPath(gpath, k) : k \in 1..Len(groups) + 1}
    BY <2>1, <2>3 DEF GroupLocks, GroupPath
  <2>5. 1..Len(groups) + 1 = (1..Len(groups)) \cup {Len(groups) + 1}
    BY <1>1
  <2>6. GroupLocks' = GroupLocks \cup {NextGroup}
    BY <1>3, <2>4, <2>5 DEF GroupLocks
  <2>. QED
    BY <2>3, <2>6
<1>. QED
  BY <1>1, <1>2, <1>3, <1>4

\* Nothing is in the way of the groups of an article that is moved or deleted.
LEMMA RemovalNotBlocked ==
  ASSUME TypeOK, ControlInv, GroupsInv, RemovalInv, GroupsBlocked
  PROVE  /\ op # "delete" /\ gpath = newPath
         /\ \/ held' = (held \ Prefixes(gpath)) \ {path, newPath} /\ EndRequest
            \/ pc' = "dead" /\ UNCHANGED <<request, job>>
         /\ UNCHANGED <<store, leaked>>
<1>1. pc = "lock_groups" /\ MoreGroups /\ Article(NextGroup).ty \notin {"group", "none"}
  BY DEF GroupsBlocked
<1>2. gpath \in {path, newPath}
  BY <1>1 DEF GroupsInv
<1>3. op = "delete" \/ gpath # newPath => Removing /\ gpath = path
  BY <1>1, <1>2 DEF ControlInv, Removing, BeforeMove
<1>4. Removing /\ gpath = path => Article(NextGroup).ty = "group"
  BY <1>1, OneMoreGroup DEF RemovalInv, IsGroup
<1>5. op # "delete" /\ gpath = newPath
  BY <1>1, <1>3, <1>4
<1>6. \/ held' = (held \ Prefixes(gpath)) \ {path, newPath} /\ EndRequest
      \/ pc' = "dead" /\ UNCHANGED <<request, job>>
  BY <1>5 DEF GroupsBlocked, Goto
<1>. QED
  BY <1>5, <1>6 DEF GroupsBlocked

\* What the labels say of the request.
LEMMA ControlStep == IInv /\ [Next]_vars => ControlInv'
<1>. SUFFICES ASSUME IInv, [Next]_vars PROVE ControlInv'
  OBVIOUS
<1>0. TypeOK /\ ControlInv /\ GroupsInv /\ RemovalInv
  BY DEF IInv
<1>. USE DEF ControlInv, TypeOK, Goto, EndRequest, store, locks, request, job, Entering, Renaming
<1>1. ASSUME NEW p \in Paths, NEW L \in Texts, New(p, L) PROVE ControlInv'
  BY <1>0, <1>1 DEF New, Request
<1>2. ASSUME NEW p \in Paths, Upload(p) PROVE ControlInv'
  BY <1>0, <1>2 DEF Upload, Request
<1>3. ASSUME NEW p \in Paths, NEW q \in Paths, NEW L \in Texts, Edit(p, q, L) PROVE ControlInv'
  BY <1>0, <1>3 DEF Edit, Request
<1>4. ASSUME NEW p \in Paths, Delete(p) PROVE ControlInv'
  BY <1>0, <1>4 DEF Delete, Request
<1>5. CASE LockNew
  BY <1>0, <1>5 DEF LockNew
<1>6. CASE LockEdit
  BY <1>0, <1>6 DEF LockEdit
<1>7. CASE LockDelete
  BY <1>0, <1>7 DEF LockDelete
<1>8. CASE LockNewPath
  BY <1>0, <1>8 DEF LockNewPath
<1>9. CASE LockGroup
  BY <1>0, <1>9 DEF LockGroup
<1>10. CASE GroupsBlocked
  <2>1. \/ EndRequest \/ (pc' = "dead" /\ UNCHANGED <<request, job>>)
    BY <1>0, <1>10, RemovalNotBlocked
  <2>. QED
    BY <1>0, <1>10, <2>1 DEF GroupsBlocked
<1>11. CASE GroupsLocked
  BY <1>0, <1>11 DEF GroupsLocked
<1>12. CASE Insert
  BY <1>0, <1>12 DEF Insert
<1>13. ASSUME NEW i \in Idx, Rerender(i) PROVE ControlInv'
  BY <1>0, <1>13 DEF Rerender
<1>14. ASSUME NEW i \in Idx, RerenderGone(i) PROVE ControlInv'
  BY <1>0, <1>14 DEF RerenderGone
<1>15. CASE Rerendered
  BY <1>0, <1>15 DEF Rerendered
<1>16. ASSUME NEW r \in Paths, SkipRef(r) PROVE ControlInv'
  BY <1>0, <1>16 DEF SkipRef
<1>17. ASSUME NEW r \in Paths, AddRef(r) PROVE ControlInv'
  BY <1>0, <1>17 DEF AddRef
<1>18. ASSUME NEW r \in Paths, RemoveRef(r) PROVE ControlInv'
  BY <1>0, <1>18 DEF RemoveRef
<1>19. CASE RefsDone
  BY <1>0, <1>19 DEF RefsDone
<1>20. CASE WriteNew
  BY <1>0, <1>20 DEF WriteNew
<1>21. CASE RenderFails
  BY <1>0, <1>21 DEF RenderFails
<1>22. CASE RenderEdit
  BY <1>0, <1>22 DEF RenderEdit
<1>23. CASE WriteEdit
  BY <1>0, <1>23 DEF WriteEdit
<1>24. CASE WriteDelete
  BY <1>0, <1>24 DEF WriteDelete
<1>25. CASE PutInPlace
  BY <1>0, <1>25 DEF PutInPlace
<1>26. CASE PutRenamed
  BY <1>0, <1>26 DEF PutRenamed
<1>27. CASE Remove
  BY <1>0, <1>27 DEF Remove
<1>28. CASE Finish
  BY <1>0, <1>28 DEF Finish
<1>29. CASE UNCHANGED vars
  BY <1>0, <1>29 DEF vars
<1>. HIDE DEF ControlInv
<1>. QED
  BY <1>1, <1>2, <1>3, <1>4, <1>5, <1>6, <1>7, <1>8, <1>9, <1>10, <1>11, <1>12, <1>13,
     <1>14, <1>15, <1>16, <1>17, <1>18, <1>19, <1>20, <1>21, <1>22, <1>23, <1>24, <1>25,
     <1>26, <1>27, <1>28, <1>29 DEF Next, Handle

\* What a handler needs locked is locked.
LEMMA HoldsStep == IInv /\ [Next]_vars => HoldsInv'
<1>. SUFFICES ASSUME IInv, [Next]_vars PROVE HoldsInv'
  OBVIOUS
<1>0. TypeOK /\ ControlInv /\ GroupsInv /\ HoldsInv /\ RemovalInv
  BY DEF IInv
<1>. USE DEF HoldsInv, ControlInv, GroupsInv, TypeOK, GroupsFound, GroupLocks, Goto, EndRequest,
         store, locks, request, job, Entering, Renaming
<1>1. ASSUME NEW p \in Paths, NEW L \in Texts, New(p, L) PROVE HoldsInv'
  BY <1>0, <1>1 DEF New, Request
<1>2. ASSUME NEW p \in Paths, Upload(p) PROVE HoldsInv'
  BY <1>0, <1>2 DEF Upload, Request
<1>3. ASSUME NEW p \in Paths, NEW q \in Paths, NEW L \in Texts, Edit(p, q, L) PROVE HoldsInv'
  BY <1>0, <1>3 DEF Edit, Request
<1>4. ASSUME NEW p \in Paths, Delete(p) PROVE HoldsInv'
  BY <1>0, <1>4 DEF Delete, Request
<1>5. CASE LockNew
  BY <1>0, <1>5 DEF LockNew
<1>6. CASE LockEdit
  BY <1>0, <1>6 DEF LockEdit
<1>7. CASE LockDelete
  BY <1>0, <1>7 DEF LockDelete
<1>8. CASE LockNewPath
  BY <1>0, <1>8 DEF LockNewPath
<1>9. CASE LockGroup
  <2>1. GroupLocks' = GroupLocks \cup {NextGroup}
    BY <1>0, <1>9, OneMoreGroup DEF LockGroup
  <2>. HIDE DEF GroupLocks
  <2>. QED
    BY <1>0, <1>9, <2>1 DEF LockGroup
<1>10. CASE GroupsBlocked
  <2>1. \/ EndRequest \/ (pc' = "dead" /\ UNCHANGED <<request, job>>)
    BY <1>0, <1>10, RemovalNotBlocked
  <2>. QED
    BY <1>0, <1>10, <2>1 DEF GroupsBlocked
<1>11. CASE GroupsLocked
  BY <1>0, <1>11 DEF GroupsLocked
<1>12. CASE Insert
  BY <1>0, <1>12 DEF Insert
<1>13. ASSUME NEW i \in Idx, Rerender(i) PROVE HoldsInv'
  BY <1>0, <1>13 DEF Rerender
<1>14. ASSUME NEW i \in Idx, RerenderGone(i) PROVE HoldsInv'
  BY <1>0, <1>14 DEF RerenderGone
<1>15. CASE Rerendered
  BY <1>0, <1>15 DEF Rerendered
<1>16. ASSUME NEW r \in Paths, SkipRef(r) PROVE HoldsInv'
  BY <1>0, <1>16 DEF SkipRef
<1>17. ASSUME NEW r \in Paths, AddRef(r) PROVE HoldsInv'
  BY <1>0, <1>17 DEF AddRef
<1>18. ASSUME NEW r \in Paths, RemoveRef(r) PROVE HoldsInv'
  BY <1>0, <1>18 DEF RemoveRef
<1>19. CASE RefsDone
  BY <1>0, <1>19 DEF RefsDone
<1>20. CASE WriteNew
  BY <1>0, <1>20 DEF WriteNew
<1>21. CASE RenderFails
  BY <1>0, <1>21 DEF RenderFails
<1>22. CASE RenderEdit
  BY <1>0, <1>22 DEF RenderEdit
<1>23. CASE WriteEdit
  BY <1>0, <1>23 DEF WriteEdit
<1>24. CASE WriteDelete
  BY <1>0, <1>24 DEF WriteDelete
<1>25. CASE PutInPlace
  BY <1>0, <1>25 DEF PutInPlace
<1>26. CASE PutRenamed
  BY <1>0, <1>26 DEF PutRenamed
<1>27. CASE Remove
  <2>. HIDE DEF GroupLocks
  <2>. QED
    BY <1>0, <1>27 DEF Remove
<1>28. CASE Finish
  BY <1>0, <1>28 DEF Finish
<1>29. CASE UNCHANGED vars
  BY <1>0, <1>29 DEF vars
<1>. HIDE DEF HoldsInv
<1>. QED
  BY <1>1, <1>2, <1>3, <1>4, <1>5, <1>6, <1>7, <1>8, <1>9, <1>10, <1>11, <1>12, <1>13,
     <1>14, <1>15, <1>16, <1>17, <1>18, <1>19, <1>20, <1>21, <1>22, <1>23, <1>24, <1>25,
     <1>26, <1>27, <1>28, <1>29 DEF Next, Handle

\* What a handler has locked it gives back.
LEMMA ReleaseStep == IInv /\ [Next]_vars => ReleaseInv'
<1>. SUFFICES ASSUME IInv, [Next]_vars PROVE ReleaseInv'
  OBVIOUS
<1>0. TypeOK /\ ControlInv /\ GroupsInv /\ ReleaseInv /\ RemovalInv
  BY DEF IInv
<1>. USE DEF ReleaseInv, ControlInv, GroupsInv, TypeOK, GroupsFound, GroupLocks, Goto, EndRequest,
         store, locks, request, job, Entering, Renaming
<1>1. ASSUME NEW p \in Paths, NEW L \in Texts, New(p, L) PROVE ReleaseInv'
  BY <1>0, <1>1 DEF New, Request
<1>2. ASSUME NEW p \in Paths, Upload(p) PROVE ReleaseInv'
  BY <1>0, <1>2 DEF Upload, Request
<1>3. ASSUME NEW p \in Paths, NEW q \in Paths, NEW L \in Texts, Edit(p, q, L) PROVE ReleaseInv'
  BY <1>0, <1>3 DEF Edit, Request
<1>4. ASSUME NEW p \in Paths, Delete(p) PROVE ReleaseInv'
  BY <1>0, <1>4 DEF Delete, Request
<1>5. CASE LockNew
  BY <1>0, <1>5 DEF LockNew
<1>6. CASE LockEdit
  BY <1>0, <1>6 DEF LockEdit
<1>7. CASE LockDelete
  BY <1>0, <1>7 DEF LockDelete
<1>8. CASE LockNewPath
  BY <1>0, <1>8 DEF LockNewPath
<1>9. CASE LockGroup
  <2>1. GroupLocks' = GroupLocks \cup {NextGroup}
    BY <1>0, <1>9, OneMoreGroup DEF LockGroup
  <2>. HIDE DEF GroupLocks
  <2>. QED
    BY <1>0, <1>9, <2>1 DEF LockGroup
<1>10. CASE GroupsBlocked
  <2>1. GroupLocks \subseteq Prefixes(gpath)
    <3>1. pc = "lock_groups" /\ gpath \in Paths /\ Len(groups) <= NumGroups(gpath)
      BY <1>0, <1>10 DEF GroupsBlocked
    <3>. QED
      BY <1>0, <3>1, GroupPaths, LenProperties
  <2>2. \/ held' = (held \ Prefixes(gpath)) \ {path, newPath} /\ EndRequest
        \/ pc' = "dead"
    BY <1>0, <1>10, RemovalNotBlocked
  <2>3. pc = "lock_groups" /\ leaked' = leaked
    BY <1>10 DEF GroupsBlocked
  <2>. HIDE DEF GroupLocks
  <2>. QED
    BY <1>0, <2>1, <2>2, <2>3
<1>11. CASE GroupsLocked
  BY <1>0, <1>11 DEF GroupsLocked
<1>12. CASE Insert
  BY <1>0, <1>12 DEF Insert
<1>13. ASSUME NEW i \in Idx, Rerender(i) PROVE ReleaseInv'
  BY <1>0, <1>13 DEF Rerender
<1>14. ASSUME NEW i \in Idx, RerenderGone(i) PROVE ReleaseInv'
  BY <1>0, <1>14 DEF RerenderGone
<1>15. CASE Rerendered
  BY <1>0, <1>15 DEF Rerendered
<1>16. ASSUME NEW r \in Paths, SkipRef(r) PROVE ReleaseInv'
  BY <1>0, <1>16 DEF SkipRef
<1>17. ASSUME NEW r \in Paths, AddRef(r) PROVE ReleaseInv'
  BY <1>0, <1>17 DEF AddRef
<1>18. ASSUME NEW r \in Paths, RemoveRef(r) PROVE ReleaseInv'
  BY <1>0, <1>18 DEF RemoveRef
<1>19. CASE RefsDone
  BY <1>0, <1>19 DEF RefsDone
<1>20. CASE WriteNew
  BY <1>0, <1>20 DEF WriteNew
<1>21. CASE RenderFails
  BY <1>0, <1>21 DEF RenderFails
<1>22. CASE RenderEdit
  BY <1>0, <1>22 DEF RenderEdit
<1>23. CASE WriteEdit
  BY <1>0, <1>23 DEF WriteEdit
<1>24. CASE WriteDelete
  BY <1>0, <1>24 DEF WriteDelete
<1>25. CASE PutInPlace
  BY <1>0, <1>25 DEF PutInPlace
<1>26. CASE PutRenamed
  BY <1>0, <1>26 DEF PutRenamed
<1>27. CASE Remove
  BY <1>0, <1>27 DEF Remove
<1>28. CASE Finish
  BY <1>0, <1>28 DEF Finish
<1>29. CASE UNCHANGED vars
  BY <1>0, <1>29 DEF vars
<1>. HIDE DEF ReleaseInv
<1>. QED
  BY <1>1, <1>2, <1>3, <1>4, <1>5, <1>6, <1>7, <1>8, <1>9, <1>10, <1>11, <1>12, <1>13,
     <1>14, <1>15, <1>16, <1>17, <1>18, <1>19, <1>20, <1>21, <1>22, <1>23, <1>24, <1>25,
     <1>26, <1>27, <1>28, <1>29 DEF Next, Handle

\* The steps that change the list and the index by path: those that enter an article,
\* those that end one, and those that leave a dead one where a link leads.  Other steps
\* change no more than the items of records.
SameKinds ==
  /\ byName' = byName /\ next' = next
  /\ \A i \in Idx : list'[i].ty = list[i].ty /\ list'[i].path = list[i].path
  /\ \A i \in Idx : i > next => list'[i] = list[i]
Dies ==
  /\ op = "delete" /\ pc = "lock" /\ path \in Paths
  /\ Article(path).ty \in {"text", "img"}
  /\ list' = [list EXCEPT ![byName[path]].ty = "dead"]
  /\ UNCHANGED <<byName, next>>
LeavesDead(r) ==
  /\ pc = "refs" /\ byName[r] = NoIdx /\ r \notin held
  /\ next + 1 \in Idx /\ next' = next + 1
  /\ list' = [list EXCEPT ![next + 1] = [ty |-> "dead", path |-> r, items |-> {art}]]
  /\ byName' = [byName EXCEPT ![r] = next + 1]
StoreChange ==
  SameKinds \/ Dies \/ (\E r \in Paths : LeavesDead(r)) \/ Insert \/ PutRenamed

\* Indices are numbers.
LEMMA NextIsNat == TypeOK => next \in Nat /\ MaxIdx \in Nat /\ Idx \subseteq Nat
  BY BoundAssumption DEF TypeOK, Idx

\* Every step changes the store in one of these ways.
LEMMA StoreSteps == IInv /\ [Next]_vars => StoreChange
<1>. SUFFICES ASSUME IInv, [Next]_vars PROVE StoreChange
  OBVIOUS
<1>0. TypeOK /\ ControlInv /\ NextInv /\ GroupsInv /\ RoomInv
  BY DEF IInv
<1>. USE DEF StoreChange, SameKinds, Dies, LeavesDead, TypeOK, AllPaths, ControlInv, store, NoIdx
<1>1. ASSUME NEW p \in Paths, NEW L \in Texts, New(p, L) PROVE StoreChange
  BY <1>0, <1>1 DEF New, Request
<1>2. ASSUME NEW p \in Paths, Upload(p) PROVE StoreChange
  BY <1>0, <1>2 DEF Upload, Request
<1>3. ASSUME NEW p \in Paths, NEW q \in Paths, NEW L \in Texts, Edit(p, q, L) PROVE StoreChange
  BY <1>0, <1>3 DEF Edit, Request
<1>4. ASSUME NEW p \in Paths, Delete(p) PROVE StoreChange
  BY <1>0, <1>4 DEF Delete, Request
<1>5. CASE LockNew
  BY <1>0, <1>5 DEF LockNew
<1>6. CASE LockEdit
  BY <1>0, <1>6 DEF LockEdit
<1>7. CASE LockDelete
  <2>1. CASE Article(path).ty \in {"text", "img"}
    BY <1>0, <1>7, <2>1 DEF LockDelete
  <2>2. CASE Article(path).ty \notin {"text", "img"}
    BY <1>0, <1>7, <2>2 DEF LockDelete
  <2>. QED
    BY <2>1, <2>2
<1>8. CASE LockNewPath
  BY <1>0, <1>8 DEF LockNewPath
<1>9. CASE LockGroup
  BY <1>0, <1>9 DEF LockGroup
<1>10. CASE GroupsBlocked
  BY <1>0, <1>10 DEF GroupsBlocked
<1>11. CASE GroupsLocked
  BY <1>0, <1>11 DEF GroupsLocked
<1>12. CASE Insert
  BY <1>12
<1>13. ASSUME NEW i \in Idx, Rerender(i) PROVE StoreChange
  BY <1>0, <1>13 DEF Rerender
<1>14. ASSUME NEW i \in Idx, RerenderGone(i) PROVE StoreChange
  BY <1>0, <1>14 DEF RerenderGone
<1>15. CASE Rerendered
  BY <1>0, <1>15 DEF Rerendered
<1>16. ASSUME NEW r \in Paths, SkipRef(r) PROVE StoreChange
  BY <1>0, <1>16 DEF SkipRef
<1>17. ASSUME NEW r \in Paths, AddRef(r) PROVE StoreChange
  <2>1. CASE byName[r] = NoIdx
    <3>1. next + 1 \in Idx
      BY <1>0, <1>17, <2>1, RoomForRef DEF AddRef
    <3>. QED
      BY <1>0, <1>17, <2>1, <3>1 DEF AddRef
  <2>2. CASE byName[r] # NoIdx
    <3>1. byName[r] \in Idx /\ byName[r] <= next
      BY <1>0, <2>2 DEF NextInv
    <3>2. next' = next /\ byName' = byName /\ list' \in {list, [list EXCEPT ![byName[r]].items = @ \cup {art}]}
      BY <1>17, <2>2 DEF AddRef
    <3>. QED
      <4>1. \A i \in Idx : /\ list'[i].ty = list[i].ty /\ list'[i].path = list[i].path
                           /\ i # byName[r] => list'[i] = list[i]
        BY <1>0, <3>1, <3>2
      <4>2. SameKinds
        BY <1>0, <3>1, <3>2, <4>1, NextIsNat
      <4>. QED
        BY <4>2
  <2>. QED
    BY <2>1, <2>2
<1>18. ASSUME NEW r \in Paths, RemoveRef(r) PROVE StoreChange
  <2>1. byName[r] \in Idx \cup {NoIdx} /\ byName[r] <= next
    BY <1>0 DEF NextInv
  <2>2. next' = next /\ byName' = byName
        /\ list' \in {list, [list EXCEPT ![byName[r]].items = @ \ {art}]}
    BY <1>18 DEF RemoveRef
  <2>. QED
    BY <1>0, <2>1, <2>2, NextIsNat DEF Idx
<1>19. CASE RefsDone
  BY <1>0, <1>19 DEF RefsDone
<1>20. CASE WriteNew
  BY <1>0, <1>20 DEF WriteNew
<1>21. CASE RenderFails
  BY <1>0, <1>21 DEF RenderFails
<1>22. CASE RenderEdit
  BY <1>0, <1>22 DEF RenderEdit
<1>23. CASE WriteEdit
  BY <1>0, <1>23 DEF WriteEdit
<1>24. CASE WriteDelete
  BY <1>0, <1>24 DEF WriteDelete
<1>25. CASE PutInPlace
  BY <1>0, <1>25 DEF PutInPlace
<1>26. CASE PutRenamed
  BY <1>26
<1>27. CASE Remove
  <2>. DEFINE losing == {k \in 1..Len(groups) : Loses(k)}
  <2>1. next' = next /\ byName' = byName
        /\ \/ list' = list
           \/ list' = [i \in Idx |->
                        IF \E k \in losing : groups[k] = i
                          THEN [list[i] EXCEPT !.items = @ \
                                  {NodeOf(art, k - 1) : k \in {k \in losing : groups[k] = i}}]
                          ELSE list[i]]
    BY <1>27 DEF Remove
  <2>2. \A k \in losing : groups[k] <= next
    <3>1. gpath \in Paths /\ Len(groups) \in Nat /\ Len(groups) = NumGroups(gpath)
          /\ \A k \in 1..Len(groups) : groups[k] = byName[GroupPath(gpath, k)]
      BY <1>0, <1>27, LenProperties DEF Remove, GroupsInv, GroupsFound, ControlInv
    <3>. QED
      <4>1. \A k \in losing : k \in 1..Len(groups) /\ k \in 1..Len(gpath)
        BY <3>1, GroupPaths
      <4>2. \A k \in losing : groups[k] = byName[GroupPath(gpath, k)] /\ GroupPath(gpath, k) \in AllPaths
        BY <3>1, <4>1, GroupPaths
      <4>. HIDE DEF losing
      <4>. QED
        BY <1>0, <4>2 DEF NextInv
  <2>. HIDE DEF losing
  <2>. QED
    <3>1. \A i \in Idx : /\ list'[i].ty = list[i].ty /\ list'[i].path = list[i].path
                         /\ (\A k \in losing : groups[k] # i) => list'[i] = list[i]
      BY <1>0, <2>1
    <3>2. \A i \in Idx : i > next => \A k \in losing : groups[k] # i
      BY <1>0, <2>2, NextIsNat
    <3>3. next' = next /\ byName' = byName
      BY <2>1
    <3>4. \A i \in Idx : i > next => list'[i] = list[i]
      BY <3>1, <3>2
    <3>5. \A i \in Idx : list'[i].ty = list[i].ty /\ list'[i].path = list[i].path
      BY <3>1
    <3>6. SameKinds
      BY <3>3, <3>4, <3>5
    <3>. QED
      BY <3>6
<1>28. CASE Finish
  BY <1>0, <1>28 DEF Finish
<1>29. CASE UNCHANGED vars
  BY <1>0, <1>29 DEF vars
<1>. HIDE DEF StoreChange
<1>. QED
  BY <1>1, <1>2, <1>3, <1>4, <1>5, <1>6, <1>7, <1>8, <1>9, <1>10, <1>11, <1>12, <1>13,
     <1>14, <1>15, <1>16, <1>17, <1>18, <1>19, <1>20, <1>21, <1>22, <1>23, <1>24, <1>25,
     <1>26, <1>27, <1>28, <1>29 DEF Next, Handle

\* Where the group of a path is, it stays.
GroupsKept == \A p \in AllPaths : IsGroup(p) => IsGroup(p)'

\* Where no name and no type changes, names and list agree as before.
LEMMA KindsKept ==
  ASSUME TypeOK, SameKinds
  PROVE  /\ NamesMatch /\ NextInv => NamesMatch' /\ NextInv'
         /\ \A p \in AllPaths : Article(p)'.ty = Article(p).ty
  BY DEF SameKinds, TypeOK, NamesMatch, NextInv, Article, RecordAt

\* Entering an article leaves the groups above it groups, and touches no other path but
\* the one it comes from.
LEMMA EntersFrame ==
  ASSUME IInv, Insert \/ PutRenamed
  PROVE  /\ Enters /\ gpath = newPath /\ newPath \in Paths /\ path \in Paths
         /\ path \notin GroupLocks /\ newPath \notin GroupLocks /\ GroupLocks \subseteq AllPaths
         /\ Entry.ty \in {"text", "img"} /\ Entry.path = newPath
         /\ (art # NoIdx => art = byName[path] /\ art \in Idx /\ list[art].ty = "text")
         /\ (art = NoIdx => newPath = path /\ Article(path).ty \in {"none", "dead"})
         /\ (art # NoIdx => newPath # path /\ byName[newPath] = NoIdx)
         /\ Len(groups) = NumGroups(newPath)
         /\ \A g \in GroupLocks : Article(g).ty \in {"none", "group"}
         /\ \A p \in AllPaths \ (GroupLocks \cup {newPath, path}) : byName[p] # NoIdx =>
              byName'[p] = byName[p] /\ list'[byName[p]] = list[byName[p]]
         /\ \A p \in AllPaths : IsGroup(p)' <=> IsGroup(p) \/ p \in GroupLocks
         /\ \A p \in AllPaths : HasContent(p)' <=> p = newPath \/ (HasContent(p) /\ p # path)
<1>. DEFINE item == next + 1
<1>0. /\ TypeOK /\ NamesMatch /\ NextInv /\ AboveInv /\ GroupsInv /\ ControlInv
      /\ next \in Nat /\ MaxIdx \in Nat /\ Idx \subseteq Nat
      /\ \A p \in Paths : p \in AllPaths
  BY NextIsNat DEF IInv, AllPaths
<1>a. \A p \in AllPaths : byName[p] \in Idx \cup {NoIdx} /\ byName[p] \in Nat /\ byName[p] <= next
  <2>1. \A p \in AllPaths : byName[p] \in Idx \cup {NoIdx}
    BY <1>0 DEF TypeOK
  <2>2. Idx \cup {NoIdx} \subseteq Nat
    BY <1>0 DEF NoIdx
  <2>3. \A p \in AllPaths : byName[p] <= next
    BY <1>0 DEF NextInv
  <2>. QED
    BY <2>1, <2>2, <2>3
<1>1. Enters /\ gpath = newPath /\ newPath \in Paths /\ path \in Paths
      /\ path \notin GroupLocks /\ newPath \notin GroupLocks
      /\ Entry.ty \in {"text", "img"} /\ Entry.path = newPath
      /\ (art # NoIdx => art = byName[path] /\ art \in Idx /\ list[art].ty = "text")
      /\ (art = NoIdx => newPath = path /\ Article(path).ty \in {"none", "dead"})
      /\ (art # NoIdx => newPath # path /\ byName[newPath] = NoIdx)
      /\ Len(groups) = NumGroups(newPath)
  <2>1. pc = "insert" \/ (pc = "put" /\ newPath # path)
    BY DEF Insert, PutRenamed
  <2>2. /\ gpath = newPath /\ newPath \in Paths /\ path \in Paths
        /\ path \notin GroupLocks /\ newPath \notin GroupLocks
        /\ Entry.ty \in {"text", "img"} /\ Entry.path = newPath
    BY <1>0, <2>1, GetsReady DEF ControlInv
  <2>3. Enters
    BY EntersStep
  <2>4. Len(groups) = NumGroups(newPath)
    BY <1>0, <2>1, <2>2 DEF GroupsInv, ControlInv
  <2>5. pc = "insert" => art = NoIdx /\ newPath = path /\ Article(path).ty \in {"none", "dead"}
    BY <2>1, GetsReady DEF IInv, ControlInv, ArtInv, Entering
  <2>6. pc = "put" => /\ art # NoIdx /\ art = byName[path] /\ art \in Idx /\ list[art].ty = "text"
                      /\ byName[newPath] = NoIdx
    BY <2>1, GetsReady DEF IInv, ControlInv, ArtInv, Renaming, BeforeMove
  <2>. QED
    BY <2>1, <2>2, <2>3, <2>4, <2>5, <2>6
<1>2. /\ item \in Idx /\ next' \in item..MaxIdx
      /\ byName'[newPath] = item /\ list'[item].ty \in {"text", "img"} /\ list'[item].path = newPath
      /\ \A g \in GroupLocks :
            /\ byName'[g] \in Idx \ {item} /\ byName'[g] <= next'
            /\ byName[g] # NoIdx => byName'[g] = byName[g]
            /\ byName[g] = NoIdx => byName'[g] > item
            /\ list'[byName'[g]].ty = "group" /\ list'[byName'[g]].path = g
      /\ \A p \in AllPaths \ (GroupLocks \cup {newPath}) :
            byName'[p] = IF p = path THEN NoIdx ELSE byName[p]
      /\ \A i \in Idx \ {item} :
            (\A g \in GroupLocks : byName'[g] # i) =>
               list'[i] = IF i = art THEN NoRec ELSE list[i]
  BY <1>1 DEF Enters
<1>3. GroupLocks \subseteq AllPaths /\ \A g \in GroupLocks : Article(g).ty \in {"none", "group"}
  <2>1. Len(groups) \in Nat /\ \A k \in 1..Len(groups) : k \in 1..Len(gpath)
    BY <1>1, GroupPaths
  <2>2. GroupLocks \subseteq AllPaths
    BY <1>1, <2>1, GroupPaths DEF GroupLocks
  <2>3. Ready
    BY GetsReady DEF Insert, PutRenamed
  <2>4. \A g \in GroupLocks : Article(g).ty \in {"none", "group"}
    BY <2>3 DEF Ready, GroupLocks, Article, RecordAt, NoRec
  <2>. QED
    BY <2>2, <2>4
\* A path that is not in the chain and not moved keeps its record.
<1>4. ASSUME NEW p \in AllPaths \ (GroupLocks \cup {newPath, path}), byName[p] # NoIdx
      PROVE  byName'[p] = byName[p] /\ list'[byName[p]] = list[byName[p]]
  <2>1. byName'[p] = byName[p] /\ byName[p] \in Idx \ {item}
    BY <1>0, <1>a, <1>2, <1>4
  <2>2. byName[p] # art
    BY <1>0, <1>1, <1>4 DEF NamesMatch, AllPaths
  <2>4. ASSUME NEW g \in GroupLocks PROVE byName'[g] # byName[p]
    <3>1. CASE byName[g] = NoIdx
      BY <1>0, <1>a, <1>2, <3>1
    <3>2. CASE byName[g] # NoIdx
      BY <1>0, <1>2, <1>4, <1>3, <3>2 DEF NamesMatch
    <3>. QED
      BY <3>1, <3>2
  <2>. QED
    BY <1>2, <2>1, <2>2, <2>4
<1>5. ASSUME NEW p \in AllPaths PROVE IsGroup(p)' <=> IsGroup(p) \/ p \in GroupLocks
  <2>1. CASE p \in GroupLocks
    BY <1>2, <2>1 DEF IsGroup, Article, RecordAt, NoIdx, Idx
  <2>2. CASE p = newPath \/ p = path
    <3>1. ~IsGroup(p) /\ p \notin GroupLocks
      BY <1>1, <2>2 DEF IsGroup, Article, RecordAt, NoRec
    <3>2. p = newPath => ~IsGroup(p)'
      BY <1>2 DEF IsGroup, Article, RecordAt, NoIdx, Idx
    <3>3. p # newPath => byName'[p] = NoIdx
      BY <1>2, <2>2, <3>1
    <3>. QED
      BY <3>1, <3>2, <3>3 DEF IsGroup, Article, RecordAt, NoRec
  <2>3. CASE p \notin GroupLocks \cup {newPath, path}
    BY <1>2, <1>4, <2>3 DEF IsGroup, Article, RecordAt
  <2>. QED
    BY <2>1, <2>2, <2>3
<1>6. ASSUME NEW p \in AllPaths
      PROVE  HasContent(p)' <=> p = newPath \/ (HasContent(p) /\ p # path)
  <2>1. CASE p = newPath
    BY <1>2, <2>1 DEF HasContent, Article, RecordAt, NoIdx, Idx
  <2>2. CASE p \in GroupLocks
    <3>1. ~HasContent(p) /\ p # newPath
      BY <1>1, <1>3, <2>2 DEF HasContent
    <3>2. ~HasContent(p)'
      BY <1>2, <2>2 DEF HasContent, Article, RecordAt, NoIdx, Idx
    <3>. QED
      BY <3>1, <3>2
  <2>3. CASE p = path /\ p # newPath
    <3>1. byName'[p] = NoIdx
      BY <1>1, <1>2, <2>3
    <3>. QED
      BY <2>3, <3>1 DEF HasContent, Article, RecordAt, NoRec
  <2>4. CASE p \notin GroupLocks \cup {newPath, path}
    BY <1>2, <1>4, <2>4 DEF HasContent, Article, RecordAt
  <2>. QED
    BY <2>1, <2>2, <2>3, <2>4
<1>. QED
  BY <1>1, <1>3, <1>4, <1>5, <1>6

\* The list and the index keep to each other, and no group goes.
LEMMA StoreStep == IInv /\ [Next]_vars => NamesMatch' /\ NextInv' /\ GroupsKept /\ AboveInv'
<1>. SUFFICES ASSUME IInv, [Next]_vars PROVE NamesMatch' /\ NextInv' /\ GroupsKept /\ AboveInv'
  OBVIOUS
<1>0. /\ TypeOK /\ NamesMatch /\ NextInv /\ AboveInv /\ GroupsInv /\ ControlInv
      /\ next \in Nat /\ MaxIdx \in Nat /\ Idx \subseteq Nat
      /\ \A p \in Paths : p \in AllPaths /\ Prefixes(p) \subseteq AllPaths
  BY NextIsNat, PathsAssumption DEF IInv, AllPaths
<1>a. \A p \in AllPaths : byName[p] \in Idx \cup {NoIdx} /\ byName[p] \in Nat /\ byName[p] <= next
  <2>1. \A p \in AllPaths : byName[p] \in Idx \cup {NoIdx}
    BY <1>0 DEF TypeOK
  <2>2. Idx \cup {NoIdx} \subseteq Nat
    BY <1>0 DEF NoIdx
  <2>3. \A p \in AllPaths : byName[p] <= next
    BY <1>0 DEF NextInv
  <2>. QED
    BY <2>1, <2>2, <2>3
<1>1. CASE SameKinds
  BY <1>0, <1>1, KindsKept DEF GroupsKept, AboveInv, IsGroup, HasContent
<1>2. CASE Dies
  <2>1. byName[path] \in Idx /\ list[byName[path]].ty \in {"text", "img"} /\ list[byName[path]].path = path
    BY <1>0, <1>2, ArticleTyped DEF Dies, Article, RecordAt, NamesMatch, NoRec
  <2>2. \A i \in Idx : /\ list'[i].path = list[i].path
                       /\ list'[i].ty = IF i = byName[path] THEN "dead" ELSE list[i].ty
                       /\ i # byName[path] => list'[i] = list[i]
    BY <1>0, <1>2, <2>1 DEF Dies, TypeOK
  <2>3. byName' = byName /\ next' = next
    BY <1>2 DEF Dies
  <2>4. NamesMatch' /\ NextInv'
    <3>1. \A p \in AllPaths : byName[p] # NoIdx =>
            list'[byName[p]].ty # "none" /\ list'[byName[p]].path = p
      BY <1>0, <1>a, <2>2 DEF NamesMatch
    <3>2. \A i \in Idx : list'[i].ty \in Types \ {"dead"} => byName[list'[i].path] = i
      BY <1>0, <2>2 DEF NamesMatch
    <3>3. byName[path] <= next
      BY <1>0, <1>2, <1>a DEF Dies
    <3>4. \A i \in Idx : i > next => list'[i] = NoRec
      <4>1. \A i \in Idx : i > next => i # byName[path]
        BY <1>0, <2>1, <3>3
      <4>. QED
        BY <1>0, <2>2, <4>1 DEF NextInv
    <3>5. \A p \in AllPaths : byName[p] <= next
      BY <1>0 DEF NextInv
    <3>. QED
      BY <2>3, <3>1, <3>2, <3>4, <3>5 DEF NamesMatch, NextInv
  <2>5. \A p \in AllPaths : Article(p)'.ty = IF byName[p] = byName[path] THEN "dead" ELSE Article(p).ty
    BY <1>0, <2>1, <2>2, <2>3 DEF Article, RecordAt, TypeOK, NoIdx, Idx
  <2>6. \A p \in AllPaths : byName[p] = byName[path] => Article(p).ty \in {"text", "img"}
    BY <2>1 DEF Article, RecordAt, NoIdx, Idx
  <2>. QED
    BY <1>0, <2>4, <2>5, <2>6 DEF GroupsKept, AboveInv, IsGroup, HasContent
<1>3. ASSUME NEW r \in Paths, LeavesDead(r)
      PROVE  NamesMatch' /\ NextInv' /\ GroupsKept /\ AboveInv'
  <2>. DEFINE dead == [ty |-> "dead", path |-> r, items |-> {art}]
  <2>1. /\ next + 1 \in Idx /\ next' = next + 1
        /\ \A i \in Idx : list'[i] = IF i = next + 1 THEN dead ELSE list[i]
        /\ \A p \in AllPaths : byName'[p] = IF p = r THEN next + 1 ELSE byName[p]
        /\ byName[r] = NoIdx
    BY <1>0, <1>3 DEF LeavesDead, TypeOK
  <2>2. dead.ty = "dead" /\ dead.path = r
    OBVIOUS
  <2>. HIDE DEF dead
  <2>a. \A p \in AllPaths : byName[p] # next + 1
    BY <1>0, <1>a
  <2>b. list[next + 1] = NoRec
    BY <1>0, <2>1 DEF NextInv
  <2>c. \A p \in AllPaths : byName[p] # NoIdx => list'[byName[p]] = list[byName[p]]
    BY <1>a, <2>1, <2>a
  <2>3. NamesMatch' /\ NextInv'
    <3>1. \A p \in AllPaths : byName'[p] # NoIdx =>
            list'[byName'[p]].ty # "none" /\ list'[byName'[p]].path = p
      BY <1>0, <2>1, <2>2, <2>c DEF NamesMatch
    <3>2. ASSUME NEW i \in Idx, list'[i].ty \in Types \ {"dead"}
          PROVE  byName'[list'[i].path] = i
      <4>1. i # next + 1 /\ list'[i] = list[i]
        BY <2>1, <2>2, <3>2
      <4>2. byName[list[i].path] = i /\ list[i].path \in AllPaths
        BY <1>0, <3>2, <4>1 DEF NamesMatch, TypeOK
      <4>3. list[i].path # r
        BY <2>1, <4>2 DEF NoIdx, Idx
      <4>. QED
        BY <2>1, <4>1, <4>2, <4>3
    <3>3. \A i \in Idx : i > next' => list'[i] = NoRec
      BY <1>0, <2>1 DEF NextInv
    <3>4. \A p \in AllPaths : byName'[p] <= next'
      BY <1>0, <1>a, <2>1
    <3>. QED
      BY <3>1, <3>2, <3>3, <3>4 DEF NamesMatch, NextInv
  <2>4. \A p \in AllPaths : Article(p)'.ty = IF p = r THEN "dead" ELSE Article(p).ty
    <3>1. Article(r)'.ty = "dead"
      BY <1>0, <2>1, <2>2 DEF Article, RecordAt, NoIdx, Idx
    <3>2. \A p \in AllPaths \ {r} : Article(p)'.ty = Article(p).ty
      BY <1>0, <2>1, <2>c DEF Article, RecordAt
    <3>. QED
      BY <3>1, <3>2
  <2>5. Article(r).ty = "none"
    BY <2>1 DEF Article, RecordAt, NoRec
  <2>. QED
    BY <1>0, <2>3, <2>4, <2>5 DEF GroupsKept, AboveInv, IsGroup, HasContent
<1>4. CASE Insert \/ PutRenamed
  <2>. DEFINE item == next + 1
  <2>1. Enters /\ gpath = newPath /\ newPath \in Paths /\ path \in Paths
        /\ path \notin GroupLocks /\ newPath \notin GroupLocks
        /\ Entry.ty \in {"text", "img"} /\ Entry.path = newPath
        /\ (art # NoIdx => art = byName[path] /\ art \in Idx /\ list[art].ty = "text")
        /\ (art = NoIdx => newPath = path /\ Article(path).ty \in {"none", "dead"})
        /\ (art # NoIdx => newPath # path /\ byName[newPath] = NoIdx)
        /\ Len(groups) = NumGroups(newPath)
    BY <1>4, EntersFrame
  <2>2. /\ item \in Idx /\ next' \in item..MaxIdx
        /\ byName'[newPath] = item /\ list'[item].ty \in {"text", "img"} /\ list'[item].path = newPath
        /\ \A g \in GroupLocks :
              /\ byName'[g] \in Idx \ {item} /\ byName'[g] <= next'
              /\ byName[g] # NoIdx => byName'[g] = byName[g]
              /\ byName[g] = NoIdx => byName'[g] > item
              /\ list'[byName'[g]].ty = "group" /\ list'[byName'[g]].path = g
        /\ \A p \in AllPaths \ (GroupLocks \cup {newPath}) :
              byName'[p] = IF p = path THEN NoIdx ELSE byName[p]
        /\ \A i \in Idx \ {item} :
              (\A g \in GroupLocks : byName'[g] # i) =>
                 list'[i] = IF i = art THEN NoRec ELSE list[i]
    BY <2>1 DEF Enters
  \* A path that is not in the chain and not moved keeps its record.
  <2>4. ASSUME NEW p \in AllPaths \ (GroupLocks \cup {newPath, path}), byName[p] # NoIdx
        PROVE  byName'[p] = byName[p] /\ list'[byName[p]] = list[byName[p]]
    BY <1>4, <2>4, EntersFrame
  <2>5. ASSUME NEW p \in AllPaths, byName'[p] # NoIdx
        PROVE  list'[byName'[p]].ty # "none" /\ list'[byName'[p]].path = p
    <3>1. CASE p \in GroupLocks \cup {newPath}
      BY <2>2, <3>1
    <3>2. CASE p \notin GroupLocks \cup {newPath}
      BY <1>0, <2>2, <2>4, <2>5, <3>2 DEF NamesMatch
    <3>. QED
      BY <3>1, <3>2
  <2>6. ASSUME NEW i \in Idx, list'[i].ty \in Types \ {"dead"}
        PROVE  byName'[list'[i].path] = i
    <3>1. CASE i = item \/ \E g \in GroupLocks : byName'[g] = i
      BY <2>2, <3>1
    <3>2. CASE i # item /\ \A g \in GroupLocks : byName'[g] # i
      <4>1. list'[i] = list[i] /\ i # art
        BY <2>2, <2>6, <3>2 DEF NoRec, Types
      <4>2. byName[list[i].path] = i /\ list[i].path \in AllPaths
        BY <1>0, <2>6, <4>1 DEF NamesMatch, TypeOK
      <4>3. list[i].path \notin GroupLocks
        BY <2>2, <3>2, <4>2 DEF NoIdx, Idx
      <4>4. list[i].path # path
        BY <2>1, <2>6, <4>1, <4>2 DEF Article, RecordAt, NoIdx, Idx, Types
      <4>5. list[i].path # newPath
        BY <2>1, <4>2, <4>4 DEF NoIdx, Idx
      <4>. QED
        BY <2>2, <4>1, <4>2, <4>3, <4>4, <4>5
    <3>. QED
      BY <3>1, <3>2
  <2>7. NextInv'
    <3>1. ASSUME NEW i \in Idx, i > next' PROVE list'[i] = NoRec
      <4>1. i > next /\ i # item /\ \A g \in GroupLocks : byName'[g] # i
        BY <1>0, <2>2, <3>1
      <4>. QED
        BY <1>0, <2>2, <4>1 DEF NextInv
    <3>2. ASSUME NEW p \in AllPaths PROVE byName'[p] <= next'
      <4>1. next' \in Nat /\ next' >= next /\ NoIdx <= next' /\ item <= next'
        BY <1>0, <2>2 DEF NoIdx
      <4>2. CASE p \in GroupLocks \cup {newPath}
        BY <2>2, <4>1, <4>2
      <4>3. CASE p \notin GroupLocks \cup {newPath}
        <5>1. byName'[p] \in {NoIdx, byName[p]}
          BY <2>2, <4>3
        <5>2. byName[p] \in Nat /\ byName[p] <= next
          BY <1>a
        <5>. QED
          BY <1>0, <4>1, <5>1, <5>2
      <4>. QED
        BY <4>2, <4>3
    <3>. QED
      BY <3>1, <3>2 DEF NextInv
  <2>8. \A p \in AllPaths : IsGroup(p) => IsGroup(p)'
    BY <1>4, EntersFrame
  <2>9. ASSUME NEW p \in Paths, HasContent(p)', NEW g \in Prefixes(p), g # Root \/ p[1] # Secret
        PROVE  IsGroup(g)'
    <3>1. g \in AllPaths /\ p \in AllPaths
      BY <1>0, <2>9
    <3>2. CASE p = newPath
      <4>1. g \in GroupLocks
        BY <2>1, <2>9, <3>2, GroupsOfPrefixes DEF GroupLocks
      <4>. QED
        BY <1>4, <3>1, <4>1, EntersFrame
    <3>3. CASE HasContent(p)
      BY <1>0, <2>8, <2>9, <3>1, <3>3 DEF AboveInv
    <3>. QED
      BY <1>4, <2>9, <3>1, <3>2, <3>3, EntersFrame
  <2>10. NamesMatch'
    BY <2>5, <2>6 DEF NamesMatch
  <2>11. GroupsKept
    BY <2>8 DEF GroupsKept
  <2>12. AboveInv'
    BY <2>9 DEF AboveInv
  <2>. QED
    BY <2>7, <2>10, <2>11, <2>12
<1>. QED
  BY <1>1, <1>2, <1>3, <1>4, StoreSteps DEF StoreChange

\* A group that lists a path is one that lists it in its turn, or / outside /secret.
LEMMA ListingPrefixes ==
  ASSUME NEW p \in Paths, NEW k \in 1..NumGroups(p)
  PROVE  /\ GroupPath(p, k) \in Prefixes(p) /\ GroupPath(p, k) \in AllPaths
         /\ GroupPath(p, k) # Root \/ p[1] # Secret
<1>1. k \in 1..Len(p) /\ Len(p) \in Nat /\ (p[1] = Secret => k < Len(p))
  BY GroupPaths DEF NumGroups
<1>2. GroupPath(p, k) \in Prefixes(p) /\ GroupPath(p, k) \in AllPaths
      /\ Len(GroupPath(p, k)) = Len(p) - k
  BY <1>1, GroupPaths
<1>3. Len(Root) = 0
  BY DEF Root
<1>. QED
  BY <1>1, <1>2, <1>3

\* The groups of what is taken out of them are there: the article was listed in each, and
\* no group goes.
LEMMA RemovalStep == IInv /\ [Next]_vars => RemovalInv'
<1>. SUFFICES ASSUME IInv, [Next]_vars PROVE RemovalInv'
  OBVIOUS
<1>0. TypeOK /\ ControlInv /\ GroupsInv /\ RemovalInv /\ AboveInv /\ ArtInv /\ GroupsKept
  BY StoreStep DEF IInv
<1>. DEFINE P == Removing' => path' = path /\ (Removing \/ (HasContent(path) /\ path \in Paths))
<1>a. P
  <2>. USE DEF Removing, BeforeMove, ControlInv, Goto, EndRequest, request, Renaming
  <2>1. ASSUME NEW p \in Paths, NEW L \in Texts, New(p, L) PROVE P
    BY <1>0, <2>1 DEF New, Request
  <2>2. ASSUME NEW p \in Paths, Upload(p) PROVE P
    BY <1>0, <2>2 DEF Upload, Request
  <2>3. ASSUME NEW p \in Paths, NEW q \in Paths, NEW L \in Texts, Edit(p, q, L) PROVE P
    BY <1>0, <2>3 DEF Edit, Request
  <2>4. ASSUME NEW p \in Paths, Delete(p) PROVE P
    BY <1>0, <2>4 DEF Delete, Request
  <2>5. CASE LockNew
    BY <1>0, <2>5 DEF LockNew
  <2>6. CASE LockEdit
    BY <1>0, <2>6 DEF LockEdit
  <2>7. CASE LockDelete
    BY <1>0, <2>7 DEF LockDelete, HasContent
  <2>8. CASE LockNewPath
    BY <1>0, <2>8 DEF LockNewPath
  <2>9. CASE LockGroup
    BY <1>0, <2>9 DEF LockGroup
  <2>10. CASE GroupsBlocked
    <3>1. \/ EndRequest \/ (pc' = "dead" /\ UNCHANGED <<request, job>>)
      BY <1>0, <2>10, RemovalNotBlocked
    <3>. QED
      BY <3>1
  <2>11. CASE GroupsLocked
    BY <1>0, <2>11 DEF GroupsLocked, GroupsInv
  <2>12. CASE Insert
    BY <1>0, <2>12 DEF Insert, Entering
  <2>13. ASSUME NEW i \in Idx, Rerender(i) PROVE P
    BY <1>0, <2>13 DEF Rerender
  <2>14. ASSUME NEW i \in Idx, RerenderGone(i) PROVE P
    BY <1>0, <2>14 DEF RerenderGone
  <2>15. CASE Rerendered
    BY <1>0, <2>15 DEF Rerendered
  <2>16. ASSUME NEW r \in Paths, SkipRef(r) PROVE P
    BY <1>0, <2>16 DEF SkipRef
  <2>17. ASSUME NEW r \in Paths, AddRef(r) PROVE P
    BY <1>0, <2>17 DEF AddRef
  <2>18. ASSUME NEW r \in Paths, RemoveRef(r) PROVE P
    BY <1>0, <2>18 DEF RemoveRef
  <2>19. CASE RefsDone
    BY <1>0, <2>19 DEF RefsDone
  <2>20. CASE WriteNew
    BY <1>0, <2>20 DEF WriteNew
  <2>21. CASE RenderFails
    BY <1>0, <2>21 DEF RenderFails
  <2>22. CASE RenderEdit
    BY <1>0, <2>22 DEF RenderEdit
  <2>23. CASE WriteEdit
    BY <1>0, <2>23 DEF WriteEdit
  <2>24. CASE WriteDelete
    BY <1>0, <2>24 DEF WriteDelete
  <2>25. CASE PutInPlace
    BY <1>0, <2>25 DEF PutInPlace
  <2>26. CASE PutRenamed
    <3>1. HasContent(path) /\ path \in Paths /\ path' = path
      BY <1>0, <2>26 DEF PutRenamed, ArtInv, HasContent, Article, RecordAt
    <3>. QED
      BY <3>1
  <2>27. CASE Remove
    BY <1>0, <2>27 DEF Remove
  <2>28. CASE Finish
    BY <1>0, <2>28 DEF Finish
  <2>29. CASE UNCHANGED vars
    BY <1>0, <2>29 DEF vars, store, locks, job
  <2>. HIDE DEF P
  <2>. QED
    BY <2>1, <2>2, <2>3, <2>4, <2>5, <2>6, <2>7, <2>8, <2>9, <2>10, <2>11, <2>12, <2>13,
       <2>14, <2>15, <2>16, <2>17, <2>18, <2>19, <2>20, <2>21, <2>22, <2>23, <2>24, <2>25,
       <2>26, <2>27, <2>28, <2>29 DEF Next, Handle
<1>1. ASSUME Removing', NEW k \in 1..NumGroups(path)
      PROVE  IsGroup(GroupPath(path, k))'
  <2>1. path \in Paths /\ (Removing \/ HasContent(path))
    BY <1>0, <1>1, <1>a DEF Removing, ControlInv, Renaming
  <2>2. GroupPath(path, k) \in AllPaths
    BY <2>1, ListingPrefixes
  <2>3. IsGroup(GroupPath(path, k))
    <3>1. CASE Removing
      BY <1>0, <3>1 DEF RemovalInv
    <3>2. CASE HasContent(path)
      BY <1>0, <2>1, <3>2, ListingPrefixes DEF AboveInv
    <3>. QED
      BY <2>1, <3>1, <3>2
  <2>. QED
    BY <1>0, <1>a, <1>1, <2>2, <2>3 DEF GroupsKept
<1>. QED
  BY <1>a, <1>1 DEF RemovalInv

\* Registering and withdrawing links changes nothing of what is locked.
LEMMA RefKeeps ==
  ASSUME IInv, NEW r \in Paths, AddRef(r) \/ RemoveRef(r)
  PROVE  /\ \A p \in AllPaths : p \in held => byName'[p] = byName[p]
         /\ \A i \in Idx : i <= next => list'[i].ty = list[i].ty /\ list'[i].path = list[i].path
         /\ \A i \in Idx : list'[i].ty \notin {"dead", "none"} => list'[i].ty = list[i].ty /\ list'[i].path = list[i].path
         /\ next' \in Nat /\ next <= next'
<1>1. TypeOK /\ next \in Nat /\ Idx \subseteq Nat /\ pc = "refs" /\ [Next]_vars
  BY NextIsNat DEF IInv, AddRef, RemoveRef, Next, Handle
<1>2. SameKinds \/ \E q \in Paths : LeavesDead(q)
  <2>1. ~Dies /\ ~Insert /\ ~PutRenamed
    BY <1>1 DEF Dies, Insert, PutRenamed
  <2>. QED
    BY <1>1, <2>1, StoreSteps DEF StoreChange
<1>3. CASE SameKinds
  BY <1>1, <1>3 DEF SameKinds
<1>4. ASSUME NEW q \in Paths, LeavesDead(q)
      PROVE  /\ \A p \in AllPaths : p \in held => byName'[p] = byName[p]
             /\ \A i \in Idx : i # next + 1 => list'[i] = list[i]
             /\ list'[next + 1].ty = "dead"
             /\ next' = next + 1
  <2>. DEFINE dead == [ty |-> "dead", path |-> q, items |-> {art}]
  <2>1. dead.ty = "dead"
    OBVIOUS
  <2>. HIDE DEF dead
  <2>2. list' = [list EXCEPT ![next + 1] = dead] /\ next + 1 \in Idx /\ q \notin held
        /\ byName' = [byName EXCEPT ![q] = next + 1] /\ next' = next + 1
    BY <1>4 DEF LeavesDead, dead
  <2>. QED
    BY <1>1, <2>1, <2>2 DEF TypeOK
<1>. QED
  BY <1>1, <1>2, <1>3, <1>4

\* The groups found are those above the path, and stay as they were found.
LEMMA GroupsStep == IInv /\ [Next]_vars => GroupsInv'
<1>. SUFFICES ASSUME IInv, [Next]_vars PROVE GroupsInv'
  OBVIOUS
<1>0. TypeOK /\ NamesMatch /\ ControlInv /\ GroupsInv /\ RemovalInv /\ NextInv /\ HoldsInv
  BY DEF IInv
<1>b. /\ \A p \in Paths : NumGroups(p) \in Nat
      /\ Len(groups) \in Nat /\ Len(<< >>) = 0 /\ \A k : k \notin 1..0
  BY <1>0, GroupPaths, LenProperties, EmptySeq DEF TypeOK
<1>. USE DEF GroupsInv, ControlInv, TypeOK, GroupsFound, Goto, EndRequest, store, locks, request,
         job, Entering, Renaming
<1>1. ASSUME NEW p \in Paths, NEW L \in Texts, New(p, L) PROVE GroupsInv'
  BY <1>0, <1>1 DEF New, Request
<1>2. ASSUME NEW p \in Paths, Upload(p) PROVE GroupsInv'
  BY <1>0, <1>2 DEF Upload, Request
<1>3. ASSUME NEW p \in Paths, NEW q \in Paths, NEW L \in Texts, Edit(p, q, L) PROVE GroupsInv'
  BY <1>0, <1>3 DEF Edit, Request
<1>4. ASSUME NEW p \in Paths, Delete(p) PROVE GroupsInv'
  BY <1>0, <1>4 DEF Delete, Request
<1>5. CASE LockNew
  BY <1>0, <1>b, <1>5 DEF LockNew
<1>6. CASE LockEdit
  BY <1>0, <1>6 DEF LockEdit
<1>7. CASE LockDelete
  BY <1>0, <1>7 DEF LockDelete
<1>8. CASE LockNewPath
  BY <1>0, <1>b, <1>8 DEF LockNewPath
<1>9. CASE LockGroup
  <2>1. /\ Len(groups') = Len(groups) + 1
        /\ \A k \in 1..Len(groups) : groups'[k] = groups[k]
        /\ groups'[Len(groups) + 1] = byName[NextGroup]
        /\ NextGroup = GroupPath(gpath, Len(groups) + 1)
        /\ Len(groups) + 1 \in 1..NumGroups(gpath) /\ Len(groups) \in Nat
        /\ NumGroups(gpath) \in Nat
    BY <1>0, <1>b, <1>9, OneMoreGroup DEF LockGroup
  <2>2. pc = "lock_groups" /\ Article(NextGroup).ty \in {"group", "none"}
        /\ UNCHANGED <<pc, request, gpath, list, byName>>
    BY <1>9 DEF LockGroup
  <2>3. byName[NextGroup] # NoIdx => list[byName[NextGroup]].ty = "group"
    <3>1. NextGroup \in AllPaths
      BY <1>0, <1>9, OneMoreGroup DEF LockGroup
    <3>2. byName[NextGroup] # NoIdx => list[byName[NextGroup]].ty # "none"
      BY <1>0, <3>1 DEF NamesMatch
    <3>. QED
      BY <2>2, <3>2 DEF Article, RecordAt
  <2>4. \A k \in 1..Len(groups') :
         /\ groups'[k] = byName[GroupPath(gpath, k)]
         /\ groups'[k] # NoIdx => list[groups'[k]].ty = "group"
    <3>. SUFFICES ASSUME NEW k \in 1..Len(groups')
                  PROVE  /\ groups'[k] = byName[GroupPath(gpath, k)]
                         /\ groups'[k] # NoIdx => list[groups'[k]].ty = "group"
      OBVIOUS
    <3>1. CASE k \in 1..Len(groups)
      BY <1>0, <2>1, <2>2, <3>1
    <3>2. CASE k = Len(groups) + 1
      BY <2>1, <2>3, <3>2
    <3>. QED
      BY <2>1, <3>1, <3>2
  <2>. QED
    BY <1>0, <2>1, <2>2, <2>4
<1>10. CASE GroupsBlocked
  <2>1. \/ EndRequest \/ (pc' = "dead" /\ UNCHANGED <<request, job>>)
    BY <1>0, <1>10, RemovalNotBlocked
  <2>. QED
    BY <1>0, <1>10, <2>1, EmptySeq
<1>11. CASE GroupsLocked
  BY <1>0, <1>b, <1>11 DEF GroupsLocked, MoreGroups
<1>12. CASE Insert
  BY <1>0, <1>12 DEF Insert
<1>13. ASSUME NEW i \in Idx, Rerender(i) PROVE GroupsInv'
  BY <1>0, <1>13 DEF Rerender
<1>14. ASSUME NEW i \in Idx, RerenderGone(i) PROVE GroupsInv'
  BY <1>0, <1>14 DEF RerenderGone
<1>15. CASE Rerendered
  BY <1>0, <1>b, <1>15 DEF Rerendered
<1>16. ASSUME NEW r \in Paths, SkipRef(r) PROVE GroupsInv'
  BY <1>0, <1>16 DEF SkipRef
<1>17. ASSUME NEW r \in Paths, AddRef(r) PROVE GroupsInv'
  <2>1. IInv /\ pc = "refs" /\ pc' = pc /\ UNCHANGED <<locks, request, was, art, gpath, groups, rer>>
    BY <1>17 DEF AddRef
  <2>2. GroupsFound => \A k \in 1..Len(groups) :
          /\ GroupPath(gpath, k) \in AllPaths /\ GroupPath(gpath, k) \in held
          /\ groups[k] # NoIdx => groups[k] \in Idx /\ groups[k] <= next
    <3>1. GroupsFound => op = "edit"
      BY <2>1 DEF GroupsFound
    <3>2. op = "edit" => groups = <<>> \/ (gpath \in Paths /\ Len(groups) = NumGroups(gpath))
      BY <1>0, <2>1
    <3>3. gpath \in Paths /\ Len(groups) = NumGroups(gpath) =>
            \A k \in 1..Len(groups) : GroupPath(gpath, k) \in AllPaths
      BY ListingPrefixes
    <3>4. groups = <<>> => 1..Len(groups) = {}
      BY EmptySeq
    <3>5. GroupsFound => \A k \in 1..Len(groups) : GroupPath(gpath, k) \in held
      <4>1. GroupsFound => GroupLocks \subseteq held
        BY <1>0 DEF HoldsInv
      <4>. QED
        BY <4>1 DEF GroupLocks
    <3>6. \A p \in AllPaths : byName[p] <= next /\ byName[p] \in Idx \cup {NoIdx}
      BY <1>0 DEF NextInv
    <3>. QED
      BY <1>0, <3>1, <3>2, <3>3, <3>4, <3>5, <3>6
  <2>3. /\ \A p \in AllPaths : p \in held => byName'[p] = byName[p]
        /\ \A i \in Idx : i <= next => list'[i].ty = list[i].ty
    BY <2>1, <1>17, RefKeeps
  <2>4. GroupsFound' => \A k \in 1..Len(groups) :
         /\ groups[k] = byName'[GroupPath(gpath, k)]
         /\ groups[k] # NoIdx => list'[groups[k]].ty = "group"
    BY <1>0, <2>1, <2>2, <2>3
  <2>. QED
    BY <1>0, <2>1, <2>4
<1>18. ASSUME NEW r \in Paths, RemoveRef(r) PROVE GroupsInv'
  <2>1. IInv /\ pc = "refs" /\ pc' = pc /\ UNCHANGED <<locks, request, was, art, gpath, groups, rer>>
    BY <1>18 DEF RemoveRef
  <2>2. GroupsFound => \A k \in 1..Len(groups) :
          /\ GroupPath(gpath, k) \in AllPaths /\ GroupPath(gpath, k) \in held
          /\ groups[k] # NoIdx => groups[k] \in Idx /\ groups[k] <= next
    <3>1. GroupsFound => op = "edit"
      BY <2>1 DEF GroupsFound
    <3>2. op = "edit" => groups = <<>> \/ (gpath \in Paths /\ Len(groups) = NumGroups(gpath))
      BY <1>0, <2>1
    <3>3. gpath \in Paths /\ Len(groups) = NumGroups(gpath) =>
            \A k \in 1..Len(groups) : GroupPath(gpath, k) \in AllPaths
      BY ListingPrefixes
    <3>4. groups = <<>> => 1..Len(groups) = {}
      BY EmptySeq
    <3>5. GroupsFound => \A k \in 1..Len(groups) : GroupPath(gpath, k) \in held
      <4>1. GroupsFound => GroupLocks \subseteq held
        BY <1>0 DEF HoldsInv
      <4>. QED
        BY <4>1 DEF GroupLocks
    <3>6. \A p \in AllPaths : byName[p] <= next /\ byName[p] \in Idx \cup {NoIdx}
      BY <1>0 DEF NextInv
    <3>. QED
      BY <1>0, <3>1, <3>2, <3>3, <3>4, <3>5, <3>6
  <2>3. /\ \A p \in AllPaths : p \in held => byName'[p] = byName[p]
        /\ \A i \in Idx : i <= next => list'[i].ty = list[i].ty
    BY <2>1, <1>18, RefKeeps
  <2>4. GroupsFound' => \A k \in 1..Len(groups) :
         /\ groups[k] = byName'[GroupPath(gpath, k)]
         /\ groups[k] # NoIdx => list'[groups[k]].ty = "group"
    BY <1>0, <2>1, <2>2, <2>3
  <2>. QED
    BY <1>0, <2>1, <2>4
<1>19. CASE RefsDone
  BY <1>0, <1>19 DEF RefsDone
<1>20. CASE WriteNew
  BY <1>0, <1>20 DEF WriteNew
<1>21. CASE RenderFails
  BY <1>0, <1>21 DEF RenderFails
<1>22. CASE RenderEdit
  BY <1>0, <1>22 DEF RenderEdit
<1>23. CASE WriteEdit
  BY <1>0, <1>23 DEF WriteEdit
<1>24. CASE WriteDelete
  BY <1>0, <1>24 DEF WriteDelete
<1>25. CASE PutInPlace
  BY <1>0, <1>25 DEF PutInPlace
<1>26. CASE PutRenamed
  BY <1>0, <1>b, <1>26 DEF PutRenamed
<1>27. CASE Remove
  BY <1>0, <1>27 DEF Remove
<1>28. CASE Finish
  BY <1>0, <1>28 DEF Finish
<1>29. CASE UNCHANGED vars
  BY <1>0, <1>29 DEF vars
<1>. HIDE DEF GroupsInv
<1>. QED
  BY <1>1, <1>2, <1>3, <1>4, <1>5, <1>6, <1>7, <1>8, <1>9, <1>10, <1>11, <1>12, <1>13,
     <1>14, <1>15, <1>16, <1>17, <1>18, <1>19, <1>20, <1>21, <1>22, <1>23, <1>24, <1>25,
     <1>26, <1>27, <1>28, <1>29 DEF Next, Handle

\* What a handler knows of its article stays true while it is at work.
LEMMA ArtStep == IInv /\ [Next]_vars => ArtInv'
<1>. SUFFICES ASSUME IInv, [Next]_vars PROVE ArtInv'
  OBVIOUS
<1>0. IInv /\ TypeOK /\ ControlInv /\ GroupsInv /\ RemovalInv /\ NextInv /\ HoldsInv /\ NamesMatch /\ ArtInv
      /\ \A p \in Paths : p \in AllPaths
  BY DEF IInv, AllPaths
<1>. USE DEF ArtInv, ControlInv, BeforeMove, TypeOK, Goto, EndRequest, store, locks, request, job,
         Entering, Renaming
<1>1. ASSUME NEW p \in Paths, NEW L \in Texts, New(p, L) PROVE ArtInv'
  BY <1>0, <1>1 DEF New, Request
<1>2. ASSUME NEW p \in Paths, Upload(p) PROVE ArtInv'
  BY <1>0, <1>2 DEF Upload, Request
<1>3. ASSUME NEW p \in Paths, NEW q \in Paths, NEW L \in Texts, Edit(p, q, L) PROVE ArtInv'
  BY <1>0, <1>3 DEF Edit, Request
<1>4. ASSUME NEW p \in Paths, Delete(p) PROVE ArtInv'
  BY <1>0, <1>4 DEF Delete, Request
<1>5. CASE LockNew
  BY <1>0, <1>5 DEF LockNew, Article, RecordAt
<1>6. CASE LockEdit
  <2>1. Article(path).ty = "text" => byName[path] # NoIdx /\ list[byName[path]].ty = "text"
    BY DEF Article, RecordAt, NoRec
  <2>. QED
    BY <1>0, <1>6, <2>1 DEF LockEdit
<1>7. CASE LockDelete
  <2>1. Article(path).ty \in {"text", "img"} => byName[path] # NoIdx
    BY DEF Article, RecordAt, NoRec
  <2>2. byName[path] \in Idx \cup {NoIdx}
    BY <1>0, <1>7 DEF LockDelete
  <2>. QED
    BY <1>0, <1>7, <2>1, <2>2 DEF LockDelete
<1>8. CASE LockNewPath
  <2>1. Article(newPath).ty = "none" => byName[newPath] = NoIdx
    BY <1>0, <1>8 DEF Article, RecordAt, NamesMatch, LockNewPath
  <2>. QED
    BY <1>0, <1>8, <2>1 DEF LockNewPath
<1>9. CASE LockGroup
  BY <1>0, <1>9 DEF LockGroup, Article, RecordAt
<1>10. CASE GroupsBlocked
  <2>1. \/ EndRequest \/ (pc' = "dead" /\ UNCHANGED <<request, job>>)
    BY <1>0, <1>10, RemovalNotBlocked
  <2>. QED
    BY <1>0, <1>10, <2>1
<1>11. CASE GroupsLocked
  BY <1>0, <1>11 DEF GroupsLocked, GroupsInv, Article, RecordAt
<1>12. CASE Insert
  <2>1. Enters /\ pc = "insert" /\ pc' = "rerender" /\ art' = next + 1 /\ UNCHANGED request
    BY <1>0, <1>12, EntersStep DEF Insert
  <2>2. Entry.ty = (IF op = "new" THEN "text" ELSE "img") /\ newPath = path
    BY <1>0, <2>1 DEF Entry
  <2>3. byName'[path] = next + 1 /\ list'[next + 1] = Entry /\ next + 1 \in Idx
    BY <2>1, <2>2 DEF Enters
  <2>. QED
    BY <1>0, <2>1, <2>2, <2>3 DEF NoIdx, Idx
<1>13. ASSUME NEW i \in Idx, Rerender(i) PROVE ArtInv'
  BY <1>0, <1>13 DEF Rerender
<1>14. ASSUME NEW i \in Idx, RerenderGone(i) PROVE ArtInv'
  BY <1>0, <1>14 DEF RerenderGone
<1>15. CASE Rerendered
  BY <1>0, <1>15 DEF Rerendered
<1>16. ASSUME NEW r \in Paths, SkipRef(r) PROVE ArtInv'
  BY <1>0, <1>16 DEF SkipRef
<1>17. ASSUME NEW r \in Paths, AddRef(r) PROVE ArtInv'
  <2>1. IInv /\ pc = "refs" /\ pc' = pc /\ UNCHANGED <<locks, request, was, art, gpath, groups, rer>>
    BY <1>0, <1>17 DEF AddRef
  <2>2. path \in Paths /\ path \in held /\ newPath \in Paths /\ newPath \in held
    BY <1>0, <2>1 DEF HoldsInv
  <2>3. byName'[path] = byName[path] /\ byName'[newPath] = byName[newPath]
    BY <1>0, <2>1, <2>2, <1>17, RefKeeps
  <2>4. art # NoIdx => art \in Idx
    BY <1>0
  <2>5. art = byName[path] => art <= next
    BY <1>0, <2>2 DEF NextInv
  <2>6. art \in Idx /\ art <= next => list'[art].ty = list[art].ty
    BY <2>1, <1>17, RefKeeps
  <2>. QED
    BY <1>0, <2>1, <2>3, <2>4, <2>5, <2>6
<1>18. ASSUME NEW r \in Paths, RemoveRef(r) PROVE ArtInv'
  <2>1. IInv /\ pc = "refs" /\ pc' = pc /\ UNCHANGED <<locks, request, was, art, gpath, groups, rer>>
    BY <1>0, <1>18 DEF RemoveRef
  <2>2. path \in Paths /\ path \in held /\ newPath \in Paths /\ newPath \in held
    BY <1>0, <2>1 DEF HoldsInv
  <2>3. byName'[path] = byName[path] /\ byName'[newPath] = byName[newPath]
    BY <1>0, <2>1, <2>2, <1>18, RefKeeps
  <2>4. art # NoIdx => art \in Idx
    BY <1>0
  <2>5. art = byName[path] => art <= next
    BY <1>0, <2>2 DEF NextInv
  <2>6. art \in Idx /\ art <= next => list'[art].ty = list[art].ty
    BY <2>1, <1>18, RefKeeps
  <2>. QED
    BY <1>0, <2>1, <2>3, <2>4, <2>5, <2>6
<1>19. CASE RefsDone
  BY <1>0, <1>19 DEF RefsDone
<1>20. CASE WriteNew
  BY <1>0, <1>20 DEF WriteNew
<1>21. CASE RenderFails
  BY <1>0, <1>21 DEF RenderFails
<1>22. CASE RenderEdit
  BY <1>0, <1>22 DEF RenderEdit
<1>23. CASE WriteEdit
  BY <1>0, <1>23 DEF WriteEdit
<1>24. CASE WriteDelete
  BY <1>0, <1>24 DEF WriteDelete
<1>25. CASE PutInPlace
  BY <1>0, <1>25 DEF PutInPlace
<1>26. CASE PutRenamed
  <2>1. Enters /\ pc = "put" /\ pc' = "lock_groups" /\ gpath' = path /\ newPath # path
        /\ UNCHANGED <<art, request>>
    BY <1>0, <1>26, EntersStep DEF PutRenamed
  <2>2. /\ path \notin GroupLocks /\ newPath \in Paths
        /\ art = byName[path] /\ art \in Idx /\ art <= next /\ list[art].ty = "text"
    BY <1>0, <2>1, GetsReady
  <2>3. Entry.ty = "text"
    BY <1>0, <2>1, <2>2 DEF Entry, Records
  <2>4. byName'[newPath] = next + 1 /\ list'[next + 1] = Entry /\ next + 1 \in Idx
        /\ byName'[path] = NoIdx
    BY <1>0, <2>1, <2>2 DEF Enters
  <2>5. ASSUME NEW g \in GroupLocks PROVE byName'[g] # art
    <3>1. byName[g] # NoIdx => byName'[g] = byName[g] /\ list'[byName'[g]].ty = "group"
      BY <2>1 DEF Enters
    <3>2. byName[g] = NoIdx => byName'[g] > next + 1 /\ byName'[g] \in Idx
      BY <2>1 DEF Enters
    <3>3. g \in AllPaths /\ g # path
      <4>1. gpath \in Paths /\ Ready
        BY <1>0, <2>1, GetsReady
      <4>2. Len(groups) <= Len(gpath) /\ Len(gpath) \in Nat /\ Len(groups) \in Nat
        BY <4>1, GroupPaths DEF Ready
      <4>. QED
        BY <2>2, <4>1, <4>2, GroupPaths DEF GroupLocks
    <3>4. byName[g] # NoIdx => byName[g] # art
      BY <1>0, <2>2, <3>3 DEF NamesMatch
    <3>5. next \in Nat /\ art \in Nat
      BY <1>0, <2>2, NextIsNat
    <3>. QED
      BY <2>2, <3>1, <3>2, <3>4, <3>5
  <2>6. list'[art] = NoRec
    <3>1. art # next + 1
      BY <1>0, <2>2, NextIsNat
    <3>. QED
      BY <2>1, <2>2, <2>5, <3>1 DEF Enters
  <2>. QED
    BY <1>0, <2>1, <2>2, <2>3, <2>4, <2>6 DEF NoRec, NoIdx, Idx
<1>27. CASE Remove
  <2>1. SameKinds
    <3>1. pc = "remove" /\ ~Dies /\ ~Insert /\ ~PutRenamed /\ \A q \in Paths : ~LeavesDead(q)
      BY <1>27 DEF Remove, Dies, Insert, PutRenamed, LeavesDead
    <3>. QED
      BY <1>0, <3>1, StoreSteps DEF StoreChange
  <2>2. UNCHANGED <<byName, request, job>> /\ pc = "remove"
        /\ (pc' = "dead" \/ pc' = IF op = "edit" THEN "rerender" ELSE IF was = "text" THEN "write" ELSE "finish")
    BY <1>27 DEF Remove
  <2>. QED
    BY <1>0, <2>1, <2>2 DEF SameKinds
<1>28. CASE Finish
  BY <1>0, <1>28 DEF Finish
<1>29. CASE UNCHANGED vars
  BY <1>0, <1>29 DEF vars, Article, RecordAt
<1>. HIDE DEF ArtInv
<1>. QED
  BY <1>1, <1>2, <1>3, <1>4, <1>5, <1>6, <1>7, <1>8, <1>9, <1>10, <1>11, <1>12, <1>13,
     <1>14, <1>15, <1>16, <1>17, <1>18, <1>19, <1>20, <1>21, <1>22, <1>23, <1>24, <1>25,
     <1>26, <1>27, <1>28, <1>29 DEF Next, Handle

\* What is entered is at the path of an article.
LEMMA ContentsStep == IInv /\ [Next]_vars => ContentsInv'
<1>. SUFFICES ASSUME IInv, [Next]_vars PROVE ContentsInv'
  OBVIOUS
<1>1. CASE SameKinds
  BY <1>1 DEF SameKinds, IInv, ContentsInv
<1>2. CASE Dies
  BY <1>2 DEF Dies, IInv, ContentsInv, TypeOK
<1>3. ASSUME NEW r \in Paths, LeavesDead(r) PROVE ContentsInv'
  BY <1>3 DEF LeavesDead, IInv, ContentsInv, TypeOK
<1>4. CASE Insert \/ PutRenamed
  <2>1. Enters /\ newPath \in Paths /\ Entry.path = newPath
    BY <1>4, EntersStep, GetsReady DEF Insert, PutRenamed
  <2>2. \A i \in Idx : list'[i].ty \in {"text", "img"} => list'[i].path = newPath \/ list'[i] = list[i]
    BY <2>1 DEF Enters, NoRec
  <2>. QED
    BY <2>1, <2>2 DEF IInv, ContentsInv
<1>. QED
  BY <1>1, <1>2, <1>3, <1>4, StoreSteps DEF StoreChange

\* A text keeps its file: a name is taken with its file, and no file is taken away from
\* a living text.
LEMMA FileStep == IInv /\ [Next]_vars => FileInv'
<1>. SUFFICES ASSUME IInv, [Next]_vars PROVE FileInv'
  OBVIOUS
<1>0. IInv /\ TypeOK /\ ControlInv /\ NamesMatch /\ ArtInv /\ FileInv /\ RemovalInv /\ GroupsInv
  BY DEF IInv
<1>a. \A i \in Idx : list[i].ty \in {"text", "img"} => list[i].path \in Paths
  BY DEF IInv, ContentsInv
<1>. USE DEF FileInv, ControlInv, Goto, EndRequest, store, locks, request, job, Entering, Renaming
<1>1. ASSUME NEW p \in Paths, NEW L \in Texts, New(p, L) PROVE FileInv'
  BY <1>0, <1>1 DEF New, Request
<1>2. ASSUME NEW p \in Paths, Upload(p) PROVE FileInv'
  BY <1>0, <1>2 DEF Upload, Request
<1>3. ASSUME NEW p \in Paths, NEW q \in Paths, NEW L \in Texts, Edit(p, q, L) PROVE FileInv'
  BY <1>0, <1>3 DEF Edit, Request
<1>4. ASSUME NEW p \in Paths, Delete(p) PROVE FileInv'
  BY <1>0, <1>4 DEF Delete, Request
<1>5. CASE LockNew
  BY <1>0, <1>5 DEF LockNew
<1>6. CASE LockEdit
  BY <1>0, <1>6 DEF LockEdit
<1>7. CASE LockDelete
  <2>1. \A i \in Idx : list'[i].ty \in {"text", "img"} => list[i].ty \in {"text", "img"} /\ list'[i].path = list[i].path
    <3>1. list' = list \/ list' = [list EXCEPT ![byName[path]].ty = "dead"]
      BY <1>7 DEF LockDelete
    <3>2. \A i \in Idx : list'[i] = list[i] \/ list'[i].ty = "dead"
      BY <1>0, <3>1 DEF TypeOK
    <3>. QED
      BY <3>2
  <2>2. file' = file /\ pc = "lock" /\ op' # "new" /\ op' # "upload"
    BY <1>7 DEF LockDelete
  <2>. QED
    BY <1>0, <2>1, <2>2
<1>8. CASE LockNewPath
  BY <1>0, <1>8 DEF LockNewPath
<1>9. CASE LockGroup
  BY <1>0, <1>9 DEF LockGroup
<1>10. CASE GroupsBlocked
  <2>1. \/ EndRequest \/ (pc' = "dead" /\ UNCHANGED <<request, job>>)
    BY <1>0, <1>10, RemovalNotBlocked
  <2>2. UNCHANGED <<list, file>> /\ pc = "lock_groups"
    BY <1>10 DEF GroupsBlocked
  <2>. QED
    BY <1>0, <2>1, <2>2 DEF ArtInv, NoIdx, Idx
<1>11. CASE GroupsLocked
  BY <1>0, <1>11 DEF GroupsLocked
<1>12. CASE Insert
  <2>1. Enters /\ pc = "insert" /\ pc' = "rerender" /\ art' = next + 1 /\ UNCHANGED <<request, file>>
    BY <1>0, <1>12, EntersStep DEF Insert
  <2>2. art = NoIdx
    BY <1>0, <2>1, GetsReady
  <2>3. \A i \in Idx \ {next + 1} : list'[i].ty \in {"text", "img"} => list'[i] = list[i]
    BY <2>1, <2>2 DEF Enters, NoIdx, Idx
  <2>. QED
    BY <1>0, <2>1, <2>2, <2>3 DEF NoIdx, Idx
<1>13. ASSUME NEW i \in Idx, Rerender(i) PROVE FileInv'
  <2>1. UNCHANGED <<list, request, art>> /\ (pc' = pc \/ pc' = "dead") /\ pc = "rerender"
    BY <1>13 DEF Rerender
  <2>2. \A p \in Paths : file[p].kind # "none" => file'[p].kind # "none"
    <3>1. file' = file \/ file' = [file EXCEPT ![list[i].path] = Rewritten(@)]
      BY <1>13 DEF Rerender
    <3>2. \A f : f.kind # "none" => Rewritten(f).kind # "none"
      BY DEF Rewritten, Text
    <3>3. ASSUME file' = [file EXCEPT ![list[i].path] = Rewritten(@)], NEW p \in Paths
          PROVE  file'[p] \in {file[p], Rewritten(file[p])}
      BY <1>0, <3>3 DEF TypeOK
    <3>. QED
      BY <3>1, <3>2, <3>3
  <2>. QED
    BY <1>0, <1>a, <2>1, <2>2
<1>14. ASSUME NEW i \in Idx, RerenderGone(i) PROVE FileInv'
  BY <1>0, <1>14 DEF RerenderGone
<1>15. CASE Rerendered
  BY <1>0, <1>15 DEF Rerendered
<1>16. ASSUME NEW r \in Paths, SkipRef(r) PROVE FileInv'
  BY <1>0, <1>16 DEF SkipRef
<1>17. ASSUME NEW r \in Paths, AddRef(r) PROVE FileInv'
  <2>1. IInv /\ UNCHANGED <<file, pc, request, art>>
    BY <1>0, <1>17 DEF AddRef
  <2>2. \A i \in Idx : list'[i].ty \in {"text", "img"} => list[i].ty \in {"text", "img"} /\ list'[i].path = list[i].path
    BY <2>1, <1>17, RefKeeps
  <2>. QED
    BY <1>0, <2>1, <2>2
<1>18. ASSUME NEW r \in Paths, RemoveRef(r) PROVE FileInv'
  <2>1. IInv /\ UNCHANGED <<file, pc, request, art>>
    BY <1>0, <1>18 DEF RemoveRef
  <2>2. \A i \in Idx : list'[i].ty \in {"text", "img"} => list[i].ty \in {"text", "img"} /\ list'[i].path = list[i].path
    BY <2>1, <1>18, RefKeeps
  <2>. QED
    BY <1>0, <2>1, <2>2
<1>19. CASE RefsDone
  BY <1>0, <1>19 DEF RefsDone
<1>20. CASE WriteNew
  <2>1. UNCHANGED <<list, request, art>> /\ pc = "write" /\ Entering
    BY <1>20 DEF WriteNew
  <2>2. art = byName[path] /\ art # NoIdx /\ path \in Paths
    BY <1>0, <2>1 DEF ArtInv
  <2>3. list[art].path = path
    BY <1>0, <2>2 DEF NamesMatch, AllPaths
  <2>4. CASE pc' = "finish"
    <3>1. \A p \in Paths : file[p].kind # "none" \/ p = path => file'[p].kind # "none"
      BY <1>0, <1>20, <2>4 DEF WriteNew, TypeOK, Image, Text
    <3>. QED
      BY <1>0, <1>a, <2>1, <2>3, <3>1
  <2>5. CASE pc' = "dead" /\ file' = file
    BY <1>0, <2>1, <2>5
  <2>. QED
    BY <1>20, <2>4, <2>5 DEF WriteNew
<1>21. CASE RenderFails
  BY <1>0, <1>21 DEF RenderFails
<1>22. CASE RenderEdit
  BY <1>0, <1>22 DEF RenderEdit
<1>23. CASE WriteEdit
  <2>1. \A p \in Paths : file[p].kind # "none" => file'[p].kind # "none"
    BY <1>0, <1>23 DEF WriteEdit, Image, Text, TypeOK
  <2>2. UNCHANGED <<list, request, art>> /\ pc = "write" /\ op \in {"edit", "delete"}
    BY <1>23 DEF WriteEdit
  <2>. QED
    BY <1>0, <1>a, <2>1, <2>2
<1>24. CASE WriteDelete
  <2>1. \A p \in Paths : file[p].kind # "none" => file'[p].kind # "none"
    BY <1>0, <1>24 DEF WriteDelete, Image, Text, TypeOK
  <2>2. UNCHANGED <<list, request, art>> /\ pc = "write" /\ op \in {"edit", "delete"}
    BY <1>24 DEF WriteDelete
  <2>. QED
    BY <1>0, <1>a, <2>1, <2>2
<1>25. CASE PutInPlace
  BY <1>0, <1>25 DEF PutInPlace
<1>26. CASE PutRenamed
  <2>1. Enters /\ pc = "put" /\ newPath # path /\ UNCHANGED <<art, request>>
        /\ file' = [file EXCEPT ![newPath] = file[path], ![path] = NoFile]
    BY <1>0, <1>26, EntersStep DEF PutRenamed
  <2>2. /\ newPath \in Paths /\ path \in Paths /\ op = "edit" /\ byName[newPath] = NoIdx
        /\ art = byName[path] /\ art \in Idx /\ list[art].ty = "text" /\ Entry.path = newPath
    BY <1>0, <2>1, GetsReady DEF ArtInv, BeforeMove
  <2>3. file[path].kind # "none"
    BY <1>0, <2>2 DEF NamesMatch, NoIdx, Idx, AllPaths
  <2>4. /\ file'[newPath].kind # "none"
        /\ \A p \in Paths \ {path, newPath} : file'[p] = file[p]
    BY <1>0, <2>1, <2>2, <2>3 DEF TypeOK
  <2>5. ASSUME NEW i \in Idx, list'[i].ty \in {"text", "img"}
        PROVE  file'[list'[i].path].kind # "none"
    <3>1. CASE i = next + 1
      BY <2>1, <2>2, <2>4, <3>1 DEF Enters
    <3>2. CASE i # next + 1
      <4>1. list'[i] = list[i] /\ i # art
        BY <2>1, <2>5, <3>2 DEF Enters, NoRec
      <4>2. byName[list[i].path] = i /\ list[i].path \in Paths
        BY <1>0, <1>a, <2>5, <4>1 DEF NamesMatch, Types
      <4>3. list[i].path \notin {path, newPath}
        BY <2>2, <4>1, <4>2 DEF NoIdx, Idx
      <4>. QED
        BY <1>0, <2>4, <2>5, <4>1, <4>2, <4>3
    <3>. QED
      BY <3>1, <3>2
  <2>. QED
    BY <2>5
<1>27. CASE Remove
  <2>1. SameKinds
    <3>1. pc = "remove" /\ ~Dies /\ ~Insert /\ ~PutRenamed /\ \A q \in Paths : ~LeavesDead(q)
      BY <1>27 DEF Remove, Dies, Insert, PutRenamed, LeavesDead
    <3>. QED
      BY <1>0, <3>1, StoreSteps DEF StoreChange
  <2>2. UNCHANGED <<file, request, job>> /\ pc = "remove"
    BY <1>27 DEF Remove
  <2>. QED
    BY <1>0, <2>1, <2>2 DEF SameKinds
<1>28. CASE Finish
  BY <1>0, <1>28 DEF Finish
<1>29. CASE UNCHANGED vars
  BY <1>0, <1>29 DEF vars
<1>. HIDE DEF FileInv
<1>. QED
  BY <1>1, <1>2, <1>3, <1>4, <1>5, <1>6, <1>7, <1>8, <1>9, <1>10, <1>11, <1>12, <1>13,
     <1>14, <1>15, <1>16, <1>17, <1>18, <1>19, <1>20, <1>21, <1>22, <1>23, <1>24, <1>25,
     <1>26, <1>27, <1>28, <1>29 DEF Next, Handle

\* Where no name is given up, no more is missing of fewer paths.
LEMMA FewerMissing ==
  ASSUME NEW S \in SUBSET AllPaths, NEW T \in SUBSET S,
         \A p \in T : byName'[p] = NoIdx => byName[p] = NoIdx
  PROVE  /\ Cardinality({p \in T : byName'[p] = NoIdx}) \in Nat
         /\ Cardinality(Missing(S)) \in Nat
         /\ Cardinality({p \in T : byName'[p] = NoIdx}) <= Cardinality(Missing(S))
         /\ \A q \in S : byName[q] = NoIdx /\ (q \in T => byName'[q] # NoIdx) =>
              Cardinality({p \in T : byName'[p] = NoIdx}) + 1 <= Cardinality(Missing(S))
<1>. DEFINE M == Missing(S)
            N == {p \in T : byName'[p] = NoIdx}
<1>1. IsFiniteSet(M) /\ Cardinality(M) \in Nat
  BY MissingCounts
<1>2. N \in SUBSET M
  BY DEF Missing
<1>3. IsFiniteSet(N) /\ Cardinality(N) <= Cardinality(M)
      /\ (Cardinality(N) = Cardinality(M) => N = M)
  BY <1>1, <1>2, FS_Subset
<1>4. Cardinality(N) \in Nat
  BY <1>3, FS_CardinalityType
<1>5. \A q \in S : byName[q] = NoIdx /\ (q \in T => byName'[q] # NoIdx) => N # M
  BY DEF Missing
<1>. QED
  BY <1>1, <1>3, <1>4, <1>5

\* The groups that an article's entry creates are no longer missing.
LEMMA CreatedNotMissing ==
  ASSUME IInv, Enters, gpath = newPath, newPath \in Paths, Len(groups) \in 0..NumGroups(gpath),
         \A k \in 1..Len(groups) : groups[k] = byName[GroupPath(gpath, k)],
         NEW L \in SUBSET Paths, path = newPath
  PROVE  /\ Cardinality({p \in L : byName'[p] = NoIdx}) \in Nat
         /\ Cardinality({p \in L : byName'[p] = NoIdx}) + Created(Len(groups))
              <= Cardinality(Missing(Prefixes(newPath) \cup L))
<1>. DEFINE M == Missing(Prefixes(newPath) \cup L)
            N == {p \in L : byName'[p] = NoIdx}
            S == {k \in 1..Len(groups) : groups[k] = NoIdx}
            C == {p \in GroupLocks : byName[p] = NoIdx}
            f == [k \in S |-> GroupPath(gpath, k)]
<1>1. Len(groups) \in Nat /\ (\A k \in 1..Len(groups) : k \in 1..Len(gpath)) /\ TypeOK
  BY GroupPaths DEF IInv
<1>2. IsFiniteSet(M) /\ Cardinality(M) \in Nat
  <2>1. Prefixes(newPath) \cup L \in SUBSET AllPaths
    BY PathsAssumption DEF AllPaths
  <2>. QED
    BY <2>1, MissingCounts
<1>3. C \in SUBSET M
  <2>1. GroupLocks \subseteq Prefixes(newPath)
    BY <1>1, GroupPaths DEF GroupLocks
  <2>. QED
    BY <2>1 DEF Missing
<1>4. IsFiniteSet(C)
  BY <1>2, <1>3, FS_Subset
<1>5. Created(Len(groups)) <= Cardinality(C)
  <2>1. \A k \in S : GroupPath(gpath, k) \in C
    BY DEF GroupLocks
  <2>2. \A j, k \in S : GroupPath(gpath, j) = GroupPath(gpath, k) => j = k
    BY <1>1, GroupPaths
  <2>3. f \in Injection(S, C)
    BY <2>1, <2>2, Fun_IsInj
  <2>4. Cardinality(S) <= Cardinality(C)
    BY <1>4, <2>3, FS_Injection
  <2>. QED
    BY <2>4 DEF Created
<1>6. N \in SUBSET (M \ C)
  <2>. SUFFICES ASSUME NEW p \in L, byName'[p] = NoIdx PROVE p \in M /\ p \notin C
    OBVIOUS
  <2>1. p \notin GroupLocks
    BY DEF Enters, NoIdx, Idx
  <2>2. p # newPath
    BY DEF Enters, NoIdx, Idx
  <2>3. byName[p] = NoIdx
    BY <2>1, <2>2 DEF Enters, AllPaths
  <2>. QED
    BY <2>1, <2>3 DEF Missing
<1>7. IsFiniteSet(M \ C) /\ Cardinality(M \ C) = Cardinality(M) - Cardinality(M \cap C)
  BY <1>2, FS_Difference
<1>8. M \cap C = C
  BY <1>3
<1>9. IsFiniteSet(N) /\ Cardinality(N) <= Cardinality(M \ C)
  BY <1>6, <1>7, FS_Subset
<1>10. Cardinality(N) \in Nat /\ Cardinality(C) \in Nat /\ Created(Len(groups)) \in Nat
  BY <1>1, <1>4, <1>9, FS_CardinalityType, CreatedCounts
<1>11. Cardinality(N) + Created(Len(groups)) <= Cardinality(M)
  <2>. HIDE DEF M, N, C
  <2>1. Cardinality(M \ C) = Cardinality(M) - Cardinality(C)
    BY <1>7, <1>8
  <2>. QED
    BY <1>2, <1>5, <1>9, <1>10, <2>1
<1>. QED
  BY <1>10, <1>11

\* A budget that is kept stays kept when no more is spent than is saved.
LEMMA Budget ==
  ASSUME NEW a \in Nat, NEW b \in Nat, NEW n \in Nat, NEW m \in Nat, NEW k \in Nat
  PROVE  /\ n <= m /\ (a = b \/ (a = b + 1 /\ n + 1 <= m)) => a + n <= b + m
         /\ a + n <= b + m /\ b + (1 + m) <= k => a + (1 + n) <= k
         /\ a + n <= b + m /\ b + m <= k => a + n <= k
OBVIOUS

\* Where links are taken off the list and no more indices used than names given, room
\* stays for the rest.
LEMMA RoomKept ==
  ASSUME IInv, pc = "refs", pc' = pc, UNCHANGED <<request, gpath, was>>, adds' \subseteq adds,
         \A p \in AllPaths : byName'[p] = NoIdx => byName[p] = NoIdx,
         next' \in Nat,
         \/ next' = next
         \/ next' = next + 1 /\ \E q \in adds : byName[q] = NoIdx /\ byName'[q] # NoIdx
  PROVE  RoomInv'
<1>. DEFINE E == Prefixes(newPath) \cup adds
            F == Prefixes(newPath) \cup adds'
<1>0. TypeOK /\ ControlInv /\ RoomInv /\ next \in Nat /\ MaxIdx \in Nat
  BY NextIsNat DEF IInv
<1>1. newPath \in Paths /\ adds \in SUBSET AllPaths /\ E \in SUBSET AllPaths
  BY <1>0, PathsAssumption DEF AllPaths, TypeOK, ControlInv
<1>2. F \in SUBSET E /\ adds' \in SUBSET adds /\ adds \subseteq E
  OBVIOUS
<1>. HIDE DEF E, F
<1>3. ASSUME NEW S \in SUBSET AllPaths, NEW T \in SUBSET S, adds \subseteq S, adds' \subseteq T
      PROVE  /\ Cardinality({p \in T : byName'[p] = NoIdx}) \in Nat
             /\ Cardinality(Missing(S)) \in Nat
             /\ next' + Cardinality({p \in T : byName'[p] = NoIdx}) <= next + Cardinality(Missing(S))
  <2>. DEFINE n == Cardinality({p \in T : byName'[p] = NoIdx})
              m == Cardinality(Missing(S))
  <2>1. /\ n \in Nat /\ m \in Nat /\ n <= m
        /\ \A q \in S : byName[q] = NoIdx /\ (q \in T => byName'[q] # NoIdx) => n + 1 <= m
    BY <1>3, FewerMissing
  <2>. HIDE DEF n, m
  <2>2. next' = next \/ (next' = next + 1 /\ n + 1 <= m)
    BY <1>3, <2>1
  <2>3. next' + n <= next + m
    BY <1>0, <2>1, <2>2, Budget
  <2>. QED
    BY <2>1, <2>3 DEF n, m
<1>4. op = "edit" => next' + (1 + Cardinality({p \in F : byName'[p] = NoIdx})) <= MaxIdx
  <2>. DEFINE n == Cardinality({p \in F : byName'[p] = NoIdx})
              m == Cardinality(Missing(E))
  <2>1. n \in Nat /\ m \in Nat /\ next' + n <= next + m
    BY <1>1, <1>2, <1>3 DEF F
  <2>2. op = "edit" => next + (1 + m) <= MaxIdx
    BY <1>0 DEF RoomInv, RoomFor, E
  <2>. HIDE DEF n, m
  <2>3. op = "edit" => next' + (1 + n) <= MaxIdx
    BY <1>0, <2>1, <2>2, Budget
  <2>. QED
    BY <2>3 DEF n
<1>5. op = "new" => next' + Cardinality({p \in adds' : byName'[p] = NoIdx}) <= MaxIdx
  <2>. DEFINE n == Cardinality({p \in adds' : byName'[p] = NoIdx})
              m == Cardinality(Missing(adds))
  <2>1. n \in Nat /\ m \in Nat /\ next' + n <= next + m
    BY <1>1, <1>2, <1>3
  <2>2. op = "new" => next + m <= MaxIdx
    BY <1>0 DEF RoomInv, RoomFor
  <2>. HIDE DEF n, m
  <2>3. op = "new" => next' + n <= MaxIdx
    BY <1>0, <2>1, <2>2, Budget
  <2>. QED
    BY <2>3 DEF n
<1>. QED
  BY <1>0, <1>4, <1>5 DEF RoomInv, Missing, RoomFor, Ahead, request, F

\* No handler runs out of indices.
LEMMA RoomStep == IInv /\ [Next]_vars => RoomInv'
<1>. SUFFICES ASSUME IInv, [Next]_vars PROVE RoomInv'
  OBVIOUS
<1>0. IInv /\ TypeOK /\ ControlInv /\ RoomInv /\ RemovalInv /\ GroupsInv
      /\ next \in Nat /\ MaxIdx \in Nat /\ \A i \in Idx : i \in Nat /\ i # NoIdx
  BY NextIsNat DEF IInv, NoIdx, Idx
<1>. USE DEF RoomInv, ControlInv, Ahead, RoomFor, Missing, Goto, EndRequest, store, locks,
         request, job, Entering, Renaming
<1>1. ASSUME NEW p \in Paths, NEW L \in Texts, New(p, L) PROVE RoomInv'
  BY <1>0, <1>1 DEF New, Request
<1>2. ASSUME NEW p \in Paths, Upload(p) PROVE RoomInv'
  <2>1. Prefixes(p) \cup {} = Prefixes(p)
    OBVIOUS
  <2>. QED
    BY <1>0, <1>2, <2>1 DEF Upload, Request
<1>3. ASSUME NEW p \in Paths, NEW q \in Paths, NEW L \in Texts, Edit(p, q, L) PROVE RoomInv'
  BY <1>0, <1>3 DEF Edit, Request
<1>4. ASSUME NEW p \in Paths, Delete(p) PROVE RoomInv'
  BY <1>0, <1>4 DEF Delete, Request
<1>5. CASE LockNew
  BY <1>0, <1>5 DEF LockNew
<1>6. CASE LockEdit
  BY <1>0, <1>6 DEF LockEdit
<1>7. CASE LockDelete
  BY <1>0, <1>7 DEF LockDelete
<1>8. CASE LockNewPath
  BY <1>0, <1>8 DEF LockNewPath
<1>9. CASE LockGroup
  BY <1>0, <1>9 DEF LockGroup
<1>10. CASE GroupsBlocked
  <2>1. \/ EndRequest \/ (pc' = "dead" /\ UNCHANGED <<request, job>>)
    BY <1>0, <1>10, RemovalNotBlocked
  <2>. QED
    BY <1>0, <1>10, <2>1
<1>11. CASE GroupsLocked
  BY <1>0, <1>11 DEF GroupsLocked, GroupsInv
<1>12. CASE Insert
  <2>1. Enters /\ pc = "insert" /\ pc' = "rerender" /\ UNCHANGED request /\ adds' = links
        /\ next' = next + 1 + Created(Len(groups))
    BY <1>0, <1>12, EntersStep DEF Insert
  <2>2. gpath = newPath /\ newPath \in Paths /\ path = newPath /\ Ready
    BY <1>0, <2>1, GetsReady
  <2>3. /\ Cardinality({p \in links : byName'[p] = NoIdx}) \in Nat
        /\ Cardinality({p \in links : byName'[p] = NoIdx}) + Created(Len(groups))
              <= Cardinality(Missing(Prefixes(newPath) \cup links))
    BY <1>0, <2>1, <2>2, CreatedNotMissing DEF Ready, TypeOK
  <2>4. Created(Len(groups)) \in Nat /\ Cardinality(Missing(Prefixes(newPath) \cup links)) \in Nat
    <3>1. Len(groups) \in Nat
      BY <2>2, GroupPaths DEF Ready
    <3>2. Prefixes(newPath) \cup links \in SUBSET AllPaths
      BY <1>0, <2>2, PathsAssumption DEF TypeOK, AllPaths
    <3>. HIDE DEF Missing
    <3>. QED
      BY <3>1, <3>2, CreatedCounts, MissingCounts
  <2>5. op = "new" => next + (1 + Cardinality(Missing(Prefixes(newPath) \cup links))) <= MaxIdx
    BY <1>0, <2>1
  <2>6. op = "new" => next' + Cardinality({p \in links : byName'[p] = NoIdx}) <= MaxIdx
    <3>. HIDE DEF Missing
    <3>. QED
      BY <1>0, <2>1, <2>3, <2>4, <2>5
  <2>. QED
    BY <1>0, <2>1, <2>6
<1>13. ASSUME NEW i \in Idx, Rerender(i) PROVE RoomInv'
  BY <1>0, <1>13 DEF Rerender
<1>14. ASSUME NEW i \in Idx, RerenderGone(i) PROVE RoomInv'
  BY <1>0, <1>14 DEF RerenderGone
<1>15. CASE Rerendered
  BY <1>0, <1>15 DEF Rerendered
<1>16. ASSUME NEW r \in Paths, SkipRef(r) PROVE RoomInv'
  <2>1. /\ pc = "refs" /\ pc' = pc /\ UNCHANGED <<request, gpath, was>> /\ adds' \subseteq adds
        /\ \A p \in AllPaths : byName'[p] = NoIdx => byName[p] = NoIdx
        /\ next' \in Nat
        /\ \/ next' = next
           \/ next' = next + 1 /\ \E q \in adds : byName[q] = NoIdx /\ byName'[q] # NoIdx
    BY <1>0, <1>16 DEF SkipRef
  <2>. QED
    BY <1>0, <2>1, RoomKept
<1>17. ASSUME NEW r \in Paths, AddRef(r) PROVE RoomInv'
  <2>1. pc = "refs" /\ pc' = pc /\ UNCHANGED <<request, gpath, was>> /\ adds' \subseteq adds
    BY <1>17 DEF AddRef
  <2>2. CASE byName[r] = NoIdx
    <3>1. next' = next + 1 /\ byName' = [byName EXCEPT ![r] = next + 1] /\ r \in adds
      BY <1>17, <2>2 DEF AddRef
    <3>2. byName'[r] = next + 1 /\ \A p \in AllPaths : p # r => byName'[p] = byName[p]
      BY <1>0, <3>1 DEF TypeOK, AllPaths
    <3>3. next' \in Nat /\ byName'[r] # NoIdx
      BY <1>0, <3>1, <3>2 DEF NoIdx
    <3>. QED
      BY <1>0, <2>1, <2>2, <3>1, <3>2, <3>3, RoomKept
  <2>3. CASE byName[r] # NoIdx
    <3>1. next' = next /\ byName' = byName
      BY <1>17, <2>3 DEF AddRef
    <3>. QED
      BY <1>0, <2>1, <3>1, RoomKept
  <2>. QED
    BY <2>2, <2>3
<1>18. ASSUME NEW r \in Paths, RemoveRef(r) PROVE RoomInv'
  <2>1. /\ pc = "refs" /\ pc' = pc /\ UNCHANGED <<request, gpath, was>> /\ adds' \subseteq adds
        /\ \A p \in AllPaths : byName'[p] = NoIdx => byName[p] = NoIdx
        /\ next' \in Nat
        /\ \/ next' = next
           \/ next' = next + 1 /\ \E q \in adds : byName[q] = NoIdx /\ byName'[q] # NoIdx
    BY <1>0, <1>18 DEF RemoveRef
  <2>. QED
    BY <1>0, <2>1, RoomKept
<1>19. CASE RefsDone
  BY <1>0, <1>19 DEF RefsDone
<1>20. CASE WriteNew
  BY <1>0, <1>20 DEF WriteNew
<1>21. CASE RenderFails
  BY <1>0, <1>21 DEF RenderFails
<1>22. CASE RenderEdit
  <2>1. UNCHANGED <<byName, next, newPath, path, op, links, gpath>> /\ pc = "render"
        /\ (adds' = links \/ adds' = adds)
    BY <1>22 DEF RenderEdit
  <2>2. adds' \subseteq links /\ op = "edit" /\ newPath \in Paths
    BY <1>0, <2>1
  <2>. DEFINE S == Prefixes(newPath) \cup links
              T == Prefixes(newPath) \cup adds'
              n == Cardinality({p \in T : byName'[p] = NoIdx})
              m == Cardinality(Missing(S))
  <2>3. S \in SUBSET AllPaths /\ T \in SUBSET S
    BY <1>0, <2>2, PathsAssumption DEF TypeOK, AllPaths
  <2>4. n \in Nat /\ m \in Nat /\ n <= m
    <3>. HIDE DEF S, T
    <3>1. \A p \in T : byName'[p] = NoIdx => byName[p] = NoIdx
      BY <2>1
    <3>. QED
      BY <2>3, <3>1, FewerMissing
  <2>5. next + (1 + m) <= MaxIdx
    BY <1>0, <2>1, <2>2
  <2>. HIDE DEF n, m
  <2>6. next' + (1 + n) <= MaxIdx
    BY <1>0, <2>1, <2>4, <2>5, Budget
  <2>. QED
    BY <1>0, <2>1, <2>2, <2>6 DEF n
<1>23. CASE WriteEdit
  BY <1>0, <1>23 DEF WriteEdit
<1>24. CASE WriteDelete
  BY <1>0, <1>24 DEF WriteDelete
<1>25. CASE PutInPlace
  BY <1>0, <1>25 DEF PutInPlace
<1>26. CASE PutRenamed
  BY <1>0, <1>26 DEF PutRenamed
<1>27. CASE Remove
  BY <1>0, <1>27 DEF Remove
<1>28. CASE Finish
  BY <1>0, <1>28 DEF Finish
<1>29. CASE UNCHANGED vars
  BY <1>0, <1>29 DEF vars
<1>. HIDE DEF RoomInv
<1>. QED
  BY <1>1, <1>2, <1>3, <1>4, <1>5, <1>6, <1>7, <1>8, <1>9, <1>10, <1>11, <1>12, <1>13,
     <1>14, <1>15, <1>16, <1>17, <1>18, <1>19, <1>20, <1>21, <1>22, <1>23, <1>24, <1>25,
     <1>26, <1>27, <1>28, <1>29 DEF Next, Handle

-----------------------------------------------------------------------------
(* The theorems.                                                             *)

\* The invariant holds of the empty wiki, and every step keeps it.
LEMMA Start == Init => IInv
<1>. SUFFICES ASSUME Init PROVE IInv
  OBVIOUS
<1>1. TypeOK
  <2>1. NoRec \in Records /\ NoFile \in [kind : {"none", "img", "text"}, links : SUBSET Paths]
    BY DEF NoRec, NoFile, Records, AllPaths
  <2>2. list \in [Idx -> Records] /\ file \in [Paths -> [kind : {"none", "img", "text"}, links : SUBSET Paths]]
    BY <2>1 DEF Init
  <2>3. groups \in Seq(Idx \cup {NoIdx})
    <3>1. << >> \in Seq(Idx \cup {NoIdx})
      BY EmptySeq
    <3>. QED
      BY <3>1 DEF Init
  <2>4. next \in 0..MaxIdx
    BY BoundAssumption DEF Init
  <2>. HIDE DEF NoIdx
  <2>. QED
    BY <2>2, <2>3, <2>4 DEF Init, TypeOK, Labels, Records, AllPaths
<1>2. NamesMatch /\ ContentsInv /\ FileInv /\ AboveInv
  <2>1. /\ \A i \in Idx : list[i].ty = "none"
        /\ \A p \in AllPaths : byName[p] = NoIdx /\ Article(p).ty = "none"
        /\ \A p \in Paths : p \in AllPaths
    BY DEF Init, Article, RecordAt, NoRec, AllPaths
  <2>. QED
    BY <2>1 DEF NamesMatch, ContentsInv, FileInv, AboveInv, HasContent, Types
<1>3. NextInv
  BY BoundAssumption DEF Init, NextInv, NoIdx
<1>4. ControlInv /\ ReleaseInv /\ HoldsInv
  <2>1. ~GroupsFound
    BY DEF Init, GroupsFound
  <2>. QED
    BY <2>1 DEF Init, ControlInv, ReleaseInv, HoldsInv, Entering, Renaming
<1>5. GroupsInv /\ ArtInv /\ RoomInv /\ RemovalInv
  BY DEF Init, GroupsInv, ArtInv, RoomInv, RemovalInv, GroupsFound, Entering, Renaming, BeforeMove,
         Ahead, Removing
<1>. QED
  BY <1>1, <1>2, <1>3, <1>4, <1>5 DEF IInv

\* The invariant holds in every state that can be reached.
LEMMA Invariance == Spec => []IInv
<1>1. IInv /\ [Next]_vars => IInv'
  BY TypeStep, StoreStep, ControlStep, GroupsStep, HoldsStep, ReleaseStep, ArtStep, ContentsStep,
     FileStep, RoomStep, RemovalStep DEF IInv
<1>. QED
  BY Start, <1>1, PTL DEF Spec

\* Every variable keeps a value of its kind: no handler allocates beyond the bound that
\* its request was admitted under, and none looks for a group above the top one.
THEOREM TypeCorrect == Spec => []TypeOK
<1>1. IInv => TypeOK
  BY DEF IInv
<1>. QED
  BY <1>1, Invariance, PTL

\* The index by path and the list agree both ways, whatever was created, renamed, replaced
\* or left dead.
THEOREM NamesAlwaysMatch == Spec => []NamesMatch
<1>1. IInv => NamesMatch
  BY DEF IInv
<1>. QED
  BY <1>1, Invariance, PTL

\* Every article can be reached by browsing: the paths above it are groups.
THEOREM AllCanBeReached == Spec => []AboveAreGroups
<1>1. IInv => AboveAreGroups
  BY DEF IInv, AboveInv, AboveAreGroups
<1>. QED
  BY <1>1, Invariance, PTL

\* A path that is a group's stays one.
THEOREM GroupsNeverGo == Spec => GroupsStay
<1>1. IInv /\ [Next]_vars => [\A p \in AllPaths : IsGroup(p) => IsGroup(p)']_vars
  BY StoreStep DEF GroupsKept
<1>. QED
  BY <1>1, Invariance, PTL DEF Spec, GroupsStay

\* Nothing stays locked after a request, but the groups of a rename whose text does not
\* render.
THEOREM AllIsReleased == Spec => []LocksReleased
<1>1. IInv => LocksReleased
  BY DEF IInv, ReleaseInv, GroupsFound, ControlInv, LocksReleased
<1>. QED
  BY <1>1, Invariance, PTL

\* The text of a living article has its file.
THEOREM TextsHaveFiles == Spec => []TextHasFile
<1>1. IInv => TextHasFile
  BY DEF IInv, FileInv, TextHasFile
<1>. QED
  BY <1>1, Invariance, PTL
-----------------------------------------------------------------------------
(* Waiting: the part of RequestsEnd that is not about fairness.              *)

\* A handler goes on, unless it needs the lock of a path that is held already.
CanGoOn ==
  /\ pc \notin {"idle", "dead"}
  /\ pc = "lock" => path \notin held
  /\ pc = "lock_new" => newPath \notin held
  /\ pc = "lock_groups" /\ MoreGroups => NextGroup \notin held
  /\ pc = "rerender" /\ rer # {} =>
       \E i \in rer : list[i].ty = "none" \/ list[i].path \notin held
  /\ pc = "refs" /\ adds \cup dels # {} =>
       \E r \in (IF adds # {} THEN adds ELSE dels) : MaySkipRef(r) \/ r \notin held

\* The situations that Stuck lists are the only ones in which it does not.
NothingElseBlocks == pc \notin {"idle", "dead"} => CanGoOn \/ Stuck

\* Articles are known by indices that have been allocated.
UsedInv ==
  /\ \A i \in Idx : list[i].ty # "group" => list[i].items \subseteq 1..next
  /\ rer \subseteq 1..next

\* No article of the same path is entered as one that links to an article, but when a
\* rename brings an article to the path of one that linked to it: that rename gets stuck.
Apart(i, j) ==
  list[i].ty \notin {"none", "group"} /\ j \in list[i].items /\ list[j].ty # "none"
    => list[j].path # list[i].path
IsMoved == Renaming /\ pc \in {"lock_groups", "remove", "rerender"} /\ ~BeforeMove
ApartInv ==
  pc # "dead" =>
    \A i, j \in Idx : Apart(i, j) \/ (IsMoved /\ i = byName[newPath] /\ j \in rer)

\* So a new or deleted article is not in its own way when those are rendered again.
Rerenders ==
  \/ Entering /\ pc \in {"lock_groups", "insert", "rerender"}
  \/ op = "delete" /\ pc = "rerender"
RerInv == Rerenders => \A j \in rer : list[j].ty # "none" => list[j].path # path

OwnInv == UsedInv /\ ApartInv /\ RerInv

\* A step that moves no article and enters none that links.
Tame ==
  /\ byName' = byName /\ next' = next
  /\ \A i \in Idx :
       /\ list'[i].path = list[i].path
       /\ list'[i].ty = "none" <=> list[i].ty = "none"
       /\ list'[i].ty = "group" <=> list[i].ty = "group"
       /\ list[i].ty # "group" => list'[i].items \subseteq list[i].items

\* Such a step keeps the articles apart.
LEMMA TameKept ==
  ASSUME IInv, OwnInv, Tame, pc # "dead", RerInv', rer' \subseteq 1..next,
         IsMoved /\ pc' # "dead" =>
           \/ rer = {}
           \/ /\ IsMoved' /\ newPath' = newPath
              /\ \A j \in rer \ rer' : list[j].ty = "none" \/ list[j].path # newPath
  PROVE  OwnInv'
<1>. USE DEF OwnInv
<1>1. UsedInv'
  <2>1. next' = next
    BY DEF Tame
  <2>2. ASSUME NEW i \in Idx, list'[i].ty # "group" PROVE list'[i].items \subseteq 1..next'
    BY <2>1, <2>2 DEF Tame, UsedInv
  <2>. QED
    BY <2>1, <2>2 DEF UsedInv
<1>2. ApartInv'
  <2>. SUFFICES ASSUME pc' # "dead", NEW i \in Idx, NEW j \in Idx, ~Apart(i, j)'
                PROVE  IsMoved' /\ i = byName'[newPath'] /\ j \in rer'
    BY DEF ApartInv
  <2>1. /\ list'[i].ty \notin {"none", "group"} /\ j \in list'[i].items
        /\ list'[j].ty # "none" /\ list'[j].path = list'[i].path
    BY DEF Apart
  <2>2. /\ list[i].ty \notin {"none", "group"} /\ j \in list[i].items
        /\ list[j].ty # "none" /\ list[j].path = list[i].path
    BY <2>1 DEF Tame
  <2>3. IsMoved /\ i = byName[newPath] /\ j \in rer
    BY <2>2 DEF ApartInv, Apart
  <2>4. list[i].path = newPath
    BY <2>3, NextIsNat DEF IInv, NamesMatch, TypeOK, ControlInv, IsMoved, AllPaths, NoIdx, Idx
  <2>. QED
    BY <2>2, <2>3, <2>4 DEF Tame
<1>. QED
  BY <1>1, <1>2

\* A step that leaves the records alone is tame.
LEMMA SameIsTame == ASSUME UNCHANGED <<list, byName, next>> PROVE Tame
  BY DEF Tame

\* A step at a place where nothing is to be rendered again.
LEMMA Elsewhere ==
  ASSUME IInv, OwnInv, Tame, pc # "dead", rer' \subseteq rer, ~Rerenders', ~IsMoved
  PROVE  OwnInv'
<1>1. rer' \subseteq 1..next /\ RerInv'
  BY DEF OwnInv, UsedInv, RerInv
<1>. QED
  BY <1>1, TameKept

\* A step of a handler on to a place where the same are to be rendered again, or fewer.
LEMMA GoesOn ==
  ASSUME IInv, OwnInv, Tame, pc # "dead", UNCHANGED request, rer' \subseteq rer,
         Rerenders' => Rerenders, IsMoved => IsMoved' \/ pc' = "dead" \/ rer = {},
         \A j \in rer \ rer' : list[j].ty = "none" \/ list[j].path \notin held
  PROVE  OwnInv'
<1>1. path' = path /\ newPath' = newPath
  BY DEF request
<1>2. rer' \subseteq 1..next
  BY DEF OwnInv, UsedInv
<1>3. RerInv'
  <2>. SUFFICES ASSUME Rerenders', NEW j \in rer', list'[j].ty # "none"
                PROVE  list'[j].path # path'
    BY DEF RerInv
  <2>1. j \in rer /\ j \in Idx
    BY DEF IInv, TypeOK
  <2>2. list[j].ty # "none" /\ list'[j].path = list[j].path
    BY <2>1 DEF Tame
  <2>. QED
    BY <1>1, <2>1, <2>2 DEF OwnInv, RerInv
<1>4. IsMoved => newPath \in held
  BY DEF IsMoved, IInv, HoldsInv
<1>. QED
  BY <1>1, <1>2, <1>3, <1>4, TameKept

\* The request at hand is given up, or the process ends.
LEMMA EndsTame ==
  ASSUME IInv, OwnInv, UNCHANGED <<list, byName, next>>, pc # "dead", ~IsMoved,
         EndRequest \/ (pc' = "dead" /\ UNCHANGED <<request, job>>)
  PROVE  OwnInv'
<1>1. CASE EndRequest
  BY <1>1, SameIsTame, Elsewhere DEF EndRequest, Goto, Rerenders, Entering
<1>2. CASE pc' = "dead" /\ UNCHANGED <<request, job>>
  <2>1. ~Rerenders' /\ rer' = rer
    BY <1>2 DEF Rerenders, job
  <2>. QED
    BY <2>1, SameIsTame, Elsewhere
<1>. QED
  BY <1>1, <1>2

\* Where an article is found, those entered as linking to it are of other paths.
LEMMA FoundApart ==
  ASSUME IInv, OwnInv, pc = "lock", Article(path).ty \notin {"none", "group"}
  PROVE  /\ Article(path).items \subseteq 1..next
         /\ \A j \in Article(path).items : list[j].ty # "none" => list[j].path # path
<1>1. path \in AllPaths
  BY DEF IInv, TypeOK
<1>2. byName[path] \in Idx /\ Article(path) = list[byName[path]] /\ list[byName[path]].path = path
  <2>1. byName[path] # NoIdx /\ Article(path) = list[byName[path]]
    BY DEF Article, RecordAt, NoRec
  <2>. QED
    BY <1>1, <2>1 DEF IInv, TypeOK, NamesMatch
<1>3. list[byName[path]].items \subseteq 1..next /\ list[byName[path]].items \subseteq Idx
  BY <1>2 DEF OwnInv, UsedInv, IInv, TypeOK
<1>4. \A j \in Idx : Apart(byName[path], j)
  BY <1>2 DEF OwnInv, ApartInv, IsMoved
<1>. QED
  BY <1>2, <1>3, <1>4 DEF Apart

\* A new article and one that is moved: what becomes of the records.
LEMMA EnteredRecords ==
  ASSUME IInv, Insert \/ PutRenamed
  PROVE  LET item == next + 1
         IN /\ item \in Idx /\ next' >= item /\ list'[item] = Entry
            /\ byName'[newPath] = item /\ Entry.path = newPath
            /\ \A i \in Idx \ {item} :
                 \/ list'[i].ty = "group"
                 \/ list'[i] = IF i = art THEN NoRec ELSE list[i]
            /\ \A j \in 1..next :
                 /\ j # art => /\ list'[j].path = list[j].path
                               /\ list'[j].ty = "none" <=> list[j].ty = "none"
                 /\ j = art => list'[j] = NoRec
<1>. DEFINE item == next + 1
<1>0. TypeOK /\ NamesMatch /\ NextInv /\ next \in Nat /\ MaxIdx \in Nat /\ Idx \subseteq Nat
  BY NextIsNat DEF IInv
<1>1. /\ Enters /\ path \notin GroupLocks /\ GroupLocks \subseteq AllPaths
      /\ Entry.path = newPath
      /\ art # NoIdx => art = byName[path] /\ art \in Idx /\ list[art].ty = "text"
      /\ path \in AllPaths
  BY EntersFrame DEF IInv, TypeOK
<1>2. /\ item \in Idx /\ next' \in item..MaxIdx /\ list'[item] = Entry /\ byName'[newPath] = item
      /\ \A g \in GroupLocks :
            /\ byName[g] # NoIdx => byName'[g] = byName[g]
            /\ byName[g] = NoIdx => byName'[g] > item
            /\ list'[byName'[g]].ty = "group" /\ list'[byName'[g]].path = g
      /\ \A i \in Idx \ {item} :
            (\A g \in GroupLocks : byName'[g] # i) =>
               list'[i] = IF i = art THEN NoRec ELSE list[i]
  BY <1>1 DEF Enters
<1>3. \A i \in Idx \ {item} :
        list'[i].ty = "group" \/ list'[i] = IF i = art THEN NoRec ELSE list[i]
  BY <1>2
<1>4. ASSUME NEW j \in 1..next, NEW g \in GroupLocks, byName'[g] = j
      PROVE  /\ list[j].path = g /\ list[j].ty # "none" /\ list'[j].path = g
             /\ list'[j].ty # "none" /\ j # art
  <2>1. ~(j > item)
    BY <1>0
  <2>2. byName[g] = j /\ byName[g] # NoIdx
    BY <1>2, <1>4, <2>1
  <2>3. g \in AllPaths /\ g # path
    BY <1>1
  <2>4. list[j].path = g /\ list[j].ty # "none"
    BY <1>0, <2>2, <2>3 DEF NamesMatch
  <2>5. j # art
    BY <1>0, <1>1, <2>2, <2>3, <2>4 DEF NamesMatch
  <2>. QED
    BY <1>2, <1>4, <2>4, <2>5
<1>5. ASSUME NEW j \in 1..next
      PROVE  /\ j # art => /\ list'[j].path = list[j].path
                           /\ list'[j].ty = "none" <=> list[j].ty = "none"
             /\ j = art => list'[j] = NoRec
  <2>1. j \in Idx \ {item}
    BY <1>0 DEF TypeOK, Idx
  <2>. QED
    BY <1>2, <1>4, <2>1
<1>. QED
  BY <1>0, <1>1, <1>2, <1>3, <1>5

\* A new article takes over those that link to its path; a moved one keeps its own.
LEMMA OwnEnters ==
  ASSUME IInv, OwnInv, Insert \/ PutRenamed
  PROVE  OwnInv'
<1>. DEFINE item == next + 1
<1>0. TypeOK /\ NextInv /\ next \in Nat /\ MaxIdx \in Nat /\ Idx \subseteq Nat
  BY NextIsNat DEF IInv
<1>1. /\ item \in Idx /\ next' >= item /\ list'[item] = Entry
      /\ byName'[newPath] = item /\ Entry.path = newPath
      /\ \A i \in Idx \ {item} :
                 \/ list'[i].ty = "group"
                 \/ list'[i] = IF i = art THEN NoRec ELSE list[i]
      /\ \A j \in 1..next :
                 /\ j # art => /\ list'[j].path = list[j].path
                               /\ list'[j].ty = "none" <=> list[j].ty = "none"
                 /\ j = art => list'[j] = NoRec
  BY EnteredRecords
<1>2. pc \in {"insert", "put"} /\ pc' # "dead" /\ UNCHANGED request
      /\ rer' = Entry.items /\ Entry.items \subseteq 1..next
  <2>1. CASE Insert
    BY <2>1 DEF Insert, Goto, Entry, OwnInv, UsedInv
  <2>2. CASE PutRenamed
    <3>1. pc = "put" /\ pc' = "lock_groups" /\ UNCHANGED request /\ rer' = list[art].items
      BY <2>2 DEF PutRenamed, Goto
    <3>2. art \in Idx /\ list[art].ty = "text"
      BY <3>1, <2>2, GetsReady DEF PutRenamed
    <3>3. Entry = [list[art] EXCEPT !.path = newPath]
      BY <3>1 DEF Entry
    <3>4. Entry.items = list[art].items
      BY <1>0, <3>2, <3>3 DEF TypeOK
    <3>. QED
      BY <3>1, <3>2, <3>4 DEF OwnInv, UsedInv
  <2>. QED
    BY <2>1, <2>2
<1>3. UsedInv'
  <2>1. next' \in Nat /\ 1..next \subseteq 1..next'
    BY <1>0, <1>1, TypeStep DEF Next, Handle, TypeOK
  <2>2. ASSUME NEW i \in Idx, list'[i].ty # "group" PROVE list'[i].items \subseteq 1..next
    <3>1. CASE i = item
      BY <1>1, <1>2, <3>1
    <3>2. CASE i # item
      <4>1. list'[i] = NoRec \/ list'[i] = list[i]
        BY <1>1, <2>2, <3>2
      <4>. QED
        BY <2>2, <4>1 DEF NoRec, OwnInv, UsedInv
    <3>. QED
      BY <3>1, <3>2
  <2>. QED
    BY <1>2, <2>1, <2>2 DEF UsedInv
<1>4. \A j \in 1..next : list'[j].ty # "none" => /\ list[j].ty # "none" /\ j # art
                                                 /\ list'[j].path = list[j].path
  BY <1>1 DEF NoRec
<1>5. ASSUME NEW i \in Idx \ {item}, NEW j \in Idx PROVE Apart(i, j)'
  <2>. SUFFICES ASSUME list'[i].ty \notin {"none", "group"}, j \in list'[i].items,
                       list'[j].ty # "none"
                PROVE  list'[j].path # list'[i].path
    BY DEF Apart
  <2>1. list'[i] = list[i]
    BY <1>1 DEF NoRec
  <2>2. j \in 1..next
    BY <2>1 DEF OwnInv, UsedInv
  <2>3. ~IsMoved
    BY <1>2 DEF IsMoved
  <2>4. Apart(i, j)
    BY <1>2, <2>3 DEF OwnInv, ApartInv
  <2>. QED
    BY <1>4, <2>1, <2>2, <2>4 DEF Apart
<1>6. CASE Insert
  <2>1. /\ Entering /\ newPath = path /\ Rerenders /\ op' = op /\ path' = path /\ newPath' = newPath
        /\ rer' = rer
    BY <1>6 DEF Insert, IInv, ControlInv, Entering, Rerenders, request
  <2>2. \A j \in rer : j \in 1..next /\ (list'[j].ty # "none" => list'[j].path # path)
    BY <1>4, <2>1 DEF OwnInv, RerInv, UsedInv
  <2>3. list'[item].items = rer /\ list'[item].path = path
    BY <1>1, <1>2, <2>1
  <2>4. ASSUME NEW i \in Idx, NEW j \in Idx PROVE Apart(i, j)'
    <3>1. CASE i = item
      BY <2>2, <2>3, <3>1 DEF Apart
    <3>. QED
      BY <1>5, <3>1
  <2>5. ApartInv'
    BY <2>4 DEF ApartInv
  <2>6. RerInv'
    BY <2>1, <2>2 DEF RerInv
  <2>. QED
    BY <1>3, <2>5, <2>6 DEF OwnInv
<1>7. CASE PutRenamed
  <2>1. /\ op = "edit" /\ newPath # path /\ op' = op /\ newPath' = newPath /\ path' = path
        /\ pc' = "lock_groups" /\ gpath' = path
    BY <1>7 DEF PutRenamed, Goto, IInv, ControlInv, request
  <2>2. IsMoved' /\ ~Rerenders'
    BY <2>1 DEF IsMoved, Renaming, BeforeMove, Rerenders, Entering
  <2>3. ASSUME NEW i \in Idx, NEW j \in Idx
        PROVE  Apart(i, j)' \/ (i = byName'[newPath'] /\ j \in rer')
    <3>1. CASE i = item
      BY <1>1, <1>2, <2>1, <3>1 DEF Apart
    <3>. QED
      BY <1>5, <3>1
  <2>4. ApartInv'
    BY <2>2, <2>3 DEF ApartInv
  <2>. QED
    BY <1>3, <2>2, <2>4 DEF OwnInv, RerInv
<1>. QED
  BY <1>6, <1>7

\* A link that is registered leads to another path than the article's own, which is locked.
LEMMA OwnAddRef ==
  ASSUME IInv, OwnInv, NEW r \in Paths, AddRef(r)
  PROVE  OwnInv'
<1>0. /\ TypeOK /\ NamesMatch /\ NextInv /\ next \in Nat /\ MaxIdx \in Nat /\ Idx \subseteq Nat
      /\ r \in AllPaths
  BY NextIsNat DEF IInv, AllPaths
<1>1. /\ pc = "refs" /\ pc' = pc /\ r \in adds /\ r \notin held /\ rer' = rer
  BY DEF AddRef
<1>2. art \in Idx /\ art <= next /\ list[art].path = path /\ path # r
  <2>1. op \in {"new", "edit"} /\ path \in AllPaths /\ path \in held
    BY <1>1 DEF IInv, ControlInv, HoldsInv, AllPaths
  <2>2. art = byName[path] /\ art # NoIdx
    BY <1>1, <2>1 DEF IInv, ArtInv, Entering, BeforeMove
  <2>. QED
    BY <1>0, <1>1, <2>1, <2>2 DEF TypeOK, NamesMatch, NextInv
<1>3. ~IsMoved /\ ~IsMoved' /\ ~Rerenders'
  BY <1>1 DEF IsMoved, Rerenders
<1>4. \A i, j \in Idx : Apart(i, j)
  BY <1>1, <1>3 DEF OwnInv, ApartInv
<1>5. RerInv'
  BY <1>3 DEF RerInv
<1>6. CASE byName[r] = NoIdx
  <2>. DEFINE item == next + 1
  <2>1. /\ item \in Idx /\ next' = item
        /\ list' = [list EXCEPT ![item] = [ty |-> "dead", path |-> r, items |-> {art}]]
    BY <1>0, <1>1, <1>6, RoomForRef DEF AddRef, IInv
  <2>2. /\ list'[item] = [ty |-> "dead", path |-> r, items |-> {art}]
        /\ \A i \in Idx : i # item => list'[i] = list[i]
    BY <1>0, <2>1 DEF TypeOK
  <2>3. UsedInv'
    <3>1. \A i \in Idx : list'[i].ty # "group" => list'[i].items \subseteq 1..item
      <4>1. \A i \in Idx : list[i].ty # "group" => list[i].items \subseteq 1..next
        BY DEF OwnInv, UsedInv
      <4>2. 1..next \subseteq 1..item /\ art \in 1..item
        BY <1>0, <1>2 DEF Idx
      <4>. QED
        BY <2>2, <4>1, <4>2
    <3>2. rer' \subseteq 1..item
      BY <1>0, <1>1 DEF OwnInv, UsedInv
    <3>. QED
      BY <2>1, <3>1, <3>2 DEF UsedInv
  <2>4. ASSUME NEW i \in Idx, NEW j \in Idx PROVE Apart(i, j)'
    <3>1. CASE i = item
      BY <1>0, <1>2, <2>2, <3>1 DEF Apart
    <3>2. CASE i # item
      <4>. SUFFICES ASSUME list[i].ty \notin {"none", "group"}, j \in list[i].items
                    PROVE  Apart(i, j)'
        BY <2>2, <3>2 DEF Apart
      <4>1. j # item
        BY <1>0 DEF OwnInv, UsedInv
      <4>. QED
        BY <1>4, <2>2, <3>2, <4>1 DEF Apart
    <3>. QED
      BY <3>1, <3>2
  <2>. QED
    BY <1>5, <2>3, <2>4 DEF OwnInv, ApartInv
<1>7. CASE byName[r] # NoIdx
  <2>1. byName[r] \in Idx /\ list[byName[r]].path = r /\ next' = next
    BY <1>0, <1>7 DEF AddRef, TypeOK, NamesMatch
  <2>2. \A i \in Idx : /\ list'[i].ty = list[i].ty /\ list'[i].path = list[i].path
                       /\ i # byName[r] => list'[i].items = list[i].items
                       /\ i = byName[r] => list'[i].items \subseteq list[i].items \cup {art}
    <3>1. list' = list \/ list' = [list EXCEPT ![byName[r]].items = @ \cup {art}]
      BY <1>7 DEF AddRef
    <3>. QED
      BY <1>0, <2>1, <3>1 DEF TypeOK
  <2>3. UsedInv'
    <3>1. art \in 1..next
      BY <1>0, <1>2 DEF Idx
    <3>. QED
      BY <1>1, <2>1, <2>2, <3>1 DEF OwnInv, UsedInv
  <2>4. ASSUME NEW i \in Idx, NEW j \in Idx PROVE Apart(i, j)'
    <3>1. CASE i = byName[r] /\ j = art
      BY <1>2, <2>1, <2>2, <3>1 DEF Apart
    <3>2. CASE ~(i = byName[r] /\ j = art)
      BY <1>4, <2>2, <3>2 DEF Apart
    <3>. QED
      BY <3>1, <3>2
  <2>. QED
    BY <1>5, <2>3, <2>4 DEF OwnInv, ApartInv
<1>. QED
  BY <1>6, <1>7

\* Every step keeps the articles apart.
LEMMA OwnStep == IInv /\ OwnInv /\ [Next]_vars => OwnInv'
<1>. SUFFICES ASSUME IInv, OwnInv, [Next]_vars PROVE OwnInv'
  OBVIOUS
<1>0. TypeOK /\ ControlInv /\ GroupsInv /\ RemovalInv /\ HoldsInv /\ ArtInv
  BY DEF IInv
<1>a. pc = "idle" => ~IsMoved /\ ~Rerenders
  BY DEF IsMoved, Rerenders
<1>. USE DEF store, locks
<1>1. ASSUME NEW p \in Paths, NEW L \in Texts, New(p, L) PROVE OwnInv'
  <2>1. pc = "idle" /\ pc' = "lock" /\ UNCHANGED <<list, byName, next, rer>>
    BY <1>1 DEF New, Request, Goto, job
  <2>. QED
    BY <2>1, SameIsTame, Elsewhere DEF IsMoved, Rerenders
<1>2. ASSUME NEW p \in Paths, Upload(p) PROVE OwnInv'
  <2>1. pc = "idle" /\ pc' = "lock" /\ UNCHANGED <<list, byName, next, rer>>
    BY <1>2 DEF Upload, Request, Goto, job
  <2>. QED
    BY <2>1, SameIsTame, Elsewhere DEF IsMoved, Rerenders
<1>3. ASSUME NEW p \in Paths, NEW q \in Paths, NEW L \in Texts, Edit(p, q, L) PROVE OwnInv'
  <2>1. pc = "idle" /\ pc' = "lock" /\ UNCHANGED <<list, byName, next, rer>>
    BY <1>3 DEF Edit, Request, Goto, job
  <2>. QED
    BY <2>1, SameIsTame, Elsewhere DEF IsMoved, Rerenders
<1>4. ASSUME NEW p \in Paths, Delete(p) PROVE OwnInv'
  <2>1. pc = "idle" /\ pc' = "lock" /\ UNCHANGED <<list, byName, next, rer>>
    BY <1>4 DEF Delete, Request, Goto, job
  <2>. QED
    BY <2>1, SameIsTame, Elsewhere DEF IsMoved, Rerenders
<1>5. CASE LockNew
  <2>1. pc = "lock" /\ Entering /\ UNCHANGED <<list, byName, next>> /\ ~IsMoved
    BY <1>5 DEF LockNew, IsMoved, Entering
  <2>2. CASE Article(path).ty \in {"none", "dead"}
    <3>1. pc' = "lock_groups" /\ rer' = Article(path).items /\ UNCHANGED request
      BY <1>5, <2>2 DEF LockNew, Goto
    <3>2. path' = path
      BY <3>1 DEF request
    <3>3. rer' \subseteq 1..next /\ \A j \in rer' : list[j].ty # "none" => list[j].path # path
      <4>1. CASE Article(path).ty = "none"
        BY <1>0, <3>1, <4>1 DEF Article, RecordAt, NoRec, IInv, NamesMatch, TypeOK
      <4>2. CASE Article(path).ty = "dead"
        BY <2>1, <3>1, <4>2, FoundApart
      <4>. QED
        BY <2>2, <4>1, <4>2
    <3>4. RerInv'
      BY <2>1, <3>2, <3>3 DEF RerInv
    <3>. QED
      BY <2>1, <3>1, <3>3, <3>4, SameIsTame, TameKept
  <2>3. CASE Article(path).ty \notin {"none", "dead"}
    <3>1. EndRequest
      BY <1>5, <2>3 DEF LockNew
    <3>. QED
      BY <2>1, <3>1, EndsTame
  <2>. QED
    BY <2>2, <2>3
<1>6. CASE LockEdit
  <2>1. pc = "lock" /\ UNCHANGED <<list, byName, next>> /\ ~IsMoved
    BY <1>6 DEF LockEdit, IsMoved
  <2>2. EndRequest \/ (pc' \in {"render", "lock_new"} /\ rer' = rer)
    BY <1>6 DEF LockEdit, Goto
  <2>3. CASE EndRequest
    BY <2>1, <2>3, EndsTame
  <2>. QED
    BY <2>1, <2>2, <2>3, SameIsTame, Elsewhere DEF Rerenders
<1>7. CASE LockDelete
  <2>1. pc = "lock" /\ op = "delete" /\ ~IsMoved
    BY <1>7 DEF LockDelete, IsMoved
  <2>2. CASE Article(path).ty \in {"text", "img"}
    <3>1. /\ list' = [list EXCEPT ![byName[path]].ty = "dead"]
          /\ pc' = "rerender" /\ rer' = Article(path).items
          /\ UNCHANGED <<byName, next, request>>
      BY <1>7, <2>2 DEF LockDelete, Goto
    <3>2. path' = path
      BY <3>1 DEF request
    <3>3. /\ byName[path] \in Idx /\ list[byName[path]].ty \in {"text", "img"}
          /\ rer' = list[byName[path]].items
      <4>1. byName[path] # NoIdx /\ Article(path) = list[byName[path]]
        BY <2>2 DEF Article, RecordAt, NoRec
      <4>. QED
        BY <1>0, <2>2, <3>1, <4>1 DEF TypeOK
    <3>4. Tame
      BY <1>0, <3>1, <3>3 DEF Tame, TypeOK
    <3>5. rer' \subseteq 1..next /\ \A j \in rer' : list[j].ty # "none" => list[j].path # path
      BY <2>1, <2>2, <3>1, FoundApart
    <3>6. RerInv'
      <4>1. \A j \in rer' : j \in Idx
        BY <1>0, <3>3 DEF TypeOK
      <4>. QED
        BY <3>2, <3>4, <3>5, <4>1 DEF RerInv, Tame
    <3>. QED
      BY <2>1, <3>1, <3>4, <3>5, <3>6, TameKept
  <2>3. CASE Article(path).ty \notin {"text", "img"}
    <3>1. EndRequest /\ UNCHANGED <<list, byName, next>>
      BY <1>7, <2>3 DEF LockDelete
    <3>. QED
      BY <2>1, <3>1, EndsTame
  <2>. QED
    BY <2>2, <2>3
<1>8. CASE LockNewPath
  <2>1. pc = "lock_new" /\ op = "edit" /\ UNCHANGED <<list, byName, next>> /\ ~IsMoved
    BY <1>0, <1>8 DEF LockNewPath, IsMoved, ControlInv, Renaming
  <2>2. \/ EndRequest
        \/ pc' = "dead" /\ UNCHANGED <<request, job>>
        \/ pc' = "lock_groups" /\ rer' = rer /\ UNCHANGED request
    BY <1>8 DEF LockNewPath, Goto
  <2>3. CASE EndRequest \/ (pc' = "dead" /\ UNCHANGED <<request, job>>)
    BY <2>1, <2>3, EndsTame
  <2>4. CASE pc' = "lock_groups" /\ rer' = rer /\ UNCHANGED request
    BY <2>1, <2>4, SameIsTame, Elsewhere DEF Rerenders, Entering, request
  <2>. QED
    BY <2>2, <2>3, <2>4
<1>9. CASE LockGroup
  <2>1. pc = "lock_groups" /\ UNCHANGED <<list, byName, next, pc, request, gpath, rer>>
    BY <1>9 DEF LockGroup
  <2>2. (IsMoved' <=> IsMoved) /\ (Rerenders' <=> Rerenders)
    BY <2>1 DEF IsMoved, Rerenders, Renaming, Entering, BeforeMove, request
  <2>. QED
    BY <2>1, <2>2, SameIsTame, GoesOn
<1>10. CASE GroupsBlocked
  <2>1. /\ op # "delete" /\ gpath = newPath
        /\ EndRequest \/ (pc' = "dead" /\ UNCHANGED <<request, job>>)
        /\ UNCHANGED <<list, byName, next>> /\ pc = "lock_groups"
    BY <1>0, <1>10, RemovalNotBlocked DEF GroupsBlocked
  <2>. QED
    BY <2>1, EndsTame DEF IsMoved, BeforeMove
<1>11. CASE GroupsLocked
  <2>1. /\ pc = "lock_groups" /\ UNCHANGED <<list, byName, next, request, rer>>
        /\ pc' = IF op \in {"new", "upload"} THEN "insert"
                 ELSE IF op = "edit" /\ gpath = newPath THEN "render" ELSE "remove"
    BY <1>11 DEF GroupsLocked, Goto, job
  <2>2. Rerenders' => Rerenders
    BY <2>1 DEF Rerenders, Entering, request
  <2>3. IsMoved => IsMoved'
    BY <2>1 DEF IsMoved, Renaming, BeforeMove, request
  <2>. QED
    BY <2>1, <2>2, <2>3, SameIsTame, GoesOn
<1>12. CASE Insert
  BY <1>12, OwnEnters
<1>13. ASSUME NEW i \in Idx, Rerender(i) PROVE OwnInv'
  <2>1. /\ pc = "rerender" /\ i \in rer /\ list[i].path \notin held
        /\ UNCHANGED <<list, byName, next, request, gpath>>
        /\ (rer' = rer \ {i} /\ pc' = pc) \/ (pc' = "dead" /\ rer' = rer)
    BY <1>13 DEF Rerender, Goto
  <2>2. Rerenders' => Rerenders
    BY <2>1 DEF Rerenders, Entering, request
  <2>3. IsMoved => IsMoved' \/ pc' = "dead"
    BY <2>1 DEF IsMoved, Renaming, BeforeMove, request
  <2>4. rer' \subseteq rer /\ \A j \in rer \ rer' : j = i
    BY <2>1
  <2>. QED
    BY <2>1, <2>2, <2>3, <2>4, SameIsTame, GoesOn
<1>14. ASSUME NEW i \in Idx, RerenderGone(i) PROVE OwnInv'
  <2>1. /\ pc = "rerender" /\ i \in rer /\ list[i].ty = "none"
        /\ UNCHANGED <<list, byName, next, request, gpath, pc>> /\ rer' = rer \ {i}
    BY <1>14 DEF RerenderGone
  <2>2. Rerenders' => Rerenders
    BY <2>1 DEF Rerenders, Entering, request
  <2>3. IsMoved => IsMoved'
    BY <2>1 DEF IsMoved, Renaming, BeforeMove, request
  <2>4. rer' \subseteq rer /\ \A j \in rer \ rer' : j = i
    BY <2>1
  <2>. QED
    BY <2>1, <2>2, <2>3, <2>4, SameIsTame, GoesOn
<1>15. CASE Rerendered
  <2>1. /\ pc = "rerender" /\ rer = {} /\ UNCHANGED <<list, byName, next, request, rer>>
        /\ pc' = IF op = "delete" THEN "lock_groups"
                 ELSE CASE op = "new" -> "refs" [] op = "upload" -> "write" [] OTHER -> "finish"
    BY <1>15 DEF Rerendered, Goto
  <2>2. Rerenders' => Rerenders
    BY <2>1 DEF Rerenders, Entering, request
  <2>. QED
    BY <2>1, <2>2, SameIsTame, GoesOn
<1>16. ASSUME NEW r \in Paths, SkipRef(r) PROVE OwnInv'
  <2>1. pc = "refs" /\ pc' = pc /\ UNCHANGED <<list, byName, next, rer>>
    BY <1>16 DEF SkipRef
  <2>. QED
    BY <2>1, SameIsTame, Elsewhere DEF IsMoved, Rerenders
<1>17. ASSUME NEW r \in Paths, AddRef(r) PROVE OwnInv'
  BY <1>17, OwnAddRef
<1>18. ASSUME NEW r \in Paths, RemoveRef(r) PROVE OwnInv'
  <2>1. /\ pc = "refs" /\ pc' = pc /\ UNCHANGED <<byName, next, rer>>
        /\ list' \in {list, [list EXCEPT ![byName[r]].items = @ \ {art}]}
    BY <1>18 DEF RemoveRef
  <2>2. Tame
    BY <1>0, <2>1 DEF Tame, TypeOK
  <2>. QED
    BY <2>1, <2>2, Elsewhere DEF IsMoved, Rerenders
<1>19. CASE RefsDone
  <2>1. pc = "refs" /\ pc' = "write" /\ UNCHANGED <<list, byName, next, rer>>
    BY <1>19 DEF RefsDone, Goto, job
  <2>. QED
    BY <2>1, SameIsTame, Elsewhere DEF IsMoved, Rerenders
<1>20. CASE WriteNew
  <2>1. pc = "write" /\ pc' \in {"finish", "dead"} /\ UNCHANGED <<list, byName, next, rer>>
    BY <1>20 DEF WriteNew, Goto, job
  <2>. QED
    BY <2>1, SameIsTame, Elsewhere DEF IsMoved, Rerenders
<1>21. CASE RenderFails
  <2>1. /\ pc = "render" /\ UNCHANGED <<list, byName, next>>
        /\ EndRequest \/ (pc' = "dead" /\ UNCHANGED <<request, job>>)
    BY <1>21 DEF RenderFails, Goto
  <2>. QED
    BY <2>1, EndsTame DEF IsMoved
<1>22. CASE RenderEdit
  <2>1. pc = "render" /\ pc' \in {"refs", "put", "dead"} /\ UNCHANGED <<list, byName, next, rer>>
    BY <1>22 DEF RenderEdit, Goto, job
  <2>. QED
    BY <2>1, SameIsTame, Elsewhere DEF IsMoved, Rerenders
<1>23. CASE WriteEdit
  <2>1. pc = "write" /\ pc' = "put" /\ UNCHANGED <<list, byName, next, rer>>
    BY <1>23 DEF WriteEdit, Goto, job
  <2>. QED
    BY <2>1, SameIsTame, Elsewhere DEF IsMoved, Rerenders
<1>24. CASE WriteDelete
  <2>1. pc = "write" /\ pc' \in {"finish", "dead"} /\ UNCHANGED <<list, byName, next, rer>>
    BY <1>24 DEF WriteDelete, Goto, job
  <2>. QED
    BY <2>1, SameIsTame, Elsewhere DEF IsMoved, Rerenders
<1>25. CASE PutInPlace
  <2>1. pc = "put" /\ pc' = "finish" /\ UNCHANGED <<list, byName, next, rer>>
    BY <1>25 DEF PutInPlace, Goto, job
  <2>. QED
    BY <2>1, SameIsTame, Elsewhere DEF IsMoved, Rerenders
<1>26. CASE PutRenamed
  BY <1>26, OwnEnters
<1>27. CASE Remove
  <2>. DEFINE losing == {k \in 1..Len(groups) : Loses(k)}
  <2>1. /\ pc = "remove" /\ UNCHANGED <<byName, next, request, rer>>
        /\ pc' = "dead" \/ pc' = IF op = "edit" THEN "rerender"
                                 ELSE IF was = "text" THEN "write" ELSE "finish"
        /\ \/ list' = list
           \/ list' = [i \in Idx |->
                        IF \E k \in losing : groups[k] = i
                          THEN [list[i] EXCEPT !.items = @ \
                                  {NodeOf(art, k - 1) : k \in {k \in losing : groups[k] = i}}]
                          ELSE list[i]]
    BY <1>27 DEF Remove, Goto, job
  <2>. HIDE DEF losing
  <2>2. Tame
    <3>1. \A i \in Idx : /\ list'[i].ty = list[i].ty /\ list'[i].path = list[i].path
                         /\ list'[i].items \subseteq list[i].items
      BY <1>0, <2>1 DEF TypeOK
    <3>. QED
      BY <2>1, <3>1 DEF Tame
  <2>3. ~Rerenders'
    BY <1>0, <2>1 DEF Rerenders, Entering, ControlInv, Renaming, request
  <2>4. IsMoved => IsMoved' \/ pc' = "dead"
    BY <2>1 DEF IsMoved, Renaming, BeforeMove, request
  <2>. QED
    BY <2>1, <2>2, <2>3, <2>4, GoesOn
<1>28. CASE Finish
  <2>1. pc = "finish" /\ UNCHANGED <<list, byName, next>> /\ EndRequest
    BY <1>28 DEF Finish
  <2>. QED
    BY <2>1, EndsTame DEF IsMoved
<1>29. CASE UNCHANGED vars
  BY <1>29 DEF vars, request, job, OwnInv, UsedInv, ApartInv, Apart, IsMoved, Renaming, BeforeMove,
     RerInv, Rerenders, Entering
<1>. QED
  BY <1>1, <1>2, <1>3, <1>4, <1>5, <1>6, <1>7, <1>8, <1>9, <1>10, <1>11, <1>12, <1>13,
     <1>14, <1>15, <1>16, <1>17, <1>18, <1>19, <1>20, <1>21, <1>22, <1>23, <1>24, <1>25,
     <1>26, <1>27, <1>28, <1>29 DEF Next, Handle

\* So it is in every state that is reached.
LEMMA OwnHolds == Spec => [](IInv /\ OwnInv)
<1>1. Init => OwnInv
  <2>. SUFFICES ASSUME Init PROVE OwnInv
    OBVIOUS
  <2>1. \A i \in Idx : list[i].items = {} /\ list[i].ty = "none"
    BY DEF Init, NoRec
  <2>2. pc = "idle" /\ rer = {}
    BY DEF Init
  <2>. QED
    BY <2>1, <2>2 DEF OwnInv, UsedInv, ApartInv, Apart, RerInv, Rerenders
<1>. QED
  BY <1>1, OwnStep, Invariance, PTL DEF Spec

\* The next group is free when nothing that Stuck lists is in the way.
LEMMA GroupIsFree ==
  ASSUME IInv, pc = "lock_groups", MoreGroups, ~Stuck
  PROVE  NextGroup \notin held
<1>0. TypeOK /\ ControlInv /\ GroupsInv /\ RemovalInv /\ ArtInv
  BY DEF IInv
<1>. DEFINE n == Len(groups) + 1
<1>1. /\ gpath \in Paths /\ NextGroup = GroupPath(gpath, n) /\ n \in 1..NumGroups(gpath)
      /\ NextGroup \in AllPaths
  BY <1>0, OneMoreGroup
<1>2. Len(gpath) \in Nat /\ NumGroups(gpath) \in 0..Len(gpath) /\ n - 1 \in Nat /\ n \in 1..Len(gpath)
  BY <1>0, <1>1, GroupPaths, LenProperties DEF TypeOK
<1>3. NextGroup # gpath /\ NextGroup \in Prefixes(gpath)
  BY <1>1, <1>2, GroupPaths
<1>4. NextGroup \notin GroupLocks
  <2>1. \A k \in 1..Len(groups) : k \in 1..Len(gpath) /\ k # n
    BY <1>2
  <2>2. \A k \in 1..Len(groups) : GroupPath(gpath, k) # GroupPath(gpath, n)
    BY <1>1, <1>2, <2>1, GroupPaths
  <2>. QED
    BY <1>1, <2>2 DEF GroupLocks
<1>5. gpath = path \/ gpath = newPath
  BY <1>0 DEF GroupsInv
<1>6. NextGroup # path
  <2>. SUFFICES ASSUME NextGroup = path PROVE FALSE
    OBVIOUS
  <2>1. gpath = newPath /\ newPath # path /\ path \in Prefixes(newPath)
    BY <1>3, <1>5
  <2>2. op = "edit"
    BY <1>0, <2>1 DEF ControlInv
  <2>. QED
    BY <2>1, <2>2 DEF Stuck, RenameInItsOwnWay
<1>7. NextGroup # newPath
  <2>. SUFFICES ASSUME NextGroup = newPath PROVE FALSE
    OBVIOUS
  <2>1. gpath = path /\ newPath # path
    BY <1>3, <1>5
  <2>2. Renaming /\ ~BeforeMove
    BY <1>0, <2>1 DEF ControlInv, Renaming, BeforeMove
  <2>3. IsGroup(newPath)
    BY <1>0, <1>1, <2>1, <2>2 DEF RemovalInv, Removing
  <2>4. byName[newPath] # NoIdx /\ list[byName[newPath]].ty = "text"
    BY <1>0, <2>2 DEF ArtInv
  <2>. QED
    BY <2>3, <2>4 DEF IsGroup, Article, RecordAt
<1>8. held \subseteq {path, newPath} \cup GroupLocks
  BY DEF IInv, ReleaseInv, Stuck
<1>. QED
  BY <1>4, <1>6, <1>7, <1>8

\* A handler that does not get stuck in the ways that are listed goes on.
LEMMA HandlersGoOn == IInv /\ OwnInv => NothingElseBlocks
<1>. SUFFICES ASSUME IInv, OwnInv, pc \notin {"idle", "dead"}, ~Stuck PROVE CanGoOn
  BY DEF NothingElseBlocks
<1>0. TypeOK /\ ControlInv /\ GroupsInv
  BY DEF IInv
<1>1. held \subseteq (IF pc = "lock" THEN {} ELSE IF pc = "lock_new" THEN {path} ELSE {path, newPath})
                     \cup (IF GroupsFound THEN GroupLocks ELSE {})
  BY DEF IInv, ReleaseInv, Stuck
<1>2. pc = "lock" => path \notin held
  BY <1>1 DEF GroupsFound
<1>3. pc = "lock_new" => newPath \notin held
  BY <1>0, <1>1 DEF GroupsFound, ControlInv, Renaming
<1>4. pc = "lock_groups" /\ MoreGroups => NextGroup \notin held
  BY GroupIsFree
<1>5. ASSUME pc = "rerender", rer # {}
      PROVE  \E i \in rer : list[i].ty = "none" \/ list[i].path \notin held
  <2>1. PICK i \in rer : TRUE
    BY <1>5
  <2>2. held \subseteq {path, newPath}
    BY <1>1, <1>5 DEF GroupsFound
  <2>3. CASE Renaming
    BY <1>5, <2>1, <2>2, <2>3 DEF Stuck, RenameInItsOwnWay, Renaming
  <2>4. CASE ~Renaming
    <3>1. op # "edit" /\ newPath = path /\ Rerenders
      BY <1>0, <1>5, <2>4 DEF ControlInv, Rerenders, Entering, TypeOK
    <3>. QED
      BY <2>1, <2>2, <3>1 DEF OwnInv, RerInv
  <2>. QED
    BY <2>3, <2>4
<1>6. ASSUME pc = "refs", adds \cup dels # {}
      PROVE  \E r \in (IF adds # {} THEN adds ELSE dels) : MaySkipRef(r) \/ r \notin held
  <2>1. PICK r \in (IF adds # {} THEN adds ELSE dels) : TRUE
    BY <1>6
  <2>2. r \in adds \cup dels /\ r # newPath
    BY <1>6, <2>1 DEF Stuck, SelfLink
  <2>3. CASE Renaming
    <3>1. r \notin {path} \cup GroupLocks
      BY <1>6, <2>2, <2>3 DEF Stuck, RenameInItsOwnWay, Renaming
    <3>. QED
      BY <1>1, <1>6, <2>1, <2>2, <3>1
  <2>4. CASE ~Renaming
    <3>1. newPath = path
      BY <1>0, <2>4 DEF ControlInv, Renaming
    <3>2. op = "edit" => groups = <<>>
      BY <1>0, <1>6, <3>1 DEF GroupsInv
    <3>3. op = "edit" => GroupLocks = {}
      BY <3>2 DEF GroupLocks
    <3>4. GroupsFound => op = "edit"
      BY <1>6 DEF GroupsFound
    <3>. QED
      BY <1>1, <1>6, <2>1, <2>2, <3>1, <3>3, <3>4
  <2>. QED
    BY <2>3, <2>4
<1>. QED
  BY <1>2, <1>3, <1>4, <1>5, <1>6 DEF CanGoOn

\* A request waits for ever only in one of the ways that are listed: with a link to its
\* own path, with a rename in its own way, or at what another request has left locked.
THEOREM NothingElseWaits == Spec => []NothingElseBlocks
  BY OwnHolds, HandlersGoOn, PTL

\* How far a request has still to go, and what is left to do where it is.
Stage ==
  CASE pc = "lock" -> 12
    [] pc = "lock_new" -> 11
    [] pc = "lock_groups" -> IF gpath = newPath THEN 10 ELSE 4
    [] pc \in {"insert", "render"} -> 9
    [] pc = "rerender" -> IF op = "edit" THEN 2 ELSE IF op = "delete" THEN 11 ELSE 8
    [] pc = "refs" -> 7
    [] pc = "write" -> IF op = "delete" THEN 2 ELSE 6
    [] pc = "put" -> 5
    [] pc = "remove" -> 3
    [] pc = "finish" -> 1
    [] OTHER -> 0
Left ==
  CASE pc = "lock_groups" -> NumGroups(gpath) - Len(groups)
    [] pc = "rerender" -> Cardinality(rer)
    [] pc = "refs" -> Cardinality(adds) + Cardinality(dels)
    [] OTHER -> 0
Nearer == Stage' < Stage \/ (Stage' = Stage /\ Left' \in Nat /\ Left' < Left)
RequestsAdvance == [][Handle => Nearer]_vars

\* One fewer of some things.
LEMMA OneFewer ==
  ASSUME NEW S, NEW x \in S, IsFiniteSet(S)
  PROVE  /\ Cardinality(S) \in Nat /\ Cardinality(S \ {x}) \in Nat
         /\ Cardinality(S \ {x}) < Cardinality(S)
<1>1. Cardinality(S) \in Nat
  BY FS_CardinalityType
<1>2. IsFiniteSet(S \ {x}) /\ Cardinality(S \ {x}) = Cardinality(S) - 1
  BY FS_RemoveElement
<1>3. Cardinality(S \ {x}) \in Nat
  BY <1>2, FS_CardinalityType
<1>. QED
  BY <1>1, <1>2, <1>3

\* One fewer of two kinds of things.
LEMMA OneLink ==
  ASSUME TypeOK, pc = "refs", UNCHANGED <<pc, op>>, NEW r,
         \/ r \in adds /\ adds' = adds \ {r} /\ dels' = dels
         \/ r \in dels /\ dels' = dels \ {r} /\ adds' = adds
  PROVE  Nearer
<1>1. IsFiniteSet(adds) /\ IsFiniteSet(dels)
  BY PathsAssumption, FS_Subset DEF TypeOK
<1>2. Cardinality(adds) \in Nat /\ Cardinality(dels) \in Nat
  BY <1>1, FS_CardinalityType
<1>3. Left = Cardinality(adds) + Cardinality(dels) /\ Left' = Cardinality(adds') + Cardinality(dels')
      /\ Stage' = Stage /\ Stage = 7
  BY DEF Left, Stage
<1>4. CASE r \in adds /\ adds' = adds \ {r} /\ dels' = dels
  <2>1. Cardinality(adds') \in Nat /\ Cardinality(adds') < Cardinality(adds)
    BY <1>1, <1>4, OneFewer
  <2>. QED
    BY <1>2, <1>3, <1>4, <2>1 DEF Nearer
<1>5. CASE r \in dels /\ dels' = dels \ {r} /\ adds' = adds
  <2>1. Cardinality(dels') \in Nat /\ Cardinality(dels') < Cardinality(dels)
    BY <1>1, <1>5, OneFewer
  <2>. QED
    BY <1>2, <1>3, <1>5, <2>1 DEF Nearer
<1>. QED
  BY <1>4, <1>5

\* One fewer of the articles to be rendered again.
LEMMA OneRendered ==
  ASSUME TypeOK, pc = "rerender", UNCHANGED <<pc, op>>, NEW i \in rer, rer' = rer \ {i}
  PROVE  Nearer
<1>1. IsFiniteSet(rer)
  <2>1. IsFiniteSet(Idx)
    BY FS_Interval, BoundAssumption DEF Idx
  <2>. QED
    BY <2>1, FS_Subset DEF TypeOK
<1>2. Cardinality(rer') \in Nat /\ Cardinality(rer') < Cardinality(rer)
  BY <1>1, OneFewer
<1>3. Left = Cardinality(rer) /\ Left' = Cardinality(rer')
  BY DEF Left
<1>4. Stage' = Stage
  BY DEF Stage
<1>. QED
  BY <1>2, <1>3, <1>4 DEF Nearer

\* Every step of a handler takes its request nearer to its end.
LEMMA HandlersAdvance == IInv /\ Handle => Nearer
<1>. SUFFICES ASSUME IInv, Handle PROVE Nearer
  OBVIOUS
<1>0. TypeOK /\ ControlInv /\ GroupsInv /\ RemovalInv
  BY DEF IInv
<1>. USE DEF Goto
<1>a. ASSUME pc' = "dead" \/ EndRequest, pc \in Labels \ {"idle", "dead"} PROVE Nearer
  BY <1>a DEF EndRequest, Nearer, Stage, Labels
<1>5. CASE LockNew
  <2>1. pc = "lock" /\ (EndRequest \/ pc' = "lock_groups")
    BY <1>5 DEF LockNew
  <2>. QED
    BY <1>a, <2>1 DEF Nearer, Stage, Labels
<1>6. CASE LockEdit
  <2>1. pc = "lock" /\ (EndRequest \/ pc' \in {"render", "lock_new"})
    BY <1>6 DEF LockEdit
  <2>. QED
    BY <1>a, <2>1 DEF Nearer, Stage, Labels
<1>7. CASE LockDelete
  <2>1. pc = "lock" /\ (EndRequest \/ pc' = "rerender")
    BY <1>7 DEF LockDelete
  <2>. QED
    BY <1>a, <2>1 DEF Nearer, Stage, Labels
<1>8. CASE LockNewPath
  <2>1. pc = "lock_new" /\ (EndRequest \/ pc' \in {"lock_groups", "dead"})
    BY <1>8 DEF LockNewPath
  <2>. QED
    BY <1>a, <2>1 DEF Nearer, Stage, Labels
<1>9. CASE LockGroup
  <2>1. pc = "lock_groups" /\ MoreGroups /\ UNCHANGED <<pc, op, newPath, gpath>>
    BY <1>9 DEF LockGroup, request
  <2>2. Stage' = Stage
    BY <2>1 DEF Stage
  <2>3. gpath \in Paths /\ Len(groups') = Len(groups) + 1 /\ Len(groups) + 1 \in 1..NumGroups(gpath)
    BY <1>0, <1>9, <2>1, OneMoreGroup
  <2>4. Left = NumGroups(gpath) - Len(groups) /\ Left' = NumGroups(gpath) - (Len(groups) + 1)
    BY <2>1, <2>3 DEF Left, NumGroups
  <2>5. NumGroups(gpath) \in Nat /\ Len(groups) \in Nat
    BY <1>0, <2>3, GroupPaths, LenProperties DEF TypeOK
  <2>. QED
    BY <2>2, <2>3, <2>4, <2>5 DEF Nearer
<1>10. CASE GroupsBlocked
  <2>1. pc = "lock_groups" /\ (EndRequest \/ pc' = "dead")
    BY <1>0, <1>10, RemovalNotBlocked DEF GroupsBlocked
  <2>. QED
    BY <1>a, <2>1 DEF Labels
<1>11. CASE GroupsLocked
  <2>1. /\ pc = "lock_groups"
        /\ pc' = IF op \in {"new", "upload"} THEN "insert"
                 ELSE IF op = "edit" /\ gpath = newPath THEN "render" ELSE "remove"
        /\ op # "edit" => newPath = path
        /\ gpath \in {path, newPath}
    BY <1>0, <1>11 DEF GroupsLocked, ControlInv, GroupsInv
  <2>. QED
    BY <2>1 DEF Nearer, Stage
<1>12. CASE Insert
  <2>1. pc = "insert" /\ pc' = "rerender" /\ op' = op /\ op \in {"new", "upload"}
    BY <1>0, <1>12 DEF Insert, ControlInv, Entering, request
  <2>. QED
    BY <2>1 DEF Nearer, Stage
<1>13. ASSUME NEW i \in Idx, Rerender(i) PROVE Nearer
  <2>1. pc = "rerender" /\ i \in rer /\ op' = op
        /\ ((rer' = rer \ {i} /\ pc' = pc) \/ pc' = "dead")
    BY <1>13 DEF Rerender, request
  <2>. QED
    BY <1>0, <1>a, <2>1, OneRendered DEF Labels
<1>14. ASSUME NEW i \in Idx, RerenderGone(i) PROVE Nearer
  <2>1. pc = "rerender" /\ i \in rer /\ op' = op /\ rer' = rer \ {i} /\ pc' = pc
    BY <1>14 DEF RerenderGone, request
  <2>. QED
    BY <1>0, <2>1, OneRendered
<1>15. CASE Rerendered
  <2>1. /\ pc = "rerender" /\ op' = op /\ newPath' = newPath /\ op \in {"new", "upload", "edit", "delete"}
        /\ pc' = IF op = "delete" THEN "lock_groups"
                 ELSE CASE op = "new" -> "refs" [] op = "upload" -> "write" [] OTHER -> "finish"
    BY <1>0, <1>15 DEF Rerendered, request, ControlInv, TypeOK
  <2>. QED
    BY <2>1 DEF Nearer, Stage
<1>16. ASSUME NEW r \in Paths, SkipRef(r) PROVE Nearer
  <2>1. pc = "refs" /\ pc' = pc /\ op' = op
        /\ \/ r \in adds /\ adds' = adds \ {r} /\ dels' = dels
           \/ r \in dels /\ dels' = dels \ {r} /\ adds' = adds
    BY <1>16 DEF SkipRef, request
  <2>. QED
    BY <1>0, <2>1, OneLink
<1>17. ASSUME NEW r \in Paths, AddRef(r) PROVE Nearer
  <2>1. pc = "refs" /\ pc' = pc /\ op' = op /\ r \in adds /\ adds' = adds \ {r} /\ dels' = dels
    BY <1>17 DEF AddRef, request
  <2>. QED
    BY <1>0, <2>1, OneLink
<1>18. ASSUME NEW r \in Paths, RemoveRef(r) PROVE Nearer
  <2>1. pc = "refs" /\ pc' = pc /\ op' = op /\ r \in dels /\ dels' = dels \ {r} /\ adds' = adds
    BY <1>18 DEF RemoveRef, request
  <2>. QED
    BY <1>0, <2>1, OneLink
<1>19. CASE RefsDone
  <2>1. pc = "refs" /\ pc' = "write" /\ op' = op /\ op # "delete"
    BY <1>0, <1>19 DEF RefsDone, request, ControlInv
  <2>. QED
    BY <2>1 DEF Nearer, Stage
<1>20. CASE WriteNew
  <2>1. pc = "write" /\ pc' \in {"finish", "dead"}
    BY <1>20 DEF WriteNew
  <2>. QED
    BY <2>1 DEF Nearer, Stage
<1>21. CASE RenderFails
  <2>1. pc = "render" /\ (EndRequest \/ pc' = "dead")
    BY <1>21 DEF RenderFails
  <2>. QED
    BY <1>a, <2>1 DEF Labels
<1>22. CASE RenderEdit
  <2>1. pc = "render" /\ pc' \in {"refs", "put", "dead"}
    BY <1>22 DEF RenderEdit
  <2>. QED
    BY <2>1 DEF Nearer, Stage
<1>23. CASE WriteEdit
  <2>1. pc = "write" /\ pc' = "put" /\ op = "edit"
    BY <1>23 DEF WriteEdit
  <2>. QED
    BY <2>1 DEF Nearer, Stage
<1>24. CASE WriteDelete
  <2>1. pc = "write" /\ pc' \in {"finish", "dead"}
    BY <1>24 DEF WriteDelete
  <2>. QED
    BY <2>1 DEF Nearer, Stage
<1>25. CASE PutInPlace
  <2>1. pc = "put" /\ pc' = "finish"
    BY <1>25 DEF PutInPlace
  <2>. QED
    BY <2>1 DEF Nearer, Stage
<1>26. CASE PutRenamed
  <2>1. pc = "put" /\ pc' = "lock_groups" /\ gpath' = path /\ newPath' = newPath /\ newPath # path
    BY <1>26 DEF PutRenamed, request
  <2>. QED
    BY <2>1 DEF Nearer, Stage
<1>27. CASE Remove
  <2>1. pc = "remove" /\ op' = op /\ (op = "delete" \/ op = "edit")
    BY <1>0, <1>27 DEF Remove, request, ControlInv, Renaming
  <2>2. pc' \in {"dead", IF op = "edit" THEN "rerender" ELSE IF was = "text" THEN "write" ELSE "finish"}
    BY <1>27 DEF Remove
  <2>. QED
    BY <2>1, <2>2 DEF Nearer, Stage
<1>28. CASE Finish
  <2>1. pc = "finish" /\ EndRequest
    BY <1>28 DEF Finish
  <2>. QED
    BY <1>a, <2>1 DEF Labels
<1>. QED
  BY <1>5, <1>6, <1>7, <1>8, <1>9, <1>10, <1>11, <1>12, <1>13,
     <1>14, <1>15, <1>16, <1>17, <1>18, <1>19, <1>20, <1>21, <1>22, <1>23, <1>24, <1>25,
     <1>26, <1>27, <1>28 DEF Handle

\* No step of a handler is for nothing: each ends the request, takes it to a later
\* stage, or leaves less to do at the one it is at, through renames and links alike.
THEOREM RequestsMoveOn == Spec => RequestsAdvance
<1>1. IInv /\ [Next]_vars => [Handle => Nearer]_vars
  BY HandlersAdvance
<1>. QED
  BY <1>1, Invariance, PTL DEF Spec, RequestsAdvance
=============================================================================

------------------------- MODULE ArticleItemsProofs -------------------------
(***************************************************************************)
(* What the items of records tell, for any finite set of paths and any     *)
(* bounds.  Those of a group are what is in it: a group lists what is      *)
(* directly in it and has something to show, whatever requests before have *)
(* entered, moved and removed at any depth.  Those of an article are who   *)
(* links to it, and are complete as long as nothing is renamed.            *)
(***************************************************************************)
EXTENDS ArticleStoreProofs

Kids(g) == {byName[c] : c \in Members(g)}

\* An article that is removed, or has moved, is still listed where it was until
\* article_group_remove has been there.
Late(g) == IF Removing /\ NumGroups(path) # 0 /\ g = GroupPath(path, 1) THEN {art} ELSE {}

\* What the groups list at every step.
ListingInv ==
  pc # "dead" => \A g \in AllPaths : IsGroup(g) => Article(g).items = Kids(g) \cup Late(g)

\* The group above a group is one.
ParentInv == \A c \in Paths : IsGroup(c) /\ c # <<Secret>> => IsGroup(GroupPath(c, 1))

\* Each group above a path is directly in the next one, up to the one that nothing lists.
LEMMA Chain ==
  ASSUME NEW p \in Paths
  PROVE  /\ GroupPath(p, 0) = p
         /\ \A k \in 0..NumGroups(p) - 1 :
              /\ GroupPath(p, k) \in Paths /\ GroupPath(p, k) # <<Secret>>
              /\ GroupPath(GroupPath(p, k), 1) = GroupPath(p, k + 1)
         /\ GroupPath(p, NumGroups(p)) \in Paths => GroupPath(p, NumGroups(p)) = <<Secret>>
         /\ NumGroups(p) = 0 <=> p = <<Secret>>
<1>. DEFINE n == Len(p)
<1>1. p \in Seq(Segments) /\ n \in Nat \ {0} /\ NumGroups(p) \in 0..n
  BY GroupPaths, PathsAssumption
<1>2. /\ p[1] = Secret => NumGroups(p) = n - 1
      /\ p[1] # Secret => NumGroups(p) = n
  BY DEF NumGroups
<1>3. GroupPath(p, 0) = p
  <2>1. SubSeq(p, 1, n) = p
    BY <1>1, SubSeqFull
  <2>2. n - 0 = n
    BY <1>1
  <2>. QED
    BY <2>1, <2>2 DEF GroupPath
<1>4. ASSUME NEW k \in 0..n - 1
      PROVE  /\ GroupPath(p, k) \in Seq(Segments) /\ GroupPath(p, k) \in Paths
             /\ Len(GroupPath(p, k)) = n - k /\ GroupPath(p, k)[1] = p[1]
             /\ GroupPath(GroupPath(p, k), 1) = GroupPath(p, k + 1)
  <2>1. \A i \in 1..n - k : p[i] \in Segments
    BY <1>1, ElementOfSeq
  <2>2. /\ GroupPath(p, k) \in Seq(Segments) /\ Len(GroupPath(p, k)) = n - k
        /\ GroupPath(p, k)[1] = p[1]
    BY <1>1, <2>1, SubSeqProperties DEF GroupPath
  <2>3. GroupPath(p, k) \in Paths
    <3>1. GroupPath(p, k) # Root
      BY <2>2, <1>1, EmptySeq DEF Root
    <3>2. GroupPath(p, k) \in AllPaths
      <4>1. k = 0 => GroupPath(p, k) = p
        BY <1>3
      <4>2. k # 0 => k \in 1..n
        BY <1>1
      <4>. QED
        BY <4>1, <4>2, GroupPaths DEF AllPaths
    <3>. QED
      BY <3>1, <3>2 DEF AllPaths
  <2>4. GroupPath(GroupPath(p, k), 1) = GroupPath(p, k + 1)
    <3>1. GroupPath(GroupPath(p, k), 1) = SubSeq(SubSeq(p, 1, n - k), 1, n - (k + 1))
      <4>1. Len(GroupPath(p, k)) - 1 = n - (k + 1)
        BY <2>2, <1>1
      <4>. QED
        BY <4>1 DEF GroupPath
    <3>2. CASE n - (k + 1) = 0
      BY <3>1, <3>2, SubSeqEmpty, <1>1 DEF GroupPath
    <3>3. CASE n - (k + 1) # 0
      <4>1. n - k \in 1..n /\ n - (k + 1) \in 1..n - k - 1 + 1 /\ 1 \in 1..n - k - 1 + 1 /\ 1 \in 1..n
        BY <1>1, <3>3
      <4>2. SubSeq(SubSeq(p, 1, n - k), 1, n - (k + 1)) = SubSeq(p, 1 + 1 - 1, 1 + (n - (k + 1)) - 1)
        BY <1>1, <4>1, SubSeqOfSubSeq
      <4>3. 1 + 1 - 1 = 1 /\ 1 + (n - (k + 1)) - 1 = n - (k + 1)
        BY <1>1
      <4>. QED
        BY <3>1, <4>2, <4>3 DEF GroupPath
    <3>. QED
      BY <3>2, <3>3
  <2>. QED
    BY <2>2, <2>3, <2>4
<1>5. ASSUME NEW q \in Seq(Segments), q # << >>
      PROVE  q = <<Secret>> <=> Len(q) = 1 /\ q[1] = Secret
  <2>1. Len(<<Secret>>) = 1 /\ <<Secret>>[1] = Secret
    OBVIOUS
  <2>2. ASSUME Len(q) = 1, q[1] = Secret PROVE q = <<Secret>>
    <3>1. q[1] \in Segments
      BY <2>2, ElementOfSeq
    <3>2. <<Secret>> \in Seq(Segments)
      BY <2>2, <3>1
    <3>. QED
      BY <2>1, <2>2, <3>2, SeqEqual
  <2>. QED
    BY <2>1, <2>2
<1>6. ASSUME NEW k \in 0..NumGroups(p) - 1 PROVE GroupPath(p, k) # <<Secret>>
  <2>1. k \in 0..n - 1
    BY <1>1, <1>2
  <2>2. /\ Len(GroupPath(p, k)) = n - k /\ GroupPath(p, k)[1] = p[1]
    BY <2>1, <1>4
  <2>3. p[1] = Secret => n - k # 1
    BY <1>1, <1>2
  <2>4. Len(<<Secret>>) = 1 /\ <<Secret>>[1] = Secret
    OBVIOUS
  <2>. QED
    BY <2>2, <2>3, <2>4
<1>7. GroupPath(p, NumGroups(p)) \in Paths => GroupPath(p, NumGroups(p)) = <<Secret>>
  <2>1. CASE p[1] = Secret
    <3>1. n - 1 \in 0..n - 1 /\ n - (n - 1) = 1 /\ NumGroups(p) = n - 1
      BY <1>1, <1>2, <2>1
    <3>2. /\ GroupPath(p, n - 1) \in Seq(Segments) /\ GroupPath(p, n - 1) \in Paths
          /\ Len(GroupPath(p, n - 1)) = 1 /\ GroupPath(p, n - 1)[1] = Secret
      BY <3>1, <1>4, <2>1
    <3>3. GroupPath(p, n - 1) # << >>
      BY <3>2, PathsAssumption DEF Root
    <3>. QED
      BY <3>1, <3>2, <3>3, <1>5
  <2>2. CASE p[1] # Secret
    <3>1. GroupPath(p, n) = Root
      <4>1. n - n = 0
        BY <1>1
      <4>. QED
        BY <4>1, SubSeqEmpty DEF GroupPath, Root
    <3>. QED
      BY <3>1, <2>2, <1>2, PathsAssumption
  <2>. QED
    BY <2>1, <2>2
<1>8. NumGroups(p) = 0 <=> p = <<Secret>>
  <2>1. p # << >>
    BY PathsAssumption DEF Root
  <2>2. p = <<Secret>> <=> n = 1 /\ p[1] = Secret
    BY <1>1, <1>5, <2>1
  <2>. HIDE DEF n
  <2>. QED
    BY <1>1, <1>2, <2>2
<1>. QED
  BY <1>1, <1>2, <1>3, <1>4, <1>6, <1>7, <1>8

\* A group whose members are listed as before lists the same.
LEMMA KidsKept ==
  ASSUME NEW g,
         \A c \in Paths : GroupPath(c, 1) = g /\ c # <<Secret>> =>
           (Listed(c)' <=> Listed(c)) /\ (Listed(c) => byName'[c] = byName[c])
  PROVE  Kids(g)' = Kids(g)
<1>1. Members(g)' = Members(g)
  BY DEF Members
<1>2. \A c \in Members(g) : byName'[c] = byName[c]
  BY DEF Members
<1>. QED
  BY <1>1, <1>2 DEF Kids

\* What can be listed has a name.
LEMMA ListedHasName ==
  ASSUME TypeOK, NEW c \in Paths, Listed(c)
  PROVE  /\ byName[c] \in Idx /\ Article(c) = list[byName[c]]
         /\ list[byName[c]].ty \in {"text", "img", "group"}
  BY DEF Listed, HasContent, IsGroup, Article, RecordAt, NoRec, TypeOK, AllPaths

\* Nothing is directly in a path that is no group.
LEMMA NoKids ==
  ASSUME TypeOK, AboveInv, ParentInv, NEW c \in Paths, Listed(c), c # <<Secret>>
  PROVE  IsGroup(GroupPath(c, 1))
<1>1. CASE IsGroup(c)
  BY <1>1 DEF ParentInv
<1>2. CASE HasContent(c)
  <2>1. NumGroups(c) \in Nat /\ NumGroups(c) # 0
    BY Chain, GroupPaths
  <2>2. 1 \in 1..NumGroups(c)
    BY <2>1
  <2>. QED
    BY <1>2, <2>2, ListingPrefixes DEF AboveInv
<1>. QED
  BY <1>1, <1>2 DEF Listed

\* The groups above a path are different from each other.
LEMMA SameGroup ==
  ASSUME NEW p \in Paths, NEW j \in 1..NumGroups(p), NEW k \in 1..NumGroups(p),
         GroupPath(p, j) = GroupPath(p, k)
  PROVE  j = k
<1>1. NumGroups(p) \in 0..Len(p) /\ Len(p) \in Nat
  BY GroupPaths
<1>2. j \in 1..Len(p) /\ k \in 1..Len(p)
  BY <1>1
<1>. QED
  BY <1>2, GroupPaths

-----------------------------------------------------------------------------
(* Steps that leave what groups list as it is.                               *)

\* Groups, articles and their names stay, and so does what each group lists.
SameListings ==
  \A p \in AllPaths :
    /\ HasContent(p)' <=> HasContent(p)
    /\ IsGroup(p)' <=> IsGroup(p)
    /\ IsGroup(p) => Article(p)'.items = Article(p).items
    /\ HasContent(p) \/ IsGroup(p) => byName'[p] = byName[p]

\* What is being removed stays the same.
SameLate == /\ Removing' <=> Removing
            /\ Removing => path' = path /\ art' = art

\* A step that changes no listing and leaves what is being removed alone keeps them exact.
LEMMA ListingKept ==
  ASSUME ListingInv, pc # "dead", SameListings, SameLate
  PROVE  ListingInv'
<1>1. \A p \in Paths : p \in AllPaths
  BY DEF AllPaths
<1>2. \A g : Late(g)' = Late(g)
  BY DEF Late, SameLate
<1>3. \A c \in Paths : (Listed(c)' <=> Listed(c)) /\ (Listed(c) => byName'[c] = byName[c])
  BY <1>1 DEF SameListings, Listed
<1>4. \A g : Kids(g)' = Kids(g)
  BY <1>3, KidsKept
<1>. QED
  BY <1>2, <1>4 DEF ListingInv, SameListings

\* Where neither records nor names change, nor do listings.
LEMMA NothingEntered ==
  ASSUME UNCHANGED <<list, byName>>
  PROVE  SameListings
  BY DEF SameListings, HasContent, IsGroup, Article, RecordAt

\* A link changes no group.
LEMMA LinksEnterNothing ==
  ASSUME IInv, NEW r \in Paths, AddRef(r) \/ RemoveRef(r)
  PROVE  SameListings
<1>0. TypeOK /\ NamesMatch /\ NextInv /\ next \in Nat /\ Idx \subseteq Nat /\ r \in AllPaths
  BY NextIsNat DEF IInv, AllPaths
<1>1. CASE byName[r] = NoIdx /\ AddRef(r)
  <2>1. /\ list' = [list EXCEPT ![next + 1] = [ty |-> "dead", path |-> r, items |-> {art}]]
        /\ byName' = [byName EXCEPT ![r] = next + 1] /\ next + 1 \in Idx
    BY <1>0, <1>1, RoomForRef DEF AddRef, IInv
  <2>2. \A p \in AllPaths : byName[p] # next + 1
    BY <1>0 DEF NextInv
  <2>3. \A p \in AllPaths \ {r} : Article(p)' = Article(p) /\ byName'[p] = byName[p]
    BY <1>0, <2>1, <2>2 DEF Article, RecordAt, TypeOK
  <2>4. Article(r)'.ty = "dead" /\ Article(r).ty = "none"
    BY <1>0, <1>1, <2>1 DEF Article, RecordAt, NoRec, TypeOK, NoIdx
  <2>. QED
    BY <2>3, <2>4 DEF SameListings, HasContent, IsGroup
<1>2. CASE ~(byName[r] = NoIdx /\ AddRef(r))
  <2>1. /\ byName' = byName
        /\ \/ list' = list
           \/ Article(r).ty # "group" /\ \E S : list' = [list EXCEPT ![byName[r]].items = S]
    BY <1>2 DEF AddRef, RemoveRef
  <2>2. CASE list' = list
    BY <2>1, <2>2, NothingEntered
  <2>3. CASE Article(r).ty # "group" /\ \E S : list' = [list EXCEPT ![byName[r]].items = S]
    <3>1. \A i \in Idx : /\ list'[i].ty = list[i].ty
                         /\ i # byName[r] => list'[i] = list[i]
      BY <1>0, <2>3 DEF TypeOK
    <3>2. \A p \in AllPaths : byName[p] # NoIdx => byName[p] \in Idx
      BY <1>0 DEF TypeOK
    <3>3. \A p \in AllPaths : IsGroup(p) => byName[p] # NoIdx /\ byName[p] # byName[r]
      BY <1>0, <2>3 DEF IsGroup, Article, RecordAt, NoRec
    <3>. QED
      BY <2>1, <3>1, <3>2, <3>3 DEF SameListings, HasContent, IsGroup, Article, RecordAt
  <2>. QED
    BY <2>1, <2>2, <2>3
<1>. QED
  BY <1>1, <1>2

\* The group above a group stays one.
LEMMA ParentStep == IInv /\ ParentInv /\ [Next]_vars => ParentInv'
<1>. SUFFICES ASSUME IInv, ParentInv, [Next]_vars, NEW c \in Paths, IsGroup(c)', c # <<Secret>>
              PROVE  IsGroup(GroupPath(c, 1))'
  BY DEF ParentInv
<1>0. TypeOK /\ NamesMatch /\ NextInv /\ next \in Nat /\ Idx \subseteq Nat
  BY NextIsNat DEF IInv
<1>1. c \in AllPaths /\ GroupPath(c, 1) \in AllPaths
  <2>1. 1 \in 1..Len(c)
    BY GroupPaths
  <2>. QED
    BY <2>1, GroupPaths DEF AllPaths
<1>2. GroupsKept
  BY StoreStep
<1>3. CASE IsGroup(c)
  BY <1>1, <1>2, <1>3 DEF ParentInv, GroupsKept
<1>4. CASE ~IsGroup(c)
  <2>1. Insert \/ PutRenamed
    <3>1. CASE SameKinds
      BY <1>0, <1>1, <1>4, <3>1, KindsKept DEF IsGroup
    <3>2. CASE Dies
      BY <1>0, <1>1, <1>4, <3>2 DEF Dies, IsGroup, Article, RecordAt, TypeOK
    <3>3. ASSUME NEW r \in Paths, LeavesDead(r) PROVE FALSE
      <4>1. \A p \in AllPaths : byName[p] # next + 1
        BY <1>0 DEF NextInv
      <4>. QED
        BY <1>0, <1>1, <1>4, <3>3, <4>1 DEF LeavesDead, IsGroup, Article, RecordAt, TypeOK, AllPaths
    <3>. QED
      BY <3>1, <3>2, <3>3, StoreSteps DEF StoreChange
  <2>2. /\ Len(groups) = NumGroups(newPath) /\ gpath = newPath /\ newPath \in Paths
        /\ \A p \in AllPaths : IsGroup(p)' <=> IsGroup(p) \/ p \in GroupLocks
    BY <2>1, EntersFrame
  <2>3. PICK k \in 1..NumGroups(newPath) : c = GroupPath(newPath, k)
    BY <1>1, <1>4, <2>2 DEF GroupLocks
  <2>4. NumGroups(newPath) \in Nat
    BY <2>2, GroupPaths
  <2>5. k # NumGroups(newPath)
    BY <2>2, <2>3, Chain
  <2>6. GroupPath(c, 1) = GroupPath(newPath, k + 1) /\ k + 1 \in 1..NumGroups(newPath)
    <3>1. k \in 0..NumGroups(newPath) - 1 /\ k + 1 \in 1..NumGroups(newPath)
      BY <2>4, <2>5
    <3>. QED
      BY <2>2, <2>3, <3>1, Chain
  <2>. QED
    BY <1>1, <2>2, <2>6 DEF GroupLocks
<1>. QED
  BY <1>3, <1>4

-----------------------------------------------------------------------------
(* Steps that enter and remove.                                              *)

\* A record that dies is not among the articles of its group any more, but is listed.
LEMMA ListingDies ==
  ASSUME IInv, ListingInv, LockDelete, Article(path).ty \in {"text", "img"}
  PROVE  ListingInv'
<1>p. PICK at, d : at = path /\ d = byName[path]
  OBVIOUS
<1>0. TypeOK /\ NamesMatch /\ ControlInv /\ \A p \in Paths : p \in AllPaths
  BY DEF IInv, AllPaths
<1>1. /\ pc = "lock" /\ op = "delete" /\ pc' = "rerender" /\ byName' = byName
      /\ list' = [list EXCEPT ![d].ty = "dead"] /\ art' = d
      /\ UNCHANGED <<op, path, newPath>>
  BY <1>p DEF LockDelete, Goto, request
<1>2. at \in Paths /\ d \in Idx /\ at \in AllPaths /\ d = byName[at] /\ Article(at).ty \in {"text", "img"}
  BY <1>p, <1>0, <1>1 DEF ControlInv, Article, RecordAt, NoRec, TypeOK
<1>3. \A g : Late(g) = {}
  BY <1>1 DEF Late, Removing, Renaming
<1>4. \A g : Late(g)' = IF at # <<Secret>> /\ g = GroupPath(at, 1) THEN {d} ELSE {}
  <2>1. Removing' /\ path' = at /\ art' = d
    BY <1>p, <1>1 DEF Removing
  <2>2. NumGroups(at) # 0 <=> at # <<Secret>>
    BY <1>2, Chain
  <2>. QED
    BY <2>1, <2>2 DEF Late
<1>5. \A p \in AllPaths : p # at => byName[p] # d
  BY <1>0, <1>2 DEF NamesMatch, NoIdx, Idx
<1>6. \A p \in AllPaths : p # at => Article(p)' = Article(p)
  <2>1. \A i \in Idx : i # d => list'[i] = list[i]
    BY <1>0, <1>1, <1>2 DEF TypeOK
  <2>2. \A p \in AllPaths : byName[p] \in Idx \cup {NoIdx}
    BY <1>0 DEF TypeOK
  <2>. QED
    BY <1>1, <1>5, <2>1, <2>2 DEF Article, RecordAt
<1>7. Article(at)'.ty = "dead" /\ Article(at).ty # "group"
  <2>1. list'[d].ty = "dead"
    BY <1>0, <1>1, <1>2 DEF TypeOK
  <2>2. Article(at)' = list'[d]
    BY <1>1, <1>2 DEF Article, RecordAt, NoIdx, Idx
  <2>. QED
    BY <2>1, <2>2, <1>2
<1>8. ~Listed(at)' /\ Listed(at) /\ \A c \in Paths : c # at => (Listed(c)' <=> Listed(c))
  BY <1>0, <1>2, <1>6, <1>7 DEF Listed, HasContent, IsGroup
<1>. SUFFICES ASSUME NEW g \in AllPaths, IsGroup(g)'
              PROVE  Article(g)'.items = Kids(g)' \cup Late(g)'
  BY <1>1 DEF ListingInv
<1>9. IsGroup(g) /\ Article(g)'.items = Kids(g)
  <2>1. g # at
    BY <1>7 DEF IsGroup
  <2>2. Article(g)' = Article(g)
    BY <2>1, <1>6
  <2>. QED
    BY <2>2, <1>1, <1>3 DEF IsGroup, ListingInv
<1>10. CASE at # <<Secret>> /\ g = GroupPath(at, 1)
  <2>1. Members(g) = Members(g)' \cup {at}
    BY <1>2, <1>8, <1>10 DEF Members
  <2>2. Kids(g) = Kids(g)' \cup {d}
    BY <2>1, <1>1, <1>2 DEF Kids
  <2>. QED
    BY <2>2, <1>4, <1>9, <1>10
<1>11. CASE ~(at # <<Secret>> /\ g = GroupPath(at, 1))
  <2>1. \A c \in Paths : GroupPath(c, 1) = g /\ c # <<Secret>> => c # at
    BY <1>11
  <2>2. Kids(g)' = Kids(g)
    BY <2>1, <1>1, <1>8, KidsKept
  <2>. QED
    BY <2>2, <1>4, <1>9, <1>11
<1>. QED
  BY <1>10, <1>11

\* An article that is entered, or has moved, is listed from / or /secret down, and one
\* that has moved is still listed where it was.
LEMMA ListingEnters ==
  ASSUME IInv, ListingInv, ParentInv, Insert \/ PutRenamed
  PROVE  ListingInv'
<1>p. PICK at, to : at = path /\ to = newPath
  OBVIOUS
<1>. DEFINE item == next + 1
            n == NumGroups(to)
            node(k) == GroupPath(to, k)
<1>0. TypeOK /\ NamesMatch /\ ControlInv /\ AboveInv /\ \A p \in Paths : p \in AllPaths
  BY DEF IInv, AllPaths
<1>1. /\ Enters /\ gpath = to /\ to \in Paths /\ at \in Paths
      /\ at \notin GroupLocks /\ to \notin GroupLocks /\ GroupLocks \subseteq AllPaths
      /\ (art # NoIdx => art = byName[at] /\ art \in Idx /\ list[art].ty = "text")
      /\ (art = NoIdx => to = at /\ Article(at).ty \in {"none", "dead"})
      /\ (art # NoIdx => to # at /\ byName[to] = NoIdx)
      /\ Len(groups) = n
      /\ \A g \in GroupLocks : Article(g).ty \in {"none", "group"}
      /\ \A p \in AllPaths \ (GroupLocks \cup {to, at}) : byName[p] # NoIdx =>
           byName'[p] = byName[p] /\ list'[byName[p]] = list[byName[p]]
      /\ \A p \in AllPaths : IsGroup(p)' <=> IsGroup(p) \/ p \in GroupLocks
      /\ \A p \in AllPaths : HasContent(p)' <=> p = to \/ (HasContent(p) /\ p # at)
  BY <1>p, EntersFrame
<1>2. n \in Nat /\ GroupLocks = {node(k) : k \in 1..n} /\ node(0) = to
  BY <1>1, GroupPaths, Chain DEF GroupLocks
<1>3. /\ byName'[to] = item /\ item \in Idx
      /\ \A g \in GroupLocks : byName'[g] \in Idx /\ (byName[g] # NoIdx => byName'[g] = byName[g])
      /\ \A k \in 1..n : list'[byName'[node(k)]].items =
           Article(node(k)).items \cup {IF k = 1 THEN item ELSE byName'[node(k - 1)]}
  BY <1>p, <1>1 DEF Enters
<1>4. \A k \in 1..n : /\ IsGroup(node(k))'
                      /\ Article(node(k))'.items = Article(node(k)).items \cup {byName'[node(k - 1)]}
  <2>1. \A k \in 1..n : IsGroup(node(k))' /\ byName'[node(k)] \in Idx
    BY <1>1, <1>2, <1>3
  <2>2. NoIdx \notin Idx
    BY DEF NoIdx, Idx
  <2>3. \A k \in 1..n : Article(node(k))' = list'[byName'[node(k)]]
    BY <2>1, <2>2 DEF Article, RecordAt
  <2>4. \A k \in 1..n : k = 1 => byName'[node(k - 1)] = item
    BY <1>2, <1>3
  <2>. HIDE DEF node, item
  <2>. QED
    BY <2>1, <2>3, <2>4, <1>3
<1>5. /\ \A k \in 0..n - 1 : node(k) \in Paths /\ node(k) # <<Secret>>
                             /\ GroupPath(node(k), 1) = node(k + 1)
      /\ node(n) \in Paths => node(n) = <<Secret>>
  BY <1>1, Chain
<1>6. \A c \in Paths \ (GroupLocks \cup {to, at}) :
        (Listed(c)' <=> Listed(c)) /\ (Listed(c) => byName'[c] = byName[c])
  <2>. SUFFICES ASSUME NEW c \in Paths \ (GroupLocks \cup {to, at})
                PROVE  (Listed(c)' <=> Listed(c)) /\ (Listed(c) => byName'[c] = byName[c])
    OBVIOUS
  <2>1. (HasContent(c)' <=> HasContent(c)) /\ (IsGroup(c)' <=> IsGroup(c))
    BY <1>0, <1>1
  <2>2. HasContent(c) \/ IsGroup(c) => byName[c] # NoIdx
    BY DEF HasContent, IsGroup, Article, RecordAt, NoRec
  <2>3. HasContent(c) \/ IsGroup(c) => byName'[c] = byName[c] /\ Article(c)' = Article(c)
    BY <1>0, <1>1, <2>2 DEF Article, RecordAt
  <2>. QED
    BY <2>1, <2>3 DEF Listed
<1>7. ~Listed(to) /\ Listed(to)'
  <2>1. Article(to).ty \in {"none", "dead"}
    BY <1>1 DEF Article, RecordAt, NoRec
  <2>2. HasContent(to)'
    BY <1>0, <1>1
  <2>. QED
    BY <2>1, <2>2 DEF Listed, HasContent, IsGroup
<1>8. at # to => /\ Listed(at) /\ ~Listed(at)' /\ art = byName[at] /\ art \in Idx
  <2>. SUFFICES ASSUME at # to
                PROVE  Listed(at) /\ ~Listed(at)' /\ art = byName[at] /\ art \in Idx
    OBVIOUS
  <2>1. art = byName[at] /\ art \in Idx /\ list[art].ty = "text"
    BY <1>1
  <2>2. Article(at).ty = "text"
    BY <2>1 DEF Article, RecordAt, NoIdx, Idx
  <2>3. ~HasContent(at)' /\ ~IsGroup(at)'
    BY <2>2, <1>0, <1>1 DEF IsGroup
  <2>. QED
    BY <2>1, <2>2, <2>3 DEF Listed, HasContent
<1>9. \A k \in 1..n : Listed(node(k))' /\ (Listed(node(k)) => byName'[node(k)] = byName[node(k)])
  <2>1. \A k \in 1..n : Listed(node(k))'
    BY <1>4 DEF Listed
  <2>2. \A k \in 1..n : Listed(node(k)) => byName[node(k)] # NoIdx
    BY DEF Listed, HasContent, IsGroup, Article, RecordAt, NoRec
  <2>. QED
    BY <2>1, <2>2, <1>2, <1>3
<1>10. ~Removing /\ pc # "dead" /\ pc' # "dead"
       /\ \A g : Late(g)' = IF at # to /\ at # <<Secret>> /\ g = GroupPath(at, 1)
                              THEN {byName[at]} ELSE {}
  <2>1. CASE Insert
    <3>1. pc = "insert" /\ pc' = "rerender" /\ UNCHANGED <<op, path, newPath>>
      BY <2>1 DEF Insert, Goto, request
    <3>2. at = to /\ op \in {"new", "upload"}
      BY <1>p, <1>0, <3>1 DEF ControlInv, Entering
    <3>3. ~Removing /\ ~Removing'
      BY <3>1, <3>2 DEF Removing, Renaming
    <3>. QED
      BY <3>1, <3>2, <3>3 DEF Late
  <2>2. CASE PutRenamed
    <3>1. /\ pc = "put" /\ pc' = "lock_groups" /\ UNCHANGED <<op, path, newPath, art>>
          /\ newPath # path /\ gpath' = path
      BY <2>2 DEF PutRenamed, Goto, request
    <3>2. op = "edit"
      BY <1>0, <3>1 DEF ControlInv
    <3>3. ~Removing /\ Removing'
      BY <3>1, <3>2 DEF Removing, Renaming, BeforeMove
    <3>4. NumGroups(at) # 0 <=> at # <<Secret>>
      BY <1>1, Chain
    <3>. QED
      BY <1>p, <3>1, <3>3, <3>4, <1>8 DEF Late
  <2>. QED
    BY <2>1, <2>2
<1>11. \A g : Late(g) = {}
  BY <1>10 DEF Late
<1>. HIDE DEF item, n, node
<1>. SUFFICES ASSUME NEW g \in AllPaths, IsGroup(g)'
              PROVE  Article(g)'.items = Kids(g)' \cup Late(g)'
  BY <1>10 DEF ListingInv
<1>. DEFINE Stay == Members(g) \ {at}
<1>12. \A c \in Stay : c # to /\ Listed(c) /\ Listed(c)' /\ byName'[c] = byName[c]
  <2>. SUFFICES ASSUME NEW c \in Paths, Listed(c), c # at
                PROVE  c # to /\ Listed(c)' /\ byName'[c] = byName[c]
    BY DEF Members
  <2>1. c # to
    BY <1>7
  <2>2. c \in GroupLocks => \E k \in 1..n : c = node(k)
    BY <1>2
  <2>. QED
    BY <2>1, <2>2, <1>6, <1>9
<1>13. IF at # to /\ at # <<Secret>> /\ g = GroupPath(at, 1)
         THEN Kids(g) = {byName[c] : c \in Stay} \cup {byName[at]}
         ELSE Kids(g) = {byName[c] : c \in Stay}
  <2>1. at \in Members(g) <=> at # to /\ at # <<Secret>> /\ g = GroupPath(at, 1)
    <3>1. at = to => ~Listed(at)
      BY <1>7
    <3>. QED
      BY <3>1, <1>1, <1>8 DEF Members
  <2>. QED
    BY <2>1 DEF Kids
<1>14. IsGroup(g) => Article(g).items \cup Late(g)' = {byName[c] : c \in Stay} \cup Late(g)'
                     /\ Late(g)' \subseteq Article(g).items
  BY <1>10, <1>11, <1>13 DEF ListingInv
<1>15. CASE g \in GroupLocks
  <2>1. PICK k \in 1..n : g = node(k)
    BY <1>2, <1>15
  <2>2. k - 1 \in 0..n - 1 /\ k - 1 + 1 = k
    BY <1>2
  <2>3. node(k - 1) \in Paths /\ node(k - 1) # <<Secret>> /\ GroupPath(node(k - 1), 1) = g
    BY <1>5, <2>1, <2>2
  <2>4. Listed(node(k - 1))'
    <3>1. k - 1 = 0 \/ k - 1 \in 1..n
      BY <1>2
    <3>. QED
      BY <3>1, <1>2, <1>7, <1>9
  <2>5. Members(g)' = Stay \cup {node(k - 1)}
    <3>1. Stay \cup {node(k - 1)} \subseteq Members(g)'
      BY <1>12, <2>3, <2>4 DEF Members
    <3>2. ASSUME NEW c \in Members(g)', c \notin Stay
          PROVE  c = node(k - 1)
      <4>1. c \in Paths /\ GroupPath(c, 1) = g /\ c # <<Secret>> /\ Listed(c)'
        BY DEF Members
      <4>2. c # at \/ at = to
        BY <4>1, <1>8
      <4>3. CASE c = to
        <5>1. to = node(0) /\ 0 \in 0..n - 1 /\ GroupPath(node(0), 1) = node(0 + 1)
          BY <1>2, <1>5, <2>1
        <5>2. node(1) = node(k) /\ 1 \in 1..n
          BY <5>1, <4>1, <4>3, <2>1, <1>2
        <5>. QED
          BY <5>1, <5>2, <2>1, <4>3, <1>1, <1>2, SameGroup DEF node, n
      <4>4. CASE c \in GroupLocks
        <5>1. PICK j \in 1..n : c = node(j)
          BY <1>2, <4>4
        <5>2. j # n
          BY <1>5, <4>1, <5>1
        <5>3. j \in 0..n - 1 /\ j + 1 \in 1..n /\ node(j + 1) = node(k)
          BY <1>2, <1>5, <4>1, <2>1, <5>1, <5>2
        <5>4. j + 1 = k
          BY <5>3, <2>1, <1>1, SameGroup DEF node, n
        <5>. QED
          BY <5>1, <5>4, <1>2
      <4>5. CASE c \notin GroupLocks /\ c # to
        BY <4>1, <4>2, <4>5, <1>6, <3>2 DEF Members
      <4>. QED
        BY <4>3, <4>4, <4>5
    <3>. QED
      BY <3>1, <3>2
  <2>6. Kids(g)' = {byName[c] : c \in Stay} \cup {byName'[node(k - 1)]}
    BY <2>5, <1>12 DEF Kids
  <2>7. Article(g)'.items = Article(g).items \cup {byName'[node(k - 1)]}
    BY <1>4, <2>1
  <2>8. CASE IsGroup(g)
    BY <2>6, <2>7, <2>8, <1>14
  <2>9. CASE ~IsGroup(g)
    <3>1. Article(g).items = {}
      <4>1. Article(g).ty = "none"
        BY <1>1, <1>15, <2>9 DEF IsGroup
      <4>. QED
        BY <4>1, <1>0 DEF Article, RecordAt, NoRec, NamesMatch
    <3>2. \A c \in Members(g) : FALSE
      BY <1>0, <2>9, NoKids DEF Members
    <3>3. Late(g)' = {}
      <4>1. at # to /\ at # <<Secret>> /\ g = GroupPath(at, 1) => at \in Members(g)
        BY <1>1, <1>8 DEF Members
      <4>. QED
        BY <4>1, <3>2, <1>10
    <3>. QED
      BY <2>6, <2>7, <3>1, <3>2, <3>3
  <2>. QED
    BY <2>8, <2>9
<1>16. CASE g \notin GroupLocks
  <2>1. IsGroup(g) /\ g # at /\ g # to
    <3>1. IsGroup(g)
      BY <1>1, <1>16
    <3>2. at # to => ~IsGroup(at)
      BY <1>1, <1>8 DEF IsGroup, Article, RecordAt, NoIdx, Idx
    <3>3. ~IsGroup(to)
      BY <1>1 DEF IsGroup, Article, RecordAt, NoRec
    <3>. QED
      BY <3>1, <3>2, <3>3
  <2>2. Article(g)' = Article(g)
    <3>1. byName[g] # NoIdx
      BY <2>1 DEF IsGroup, Article, RecordAt, NoRec
    <3>. QED
      BY <3>1, <2>1, <1>1, <1>16 DEF Article, RecordAt
  <2>3. Members(g)' = Stay
    <3>1. Stay \subseteq Members(g)'
      BY <1>12 DEF Members
    <3>2. ASSUME NEW c \in Members(g)', c \notin Stay
          PROVE  FALSE
      <4>1. c \in Paths /\ GroupPath(c, 1) = g /\ c # <<Secret>> /\ Listed(c)'
        BY DEF Members
      <4>2. c # at \/ at = to
        BY <4>1, <1>8
      <4>3. \A j \in 0..n : c # node(j)
        <5>1. \A j \in 0..n : j = n \/ (j \in 0..n - 1 /\ j + 1 \in 1..n)
          BY <1>2
        <5>2. \A j \in 0..n - 1 : node(j + 1) \in GroupLocks
          BY <1>2
        <5>. QED
          BY <5>1, <5>2, <1>5, <4>1, <1>16
      <4>4. c \notin GroupLocks /\ c # to
        <5>1. 0 \in 0..n /\ 1..n \subseteq 0..n
          BY <1>2
        <5>. QED
          BY <4>3, <5>1, <1>2
      <4>. QED
        BY <4>1, <4>2, <4>4, <1>6, <3>2 DEF Members
    <3>. QED
      BY <3>1, <3>2
  <2>4. Kids(g)' = {byName[c] : c \in Stay}
    BY <2>3, <1>12 DEF Kids
  <2>. QED
    BY <2>1, <2>2, <2>4, <1>14
<1>. QED
  BY <1>15, <1>16

\* article_group_remove takes an article out of its group, and a group out of the next one
\* as far up as groups have nothing left to list: what is left is listed where it should be.
LEMMA ListingRemoved ==
  ASSUME IInv, ListingInv, Remove, pc' # "dead"
  PROVE  ListingInv'
<1>p. PICK at, item, n : at = path /\ item = art /\ n = NumGroups(path)
  OBVIOUS
<1>. DEFINE node(k) == GroupPath(at, k)
            below(k) == IF k = 1 THEN item ELSE byName[node(k - 1)]
            losing == {k \in 1..Len(groups) : Loses(k)}
<1>0. TypeOK /\ NamesMatch /\ ControlInv /\ GroupsInv /\ RemovalInv /\ ArtInv
      /\ \A p \in Paths : p \in AllPaths
  BY DEF IInv, AllPaths
<1>1. /\ pc = "remove" /\ at \in Paths /\ gpath = at /\ Len(groups) = n /\ n \in Nat
      /\ op = "delete" \/ Renaming
      /\ n = NumGroups(at) /\ Removing
  <2>1. pc = "remove" /\ (op = "delete" \/ Renaming) /\ at \in Paths
        /\ gpath = at /\ Len(groups) = n /\ Removing
    BY <1>p, <1>0 DEF Remove, ControlInv, GroupsInv, Removing, BeforeMove
  <2>. QED
    BY <1>p, <2>1, GroupPaths
<1>2. /\ byName' = byName /\ UNCHANGED <<op, path, newPath, art>> /\ ~Removing'
      /\ \A k \in losing : NodeOf(art, k - 1) \in list[groups[k]].items
      /\ list' = [i \in Idx |->
                    IF \E k \in losing : groups[k] = i
                      THEN [list[i] EXCEPT !.items = @ \
                              {NodeOf(art, k - 1) : k \in {k \in losing : groups[k] = i}}]
                      ELSE list[i]]
  <2>1. /\ byName' = byName /\ UNCHANGED <<op, path, newPath, art, gpath>>
        /\ pc' \in {"rerender", "write", "finish"} /\ (pc' = "rerender" => op = "edit")
    BY DEF Remove, Goto, request, job
  <2>2. ~Removing'
    BY <2>1 DEF Removing
  <2>. QED
    BY <2>1, <2>2 DEF Remove, Goto
<1>3. \A k \in 1..n : /\ node(k) \in AllPaths /\ IsGroup(node(k)) /\ groups[k] = byName[node(k)]
                      /\ groups[k] \in Idx /\ groups[k] # NoIdx
                      /\ Article(node(k)) = list[groups[k]]
  <2>1. \A k \in 1..n : node(k) \in AllPaths /\ IsGroup(node(k)) /\ groups[k] = byName[node(k)]
    BY <1>p, <1>0, <1>1, ListingPrefixes DEF GroupsInv, GroupsFound, RemovalInv
  <2>2. \A k \in 1..n : byName[node(k)] # NoIdx
    BY <2>1 DEF IsGroup, Article, RecordAt, NoRec
  <2>3. \A k \in 1..n : byName[node(k)] \in Idx
    BY <1>0, <2>1, <2>2 DEF TypeOK
  <2>4. \A k \in 1..n : Article(node(k)) = list[byName[node(k)]]
    BY <2>2 DEF Article, RecordAt
  <2>. HIDE DEF node
  <2>. QED
    BY <2>1, <2>2, <2>3, <2>4
<1>4. \A j, k \in 1..n : groups[j] = groups[k] => j = k
  <2>. SUFFICES ASSUME NEW j \in 1..n, NEW k \in 1..n, groups[j] = groups[k] PROVE j = k
    OBVIOUS
  <2>1. node(j) = node(k)
    BY <1>0, <1>3 DEF NamesMatch
  <2>. QED
    BY <1>1, <2>1, SameGroup
<1>5. \A k \in 1..n : NodeOf(art, k - 1) = below(k)
  <2>. SUFFICES ASSUME NEW k \in 1..n PROVE NodeOf(art, k - 1) = below(k)
    OBVIOUS
  <2>1. k = 1 \/ (k - 1 \in 1..n /\ k - 1 # 0)
    BY <1>1
  <2>2. k # 1 => groups[k - 1] # NoIdx /\ groups[k - 1] = byName[node(k - 1)]
    BY <1>3, <2>1
  <2>. QED
    BY <1>p, <2>1, <2>2 DEF NodeOf
<1>6. /\ \A k \in losing : k \in 1..n /\ below(k) \in list[groups[k]].items
      /\ 1 \in 1..n => 1 \in losing
      /\ \A k \in 2..n : k \in losing <=> k - 1 \in losing /\ list[groups[k - 1]].items = {below(k - 1)}
  <2>1. \A k \in losing : k \in 1..n /\ below(k) \in list[groups[k]].items
    BY <1>1, <1>2, <1>5
  <2>2. 1 \in 1..n => 1 \in losing
    BY <1>1, <1>3 DEF Loses, Reaches
  <2>3. \A k \in 1..n : k \in losing <=> \A j \in 1..k - 1 : list[groups[j]].items = {below(j)}
    <3>. SUFFICES ASSUME NEW k \in 1..n
                  PROVE  Loses(k) <=> \A j \in 1..k - 1 : list[groups[j]].items = {below(j)}
      BY <1>1
    <3>1. \A j \in 1..k - 1 : j \in 1..n
      BY <1>1
    <3>2. \A j \in 1..k - 1 : groups[j] # NoIdx /\ NodeOf(art, j - 1) = below(j)
      BY <1>3, <1>5, <3>1
    <3>. HIDE DEF below
    <3>. QED
      BY <1>3, <3>2 DEF Loses, Reaches
  <2>4. \A k \in 2..n : /\ k \in 1..n /\ k - 1 \in 1..n
                        /\ \A j : j \in 1..k - 1 <=> j \in 1..(k - 1) - 1 \/ j = k - 1
    BY <1>1
  <2>. HIDE DEF below, losing
  <2>. QED
    BY <2>1, <2>2, <2>3, <2>4
<1>7. /\ \A k \in 1..n : list'[groups[k]].items =
           IF k \in losing THEN list[groups[k]].items \ {below(k)} ELSE list[groups[k]].items
      /\ \A i \in Idx : /\ list'[i].ty = list[i].ty
                        /\ (\A k \in 1..n : groups[k] # i) => list'[i] = list[i]
  <2>1. \A i \in Idx : /\ list'[i].ty = list[i].ty
                       /\ (\A k \in losing : groups[k] # i) => list'[i] = list[i]
    <3>. HIDE DEF losing
    <3>. QED
      BY <1>0, <1>2 DEF TypeOK
  <2>2. ASSUME NEW k \in losing
        PROVE  list'[groups[k]].items = list[groups[k]].items \ {below(k)}
    <3>1. k \in 1..n /\ groups[k] \in Idx
      BY <1>3, <1>6
    <3>2. {j \in losing : groups[j] = groups[k]} = {k}
      BY <1>4, <1>6, <3>1
    <3>. HIDE DEF losing
    <3>3. list'[groups[k]].items =
            list[groups[k]].items \ {NodeOf(art, j - 1) : j \in {j \in losing : groups[j] = groups[k]}}
      BY <1>0, <1>2, <3>1 DEF TypeOK
    <3>. HIDE DEF below
    <3>. QED
      BY <1>5, <3>1, <3>2, <3>3
  <2>3. \A k \in 1..n : k \notin losing => \A j \in losing : groups[j] # groups[k]
    BY <1>4, <1>6
  <2>. HIDE DEF losing, below
  <2>. QED
    BY <1>3, <1>6, <2>1, <2>2, <2>3
<1>8. \A p \in AllPaths : (HasContent(p)' <=> HasContent(p)) /\ (IsGroup(p)' <=> IsGroup(p))
  BY <1>0, <1>2, <1>7 DEF HasContent, IsGroup, Article, RecordAt, TypeOK
<1>9. \A k \in 1..n : Article(node(k))' = list'[groups[k]]
  BY <1>2, <1>3 DEF Article, RecordAt
<1>10. \A p \in AllPaths : IsGroup(p) /\ (\A k \in 1..n : p # node(k)) => Article(p)' = Article(p)
  <2>. SUFFICES ASSUME NEW p \in AllPaths, IsGroup(p), \A k \in 1..n : p # node(k)
                PROVE  Article(p)' = Article(p)
    OBVIOUS
  <2>1. byName[p] # NoIdx
    BY DEF IsGroup, Article, RecordAt, NoRec
  <2>2. byName[p] \in Idx /\ list[byName[p]].path = p
    BY <1>0, <2>1 DEF TypeOK, NamesMatch
  <2>3. \A k \in 1..n : groups[k] # byName[p]
    BY <1>0, <1>3, <2>2 DEF NamesMatch
  <2>4. list'[byName[p]] = list[byName[p]]
    <3>. HIDE DEF losing, below, node
    <3>. QED
      BY <1>7, <2>2, <2>3
  <2>. QED
    BY <1>2, <2>1, <2>4 DEF Article, RecordAt
<1>11. \A c \in Paths : (\A k \in 1..n : c # node(k)) => (Listed(c)' <=> Listed(c))
  BY <1>0, <1>8, <1>10 DEF Listed
<1>12. \A k \in 1..n : /\ Listed(node(k)) <=> list[groups[k]].items # {}
                       /\ Listed(node(k))' <=> list'[groups[k]].items # {}
  <2>. SUFFICES ASSUME NEW k \in 1..n
                PROVE  /\ Listed(node(k)) <=> list[groups[k]].items # {}
                       /\ Listed(node(k))' <=> list'[groups[k]].items # {}
    OBVIOUS
  <2>1. IsGroup(node(k)) /\ IsGroup(node(k))' /\ ~HasContent(node(k)) /\ ~HasContent(node(k))'
    <3>1. IsGroup(node(k)) /\ node(k) \in AllPaths
      BY <1>3
    <3>2. ~HasContent(node(k))
      BY <3>1 DEF IsGroup, HasContent
    <3>. QED
      BY <3>1, <3>2, <1>8
  <2>. QED
    BY <1>3, <1>9, <2>1 DEF Listed
<1>13. \A k \in 2..n :
         /\ k \in losing => Listed(node(k - 1)) /\ ~Listed(node(k - 1))'
         /\ k \notin losing => (Listed(node(k - 1))' <=> Listed(node(k - 1)))
  <2>. SUFFICES ASSUME NEW k \in 2..n
                PROVE  /\ k \in losing => Listed(node(k - 1)) /\ ~Listed(node(k - 1))'
                       /\ k \notin losing => (Listed(node(k - 1))' <=> Listed(node(k - 1)))
    OBVIOUS
  <2>1. k - 1 \in 1..n
    BY <1>1
  <2>2. /\ Listed(node(k - 1)) <=> list[groups[k - 1]].items # {}
        /\ Listed(node(k - 1))' <=> list'[groups[k - 1]].items # {}
    BY <1>12, <2>1
  <2>3. list'[groups[k - 1]].items =
          IF k - 1 \in losing THEN list[groups[k - 1]].items \ {below(k - 1)}
                              ELSE list[groups[k - 1]].items
    BY <1>7, <2>1
  <2>4. k \in losing <=> k - 1 \in losing /\ list[groups[k - 1]].items = {below(k - 1)}
    BY <1>6
  <2>5. k - 1 \in losing => below(k - 1) \in list[groups[k - 1]].items
    BY <1>6
  <2>. HIDE DEF losing, below, node
  <2>. QED
    BY <2>2, <2>3, <2>4, <2>5
<1>14. /\ node(0) = at /\ \A k \in 1..n : node(k) # at
       /\ \A k \in 0..n - 1 : node(k) \in Paths /\ node(k) # <<Secret>>
                              /\ GroupPath(node(k), 1) = node(k + 1)
       /\ node(n) \in Paths => node(n) = <<Secret>>
  <2>1. \A k \in 1..n : node(k) # at
    <3>1. \A k \in 1..n : k \in 1..Len(at)
      BY <1>1, GroupPaths
    <3>. QED
      BY <1>1, <3>1, GroupPaths
  <2>. QED
    BY <1>1, <2>1, Chain
<1>15. \A g \in AllPaths : \A c \in Members(g) : byName[c] \in Idx /\ byName[c] # item
  <2>1. list[item].ty \in {"none", "dead"}
    BY <1>p, <1>0, <1>1 DEF ArtInv, BeforeMove
  <2>. QED
    BY <1>0, <2>1, ListedHasName DEF Members
<1>. SUFFICES ASSUME NEW g \in AllPaths, IsGroup(g)'
              PROVE  Article(g)'.items = Kids(g)'
  BY <1>2 DEF ListingInv, Late
<1>16. IsGroup(g) /\ Article(g).items = Kids(g) \cup Late(g)
  BY <1>1, <1>8 DEF ListingInv
<1>17. ASSUME NEW c \in Paths, GroupPath(c, 1) = g, c # <<Secret>>, NEW j \in 1..n, c = node(j)
       PROVE  j + 1 \in 2..n /\ g = node(j + 1)
  <2>1. j # n
    BY <1>14, <1>17
  <2>2. j \in 0..n - 1 /\ j + 1 \in 2..n
    BY <1>1, <2>1
  <2>. QED
    BY <1>14, <1>17, <2>2
<1>18. CASE \A k \in 1..n : g # node(k)
  <2>1. \A c \in Paths : GroupPath(c, 1) = g /\ c # <<Secret>> => (Listed(c)' <=> Listed(c))
    <3>1. \A j \in 2..n : j \in 1..n
      BY <1>1
    <3>. QED
      BY <1>11, <1>17, <1>18, <3>1
  <2>2. Kids(g)' = Kids(g)
    BY <1>2, <2>1, KidsKept
  <2>3. Late(g) = {}
    <3>1. n # 0 => 1 \in 1..n
      BY <1>1
    <3>. QED
      BY <1>p, <1>18, <3>1 DEF Late
  <2>. QED
    BY <1>10, <1>16, <1>18, <2>2, <2>3
<1>19. ASSUME NEW m \in 1..n, g = node(m) PROVE Article(g)'.items = Kids(g)'
  <2>1. Article(g).items = list[groups[m]].items
        /\ Article(g)'.items = IF m \in losing THEN list[groups[m]].items \ {below(m)}
                                               ELSE list[groups[m]].items
    BY <1>3, <1>7, <1>9, <1>19
  <2>2. CASE m = 1
    <3>1. \A c \in Paths : GroupPath(c, 1) = g /\ c # <<Secret>> => \A j \in 1..n : c # node(j)
      <4>1. \A j \in 1..n : j + 1 \in 2..n => j + 1 \in 1..n /\ j + 1 # 1
        BY <1>1
      <4>2. \A j \in 1..n : j + 1 \in 2..n => node(j + 1) # node(m)
        BY <1>1, <2>2, <4>1, SameGroup
      <4>. HIDE DEF node
      <4>. QED
        BY <1>17, <1>19, <4>2
    <3>2. Kids(g)' = Kids(g)
      BY <1>2, <1>11, <3>1, KidsKept
    <3>3. Late(g) = {item}
      BY <1>p, <1>1, <1>19, <2>2 DEF Late
    <3>4. item \notin Kids(g)
      BY <1>15 DEF Kids
    <3>5. m \in losing /\ below(m) = item
      BY <1>6, <2>2
    <3>. QED
      BY <1>16, <2>1, <3>2, <3>3, <3>4, <3>5
  <2>3. CASE m # 1
    <3>1. m \in 2..n /\ m - 1 \in 1..n /\ m - 1 \in 0..n - 1 /\ m - 1 + 1 = m
      BY <1>1, <2>3
    <3>2. Late(g) = {}
      <4>1. node(m) # node(1)
        BY <1>1, <2>3, SameGroup
      <4>. QED
        BY <1>p, <1>19, <4>1 DEF Late
    <3>3. node(m - 1) \in Paths /\ node(m - 1) # <<Secret>> /\ GroupPath(node(m - 1), 1) = g
      BY <1>14, <1>19, <3>1
    <3>4. \A c \in Paths : GroupPath(c, 1) = g /\ c # <<Secret>> /\ c # node(m - 1) =>
            (Listed(c)' <=> Listed(c))
      <4>. SUFFICES ASSUME NEW c \in Paths, GroupPath(c, 1) = g, c # <<Secret>>,
                           NEW j \in 1..n, c = node(j)
                    PROVE  c = node(m - 1)
        BY <1>11
      <4>1. j + 1 \in 2..n /\ g = node(j + 1)
        BY <1>17
      <4>2. j + 1 \in 1..n
        BY <1>1, <4>1
      <4>3. j + 1 = m
        BY <1>1, <1>19, <4>1, <4>2, SameGroup
      <4>4. j = m - 1
        BY <4>3
      <4>. QED
        BY <4>4
    <3>5. CASE m \in losing
      <4>1. Listed(node(m - 1)) /\ ~Listed(node(m - 1))'
        BY <1>13, <3>1, <3>5
      <4>2. Members(g)' = Members(g) \ {node(m - 1)} /\ node(m - 1) \in Members(g)
        <5>. HIDE DEF node
        <5>. QED
          BY <3>3, <3>4, <4>1 DEF Members
      <4>3. below(m) = byName[node(m - 1)]
        BY <2>3
      <4>4. \A c \in Members(g) : byName[c] = below(m) => c = node(m - 1)
        <5>. SUFFICES ASSUME NEW c \in Members(g), byName[c] = byName[node(m - 1)]
                      PROVE  c = node(m - 1)
          BY <4>3
        <5>1. byName[c] # NoIdx /\ c \in AllPaths /\ node(m - 1) \in AllPaths
          BY <1>0, <1>15, <3>3 DEF Members, NoIdx, Idx
        <5>. QED
          BY <1>0, <5>1 DEF NamesMatch
      <4>5. Kids(g)' = Kids(g) \ {below(m)}
        <5>. HIDE DEF below, node
        <5>. QED
          BY <1>2, <4>2, <4>3, <4>4 DEF Kids
      <4>. QED
        BY <1>16, <2>1, <3>2, <3>5, <4>5
    <3>6. CASE m \notin losing
      <4>1. Listed(node(m - 1))' <=> Listed(node(m - 1))
        BY <1>13, <3>1, <3>6
      <4>2. Kids(g)' = Kids(g)
        BY <1>2, <3>4, <4>1, KidsKept
      <4>. QED
        BY <1>16, <2>1, <3>2, <3>6, <4>2
    <3>. QED
      BY <3>5, <3>6
  <2>. QED
    BY <2>2, <2>3
<1>. QED
  BY <1>18, <1>19

-----------------------------------------------------------------------------
(* Every step.                                                               *)

\* Groups keep listing what they should from one step to the next.
LEMMA ListingStep == IInv /\ ParentInv /\ ListingInv /\ [Next]_vars => ListingInv'
<1>. SUFFICES ASSUME IInv, ParentInv, ListingInv, [Next]_vars, pc' # "dead"
              PROVE  ListingInv'
  BY DEF ListingInv
<1>0. ControlInv /\ GroupsInv /\ RemovalInv /\ TypeOK
  BY DEF IInv
<1>1. ASSUME NEW p \in Paths, NEW L \in Texts, New(p, L) PROVE ListingInv'
  <2>1. UNCHANGED <<list, byName>>
    BY <1>1 DEF New, Request, store
  <2>2. SameLate /\ pc # "dead"
    BY <1>0, <1>1 DEF New, Request, SameLate, Removing, Renaming, BeforeMove, ControlInv, Goto, request, job, store
  <2>. QED
    BY <2>1, <2>2, NothingEntered, ListingKept
<1>2. ASSUME NEW p \in Paths, Upload(p) PROVE ListingInv'
  <2>1. UNCHANGED <<list, byName>>
    BY <1>2 DEF Upload, Request, store
  <2>2. SameLate /\ pc # "dead"
    BY <1>0, <1>2 DEF Upload, Request, SameLate, Removing, Renaming, BeforeMove, ControlInv, Goto, request, job, store
  <2>. QED
    BY <2>1, <2>2, NothingEntered, ListingKept
<1>3. ASSUME NEW p \in Paths, NEW q \in Paths, NEW L \in Texts, Edit(p, q, L) PROVE ListingInv'
  <2>1. UNCHANGED <<list, byName>>
    BY <1>3 DEF Edit, Request, store
  <2>2. SameLate /\ pc # "dead"
    BY <1>0, <1>3 DEF Edit, Request, SameLate, Removing, Renaming, BeforeMove, ControlInv, Goto, request, job, store
  <2>. QED
    BY <2>1, <2>2, NothingEntered, ListingKept
<1>4. ASSUME NEW p \in Paths, Delete(p) PROVE ListingInv'
  <2>1. UNCHANGED <<list, byName>>
    BY <1>4 DEF Delete, Request, store
  <2>2. SameLate /\ pc # "dead"
    BY <1>0, <1>4 DEF Delete, Request, SameLate, Removing, Renaming, BeforeMove, ControlInv, Goto, request, job, store
  <2>. QED
    BY <2>1, <2>2, NothingEntered, ListingKept
<1>5. CASE LockNew
  <2>1. UNCHANGED <<list, byName>>
    BY <1>5 DEF LockNew, store
  <2>2. SameLate /\ pc # "dead"
    BY <1>0, <1>5 DEF LockNew, EndRequest, SameLate, Removing, Renaming, BeforeMove, ControlInv, Goto, request, job, store
  <2>. QED
    BY <2>1, <2>2, NothingEntered, ListingKept
<1>6. CASE LockEdit
  <2>1. UNCHANGED <<list, byName>>
    BY <1>6 DEF LockEdit, store
  <2>2. SameLate /\ pc # "dead"
    BY <1>0, <1>6 DEF LockEdit, EndRequest, SameLate, Removing, Renaming, BeforeMove, ControlInv, Goto, request, job, store
  <2>. QED
    BY <2>1, <2>2, NothingEntered, ListingKept
<1>7. CASE LockDelete
  <2>1. CASE Article(path).ty \in {"text", "img"}
    BY <1>7, <2>1, ListingDies
  <2>2. CASE Article(path).ty \notin {"text", "img"}
    <3>1. UNCHANGED <<list, byName>>
      BY <1>7, <2>2 DEF LockDelete, store
    <3>2. SameLate /\ pc # "dead"
      BY <1>0, <1>7, <2>2 DEF LockDelete, EndRequest, SameLate, Removing, Renaming, BeforeMove, ControlInv, Goto, request, job, store
    <3>. QED
      BY <3>1, <3>2, NothingEntered, ListingKept
  <2>. QED
    BY <2>1, <2>2
<1>8. CASE LockNewPath
  <2>1. UNCHANGED <<list, byName>>
    BY <1>8 DEF LockNewPath, store
  <2>2. SameLate /\ pc # "dead"
    BY <1>0, <1>8 DEF LockNewPath, EndRequest, SameLate, Removing, Renaming, BeforeMove, ControlInv, Goto, request, job, store
  <2>. QED
    BY <2>1, <2>2, NothingEntered, ListingKept
<1>9. CASE LockGroup
  <2>1. UNCHANGED <<list, byName>>
    BY <1>9 DEF LockGroup, store
  <2>2. SameLate /\ pc # "dead"
    BY <1>0, <1>9 DEF LockGroup, SameLate, Removing, Renaming, BeforeMove, ControlInv, Goto, request, job, store
  <2>. QED
    BY <2>1, <2>2, NothingEntered, ListingKept
<1>10. CASE GroupsBlocked
  <2>1. UNCHANGED <<list, byName>>
    BY <1>10 DEF GroupsBlocked, store
  <2>2. op # "delete" /\ gpath = newPath /\ EndRequest
    BY <1>0, <1>10, RemovalNotBlocked
  <2>3. SameLate /\ pc # "dead"
    BY <1>0, <1>10, <2>2 DEF GroupsBlocked, EndRequest, SameLate, Removing, Renaming, BeforeMove, ControlInv, Goto, request, job, store
  <2>. QED
    BY <2>1, <2>3, NothingEntered, ListingKept
<1>11. CASE GroupsLocked
  <2>1. UNCHANGED <<list, byName>>
    BY <1>11 DEF GroupsLocked, store
  <2>2. SameLate /\ pc # "dead"
    BY <1>0, <1>11 DEF GroupsLocked, SameLate, Removing, Renaming, BeforeMove, ControlInv, Goto, request, job, store
  <2>. QED
    BY <2>1, <2>2, NothingEntered, ListingKept
<1>12. CASE Insert
  BY <1>12, ListingEnters
<1>13. ASSUME NEW i \in Idx, Rerender(i) PROVE ListingInv'
  <2>1. UNCHANGED <<list, byName>>
    BY <1>13 DEF Rerender, store
  <2>2. SameLate /\ pc # "dead"
    BY <1>0, <1>13 DEF Rerender, SameLate, Removing, Renaming, BeforeMove, ControlInv, Goto, request, job, store
  <2>. QED
    BY <2>1, <2>2, NothingEntered, ListingKept
<1>14. ASSUME NEW i \in Idx, RerenderGone(i) PROVE ListingInv'
  <2>1. UNCHANGED <<list, byName>>
    BY <1>14 DEF RerenderGone, store
  <2>2. SameLate /\ pc # "dead"
    BY <1>0, <1>14 DEF RerenderGone, SameLate, Removing, Renaming, BeforeMove, ControlInv, Goto, request, job, store
  <2>. QED
    BY <2>1, <2>2, NothingEntered, ListingKept
<1>15. CASE Rerendered
  <2>1. UNCHANGED <<list, byName>>
    BY <1>15 DEF Rerendered, store
  <2>2. SameLate /\ pc # "dead"
    BY <1>0, <1>15 DEF Rerendered, SameLate, Removing, Renaming, BeforeMove, ControlInv, Goto, request, job, store
  <2>. QED
    BY <2>1, <2>2, NothingEntered, ListingKept
<1>16. ASSUME NEW r \in Paths, SkipRef(r) PROVE ListingInv'
  <2>1. UNCHANGED <<list, byName>>
    BY <1>16 DEF SkipRef, store
  <2>2. SameLate /\ pc # "dead"
    BY <1>0, <1>16 DEF SkipRef, SameLate, Removing, Renaming, BeforeMove, ControlInv, Goto, request, job, store
  <2>. QED
    BY <2>1, <2>2, NothingEntered, ListingKept
<1>17. ASSUME NEW r \in Paths, AddRef(r) PROVE ListingInv'
  <2>1. SameListings
    BY <1>17, LinksEnterNothing
  <2>2. SameLate /\ pc # "dead"
    BY <1>0, <1>17 DEF AddRef, SameLate, Removing, Renaming, BeforeMove, ControlInv, Goto, request, job, store
  <2>. QED
    BY <2>1, <2>2, ListingKept
<1>18. ASSUME NEW r \in Paths, RemoveRef(r) PROVE ListingInv'
  <2>1. SameListings
    BY <1>18, LinksEnterNothing
  <2>2. SameLate /\ pc # "dead"
    BY <1>0, <1>18 DEF RemoveRef, SameLate, Removing, Renaming, BeforeMove, ControlInv, Goto, request, job, store
  <2>. QED
    BY <2>1, <2>2, ListingKept
<1>19. CASE RefsDone
  <2>1. UNCHANGED <<list, byName>>
    BY <1>19 DEF RefsDone, store
  <2>2. SameLate /\ pc # "dead"
    BY <1>0, <1>19 DEF RefsDone, SameLate, Removing, Renaming, BeforeMove, ControlInv, Goto, request, job, store
  <2>. QED
    BY <2>1, <2>2, NothingEntered, ListingKept
<1>20. CASE WriteNew
  <2>1. UNCHANGED <<list, byName>>
    BY <1>20 DEF WriteNew, store
  <2>2. SameLate /\ pc # "dead"
    BY <1>0, <1>20 DEF WriteNew, SameLate, Removing, Renaming, BeforeMove, ControlInv, Goto, request, job, store
  <2>. QED
    BY <2>1, <2>2, NothingEntered, ListingKept
<1>21. CASE RenderFails
  <2>1. UNCHANGED <<list, byName>>
    BY <1>21 DEF RenderFails, store
  <2>2. SameLate /\ pc # "dead"
    BY <1>0, <1>21 DEF RenderFails, EndRequest, SameLate, Removing, Renaming, BeforeMove, ControlInv, Goto, request, job, store
  <2>. QED
    BY <2>1, <2>2, NothingEntered, ListingKept
<1>22. CASE RenderEdit
  <2>1. UNCHANGED <<list, byName>>
    BY <1>22 DEF RenderEdit, store
  <2>2. SameLate /\ pc # "dead"
    BY <1>0, <1>22 DEF RenderEdit, SameLate, Removing, Renaming, BeforeMove, ControlInv, Goto, request, job, store
  <2>. QED
    BY <2>1, <2>2, NothingEntered, ListingKept
<1>23. CASE WriteEdit
  <2>1. UNCHANGED <<list, byName>>
    BY <1>23 DEF WriteEdit, store
  <2>2. SameLate /\ pc # "dead"
    BY <1>0, <1>23 DEF WriteEdit, SameLate, Removing, Renaming, BeforeMove, ControlInv, Goto, request, job, store
  <2>. QED
    BY <2>1, <2>2, NothingEntered, ListingKept
<1>24. CASE WriteDelete
  <2>1. UNCHANGED <<list, byName>>
    BY <1>24 DEF WriteDelete, store
  <2>2. SameLate /\ pc # "dead"
    BY <1>0, <1>24 DEF WriteDelete, SameLate, Removing, Renaming, BeforeMove, ControlInv, Goto, request, job, store
  <2>. QED
    BY <2>1, <2>2, NothingEntered, ListingKept
<1>25. CASE PutInPlace
  <2>1. UNCHANGED <<list, byName>>
    BY <1>25 DEF PutInPlace, store
  <2>2. SameLate /\ pc # "dead"
    BY <1>0, <1>25 DEF PutInPlace, SameLate, Removing, Renaming, BeforeMove, ControlInv, Goto, request, job, store
  <2>. QED
    BY <2>1, <2>2, NothingEntered, ListingKept
<1>26. CASE PutRenamed
  BY <1>26, ListingEnters
<1>27. CASE Remove
  BY <1>27, ListingRemoved
<1>28. CASE Finish
  <2>1. UNCHANGED <<list, byName>>
    BY <1>28 DEF Finish, store
  <2>2. SameLate /\ pc # "dead"
    BY <1>0, <1>28 DEF Finish, EndRequest, SameLate, Removing, Renaming, BeforeMove, ControlInv, Goto, request, job, store
  <2>. QED
    BY <2>1, <2>2, NothingEntered, ListingKept
<1>29. CASE UNCHANGED vars
  <2>1. SameListings
    BY <1>29, NothingEntered DEF vars, store
  <2>2. SameLate
    BY <1>29 DEF SameLate, Removing, Renaming, BeforeMove, vars, request, job
  <2>. QED
    BY <2>1, <2>2, <1>29, ListingKept DEF vars
<1>. QED
  BY <1>1, <1>2, <1>3, <1>4, <1>5, <1>6, <1>7, <1>8, <1>9, <1>10, <1>11, <1>12, <1>13, <1>14,
     <1>15, <1>16, <1>17, <1>18, <1>19, <1>20, <1>21, <1>22, <1>23, <1>24, <1>25, <1>26, <1>27,
     <1>28, <1>29 DEF Next, Handle

\* Every property of this module in every state.
LEMMA ListingInvariance == Spec => [](IInv /\ ParentInv /\ ListingInv)
<1>1. Init => IInv /\ ParentInv /\ ListingInv
  <2>1. ASSUME Init PROVE \A p \in AllPaths : ~IsGroup(p)
    BY <2>1 DEF Init, IsGroup, Article, RecordAt, NoRec
  <2>2. \A p \in Paths : p \in AllPaths
    BY DEF AllPaths
  <2>. QED
    BY <2>1, <2>2, Start DEF ParentInv, ListingInv
<1>2. IInv /\ [Next]_vars => IInv'
  BY TypeStep, StoreStep, ControlStep, GroupsStep, HoldsStep, ReleaseStep, ArtStep, ContentsStep,
     FileStep, RoomStep, RemovalStep DEF IInv
<1>3. IInv /\ ParentInv /\ ListingInv /\ [Next]_vars => (IInv /\ ParentInv /\ ListingInv)'
  BY <1>2, ParentStep, ListingStep
<1>. QED
  BY <1>1, <1>3, PTL DEF Spec

\* Between requests a group lists the articles directly in it and the groups that have
\* something to list, and nothing else.
THEOREM ListingsAreExact == Spec => []ListingExact
<1>1. IInv /\ ListingInv => ListingExact
  BY DEF IInv, ControlInv, ListingInv, ListingExact, Late, Removing, Renaming, Kids
<1>. QED
  BY <1>1, ListingInvariance, PTL

-----------------------------------------------------------------------------
(* Who links to an article.                                                  *)

\* The target of a link knows of the text, where it has to.
Known(p, r) == LinkNeedsBacklink(p, r) => byName[p] \in Article(r).items

\* The text that is being written: its links are those of the request.
InHand(p) ==
  /\ p = path
  /\ \/ op = "new" /\ pc \in {"rerender", "refs", "write"}
     \/ op = "edit" /\ pc \in {"refs", "write"}

\* Of every other text its targets know at every step.
TextsKnown ==
  pc # "dead" =>
    \A p \in Paths : Article(p).ty = "text" /\ Readable(p) /\ ~InHand(p) =>
      \A r \in file[p].links : Known(p, r)

\* What has been registered of the links in hand, and that a new article takes over
\* the links to its path.
HandInv ==
  /\ op = "new" /\ pc = "rerender" => adds = links
  /\ op \in {"new", "edit"} /\ pc = "write" => adds = {}
  /\ op \in {"new", "edit"} /\ pc \in {"refs", "write"} => \A r \in links \ adds : Known(path, r)
  /\ Entering /\ pc \in {"lock_groups", "insert"} => rer = Article(path).items

\* No target forgets, and no group becomes anything else.
TargetsRemember ==
  \A r \in Paths : /\ IsGroup(r) => IsGroup(r)'
                   /\ ~IsGroup(r)' => Article(r).items \subseteq Article(r)'.items

LEMMA KnownKept ==
  ASSUME NEW p, NEW r \in Paths, Known(p, r), TargetsRemember, byName'[p] = byName[p]
  PROVE  Known(p, r)'
  BY DEF Known, LinkNeedsBacklink, TargetsRemember

\* Where records and names stay, all is known as before.
LEMMA SameKnown ==
  ASSUME UNCHANGED <<list, byName>>
  PROVE  /\ TargetsRemember
         /\ \A p : Article(p)' = Article(p) /\ byName'[p] = byName[p]
         /\ \A p, r : Known(p, r) <=> Known(p, r)'
  BY DEF TargetsRemember, Known, LinkNeedsBacklink, IsGroup, Article, RecordAt

\* A step that makes no text known less, and lets none out of hand.
LEMMA TextsStay ==
  ASSUME TypeOK, TextsKnown, pc # "dead", TargetsRemember,
         \A p \in Paths : Article(p)'.ty = "text" /\ Readable(p)' /\ ~InHand(p)' =>
           /\ byName'[p] = byName[p] /\ Article(p).ty = "text" /\ Readable(p) /\ ~InHand(p)
           /\ file'[p].links = file[p].links
  PROVE  TextsKnown'
<1>. SUFFICES ASSUME NEW p \in Paths, Article(p)'.ty = "text", Readable(p)', ~InHand(p)',
                     NEW r \in file'[p].links
              PROVE  Known(p, r)'
  BY DEF TextsKnown
<1>1. byName'[p] = byName[p] /\ Known(p, r) /\ r \in Paths
  BY DEF TextsKnown, TypeOK
<1>. QED
  BY <1>1, KnownKept

\* A step of a handler that changes neither records nor files, but may go on to a label
\* of its own.
LEMMA HandlerGoesOn ==
  ASSUME TypeOK, TextsKnown, pc # "dead", UNCHANGED store,
         \A p \in Paths : InHand(p) => InHand(p)'
  PROVE  TextsKnown'
<1>1. TargetsRemember /\ \A p : Article(p)' = Article(p) /\ byName'[p] = byName[p]
  BY SameKnown DEF store
<1>. QED
  BY <1>1, TextsStay DEF store, Readable
-----------------------------------------------------------------------------
\* The article in hand.
LEMMA ArticleInHand ==
  ASSUME IInv, newPath = path, pc \in {"refs", "write"}, op \in {"new", "edit"}
  PROVE  /\ path \in Paths /\ path \in AllPaths
         /\ art = byName[path] /\ art \in Idx /\ Article(path).ty = "text"
  BY DEF IInv, TypeOK, ControlInv, ArtInv, Entering, BeforeMove, Article, RecordAt, NoIdx, AllPaths

\* Links that are left out are not needed.
LEMMA SkippedIsKnown ==
  ASSUME IInv, newPath = path, pc = "refs", NEW r \in Paths, MaySkipRef(r)
  PROVE  Known(path, r)
<1>0. /\ path \in Paths /\ Article(path).ty = "text" /\ AboveInv
      /\ r \in Seq(Segments) /\ path \in Seq(Segments)
  <2>1. op \in {"new", "edit"} /\ AboveInv
    BY DEF IInv, ControlInv
  <2>. QED
    BY <2>1, ArticleInHand, PathsAssumption
<1>1. CASE Extends(r, path)
  BY <1>1 DEF Known, LinkNeedsBacklink
<1>2. CASE Extends(path, r)
  <2>1. Len(r) \in Nat /\ Len(path) \in Nat /\ r = SubSeq(path, 1, Len(r)) /\ Len(r) < Len(path)
    BY <1>0, <1>2, LenProperties DEF Extends
  <2>2. r \in Prefixes(path)
    <3>1. \E n \in 0..Len(path) - 1 : r = SubSeq(path, 1, n)
      <4>1. Len(r) \in 0..Len(path) - 1
        BY <2>1
      <4>. QED
        BY <2>1, <4>1
    <3>. QED
      BY <3>1 DEF Prefixes
  <2>3. r # Root
    BY PathsAssumption
  <2>4. IsGroup(r)
    BY <1>0, <2>2, <2>3 DEF AboveInv, HasContent
  <2>. QED
    BY <2>4 DEF Known, LinkNeedsBacklink
<1>. QED
  BY <1>1, <1>2 DEF MaySkipRef, SkipsRef

\* A link that is registered is known from then on, and the others stay known.
LEMMA Registered ==
  ASSUME IInv, newPath = path, NEW r \in Paths, AddRef(r)
  PROVE  /\ TargetsRemember /\ Known(path, r)'
         /\ \A p \in Paths : Article(p)'.ty = "text" => Article(p).ty = "text"
         /\ \A p \in Paths : Article(p).ty = "text" => byName'[p] = byName[p]
<1>0. /\ TypeOK /\ NextInv /\ next \in Nat /\ Idx \subseteq Nat
      /\ pc = "refs" /\ op \in {"new", "edit"} /\ [Next]_vars /\ path' = path
      /\ \A p \in Paths : p \in AllPaths
  BY NextIsNat DEF IInv, ControlInv, AddRef, AllPaths, Next, Handle, request
<1>1. path \in Paths /\ path \in AllPaths /\ art = byName[path] /\ art \in Idx
      /\ Article(path).ty = "text"
  BY <1>0, ArticleInHand
<1>2. \A q \in Paths : IsGroup(q) => IsGroup(q)'
  BY <1>0, StoreStep DEF GroupsKept
<1>3. CASE byName[r] = NoIdx
  <2>. DEFINE dead == [ty |-> "dead", path |-> r, items |-> {art}]
  <2>1. dead.items = {art} /\ dead.ty = "dead"
    OBVIOUS
  <2>. HIDE DEF dead
  <2>2. /\ list' = [list EXCEPT ![next + 1] = dead]
        /\ byName' = [byName EXCEPT ![r] = next + 1] /\ next + 1 \in Idx
    BY <1>0, <1>3, RoomForRef DEF AddRef, IInv, dead
  <2>3. \A p \in AllPaths : byName[p] # next + 1
    BY <1>0 DEF NextInv
  <2>4. \A p \in AllPaths \ {r} : Article(p)' = Article(p) /\ byName'[p] = byName[p]
    BY <1>0, <2>2, <2>3 DEF Article, RecordAt, TypeOK
  <2>5. Article(r)' = dead /\ Article(r).ty = "none" /\ Article(r).items = {}
    BY <1>0, <1>3, <2>2 DEF Article, RecordAt, NoRec, TypeOK, NoIdx
  <2>6. path # r /\ byName'[path] = art
    BY <1>1, <2>4, <2>5
  <2>7. TargetsRemember
    BY <1>0, <1>2, <2>4, <2>5 DEF TargetsRemember
  <2>8. Known(path, r)'
    BY <1>0, <2>1, <2>5, <2>6 DEF Known
  <2>. QED
    BY <1>0, <2>1, <2>4, <2>5, <2>7, <2>8
<1>4. CASE byName[r] # NoIdx
  <2>1. byName[r] \in Idx /\ byName' = byName /\ Article(r) = list[byName[r]]
    BY <1>0, <1>4 DEF AddRef, TypeOK, Article, RecordAt
  <2>2. CASE Article(r).ty = "group"
    <3>1. list' = list
      BY <1>4, <2>2 DEF AddRef
    <3>2. IsGroup(r)'
      BY <1>2, <2>2 DEF IsGroup
    <3>. QED
      BY <2>1, <3>1, <3>2, SameKnown DEF Known, LinkNeedsBacklink
  <2>3. CASE Article(r).ty # "group"
    <3>1. list' = [list EXCEPT ![byName[r]].items = @ \cup {art}]
      BY <1>4, <2>3 DEF AddRef
    <3>2. \A i \in Idx : /\ list'[i].ty = list[i].ty
                         /\ list[i].items \subseteq list'[i].items
                         /\ i = byName[r] => art \in list'[i].items
      BY <1>0, <2>1, <3>1 DEF TypeOK
    <3>3. \A p \in AllPaths : byName[p] # NoIdx => byName[p] \in Idx
      BY <1>0 DEF TypeOK
    <3>4. \A p \in AllPaths : /\ Article(p)'.ty = Article(p).ty
                              /\ Article(p).items \subseteq Article(p)'.items
      BY <2>1, <3>2, <3>3 DEF Article, RecordAt
    <3>5. art \in Article(r)'.items
      BY <2>1, <3>2, <1>4 DEF Article, RecordAt
    <3>6. TargetsRemember
      BY <1>0, <1>2, <3>4 DEF TargetsRemember
    <3>7. Known(path, r)'
      BY <1>0, <1>1, <2>1, <3>5 DEF Known
    <3>. QED
      BY <1>0, <2>1, <3>4, <3>6, <3>7
  <2>. QED
    BY <2>2, <2>3
<1>. QED
  BY <1>3, <1>4

\* A link that is withdrawn is one that the new text has not, and only the article in
\* hand is forgotten.
LEMMA Withdrawn ==
  ASSUME IInv, newPath = path, NEW r \in Paths, RemoveRef(r)
  PROVE  /\ byName' = byName /\ \A p \in Paths : Article(p)'.ty = Article(p).ty
         /\ \A p \in Paths, q \in Paths :
              Known(p, q) /\ Article(p).ty = "text" /\ (p = path => q \in links) => Known(p, q)'
<1>0. /\ TypeOK /\ NamesMatch /\ pc = "refs" /\ op \in {"new", "edit"} /\ byName' = byName
      /\ \A p \in Paths : p \in AllPaths
  BY DEF IInv, ControlInv, RemoveRef, AllPaths
<1>1. path \in AllPaths /\ art = byName[path] /\ art \in Idx
  BY <1>0, ArticleInHand
<1>2. CASE list' = list
  BY <1>0, <1>2, SameKnown
<1>3. CASE list' # list
  <2>1. /\ Article(r).ty \notin {"none", "group"} /\ r \notin links
        /\ list' = [list EXCEPT ![byName[r]].items = @ \ {art}]
    BY <1>3 DEF RemoveRef
  <2>2. byName[r] \in Idx
    BY <1>0, <2>1 DEF Article, RecordAt, NoRec, TypeOK
  <2>3. \A i \in Idx : /\ list'[i].ty = list[i].ty
                       /\ list[i].items \ {art} \subseteq list'[i].items
                       /\ i # byName[r] => list'[i] = list[i]
    BY <1>0, <2>1, <2>2 DEF TypeOK
  <2>4. \A p \in AllPaths : byName[p] # NoIdx => byName[p] \in Idx
    BY <1>0 DEF TypeOK
  <2>5. \A p \in AllPaths : /\ Article(p)'.ty = Article(p).ty
                            /\ Article(p).items \ {art} \subseteq Article(p)'.items
    BY <1>0, <2>3, <2>4 DEF Article, RecordAt
  <2>6. \A p \in AllPaths : p # r => Article(p)' = Article(p)
    <3>1. \A p \in AllPaths : p # r /\ byName[p] # NoIdx => byName[p] # byName[r]
      BY <1>0, <2>2 DEF NamesMatch, NoIdx
    <3>. QED
      BY <1>0, <2>3, <2>4, <3>1 DEF Article, RecordAt
  <2>7. ASSUME NEW p \in Paths, NEW q \in Paths,
               Known(p, q), Article(p).ty = "text", p = path => q \in links
        PROVE  Known(p, q)'
    <3>1. p # path => byName[p] # art
      <4>1. byName[p] # NoIdx
        BY <2>7 DEF Article, RecordAt, NoRec
      <4>. QED
        BY <1>0, <1>1, <4>1 DEF NamesMatch
    <3>2. q = r => p # path
      BY <2>1, <2>7
    <3>3. Article(q).ty = Article(q)'.ty
      BY <1>0, <2>5
    <3>4. byName[p] \in Article(q).items => byName[p] \in Article(q)'.items
      BY <1>0, <2>5, <2>6, <3>1, <3>2
    <3>. QED
      BY <1>0, <2>7, <3>3, <3>4 DEF Known, LinkNeedsBacklink, IsGroup
  <2>. QED
    BY <1>0, <2>5, <2>7
<1>. QED
  BY <1>2, <1>3

\* A new article takes over the links to its path; the others stay known.
LEMMA TakesOver ==
  ASSUME IInv, HandInv, Insert, newPath = path
  PROVE  /\ TargetsRemember
         /\ \A p \in Paths \ {path} : Article(p)'.ty = "text" =>
              byName'[p] = byName[p] /\ Article(p).ty = "text"
         /\ op = "upload" => Article(path)'.ty = "img"
<1>0. /\ TypeOK /\ NamesMatch /\ [Next]_vars /\ pc = "insert" /\ Entering
      /\ \A p \in Paths : p \in AllPaths
      /\ path' = path
  BY DEF IInv, ControlInv, Insert, AllPaths, Next, Handle, request
<1>1. /\ Enters /\ path \in Paths /\ path \notin GroupLocks
      /\ \A p \in AllPaths \ (GroupLocks \cup {path}) : byName[p] # NoIdx =>
           byName'[p] = byName[p] /\ list'[byName[p]] = list[byName[p]]
      /\ \A p \in AllPaths : IsGroup(p)' <=> IsGroup(p) \/ p \in GroupLocks
      /\ \A p \in AllPaths : HasContent(p)' <=> p = path \/ (HasContent(p) /\ p # path)
  BY EntersFrame
<1>2. next + 1 \in Idx /\ byName'[path] = next + 1 /\ list'[next + 1] = Entry
  BY <1>1 DEF Enters
<1>3. Entry.items = Article(path).items /\ Entry.ty = IF op = "new" THEN "text" ELSE "img"
  BY <1>0 DEF Entry, HandInv
<1>4. Article(path)' = Entry
  BY <1>0, <1>1, <1>2, NextIsNat DEF Article, RecordAt, NoIdx, Idx
<1>5. \A p \in Paths \ {path} : p \notin GroupLocks =>
        \/ byName[p] = NoIdx
        \/ byName'[p] = byName[p] /\ Article(p)' = Article(p)
  BY <1>0, <1>1 DEF Article, RecordAt
<1>6. \A r \in Paths : ~IsGroup(r)' => Article(r).items \subseteq Article(r)'.items
  <2>1. \A r \in Paths : byName[r] = NoIdx => Article(r).items = {}
    BY DEF Article, RecordAt, NoRec
  <2>. QED
    <3>1. ASSUME NEW r \in Paths, ~IsGroup(r)'
          PROVE  Article(r).items \subseteq Article(r)'.items
      <4>1. r \notin GroupLocks
        BY <1>0, <1>1, <3>1
      <4>2. CASE r = path
        BY <1>0, <1>3, <1>4, <4>2
      <4>3. CASE r # path
        BY <1>5, <2>1, <4>1, <4>3
      <4>. QED
        BY <4>2, <4>3
    <3>. QED
      BY <3>1
<1>7. ASSUME NEW p \in Paths \ {path}, Article(p)'.ty = "text"
      PROVE  byName'[p] = byName[p] /\ Article(p).ty = "text"
  <2>1. HasContent(p)' /\ ~IsGroup(p)'
    BY <1>7 DEF HasContent, IsGroup
  <2>2. HasContent(p) /\ p \notin GroupLocks
    BY <1>0, <1>1, <2>1
  <2>3. byName[p] # NoIdx
    BY <2>2 DEF HasContent, Article, RecordAt, NoRec
  <2>. QED
    BY <1>5, <1>7, <2>2, <2>3
<1>. QED
  BY <1>0, <1>1, <1>3, <1>4, <1>6, <1>7, StoreStep DEF TargetsRemember, GroupsKept

-----------------------------------------------------------------------------
\* A write puts the links in hand into the file, and they are known by then.
LEMMA TextWritten ==
  ASSUME IInv, TextsKnown, HandInv, newPath = path, pc = "write", pc' # "dead",
         op \in {"new", "edit"}, UNCHANGED <<list, byName, path>>,
         \/ file' = [file EXCEPT ![path] = Text(links)]
         \/ file' = file /\ file[path].kind = "img"
  PROVE  TextsKnown'
<1>0. /\ TypeOK /\ path \in Paths
      /\ \A r \in links : Known(path, r)
  BY ArticleInHand DEF IInv, HandInv
<1>1. TargetsRemember /\ \A p : Article(p)' = Article(p) /\ byName'[p] = byName[p]
  BY SameKnown
<1>2. Text(links).links = links /\ links \subseteq Paths
  BY <1>0 DEF Text, TypeOK
<1>3. \A p \in Paths : p # path => file'[p] = file[p] /\ ~InHand(p)
  BY <1>0 DEF TypeOK, InHand
<1>4. Readable(path)' => file'[path].links \subseteq links
  BY <1>0, <1>2 DEF TypeOK, Readable
<1>. SUFFICES ASSUME NEW p \in Paths, Article(p)'.ty = "text", Readable(p)', NEW r \in file'[p].links
              PROVE  Known(p, r)'
  BY DEF TextsKnown
<1>5. CASE p = path
  <2>1. r \in links /\ r \in Paths
    BY <1>2, <1>4, <1>5
  <2>2. Known(p, r)
    BY <1>0, <1>5, <2>1
  <2>. QED
    BY <1>1, <2>1, <2>2, KnownKept
<1>6. CASE p # path
  <2>1. file'[p] = file[p] /\ ~InHand(p) /\ Article(p).ty = "text" /\ Readable(p)
    BY <1>1, <1>3, <1>6 DEF Readable
  <2>2. Known(p, r) /\ r \in Paths
    BY <1>0, <2>1 DEF TextsKnown, TypeOK
  <2>. QED
    BY <1>1, <2>2, KnownKept
<1>. QED
  BY <1>5, <1>6

\* Every step keeps it, as long as nothing is renamed.
LEMMA TextsStep ==
  IInv /\ TextsKnown /\ HandInv /\ newPath = path /\ [Next]_vars => TextsKnown'
<1>. SUFFICES ASSUME IInv, TextsKnown, HandInv, newPath = path, [Next]_vars
              PROVE  TextsKnown'
  OBVIOUS
<1>d. pc = "dead" => pc' = "dead"
  BY DEF Next, Handle, New, Upload, Edit, Delete, Request, LockNew, LockEdit, LockDelete,
         LockNewPath, LockGroup, GroupsBlocked, GroupsLocked, Insert, Rerender, RerenderGone,
         Rerendered, SkipRef, AddRef, RemoveRef, RefsDone, WriteNew, RenderFails, RenderEdit,
         WriteEdit, WriteDelete, PutInPlace, PutRenamed, Remove, Finish, vars
<1>. SUFFICES ASSUME pc # "dead", pc' # "dead"
              PROVE  TextsKnown'
  BY <1>d DEF TextsKnown
<1>0. TypeOK /\ NamesMatch /\ ControlInv /\ ArtInv /\ \A p \in Paths : p \in AllPaths
  BY DEF IInv, AllPaths
<1>n. ~Renaming
  BY DEF Renaming
<1>s. UNCHANGED store /\ (\A p \in Paths : InHand(p) => InHand(p)') => TextsKnown'
  BY <1>0, HandlerGoesOn
<1>1. ASSUME NEW p \in Paths, NEW L \in Texts, New(p, L) PROVE TextsKnown'
  BY <1>s, <1>1 DEF New, Request, InHand
<1>2. ASSUME NEW p \in Paths, Upload(p) PROVE TextsKnown'
  BY <1>s, <1>2 DEF Upload, Request, InHand
<1>3. ASSUME NEW p \in Paths, NEW q \in Paths, NEW L \in Texts, Edit(p, q, L) PROVE TextsKnown'
  BY <1>s, <1>3 DEF Edit, Request, InHand
<1>4. ASSUME NEW p \in Paths, Delete(p) PROVE TextsKnown'
  BY <1>s, <1>4 DEF Delete, Request, InHand
<1>5. CASE LockNew
  BY <1>s, <1>5 DEF LockNew, InHand
<1>6. CASE LockEdit
  BY <1>s, <1>6 DEF LockEdit, InHand
<1>7. CASE LockDelete
  <2>. PICK at, d : at = path /\ d = byName[path]
    OBVIOUS
  <2>1. CASE Article(path).ty \notin {"text", "img"}
    BY <1>s, <1>7, <2>1 DEF LockDelete, InHand
  <2>2. CASE Article(path).ty \in {"text", "img"}
    <3>1. /\ list' = [list EXCEPT ![d].ty = "dead"] /\ byName' = byName /\ file' = file
          /\ pc = "lock" /\ pc' = "rerender" /\ op' = "delete" /\ path' = path
      BY <1>7, <2>2 DEF LockDelete, Goto, request
    <3>2. d \in Idx /\ at \in AllPaths
      BY <1>0, <2>2 DEF Article, RecordAt, NoRec, TypeOK
    <3>3. \A i \in Idx : /\ list'[i].items = list[i].items
                         /\ list'[i].ty = IF i = d THEN "dead" ELSE list[i].ty
      BY <1>0, <3>1, <3>2 DEF TypeOK
    <3>4. \A p \in AllPaths : byName[p] # NoIdx => byName[p] \in Idx
      BY <1>0 DEF TypeOK
    <3>5. \A p \in AllPaths : byName[p] = d => p = at
      BY <1>0, <2>2, <3>2 DEF NamesMatch, NoIdx, Idx
    <3>6. \A p \in AllPaths : /\ Article(p)'.items = Article(p).items
                              /\ Article(p)'.ty = IF p = at THEN "dead" ELSE Article(p).ty
      BY <3>1, <3>2, <3>3, <3>4, <3>5, <2>2 DEF Article, RecordAt, NoIdx, NoRec
    <3>7. TargetsRemember
      <4>1. ~IsGroup(at)
        BY <2>2 DEF IsGroup
      <4>. QED
        BY <1>0, <3>6, <4>1 DEF TargetsRemember, IsGroup
    <3>8. \A p \in Paths : Article(p)'.ty = "text" => Article(p).ty = "text"
      BY <1>0, <3>6
    <3>. QED
      BY <1>0, <3>1, <3>7, <3>8, TextsStay DEF InHand, Readable
  <2>. QED
    BY <2>1, <2>2
<1>8. CASE LockNewPath
  BY <1>0, <1>n, <1>8 DEF LockNewPath, ControlInv
<1>9. CASE LockGroup
  BY <1>s, <1>9 DEF LockGroup, InHand
<1>10. CASE GroupsBlocked
  BY <1>s, <1>10 DEF GroupsBlocked, InHand
<1>11. CASE GroupsLocked
  BY <1>s, <1>11 DEF GroupsLocked, InHand
<1>12. CASE Insert
  <2>1. /\ TargetsRemember
        /\ \A p \in Paths \ {path} : Article(p)'.ty = "text" =>
             byName'[p] = byName[p] /\ Article(p).ty = "text"
        /\ op = "upload" => Article(path)'.ty = "img"
    BY <1>12, TakesOver
  <2>2. pc = "insert" /\ pc' = "rerender" /\ path' = path /\ op' = op /\ file' = file
        /\ op \in {"new", "upload"}
    BY <1>0, <1>12 DEF Insert, Goto, request, ControlInv, Entering
  <2>3. \A p \in Paths : Article(p)'.ty = "text" /\ ~InHand(p)' => p # path
    BY <2>1, <2>2 DEF InHand
  <2>4. \A p : ~InHand(p)
    BY <2>2 DEF InHand
  <2>. QED
    BY <1>0, <2>1, <2>2, <2>3, <2>4, TextsStay DEF Readable
<1>13. ASSUME NEW i \in Idx, Rerender(i) PROVE TextsKnown'
  <2>1. op # "edit"
    BY <1>0, <1>n, <1>13 DEF Rerender, ControlInv
  <2>2. file' = file
    BY <1>0, <1>13, <2>1 DEF Rerender, Rewritten, TypeOK, Goto
  <2>3. UNCHANGED <<list, byName, next, op, path, pc>>
    BY <1>13 DEF Rerender, request, Goto
  <2>. QED
    BY <1>s, <2>2, <2>3 DEF InHand, store
<1>14. ASSUME NEW i \in Idx, RerenderGone(i) PROVE TextsKnown'
  BY <1>s, <1>14 DEF RerenderGone, InHand, request
<1>15. CASE Rerendered
  BY <1>s, <1>15 DEF Rerendered, InHand, request, Goto
<1>16. ASSUME NEW r \in Paths, SkipRef(r) PROVE TextsKnown'
  BY <1>s, <1>16 DEF SkipRef, InHand, request
<1>17. ASSUME NEW r \in Paths, AddRef(r) PROVE TextsKnown'
  <2>1. /\ TargetsRemember
        /\ \A p \in Paths : Article(p)'.ty = "text" => Article(p).ty = "text"
        /\ \A p \in Paths : Article(p).ty = "text" => byName'[p] = byName[p]
    BY <1>17, Registered
  <2>2. UNCHANGED <<file, pc, op, path>>
    BY <1>17 DEF AddRef, request
  <2>. QED
    BY <1>0, <2>1, <2>2, TextsStay DEF InHand, Readable
<1>18. ASSUME NEW r \in Paths, RemoveRef(r) PROVE TextsKnown'
  <2>1. /\ byName' = byName /\ \A p \in Paths : Article(p)'.ty = Article(p).ty
        /\ \A p \in Paths, q \in Paths :
              Known(p, q) /\ Article(p).ty = "text" /\ (p = path => q \in links) => Known(p, q)'
    BY <1>18, Withdrawn
  <2>2. UNCHANGED <<file, pc, op, path>> /\ pc = "refs"
    BY <1>18 DEF RemoveRef, request
  <2>3. op \in {"new", "edit"}
    BY <1>0, <2>2 DEF ControlInv
  <2>. SUFFICES ASSUME NEW p \in Paths, Article(p)'.ty = "text", Readable(p)', ~InHand(p)',
                       NEW q \in file'[p].links
                PROVE  Known(p, q)'
    BY DEF TextsKnown
  <2>4. Article(p).ty = "text" /\ Readable(p) /\ ~InHand(p) /\ p # path
    BY <2>1, <2>2, <2>3 DEF Readable, InHand
  <2>5. Known(p, q) /\ q \in Paths
    BY <1>0, <2>2, <2>4 DEF TextsKnown, TypeOK
  <2>. QED
    BY <2>1, <2>4, <2>5
<1>19. CASE RefsDone
  BY <1>s, <1>19 DEF RefsDone, InHand, request, Goto
<1>20. CASE WriteNew
  <2>1. CASE op = "new"
    <3>1. /\ pc = "write" /\ UNCHANGED <<list, byName, path>>
          /\ \/ file' = [file EXCEPT ![path] = Text(links)]
             \/ file' = file /\ file[path].kind = "img"
      BY <1>20, <2>1 DEF WriteNew, Goto, request
    <3>. QED
      BY <2>1, <3>1, TextWritten
  <2>2. CASE op = "upload"
    <3>1. /\ pc = "write" /\ UNCHANGED <<list, byName, path, op>>
          /\ file' = [file EXCEPT ![path] = Image]
      BY <1>20, <2>2 DEF WriteNew, Goto, request
    <3>2. TargetsRemember /\ \A p : Article(p)' = Article(p) /\ byName'[p] = byName[p]
      BY <3>1, SameKnown
    <3>3. \A p \in Paths : Readable(p)' => Readable(p) /\ file'[p] = file[p]
      BY <1>0, <3>1 DEF Readable, Image, TypeOK
    <3>. QED
      BY <1>0, <2>2, <3>1, <3>2, <3>3, TextsStay DEF InHand
  <2>. QED
    BY <1>20, <2>1, <2>2 DEF WriteNew
<1>21. CASE RenderFails
  BY <1>s, <1>21 DEF RenderFails, InHand
<1>22. CASE RenderEdit
  BY <1>s, <1>22 DEF RenderEdit, InHand
<1>23. CASE WriteEdit
  <2>1. /\ pc = "write" /\ op = "edit" /\ UNCHANGED <<list, byName, path>>
        /\ file' = [file EXCEPT ![path] = Text(links)]
    BY <1>23 DEF WriteEdit, request
  <2>. QED
    BY <2>1, TextWritten
<1>24. CASE WriteDelete
  <2>1. /\ pc = "write" /\ op = "delete" /\ UNCHANGED <<list, byName, path, op>>
        /\ file' = [file EXCEPT ![path] = Text({})]
    BY <1>24 DEF WriteDelete, request, Goto
  <2>2. TargetsRemember /\ \A p : Article(p)' = Article(p) /\ byName'[p] = byName[p]
    BY <2>1, SameKnown
  <2>3. Article(path).ty # "text"
    BY <1>0, <2>1 DEF ArtInv, Article, RecordAt
  <2>4. \A p \in Paths : p # path => file'[p] = file[p]
    BY <1>0, <2>1 DEF TypeOK
  <2>. QED
    BY <1>0, <2>1, <2>2, <2>3, <2>4, TextsStay DEF InHand, Readable
<1>25. CASE PutInPlace
  BY <1>s, <1>25 DEF PutInPlace, InHand
<1>26. CASE PutRenamed
  BY <1>26 DEF PutRenamed
<1>27. CASE Remove
  <2>. DEFINE losing == {k \in 1..Len(groups) : Loses(k)}
  <2>1. /\ byName' = byName /\ file' = file /\ pc = "remove" /\ pc' # "refs" /\ op' = op /\ path' = path
        /\ list' = [i \in Idx |->
                     IF \E k \in losing : groups[k] = i
                       THEN [list[i] EXCEPT !.items = @ \
                               {NodeOf(art, k - 1) : k \in {k \in losing : groups[k] = i}}]
                       ELSE list[i]]
    BY <1>27 DEF Remove, Goto, request
  <2>2. \A k \in losing : groups[k] # NoIdx /\ list[groups[k]].ty = "group"
    BY <2>1 DEF Loses, IInv, GroupsInv, GroupsFound
  <2>. HIDE DEF losing
  <2>3. \A i \in Idx : /\ list'[i].ty = list[i].ty
                       /\ list[i].ty # "group" => list'[i] = list[i]
    BY <1>0, <2>1, <2>2 DEF TypeOK
  <2>4. \A p \in AllPaths : byName[p] # NoIdx => byName[p] \in Idx
    BY <1>0 DEF TypeOK
  <2>5. \A p \in AllPaths : /\ Article(p)'.ty = Article(p).ty
                            /\ ~IsGroup(p) => Article(p)' = Article(p)
    <3>1. byName' = byName
      BY <2>1
    <3>. QED
      BY <2>3, <2>4, <3>1 DEF Article, RecordAt, IsGroup
  <2>6. TargetsRemember
    BY <1>0, <2>5 DEF TargetsRemember, IsGroup
  <2>. QED
    BY <1>0, <2>1, <2>5, <2>6, TextsStay DEF InHand, Readable
<1>28. CASE Finish
  BY <1>s, <1>28 DEF Finish, InHand
<1>29. CASE UNCHANGED vars
  BY <1>s, <1>29 DEF vars, InHand, request
<1>. QED
  BY <1>1, <1>2, <1>3, <1>4, <1>5, <1>6, <1>7, <1>8, <1>9, <1>10, <1>11, <1>12, <1>13,
     <1>14, <1>15, <1>16, <1>17, <1>18, <1>19, <1>20, <1>21, <1>22, <1>23, <1>24, <1>25,
     <1>26, <1>27, <1>28, <1>29 DEF Next, Handle

\* What is in hand stays registered, until it is written.
LEMMA HandStep ==
  IInv /\ HandInv /\ newPath = path /\ [Next]_vars => HandInv'
<1>. SUFFICES ASSUME IInv, HandInv, newPath = path, [Next]_vars
              PROVE  HandInv'
  OBVIOUS
<1>0. TypeOK /\ ControlInv /\ \A p \in Paths : p \in AllPaths
  BY DEF IInv, AllPaths
<1>n. ~Renaming
  BY DEF Renaming
\* Steps that leave no text in hand and no article to be entered.
<1>e. pc' \notin {"rerender", "refs", "write", "lock_groups", "insert"} => HandInv'
  BY DEF HandInv
\* Steps that stay where they are.
<1>s. UNCHANGED <<list, byName, pc, op, path, links, adds, rer>> => HandInv'
  <2>. SUFFICES ASSUME UNCHANGED <<list, byName, pc, op, path, links, adds, rer>> PROVE HandInv'
    OBVIOUS
  <2>1. /\ \A p : Article(p)' = Article(p)
        /\ \A p, r : Known(p, r) <=> Known(p, r)'
    BY SameKnown
  <2>2. Article(path)' = Article(path) /\ \A r : Known(path, r) <=> Known(path, r)'
    BY <2>1 DEF Article, RecordAt, Known, LinkNeedsBacklink, IsGroup
  <2>. QED
    BY <2>2 DEF HandInv, Entering
<1>1. ASSUME NEW p \in Paths, NEW L \in Texts, New(p, L) PROVE HandInv'
  BY <1>e, <1>1 DEF New, Request, Goto
<1>2. ASSUME NEW p \in Paths, Upload(p) PROVE HandInv'
  BY <1>e, <1>2 DEF Upload, Request, Goto
<1>3. ASSUME NEW p \in Paths, NEW q \in Paths, NEW L \in Texts, Edit(p, q, L) PROVE HandInv'
  BY <1>e, <1>3 DEF Edit, Request, Goto
<1>4. ASSUME NEW p \in Paths, Delete(p) PROVE HandInv'
  BY <1>e, <1>4 DEF Delete, Request, Goto
<1>5. CASE LockNew
  <2>1. CASE Article(path).ty \in {"none", "dead"}
    <3>1. /\ pc' = "lock_groups" /\ rer' = Article(path).items
          /\ UNCHANGED <<list, byName, path>>
      BY <1>5, <2>1 DEF LockNew, Goto, request, store
    <3>2. Article(path)' = Article(path)
      BY <3>1 DEF Article, RecordAt
    <3>. QED
      BY <3>1, <3>2 DEF HandInv
  <2>2. CASE Article(path).ty \notin {"none", "dead"}
    BY <1>e, <1>5, <2>2 DEF LockNew, EndRequest, Goto
  <2>. QED
    BY <2>1, <2>2
<1>6. CASE LockEdit
  BY <1>e, <1>6 DEF LockEdit, EndRequest, Goto
<1>7. CASE LockDelete
  <2>1. op' \notin {"new", "upload", "edit"}
    BY <1>7 DEF LockDelete, EndRequest, request
  <2>. QED
    BY <2>1 DEF HandInv, Entering
<1>8. CASE LockNewPath
  BY <1>0, <1>n, <1>8 DEF LockNewPath, ControlInv
<1>9. CASE LockGroup
  BY <1>s, <1>9 DEF LockGroup, store, request
<1>10. CASE GroupsBlocked
  BY <1>e, <1>10 DEF GroupsBlocked, EndRequest, Goto
<1>11. CASE GroupsLocked
  <2>1. /\ UNCHANGED <<list, byName, path, op, rer>> /\ pc = "lock_groups"
        /\ pc' \in {"insert", "render", "remove"}
    BY <1>11 DEF GroupsLocked, store, request, job, Goto
  <2>2. Article(path)' = Article(path)
    BY <2>1 DEF Article, RecordAt
  <2>. QED
    BY <2>1, <2>2 DEF HandInv, Entering
<1>12. CASE Insert
  <2>1. pc' = "rerender" /\ adds' = links /\ links' = links
    BY <1>12 DEF Insert, Goto, request
  <2>. QED
    BY <2>1 DEF HandInv
<1>13. ASSUME NEW i \in Idx, Rerender(i) PROVE HandInv'
  <2>1. pc = "rerender" /\ pc' \in {"rerender", "dead"} /\ UNCHANGED <<op, adds, links>>
    BY <1>13 DEF Rerender, Goto, request
  <2>. QED
    BY <2>1 DEF HandInv
<1>14. ASSUME NEW i \in Idx, RerenderGone(i) PROVE HandInv'
  <2>1. pc = "rerender" /\ pc' = "rerender" /\ UNCHANGED <<op, adds, links>>
    BY <1>14 DEF RerenderGone, Goto, request
  <2>. QED
    BY <2>1 DEF HandInv
<1>15. CASE Rerendered
  <2>1. /\ pc = "rerender" /\ UNCHANGED <<op, adds, links>>
        /\ pc' = CASE op = "delete" -> "lock_groups" [] op = "new" -> "refs"
                   [] op = "upload" -> "write" [] OTHER -> "finish"
    <3>1. CASE op = "delete"
      BY <1>15, <3>1 DEF Rerendered, Goto, request
    <3>2. CASE op # "delete"
      BY <1>15, <3>2 DEF Rerendered, Goto, request
    <3>. QED
      BY <3>1, <3>2
  <2>2. op = "new" => adds' = links'
    BY <2>1 DEF HandInv
  <2>. QED
    BY <2>1, <2>2 DEF HandInv, Entering
<1>16. ASSUME NEW r \in Paths, SkipRef(r) PROVE HandInv'
  <2>1. /\ pc = "refs" /\ pc' = "refs" /\ UNCHANGED <<list, byName, op, path, links>>
        /\ adds' = adds \ {r} /\ MaySkipRef(r)
    BY <1>16 DEF SkipRef, store, request
  <2>2. op \in {"new", "edit"}
    BY <1>0, <2>1 DEF ControlInv
  <2>3. \A q \in links \ adds' : Known(path, q)
    BY <2>1, <2>2, SkippedIsKnown DEF HandInv
  <2>4. \A q : Known(path, q) <=> Known(path, q)'
    BY <2>1 DEF Article, RecordAt, Known, LinkNeedsBacklink, IsGroup
  <2>. QED
    BY <2>1, <2>3, <2>4 DEF HandInv
<1>17. ASSUME NEW r \in Paths, AddRef(r) PROVE HandInv'
  <2>1. /\ pc = "refs" /\ pc' = "refs" /\ UNCHANGED <<op, path, links>>
        /\ adds' = adds \ {r}
    BY <1>17 DEF AddRef, request
  <2>2. op \in {"new", "edit"} /\ links \subseteq Paths
    BY <1>0, <2>1 DEF ControlInv, TypeOK
  <2>3. TargetsRemember /\ Known(path, r)' /\ byName'[path] = byName[path]
    BY <2>1, <2>2, <1>17, Registered, ArticleInHand
  <2>4. ASSUME NEW q \in links \ adds' PROVE Known(path, q)'
    <3>1. CASE q = r
      BY <2>3, <3>1
    <3>2. CASE q # r
      <4>1. Known(path, q) /\ q \in Paths
        BY <2>1, <2>2, <2>4, <3>2 DEF HandInv
      <4>2. \A p : p = path => Known(p, q)'
        BY <2>3, <4>1, KnownKept
      <4>. QED
        BY <2>1, <4>2
    <3>. QED
      BY <3>1, <3>2
  <2>. QED
    BY <2>1, <2>4 DEF HandInv
<1>18. ASSUME NEW r \in Paths, RemoveRef(r) PROVE HandInv'
  <2>1. /\ pc = "refs" /\ pc' = "refs" /\ UNCHANGED <<op, path, links, adds>>
    BY <1>18 DEF RemoveRef, request
  <2>2. op \in {"new", "edit"} /\ links \subseteq Paths
    BY <1>0, <2>1 DEF ControlInv, TypeOK
  <2>3. path \in Paths /\ Article(path).ty = "text"
    BY <2>1, <2>2, ArticleInHand
  <2>4. \A q \in links \ adds : \A p : p = path => Known(p, q)'
    BY <2>1, <2>2, <2>3, <1>18, Withdrawn DEF HandInv
  <2>. QED
    BY <2>1, <2>4 DEF HandInv
<1>19. CASE RefsDone
  <2>1. /\ pc = "refs" /\ pc' = "write" /\ UNCHANGED <<list, byName, op, path, links, adds>>
        /\ adds = {}
    BY <1>19 DEF RefsDone, request, store, job, Goto
  <2>2. \A q : Known(path, q) <=> Known(path, q)'
    BY <2>1 DEF Article, RecordAt, Known, LinkNeedsBacklink, IsGroup
  <2>. QED
    BY <2>1, <2>2 DEF HandInv
<1>20. CASE WriteNew
  BY <1>e, <1>20 DEF WriteNew, Goto
<1>21. CASE RenderFails
  BY <1>e, <1>21 DEF RenderFails, EndRequest, Goto
<1>22. CASE RenderEdit
  <2>1. \/ pc' = "refs" /\ adds' = links /\ links' = links /\ op = "edit" /\ op' = op
        \/ pc' \in {"put", "dead"}
    BY <1>0, <1>22 DEF RenderEdit, Goto, request, ControlInv
  <2>. QED
    BY <1>e, <2>1 DEF HandInv
<1>23. CASE WriteEdit
  BY <1>e, <1>23 DEF WriteEdit, Goto
<1>24. CASE WriteDelete
  BY <1>e, <1>24 DEF WriteDelete, Goto
<1>25. CASE PutInPlace
  BY <1>e, <1>25 DEF PutInPlace, Goto
<1>26. CASE PutRenamed
  BY <1>26 DEF PutRenamed
<1>27. CASE Remove
  <2>1. op = "delete" /\ op' = op
    BY <1>0, <1>n, <1>27 DEF Remove, ControlInv, request
  <2>. QED
    BY <2>1 DEF HandInv, Entering
<1>28. CASE Finish
  BY <1>e, <1>28 DEF Finish, EndRequest, Goto
<1>29. CASE UNCHANGED vars
  BY <1>s, <1>29 DEF vars, store, request, job
<1>. QED
  BY <1>1, <1>2, <1>3, <1>4, <1>5, <1>6, <1>7, <1>8, <1>9, <1>10, <1>11, <1>12, <1>13,
     <1>14, <1>15, <1>16, <1>17, <1>18, <1>19, <1>20, <1>21, <1>22, <1>23, <1>24, <1>25,
     <1>26, <1>27, <1>28, <1>29 DEF Next, Handle

\* Where edits never change the path, no request renames.
LEMMA NothingRenamed == ~Renames /\ Spec => [](newPath = path)
<1>. SUFFICES ASSUME ~Renames PROVE Spec => [](newPath = path)
  OBVIOUS
<1>1. Init => newPath = path
  BY DEF Init
<1>2. ASSUME newPath = path, [Next]_vars PROVE (newPath = path)'
  <2>1. ASSUME Handle PROVE UNCHANGED request \/ EndRequest
    <3>1. ASSUME NEW i \in Idx, Rerender(i) \/ RerenderGone(i) PROVE UNCHANGED request
      BY <3>1 DEF Rerender, RerenderGone
    <3>2. ASSUME NEW r \in Paths, SkipRef(r) \/ AddRef(r) \/ RemoveRef(r) PROVE UNCHANGED request
      BY <3>2 DEF SkipRef, AddRef, RemoveRef
    <3>3. CASE LockNew \/ LockEdit \/ LockDelete \/ LockNewPath
      BY <3>3 DEF LockNew, LockEdit, LockDelete, LockNewPath
    <3>4. CASE LockGroup \/ GroupsBlocked \/ GroupsLocked
      BY <3>4 DEF LockGroup, GroupsBlocked, GroupsLocked
    <3>5. CASE Insert \/ PutRenamed
      BY <3>5 DEF Insert, PutRenamed
    <3>6. CASE Rerendered \/ RefsDone \/ WriteNew \/ RenderFails \/ RenderEdit
      BY <3>6 DEF Rerendered, RefsDone, WriteNew, RenderFails, RenderEdit
    <3>7. CASE WriteEdit \/ WriteDelete \/ PutInPlace \/ Remove \/ Finish
      BY <3>7 DEF WriteEdit, WriteDelete, PutInPlace, Remove, Finish
    <3>. QED
      BY <2>1, <3>1, <3>2, <3>3, <3>4, <3>5, <3>6, <3>7 DEF Handle
  <2>2. CASE Handle
    BY <1>2, <2>1, <2>2 DEF EndRequest, request
  <2>3. CASE ~Handle /\ Next
    <3>1. ASSUME NEW p \in Paths, NEW q \in Paths, NEW L \in Texts, Edit(p, q, L)
          PROVE  newPath' = path'
      <4>1. q = p
        BY <3>1, Zenon DEF Edit
      <4>. QED
        BY <3>1, <4>1 DEF Edit, Request
    <3>2. ASSUME NEW p \in Paths, NEW L \in Texts, New(p, L)
          PROVE  newPath' = path'
      BY <3>2 DEF New, Request
    <3>3. ASSUME NEW p \in Paths, Upload(p) \/ Delete(p)
          PROVE  newPath' = path'
      BY <3>3 DEF Upload, Delete, Request
    <3>. QED
      BY <2>3, <3>1, <3>2, <3>3 DEF Next
  <2>4. CASE UNCHANGED vars
    BY <1>2, <2>4 DEF vars, request
  <2>. QED
    BY <1>2, <2>2, <2>3, <2>4
<1>. QED
  BY <1>1, <1>2, PTL DEF Spec

\* As long as nothing is renamed, what a text links to knows of it, whatever is created,
\* edited and deleted meanwhile.
THEOREM BacklinksAreKnown == Spec /\ [](newPath = path) => []BacklinksKnown
<1>1. Init => IInv /\ TextsKnown /\ HandInv
  <2>1. ASSUME Init PROVE TextsKnown /\ HandInv
    BY <2>1 DEF Init, TextsKnown, HandInv, Entering, Article, RecordAt, NoRec, AllPaths
  <2>. QED
    BY <2>1, Start
<1>2. IInv /\ TextsKnown /\ HandInv /\ newPath = path /\ [Next]_vars =>
        TextsKnown' /\ HandInv'
  BY TextsStep, HandStep
<1>3. TextsKnown => BacklinksKnown
  BY DEF TextsKnown, BacklinksKnown, InHand, Known
<1>. QED
  BY <1>1, <1>2, <1>3, Invariance, PTL DEF Spec
=============================================================================

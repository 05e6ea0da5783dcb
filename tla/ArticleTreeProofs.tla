------------------------- MODULE ArticleTreeProofs -------------------------
(***************************************************************************)
(* The handlers implement the tree of articles, for any finite set of      *)
(* paths and any bounds: every step of ArticleStore changes what can be    *)
(* read as one step of WikiTree may, or not at all.                        *)
(***************************************************************************)
EXTENDS ArticleTree, ArticleStoreProofs

\* What the files hold, and that an edit only goes on with a text.
TreeInv ==
  /\ file \in [Paths -> Contents \cup {NoFile}]
  /\ op = "edit" /\ pc \in {"refs", "write"} => Readable(path)

Visible(p) == HasContent(p) /\ ~Unwritten(p)

\* The contents of files.
LEMMA ContentsAre ==
  /\ Image \in Contents /\ NoFile \notin Contents
  /\ \A L \in SUBSET Paths : Text(L) \in Contents
  /\ \A c \in Contents : c.kind \in {"text", "img"} /\ c.links \in SUBSET Paths
                         /\ (c.kind = "img" => c = Image)
<1>1. Image.kind = "img" /\ Image.links = {} /\ NoFile.kind = "none"
  BY DEF Image, NoFile
<1>2. \A L \in SUBSET Paths : Text(L).kind = "text" /\ Text(L).links = L
  BY DEF Text
<1>3. \A c \in Contents : c = Image \/ \E L \in SUBSET Paths : c = Text(L)
  BY DEF Contents
<1>4. Image \in Contents /\ \A L \in SUBSET Paths : Text(L) \in Contents
  BY DEF Contents
<1>5. NoFile \notin Contents
  BY <1>1, <1>2, <1>3
<1>6. \A c \in Contents : c.kind \in {"text", "img"} /\ c.links \in SUBSET Paths
                         /\ (c.kind = "img" => c = Image)
  BY <1>1, <1>2, <1>3
<1>. QED
  BY <1>4, <1>5, <1>6

\* Links turned are links of a text again.
LEMMA RewrittenIs ==
  ASSUME NEW c \in Contents, path \in Paths, newPath \in Paths
  PROVE  /\ Rewritten(c) \in Contents
         /\ op = "edit" => Rewritten(c) = LinksTurned[path][newPath][c]
         /\ op # "edit" => Rewritten(c) = c
<1>1. c.links \in SUBSET Paths
  BY ContentsAre
<1>2. path \in c.links => c.kind = "text"
  BY ContentsAre DEF Image
<1>3. (c.links \ {path}) \cup {newPath} \in SUBSET Paths
  BY <1>1
<1>4. Rewritten(c) \in Contents
  BY <1>3, ContentsAre DEF Rewritten
<1>5. LinksTurned[path][newPath][c] =
        IF c.kind = "text" /\ path \in c.links
          THEN Text((c.links \ {path}) \cup {newPath}) ELSE c
  BY DEF LinksTurned
<1>. QED
  BY <1>2, <1>4, <1>5 DEF Rewritten

\* Files are written whole, and an edit is not told of another's.
LEMMA TreeInvStep == IInv /\ TreeInv /\ [Next]_vars => TreeInv'
<1>. SUFFICES ASSUME IInv, TreeInv, [Next]_vars PROVE TreeInv'
  OBVIOUS
<1>0. IInv /\ TypeOK /\ ControlInv /\ TreeInv
  BY DEF IInv
<1>. USE DEF TreeInv, Goto, EndRequest, store, locks, request, job
<1>1. ASSUME NEW p \in Paths, NEW L \in Texts, New(p, L) PROVE TreeInv'
  BY <1>0, <1>1 DEF New, Request
<1>2. ASSUME NEW p \in Paths, Upload(p) PROVE TreeInv'
  BY <1>0, <1>2 DEF Upload, Request
<1>3. ASSUME NEW p \in Paths, NEW q \in Paths, NEW L \in Texts, Edit(p, q, L) PROVE TreeInv'
  BY <1>0, <1>3 DEF Edit, Request
<1>4. ASSUME NEW p \in Paths, Delete(p) PROVE TreeInv'
  BY <1>0, <1>4 DEF Delete, Request
<1>5. CASE LockNew
  BY <1>0, <1>5 DEF LockNew
<1>6. CASE LockEdit
  BY <1>0, <1>6 DEF LockEdit
<1>7. CASE LockDelete
  BY <1>0, <1>7 DEF LockDelete
<1>8. CASE LockNewPath
  BY <1>0, <1>8 DEF LockNewPath
<1>9. CASE LockGroup
  BY <1>0, <1>9 DEF LockGroup
<1>10. CASE GroupsBlocked
  <2>1. \/ EndRequest \/ (pc' = "dead" /\ UNCHANGED <<request, job>>)
    BY <1>0, <1>10, RemovalNotBlocked DEF IInv
  <2>2. file' = file
    BY <1>10 DEF GroupsBlocked
  <2>. QED
    BY <1>0, <2>1, <2>2
<1>11. CASE GroupsLocked
  BY <1>0, <1>11 DEF GroupsLocked
<1>12. CASE Insert
  BY <1>0, <1>12 DEF Insert
<1>13. ASSUME NEW i \in Idx, Rerender(i) PROVE TreeInv'
  <2>1. file' = file \/ file' = [file EXCEPT ![list[i].path] = Rewritten(@)]
    BY <1>13 DEF Rerender
  <2>2. pc = "rerender" /\ pc' \in {pc, "dead"} /\ op' = op
    BY <1>13 DEF Rerender
  <2>3. path \in Paths /\ newPath \in Paths
    BY <1>0, <2>2 DEF ControlInv
  <2>4. ASSUME file' = [file EXCEPT ![list[i].path] = Rewritten(@)], NEW p \in Paths
        PROVE  file'[p] \in {file[p], Rewritten(file[p])}
    BY <1>0, <2>4
  <2>5. Rewritten(NoFile) = NoFile
    BY DEF Rewritten, NoFile
  <2>6. \A p \in Paths : Rewritten(file[p]) \in Contents \cup {NoFile}
    BY <1>0, <2>3, <2>5, RewrittenIs
  <2>7. file' \in [Paths -> Contents \cup {NoFile}]
    <3>1. CASE file' = file
      BY <1>0, <3>1
    <3>2. CASE file' = [file EXCEPT ![list[i].path] = Rewritten(@)]
      <4>1. file' = [p \in Paths |-> file'[p]]
        BY <1>0, <3>2
      <4>2. \A p \in Paths : file'[p] \in Contents \cup {NoFile}
        BY <1>0, <2>4, <2>6, <3>2
      <4>. QED
        BY <4>1, <4>2
    <3>. QED
      BY <2>1, <3>1, <3>2
  <2>. QED
    BY <2>2, <2>7
<1>14. ASSUME NEW i \in Idx, RerenderGone(i) PROVE TreeInv'
  BY <1>0, <1>14 DEF RerenderGone
<1>15. CASE Rerendered
  BY <1>0, <1>15 DEF Rerendered
<1>16. ASSUME NEW r \in Paths, SkipRef(r) PROVE TreeInv'
  BY <1>0, <1>16 DEF SkipRef, Readable
<1>17. ASSUME NEW r \in Paths, AddRef(r) PROVE TreeInv'
  BY <1>0, <1>17 DEF AddRef, Readable
<1>18. ASSUME NEW r \in Paths, RemoveRef(r) PROVE TreeInv'
  BY <1>0, <1>18 DEF RemoveRef, Readable
<1>19. CASE RefsDone
  BY <1>0, <1>19 DEF RefsDone, Readable
<1>20. CASE WriteNew
  BY <1>0, <1>20, ContentsAre DEF WriteNew, TypeOK
<1>21. CASE RenderFails
  BY <1>0, <1>21 DEF RenderFails
<1>22. CASE RenderEdit
  BY <1>0, <1>22 DEF RenderEdit, Readable
<1>23. CASE WriteEdit
  BY <1>0, <1>23, ContentsAre DEF WriteEdit, TypeOK
<1>24. CASE WriteDelete
  BY <1>0, <1>24, ContentsAre DEF WriteDelete, TypeOK
<1>25. CASE PutInPlace
  BY <1>0, <1>25 DEF PutInPlace
<1>26. CASE PutRenamed
  <2>1. file' = [file EXCEPT ![newPath] = file[path], ![path] = NoFile] /\ pc' = "lock_groups"
        /\ pc = "put"
    BY <1>26 DEF PutRenamed
  <2>2. path \in Paths
    BY <1>0, <2>1 DEF ControlInv
  <2>. QED
    BY <1>0, <2>1, <2>2
<1>27. CASE Remove
  <2>1. file' = file /\ op' = op /\ (op = "edit" => pc' \in {"dead", "rerender"})
    BY <1>27 DEF Remove
  <2>. QED
    BY <1>0, <2>1
<1>28. CASE Finish
  BY <1>0, <1>28 DEF Finish
<1>29. CASE UNCHANGED vars
  BY <1>0, <1>29 DEF vars, Readable
<1>. HIDE DEF TreeInv
<1>. QED
  BY <1>1, <1>2, <1>3, <1>4, <1>5, <1>6, <1>7, <1>8, <1>9, <1>10, <1>11, <1>12, <1>13,
     <1>14, <1>15, <1>16, <1>17, <1>18, <1>19, <1>20, <1>21, <1>22, <1>23, <1>24, <1>25,
     <1>26, <1>27, <1>28, <1>29 DEF Next, Handle

-----------------------------------------------------------------------------
(* What can be read.                                                         *)

\* What is asked, of the request that is made.
LEMMA AskedIs ==
  /\ op = "none" => Asked = Wiki!NoRequest
  /\ op \in {"new", "upload"} => /\ Asked.op = op /\ Asked.path = path
                                 /\ Asked.content = IF op = "new" THEN Text(links) ELSE Image
  /\ op = "edit" => /\ Asked.op = op /\ Asked.path = path /\ Asked.to = newPath
                    /\ Asked.content = Text(links)
  /\ op = "delete" => Asked.op = op /\ Asked.path = path
  BY DEF Asked, Wiki!NoRequest

\* A path holds its file when its article can be seen, and nothing otherwise.
LEMMA TreeIs ==
  ASSUME IInv, TreeInv, pc # "dead"
  PROVE  /\ \A p \in Paths : Visible(p) => file[p] # NoFile
         /\ Wiki!Articles = {p \in Paths : Visible(p)}
         /\ \A p \in Paths : Tree[p] = IF Visible(p) THEN file[p] ELSE NoFile
         /\ DOMAIN Tree = Paths
<1>1. ASSUME NEW p \in Paths, Visible(p) PROVE file[p] # NoFile
  <2>1. byName[p] \in Idx /\ list[byName[p]].ty \in {"text", "img"} /\ list[byName[p]].path = p
    <3>1. p \in AllPaths
      BY DEF AllPaths
    <3>2. Article(p).ty \in {"text", "img"}
      BY <1>1 DEF Visible, HasContent
    <3>. QED
      BY <3>1, <3>2, ArticleTyped DEF IInv, NamesMatch, Article, RecordAt, NoIdx, Idx
  <2>2. byName[p] = art => ~(Entering /\ pc \in {"rerender", "refs", "write"})
    <3>1. ASSUME byName[p] = art, Entering, pc \in {"rerender", "refs", "write"} PROVE FALSE
      <4>1. Unwritten(p)
        <5>1. p = path
          BY <2>1, <3>1 DEF IInv, ArtInv, NamesMatch, ControlInv, AllPaths
        <5>. QED
          BY <2>1, <3>1, <5>1 DEF Unwritten, Entering, NoIdx, Idx
      <4>. QED
        BY <1>1, <4>1 DEF Visible
    <3>. QED
      BY <3>1
  <2>3. file[p].kind # "none"
    BY <2>1, <2>2 DEF IInv, FileInv
  <2>. QED
    BY <2>3 DEF NoFile
<1>. QED
  BY <1>1 DEF Tree, Visible, Wiki!Articles

\* What is at a path stays of its kind.
SameKindsOf ==
  /\ \A p \in AllPaths : HasContent(p)' <=> HasContent(p)
  /\ \A p \in AllPaths : IsGroup(p)' <=> IsGroup(p)

\* Where no article is entered, moved or deleted, the kinds of what is at a path stay.
LEMMA KindsStay ==
  ASSUME IInv, [Next]_vars, ~Dies, ~Insert, ~PutRenamed
  PROVE  SameKindsOf
<1>0. TypeOK /\ NamesMatch /\ NextInv /\ next \in Nat /\ Idx \subseteq Nat /\ \A p \in Paths : p \in AllPaths
  BY NextIsNat DEF IInv, AllPaths
<1>1. CASE SameKinds
  BY <1>0, <1>1, KindsKept DEF SameKindsOf, HasContent, IsGroup
<1>2. ASSUME NEW r \in Paths, LeavesDead(r) PROVE SameKindsOf
  <2>. DEFINE dead == [ty |-> "dead", path |-> r, items |-> {art}]
  <2>1. /\ next + 1 \in Idx
        /\ \A i \in Idx : list'[i] = IF i = next + 1 THEN dead ELSE list[i]
        /\ \A p \in AllPaths : byName'[p] = IF p = r THEN next + 1 ELSE byName[p]
        /\ byName[r] = NoIdx /\ dead.ty = "dead"
    BY <1>0, <1>2 DEF LeavesDead, TypeOK
  <2>. HIDE DEF dead
  <2>2. \A p \in AllPaths : byName[p] \in Idx \cup {NoIdx} /\ byName[p] # next + 1
    <3>1. \A p \in AllPaths : byName[p] \in Idx \cup {NoIdx} /\ byName[p] <= next
      BY <1>0 DEF TypeOK, NextInv
    <3>. QED
      BY <1>0, <3>1 DEF NoIdx
  <2>3. \A p \in AllPaths : p # r => Article(p)'.ty = Article(p).ty
    BY <1>0, <2>1, <2>2 DEF Article, RecordAt
  <2>4. Article(r)'.ty = "dead" /\ Article(r).ty = "none"
    BY <1>0, <2>1 DEF Article, RecordAt, NoRec, NoIdx, Idx
  <2>. QED
    BY <2>3, <2>4 DEF SameKindsOf, HasContent, IsGroup
<1>. QED
  BY <1>1, <1>2, StoreSteps DEF StoreChange

\* A step by which nothing that can be read changes is none of the tree's.
LEMMA Unseen ==
  ASSUME SameKindsOf, UNCHANGED request, file' = file,
         \A p \in Paths : Unwritten(p)' <=> Unwritten(p)
  PROVE  UNCHANGED Wiki!treeVars
<1>1. \A p \in Paths : p \in AllPaths
  BY DEF AllPaths
<1>2. Tree' = Tree
  BY <1>1 DEF Tree, SameKindsOf
<1>3. Dirs' = Dirs
  BY DEF Dirs, SameKindsOf
<1>4. Asked' = Asked
  BY DEF Asked, request
<1>. QED
  BY <1>2, <1>3, <1>4 DEF Wiki!treeVars

\* A request that ends leaves what can be read.
LEMMA Ended ==
  ASSUME UNCHANGED <<list, byName, file>>, op' = "none",
         \A p \in Paths : ~Unwritten(p)
  PROVE  Wiki!End
<1>1. \A p \in Paths : ~Unwritten(p)'
  BY DEF Unwritten
<1>2. \A p \in AllPaths : (HasContent(p)' <=> HasContent(p)) /\ (IsGroup(p)' <=> IsGroup(p))
  BY DEF HasContent, IsGroup, Article, RecordAt
<1>3. Tree' = Tree
  BY <1>1, <1>2 DEF Tree, AllPaths
<1>4. Dirs' = Dirs
  BY <1>2 DEF Dirs
<1>5. Asked' = Wiki!NoRequest
  BY DEF Asked, Wiki!NoRequest
<1>. QED
  BY <1>3, <1>4, <1>5 DEF Wiki!End

\* A request that begins asks for one of the things that can be asked.
LEMMA Begun ==
  ASSUME IInv, pc = "idle", UNCHANGED <<store, job>>, pc' = "lock",
         path' \in Paths, newPath' \in Paths, links' \in SUBSET Paths,
         op' \in {"new", "upload", "edit", "delete"}
  PROVE  Wiki!Begin
<1>1. op = "none" /\ art = NoIdx
  BY DEF IInv, ControlInv
<1>2. \A p \in Paths : ~Unwritten(p) /\ ~Unwritten(p)'
  BY <1>1 DEF Unwritten, job
<1>3. \A p \in AllPaths : (HasContent(p)' <=> HasContent(p)) /\ (IsGroup(p)' <=> IsGroup(p))
  BY DEF HasContent, IsGroup, Article, RecordAt, store
<1>4. Tree' = Tree
  BY <1>2, <1>3 DEF Tree, AllPaths, store
<1>5. Dirs' = Dirs
  BY <1>3 DEF Dirs
<1>6. Asked = Wiki!NoRequest
  BY <1>1 DEF Asked, Wiki!NoRequest
<1>7. Asked' \in Wiki!Requests
  <2>1. Text(links') \in Contents /\ Image \in Contents
    BY ContentsAre
  <2>2. CASE op' = "new"
    <3>1. Asked' = [op |-> op', path |-> path', content |-> Text(links')]
      BY <2>2 DEF Asked, Text
    <3>. QED
      BY <2>1, <2>2, <3>1 DEF Wiki!Requests
  <2>3. CASE op' = "upload"
    <3>1. Asked' = [op |-> op', path |-> path', content |-> Image]
      BY <2>3 DEF Asked
    <3>. QED
      BY <2>1, <2>3, <3>1 DEF Wiki!Requests
  <2>4. CASE op' = "edit"
    <3>1. Asked' = [op |-> op', path |-> path', to |-> newPath', content |-> Text(links')]
      BY <2>4 DEF Asked, Text
    <3>. QED
      BY <2>1, <2>4, <3>1 DEF Wiki!Requests
  <2>5. CASE op' = "delete"
    <3>1. Asked' = [op |-> op', path |-> path']
      BY <2>5 DEF Asked
    <3>. QED
      BY <2>5, <3>1 DEF Wiki!Requests
  <2>. QED
    BY <2>2, <2>3, <2>4, <2>5
<1>. QED
  BY <1>4, <1>5, <1>6, <1>7 DEF Wiki!Begin

\* Groups are listed under the groups above them.
LEMMA AboveIs ==
  ASSUME IInv, Insert \/ PutRenamed
  PROVE  /\ Above[newPath] = GroupLocks
         /\ Above[newPath] \cap {p \in Paths : Visible(p)} = {}
<1>1. newPath \in Paths /\ gpath = newPath /\ Len(groups) = NumGroups(newPath)
      /\ \A g \in GroupLocks : Article(g).ty \in {"none", "group"}
  BY EntersFrame
<1>2. Above[newPath] = GroupLocks
  BY <1>1 DEF Above, GroupLocks
<1>. QED
  BY <1>1, <1>2 DEF Visible, HasContent

\* A deleted article is gone at once.
LEMMA Deleted ==
  ASSUME IInv, TreeInv, LockDelete, HasContent(path), ~EndRequest, path \in Paths, art = NoIdx,
         pc = "lock", op = "delete"
  PROVE  Wiki!Remove
<1>1. UNCHANGED <<byName, next, file, request>> /\ list' = [list EXCEPT ![byName[path]].ty = "dead"]
  BY DEF LockDelete
<1>2. byName[path] \in Idx /\ path \in AllPaths /\ TypeOK /\ NamesMatch
  BY ArticleTyped DEF IInv, HasContent, AllPaths
<1>3. \A i \in Idx : list'[i].ty = IF i = byName[path] THEN "dead" ELSE list[i].ty
  BY <1>1, <1>2 DEF TypeOK
<1>4. \A p \in AllPaths : byName[p] # NoIdx => byName[p] \in Idx
  BY <1>2 DEF TypeOK
<1>5. \A p \in AllPaths : byName[p] = byName[path] => p = path
  BY <1>2 DEF NamesMatch, NoIdx, Idx
<1>6. \A p \in AllPaths : Article(p)'.ty = IF p = path THEN "dead" ELSE Article(p).ty
  BY <1>1, <1>2, <1>3, <1>4, <1>5 DEF Article, RecordAt, NoRec, NoIdx, Idx
<1>7. \A p \in Paths : ~Unwritten(p) /\ ~Unwritten(p)'
  BY <1>1 DEF Unwritten, request
<1>8. Tree' = [Tree EXCEPT ![path] = NoFile]
  BY <1>1, <1>6, <1>7 DEF Tree, HasContent, AllPaths
<1>9. Dirs' = Dirs
  BY <1>6 DEF Dirs, IsGroup, HasContent
<1>10. Asked' = Asked /\ Asked.op = "delete" /\ Asked.path = path
  BY <1>1, AskedIs DEF request, Asked
<1>11. Tree[path] # NoFile
  BY <1>7, TreeIs DEF Visible
<1>. QED
  BY <1>8, <1>9, <1>10, <1>11 DEF Wiki!Remove

\* The groups above a new article are made with it, before it can be read.
LEMMA Inserted ==
  ASSUME IInv, TreeInv, Insert
  PROVE  Wiki!MakeDirs
<1>1. pc = "insert" /\ pc' = "rerender" /\ UNCHANGED <<file, request>> /\ art' = next + 1
  BY DEF Insert, Goto, request
<1>2. op \in {"new", "upload"} /\ newPath = path /\ art = NoIdx /\ path \in Paths
      /\ Article(path).ty \in {"none", "dead"} /\ next \in Nat
  BY <1>1, NextIsNat DEF IInv, ControlInv, ArtInv, Entering
<1>3. /\ \A p \in AllPaths : IsGroup(p)' <=> IsGroup(p) \/ p \in GroupLocks
      /\ \A p \in AllPaths : HasContent(p)' <=> p = newPath \/ (HasContent(p) /\ p # path)
      /\ GroupLocks \subseteq AllPaths
  BY EntersFrame
<1>4. Above[path] = GroupLocks /\ Above[path] \cap Wiki!Articles = {}
  BY <1>1, <1>2, AboveIs, TreeIs
<1>5. \A p \in Paths : (Unwritten(p)' <=> p = path) /\ ~Unwritten(p)
  BY <1>1, <1>2 DEF Unwritten, request, NoIdx
<1>6. Tree' = Tree
  BY <1>1, <1>2, <1>3, <1>5 DEF Tree, HasContent, AllPaths
<1>7. Dirs' = Dirs \cup Above[path]
  BY <1>3, <1>4 DEF Dirs
<1>8. Asked' = Asked /\ Asked.op \in {"new", "upload"} /\ Asked.path = path
  BY <1>1, <1>2, AskedIs DEF request, Asked
<1>. QED
  BY <1>4, <1>6, <1>7, <1>8 DEF Wiki!MakeDirs

\* An article moves with its file, and its new groups are made with it.
LEMMA Moved ==
  ASSUME IInv, TreeInv, PutRenamed
  PROVE  Wiki!Move
<1>1. pc = "put" /\ newPath # path /\ UNCHANGED request
      /\ file' = [file EXCEPT ![newPath] = file[path], ![path] = NoFile]
  BY DEF PutRenamed
<1>2. op = "edit" /\ path \in Paths /\ newPath \in Paths
      /\ art = byName[path] /\ art # NoIdx /\ list[art].ty = "text" /\ byName[newPath] = NoIdx
  BY <1>1 DEF IInv, ControlInv, ArtInv, BeforeMove, Renaming
<1>3. /\ \A p \in AllPaths : IsGroup(p)' <=> IsGroup(p) \/ p \in GroupLocks
      /\ \A p \in AllPaths : HasContent(p)' <=> p = newPath \/ (HasContent(p) /\ p # path)
      /\ GroupLocks \subseteq AllPaths
  BY EntersFrame
<1>4. Above[newPath] = GroupLocks /\ Above[newPath] \cap Wiki!Articles = {}
  BY <1>1, AboveIs, TreeIs
<1>5. \A p \in Paths : ~Unwritten(p)' /\ ~Unwritten(p)
  BY <1>1, <1>2 DEF Unwritten, request
<1>6. HasContent(path) /\ ~HasContent(newPath) /\ ~IsGroup(newPath)
  BY <1>2 DEF HasContent, IsGroup, Article, RecordAt, NoRec
<1>7. /\ file'[newPath] = file[path]
      /\ \A p \in Paths \ {path, newPath} : file'[p] = file[p]
  BY <1>1, <1>2 DEF TreeInv
<1>8. \A p \in Paths : p \in AllPaths
  BY DEF AllPaths
<1>9. Tree' = [Tree EXCEPT ![newPath] = Tree[path], ![path] = NoFile]
  <2>1. \A p \in Paths : Tree[p] = IF HasContent(p) THEN file[p] ELSE NoFile
    BY <1>5 DEF Tree
  <2>2. \A p \in Paths : Tree'[p] = IF HasContent(p)' THEN file'[p] ELSE NoFile
    BY <1>5 DEF Tree
  <2>3. DOMAIN Tree = Paths /\ Tree' = [p \in Paths |-> Tree'[p]] /\ Tree = [p \in Paths |-> Tree[p]]
    BY DEF Tree
  <2>4. \A p \in Paths : Tree'[p] = IF p = path THEN NoFile
                                    ELSE IF p = newPath THEN Tree[path] ELSE Tree[p]
    BY <1>1, <1>2, <1>3, <1>6, <1>7, <1>8, <2>1, <2>2
  <2>. QED
    BY <1>1, <1>2, <2>3, <2>4
<1>10. Dirs' = Dirs \cup Above[newPath]
  BY <1>3, <1>4 DEF Dirs
<1>11. Asked' = Asked /\ Asked.op = "edit" /\ Asked.path = path /\ Asked.to = newPath
  BY <1>1, <1>2, AskedIs DEF request, Asked
<1>12. Tree[path] # NoFile /\ Tree[newPath] = NoFile /\ newPath \notin Dirs
  BY <1>1, <1>2, <1>5, <1>6, TreeIs DEF Visible, Dirs
<1>. QED
  BY <1>1, <1>4, <1>9, <1>10, <1>11, <1>12 DEF Wiki!Move

\* Before a file is written nothing moves but the file.
LEMMA SameArticles ==
  ASSUME UNCHANGED <<list, byName>>
  PROVE  /\ \A p \in AllPaths : (HasContent(p)' <=> HasContent(p)) /\ (IsGroup(p)' <=> IsGroup(p))
         /\ \A p \in Paths : p \in AllPaths
         /\ Dirs' = Dirs
<1>1. \A p \in AllPaths : (HasContent(p)' <=> HasContent(p)) /\ (IsGroup(p)' <=> IsGroup(p))
  BY DEF HasContent, IsGroup, Article, RecordAt
<1>. QED
  BY <1>1 DEF Dirs, AllPaths

\* An edit writes its text to the article it was made for.
LEMMA Written ==
  ASSUME IInv, TreeInv, WriteEdit
  PROVE  Wiki!Write
<1>1. pc = "write" /\ op = "edit" /\ UNCHANGED <<list, byName, request>>
      /\ file' = [file EXCEPT ![path] = Text(links)]
  BY DEF WriteEdit
<1>2. path \in Paths /\ HasContent(path)
  BY <1>1 DEF IInv, ControlInv, ArtInv, BeforeMove, HasContent, Article, RecordAt
<1>3. \A p \in Paths : ~Unwritten(p)' /\ ~Unwritten(p)
  BY <1>1 DEF Unwritten, request
<1>4. Tree' = [Tree EXCEPT ![path] = Text(links)]
  BY <1>1, <1>2, <1>3, SameArticles DEF Tree, TreeInv
<1>5. Tree[path] = file[path] /\ file[path] \notin {NoFile, Image}
  BY <1>1, <1>2, <1>3 DEF Tree, TreeInv, Readable, NoFile, Image
<1>6. Asked' = Asked /\ Asked.op = "edit" /\ Asked.path = path /\ Asked.content = Text(links)
  BY <1>1, AskedIs DEF request, Asked
<1>7. Dirs' = Dirs
  BY <1>1, SameArticles
<1>. QED
  BY <1>4, <1>5, <1>6, <1>7 DEF Wiki!Write

\* A new article appears when its file is written, in groups that are there.
LEMMA Appeared ==
  ASSUME IInv, TreeInv, WriteNew
  PROVE  Wiki!Create \/ UNCHANGED Wiki!treeVars
<1>1. pc = "write" /\ op \in {"new", "upload"} /\ UNCHANGED <<list, byName, request, art>>
  BY DEF WriteNew, job
<1>2. path \in Paths /\ HasContent(path) /\ art # NoIdx
  BY <1>1 DEF IInv, ControlInv, ArtInv, Entering, HasContent, Article, RecordAt
<1>3. Asked' = Asked /\ Asked.op \in {"new", "upload"} /\ Asked.path = path
      /\ Asked.content = IF op = "new" THEN Text(links) ELSE Image
  BY <1>1, AskedIs DEF request, Asked
<1>4. \A p \in Paths : Unwritten(p) <=> p = path
  BY <1>1, <1>2 DEF Unwritten
<1>5. CASE pc' = "finish"
  <2>0. file = [p \in Paths |-> file[p]] /\ (file[path].kind = "img" => file[path] = Image)
    BY <1>2, ContentsAre DEF TreeInv, NoFile
  <2>. DEFINE c == IF op = "upload" THEN Image
                   ELSE IF file' = file /\ file[path].kind = "img" THEN Image ELSE Text(links)
  <2>1. file' = [file EXCEPT ![path] = c]
    BY <1>1, <1>2, <1>5, <2>0 DEF WriteNew, Goto
  <2>2. c \in {Asked.content, Image}
    BY <1>1, <1>3
  <2>. HIDE DEF c
  <2>3. \A p \in Paths : ~Unwritten(p)'
    BY <1>5 DEF Unwritten
  <2>4. Tree' = [Tree EXCEPT ![path] = c]
    BY <1>1, <1>2, <1>4, <2>1, <2>3, SameArticles DEF Tree, TreeInv
  <2>5. Tree[path] = NoFile /\ path \notin Dirs
    BY <1>2, <1>4 DEF Tree, Dirs, HasContent, IsGroup
  <2>6. Above[path] \subseteq Dirs
    <3>1. \A k \in 1..NumGroups(path) : IsGroup(GroupPath(path, k)) /\ GroupPath(path, k) \in AllPaths
      BY <1>2, ListingPrefixes DEF IInv, AboveInv
    <3>. QED
      BY <1>2, <3>1 DEF Above, Dirs
  <2>. QED
    BY <1>1, <1>3, <2>2, <2>4, <2>5, <2>6, SameArticles DEF Wiki!Create
<1>6. CASE pc' = "dead" /\ file' = file
  <2>1. \A p \in Paths : Unwritten(p)' <=> p = path
    BY <1>1, <1>2, <1>6 DEF Unwritten, request
  <2>2. Tree' = Tree
    BY <1>1, <1>4, <1>6, <2>1, SameArticles DEF Tree
  <2>. QED
    BY <1>1, <1>3, <2>2, SameArticles DEF Wiki!treeVars
<1>. QED
  BY <1>5, <1>6 DEF WriteNew, Goto

\* What a deleted article's file holds cannot be read.
LEMMA Emptied ==
  ASSUME IInv, TreeInv, WriteDelete
  PROVE  UNCHANGED Wiki!treeVars
<1>1. pc = "write" /\ op = "delete" /\ UNCHANGED <<list, byName, request>>
      /\ \A p \in Paths : p # path => file'[p] = file[p]
  BY DEF WriteDelete, TreeInv
<1>2. ~HasContent(path)
  BY <1>1 DEF IInv, ArtInv, HasContent, Article, RecordAt
<1>3. \A p \in Paths : ~Unwritten(p) /\ ~Unwritten(p)'
  BY <1>1 DEF Unwritten, request
<1>4. Tree' = Tree
  BY <1>1, <1>2, <1>3, SameArticles DEF Tree
<1>5. Asked' = Asked
  BY <1>1 DEF Asked, request
<1>. QED
  BY <1>1, <1>4, <1>5, SameArticles DEF Wiki!treeVars

\* Rendering again turns the links of one text to the new path, or leaves it as it is.
LEMMA Relinked ==
  ASSUME IInv, TreeInv, NEW i \in Idx, Rerender(i)
  PROVE  Wiki!TreeNext \/ UNCHANGED Wiki!treeVars
<1>. DEFINE r == list[i].path
<1>1. pc = "rerender" /\ pc' \in {pc, "dead"} /\ UNCHANGED <<list, byName, request, art>>
      /\ (file' = file \/ (file[r].kind # "none" /\ file' = [file EXCEPT ![r] = Rewritten(@)]))
  BY DEF Rerender, Goto, request
<1>2. \A p \in Paths : Unwritten(p)' <=> Unwritten(p)
  BY <1>1 DEF Unwritten, request
<1>3. Asked' = Asked /\ Dirs' = Dirs
  BY <1>1, SameArticles DEF Asked, request
<1>4. path \in Paths /\ newPath \in Paths /\ r \in AllPaths
  BY <1>1 DEF IInv, ControlInv, TypeOK
<1>. HIDE DEF r
<1>5. CASE file' = file \/ op # "edit" \/ r \notin Paths \/ ~HasContent(r)
  <2>1. \A p \in Paths : HasContent(p) => file'[p] = file[p] \/ Unwritten(p)
    <3>. SUFFICES ASSUME NEW p \in Paths, HasContent(p), ~Unwritten(p) PROVE file'[p] = file[p]
      OBVIOUS
    <3>1. file[p] \in Contents
      BY <1>1, TreeIs DEF Visible, TreeInv
    <3>2. op # "edit" => Rewritten(file[p]) = file[p]
      BY <1>4, <3>1, RewrittenIs
    <3>. QED
      BY <1>1, <1>5, <3>2 DEF TreeInv
  <2>2. Tree' = Tree
    BY <1>1, <1>2, <2>1, SameArticles DEF Tree
  <2>. QED
    BY <1>3, <2>2 DEF Wiki!treeVars
<1>6. CASE file' # file /\ op = "edit" /\ r \in Paths /\ HasContent(r)
  <2>1. \A p \in Paths : ~Unwritten(p)
    BY <1>6 DEF Unwritten
  <2>2. newPath # path /\ byName[path] = NoIdx /\ HasContent(newPath)
    BY <1>1, <1>6 DEF IInv, ControlInv, ArtInv, Renaming, BeforeMove, HasContent, Article, RecordAt
  <2>3. Tree[path] = NoFile /\ Tree[newPath] # NoFile
    <3>1. ~HasContent(path)
      BY <2>2 DEF HasContent, Article, RecordAt, NoRec
    <3>. QED
      BY <1>1, <1>4, <2>1, <2>2, <3>1, TreeIs DEF Visible
  <2>4. Tree[r] = file[r] /\ file[r] \in Contents
    BY <1>1, <1>6, <2>1, TreeIs DEF Visible, TreeInv
  <2>5. Rewritten(file[r]) = LinksTurned[path][newPath][Tree[r]]
    BY <1>4, <1>6, <2>4, RewrittenIs
  <2>6. Tree' = [Tree EXCEPT ![r] = LinksTurned[path][newPath][Tree[r]]]
    <3>1. file' = [file EXCEPT ![r] = LinksTurned[path][newPath][Tree[r]]]
      BY <1>1, <1>6, <2>5
    <3>. QED
      BY <1>1, <1>2, <1>6, <2>1, <3>1, SameArticles DEF Tree, TreeInv
  <2>7. Asked.op = "edit" /\ Asked.path = path /\ Asked.to = newPath
    BY <1>6, AskedIs
  <2>8. Wiki!Relink(r)
    BY <1>3, <2>3, <2>4, <2>6, <2>7, ContentsAre DEF Wiki!Relink
  <2>. QED
    BY <1>6, <2>8 DEF Wiki!TreeNext
<1>. QED
  BY <1>5, <1>6

\* A step that no rule of the tree's knows changes nothing that can be read.
LEMMA Quiet ==
  ASSUME IInv, [Next]_vars, ~Dies, ~Insert, ~PutRenamed, UNCHANGED request, file' = file,
         \A p \in Paths : Unwritten(p)' <=> Unwritten(p)
  PROVE  UNCHANGED Wiki!treeVars
  BY KindsStay, Unseen

\* Every step of a handler is one that the tree may take, or cannot be seen.
LEMMA TreeStep ==
  IInv /\ TreeInv /\ [Next]_vars => Wiki!TreeNext \/ UNCHANGED Wiki!treeVars
<1>. SUFFICES ASSUME IInv, TreeInv, [Next]_vars
              PROVE  Wiki!TreeNext \/ UNCHANGED Wiki!treeVars
  OBVIOUS
<1>0. IInv /\ TreeInv /\ TypeOK /\ ControlInv /\ ArtInv /\ GroupsInv /\ RemovalInv /\ [Next]_vars
  BY DEF IInv
<1>. USE DEF Goto, EndRequest, store, locks, request, job
<1>1. ASSUME NEW p \in Paths, NEW L \in Texts, New(p, L) PROVE Wiki!TreeNext \/ UNCHANGED Wiki!treeVars
  <2>1. IInv /\ pc = "idle" /\ UNCHANGED <<store, job>> /\ pc' = "lock"
        /\ path' \in Paths /\ newPath' \in Paths /\ links' \in SUBSET Paths
        /\ op' \in {"new", "upload", "edit", "delete"}
    BY <1>0, <1>1 DEF New, Request, Texts
  <2>. QED
    BY <2>1, Begun DEF Wiki!TreeNext
<1>2. ASSUME NEW p \in Paths, Upload(p) PROVE Wiki!TreeNext \/ UNCHANGED Wiki!treeVars
  <2>1. IInv /\ pc = "idle" /\ UNCHANGED <<store, job>> /\ pc' = "lock"
        /\ path' \in Paths /\ newPath' \in Paths /\ links' \in SUBSET Paths
        /\ op' \in {"new", "upload", "edit", "delete"}
    BY <1>0, <1>2 DEF Upload, Request, Texts
  <2>. QED
    BY <2>1, Begun DEF Wiki!TreeNext
<1>3. ASSUME NEW p \in Paths, NEW q \in Paths, NEW L \in Texts, Edit(p, q, L) PROVE Wiki!TreeNext \/ UNCHANGED Wiki!treeVars
  <2>1. IInv /\ pc = "idle" /\ UNCHANGED <<store, job>> /\ pc' = "lock"
        /\ path' \in Paths /\ newPath' \in Paths /\ links' \in SUBSET Paths
        /\ op' \in {"new", "upload", "edit", "delete"}
    BY <1>0, <1>3 DEF Edit, Request, Texts
  <2>. QED
    BY <2>1, Begun DEF Wiki!TreeNext
<1>4. ASSUME NEW p \in Paths, Delete(p) PROVE Wiki!TreeNext \/ UNCHANGED Wiki!treeVars
  <2>1. IInv /\ pc = "idle" /\ UNCHANGED <<store, job>> /\ pc' = "lock"
        /\ path' \in Paths /\ newPath' \in Paths /\ links' \in SUBSET Paths
        /\ op' \in {"new", "upload", "edit", "delete"}
    BY <1>0, <1>4 DEF Delete, Request, Texts
  <2>. QED
    BY <2>1, Begun DEF Wiki!TreeNext
<1>5. CASE LockNew
  <2>1. CASE EndRequest
    <3>1. UNCHANGED <<list, byName, file>> /\ op' = "none" /\ \A p \in Paths : ~Unwritten(p)
      BY <1>0, <1>5, <2>1 DEF LockNew, Unwritten, ControlInv, ArtInv, Entering
    <3>. QED
      BY <3>1, Ended DEF Wiki!TreeNext
  <2>2. CASE ~EndRequest
    <3>1. ~Dies /\ ~Insert /\ ~PutRenamed
      BY <1>5, <2>2 DEF LockNew, Dies, Insert, PutRenamed
    <3>2. UNCHANGED request /\ file' = file /\ \A p \in Paths : Unwritten(p)' <=> Unwritten(p)
      BY <1>0, <1>5, <2>2 DEF LockNew, Unwritten, ControlInv, ArtInv, Entering
    <3>. QED
      BY <1>0, <3>1, <3>2, Quiet
  <2>. QED
    BY <2>1, <2>2
<1>6. CASE LockEdit
  <2>1. CASE EndRequest
    <3>1. UNCHANGED <<list, byName, file>> /\ op' = "none" /\ \A p \in Paths : ~Unwritten(p)
      BY <1>0, <1>6, <2>1 DEF LockEdit, Unwritten, ControlInv, ArtInv, Entering
    <3>. QED
      BY <3>1, Ended DEF Wiki!TreeNext
  <2>2. CASE ~EndRequest
    <3>1. ~Dies /\ ~Insert /\ ~PutRenamed
      BY <1>6, <2>2 DEF LockEdit, Dies, Insert, PutRenamed
    <3>2. UNCHANGED request /\ file' = file /\ \A p \in Paths : Unwritten(p)' <=> Unwritten(p)
      BY <1>0, <1>6, <2>2 DEF LockEdit, Unwritten, ControlInv, ArtInv, Entering
    <3>. QED
      BY <1>0, <3>1, <3>2, Quiet
  <2>. QED
    BY <2>1, <2>2
<1>7. CASE LockDelete
  <2>. USE DEF Wiki!TreeNext
  <2>1. pc = "lock" /\ op = "delete" /\ path \in Paths /\ art = NoIdx
    BY <1>0, <1>7 DEF LockDelete, ControlInv
  <2>2. \A p \in Paths : ~Unwritten(p)
    BY <2>1 DEF Unwritten
  <2>3. CASE EndRequest /\ UNCHANGED store
    <3>1. UNCHANGED <<list, byName, file>> /\ op' = "none"
      BY <2>3
    <3>. QED
      BY <2>2, <3>1, Ended
  <2>4. CASE HasContent(path) /\ ~EndRequest
    BY <1>0, <1>7, <2>1, <2>4, Deleted
  <2>. QED
    BY <1>7, <2>3, <2>4 DEF LockDelete, HasContent
<1>8. CASE LockNewPath
  <2>1. CASE EndRequest
    <3>1. UNCHANGED <<list, byName, file>> /\ op' = "none" /\ \A p \in Paths : ~Unwritten(p)
      BY <1>0, <1>8, <2>1 DEF LockNewPath, Unwritten, ControlInv, Renaming, EndRequest
    <3>. QED
      BY <3>1, Ended DEF Wiki!TreeNext
  <2>2. CASE ~EndRequest
    <3>1. ~Dies /\ ~Insert /\ ~PutRenamed
      BY <1>8, <2>2 DEF LockNewPath, Dies, Insert, PutRenamed
    <3>2. UNCHANGED request /\ file' = file /\ \A p \in Paths : Unwritten(p)' <=> Unwritten(p)
      BY <1>0, <1>8, <2>2 DEF LockNewPath, Unwritten, ControlInv, ArtInv, Entering
    <3>. QED
      BY <1>0, <3>1, <3>2, Quiet
  <2>. QED
    BY <2>1, <2>2
<1>9. CASE LockGroup
  <2>1. ~Dies /\ ~Insert /\ ~PutRenamed
    BY <1>9 DEF LockGroup, Dies, Insert, PutRenamed
  <2>2. UNCHANGED request /\ file' = file /\ \A p \in Paths : Unwritten(p)' <=> Unwritten(p)
    BY <1>0, <1>9 DEF LockGroup, Unwritten, ControlInv, ArtInv, Entering
  <2>. QED
    BY <1>0, <2>1, <2>2, Quiet
<1>10. CASE GroupsBlocked
  <2>1. pc = "lock_groups" /\ UNCHANGED store
        /\ (EndRequest \/ (pc' = "dead" /\ UNCHANGED <<request, job>>))
    BY <1>0, <1>10, RemovalNotBlocked DEF GroupsBlocked
  <2>2. \A p \in Paths : ~Unwritten(p)
    BY <1>0, <2>1 DEF Unwritten, ArtInv, Entering
  <2>3. CASE EndRequest
    <3>1. UNCHANGED <<list, byName, file>> /\ op' = "none"
      BY <2>1, <2>3
    <3>. QED
      BY <2>2, <3>1, Ended DEF Wiki!TreeNext
  <2>4. CASE pc' = "dead" /\ UNCHANGED <<request, job>>
    <3>1. ~Dies /\ ~Insert /\ ~PutRenamed
      BY <2>1 DEF Dies, Insert, PutRenamed
    <3>2. UNCHANGED request /\ file' = file /\ \A p \in Paths : Unwritten(p)' <=> Unwritten(p)
      BY <2>1, <2>2, <2>4 DEF Unwritten
    <3>. QED
      BY <1>0, <3>1, <3>2, Quiet
  <2>. QED
    BY <2>1, <2>3, <2>4
<1>11. CASE GroupsLocked
  <2>1. ~Dies /\ ~Insert /\ ~PutRenamed
    BY <1>11 DEF GroupsLocked, Dies, Insert, PutRenamed
  <2>2. UNCHANGED request /\ file' = file /\ \A p \in Paths : Unwritten(p)' <=> Unwritten(p)
    BY <1>0, <1>11 DEF GroupsLocked, Unwritten, ControlInv, ArtInv, Entering
  <2>. QED
    BY <1>0, <2>1, <2>2, Quiet
<1>12. CASE Insert
  BY <1>0, <1>12, Inserted DEF Wiki!TreeNext
<1>13. ASSUME NEW i \in Idx, Rerender(i) PROVE Wiki!TreeNext \/ UNCHANGED Wiki!treeVars
  BY <1>0, <1>13, Relinked DEF Wiki!TreeNext
<1>14. ASSUME NEW i \in Idx, RerenderGone(i) PROVE Wiki!TreeNext \/ UNCHANGED Wiki!treeVars
  <2>1. ~Dies /\ ~Insert /\ ~PutRenamed
    BY <1>14 DEF RerenderGone, Dies, Insert, PutRenamed
  <2>2. UNCHANGED request /\ file' = file /\ \A p \in Paths : Unwritten(p)' <=> Unwritten(p)
    BY <1>0, <1>14 DEF RerenderGone, Unwritten, ControlInv, ArtInv, Entering
  <2>. QED
    BY <1>0, <2>1, <2>2, Quiet
<1>15. CASE Rerendered
  <2>1. ~Dies /\ ~Insert /\ ~PutRenamed
    BY <1>15 DEF Rerendered, Dies, Insert, PutRenamed
  <2>2. UNCHANGED request /\ file' = file /\ \A p \in Paths : Unwritten(p)' <=> Unwritten(p)
    BY <1>0, <1>15 DEF Rerendered, Unwritten, ControlInv, ArtInv, Entering
  <2>. QED
    BY <1>0, <2>1, <2>2, Quiet
<1>16. ASSUME NEW r \in Paths, SkipRef(r) PROVE Wiki!TreeNext \/ UNCHANGED Wiki!treeVars
  <2>1. ~Dies /\ ~Insert /\ ~PutRenamed
    BY <1>16 DEF SkipRef, Dies, Insert, PutRenamed
  <2>2. UNCHANGED request /\ file' = file /\ \A p \in Paths : Unwritten(p)' <=> Unwritten(p)
    BY <1>0, <1>16 DEF SkipRef, Unwritten, ControlInv, ArtInv, Entering
  <2>. QED
    BY <1>0, <2>1, <2>2, Quiet
<1>17. ASSUME NEW r \in Paths, AddRef(r) PROVE Wiki!TreeNext \/ UNCHANGED Wiki!treeVars
  <2>1. ~Dies /\ ~Insert /\ ~PutRenamed
    BY <1>17 DEF AddRef, Dies, Insert, PutRenamed
  <2>2. UNCHANGED request /\ file' = file /\ \A p \in Paths : Unwritten(p)' <=> Unwritten(p)
    BY <1>0, <1>17 DEF AddRef, Unwritten, ControlInv, ArtInv, Entering
  <2>. QED
    BY <1>0, <2>1, <2>2, Quiet
<1>18. ASSUME NEW r \in Paths, RemoveRef(r) PROVE Wiki!TreeNext \/ UNCHANGED Wiki!treeVars
  <2>1. ~Dies /\ ~Insert /\ ~PutRenamed
    BY <1>18 DEF RemoveRef, Dies, Insert, PutRenamed
  <2>2. UNCHANGED request /\ file' = file /\ \A p \in Paths : Unwritten(p)' <=> Unwritten(p)
    BY <1>0, <1>18 DEF RemoveRef, Unwritten, ControlInv, ArtInv, Entering
  <2>. QED
    BY <1>0, <2>1, <2>2, Quiet
<1>19. CASE RefsDone
  <2>1. ~Dies /\ ~Insert /\ ~PutRenamed
    BY <1>19 DEF RefsDone, Dies, Insert, PutRenamed
  <2>2. UNCHANGED request /\ file' = file /\ \A p \in Paths : Unwritten(p)' <=> Unwritten(p)
    BY <1>0, <1>19 DEF RefsDone, Unwritten, ControlInv, ArtInv, Entering
  <2>. QED
    BY <1>0, <2>1, <2>2, Quiet
<1>20. CASE WriteNew
  BY <1>0, <1>20, Appeared DEF Wiki!TreeNext
<1>21. CASE RenderFails
  <2>1. CASE EndRequest
    <3>1. UNCHANGED <<list, byName, file>> /\ op' = "none" /\ \A p \in Paths : ~Unwritten(p)
      BY <1>0, <1>21, <2>1 DEF RenderFails, Unwritten, ControlInv, ArtInv, Entering
    <3>. QED
      BY <3>1, Ended DEF Wiki!TreeNext
  <2>2. CASE ~EndRequest
    <3>1. ~Dies /\ ~Insert /\ ~PutRenamed
      BY <1>21, <2>2 DEF RenderFails, Dies, Insert, PutRenamed
    <3>2. UNCHANGED request /\ file' = file /\ \A p \in Paths : Unwritten(p)' <=> Unwritten(p)
      BY <1>0, <1>21, <2>2 DEF RenderFails, Unwritten, ControlInv, ArtInv, Entering
    <3>. QED
      BY <1>0, <3>1, <3>2, Quiet
  <2>. QED
    BY <2>1, <2>2
<1>22. CASE RenderEdit
  <2>1. ~Dies /\ ~Insert /\ ~PutRenamed
    BY <1>22 DEF RenderEdit, Dies, Insert, PutRenamed
  <2>2. UNCHANGED request /\ file' = file /\ \A p \in Paths : Unwritten(p)' <=> Unwritten(p)
    BY <1>0, <1>22 DEF RenderEdit, Unwritten, ControlInv, ArtInv, Entering
  <2>. QED
    BY <1>0, <2>1, <2>2, Quiet
<1>23. CASE WriteEdit
  BY <1>0, <1>23, Written DEF Wiki!TreeNext
<1>24. CASE WriteDelete
  BY <1>0, <1>24, Emptied
<1>25. CASE PutInPlace
  <2>1. ~Dies /\ ~Insert /\ ~PutRenamed
    BY <1>25 DEF PutInPlace, Dies, Insert, PutRenamed
  <2>2. UNCHANGED request /\ file' = file /\ \A p \in Paths : Unwritten(p)' <=> Unwritten(p)
    BY <1>0, <1>25 DEF PutInPlace, Unwritten, ControlInv, ArtInv, Entering
  <2>. QED
    BY <1>0, <2>1, <2>2, Quiet
<1>26. CASE PutRenamed
  BY <1>0, <1>26, Moved DEF Wiki!TreeNext
<1>27. CASE Remove
  <2>1. ~Dies /\ ~Insert /\ ~PutRenamed
    BY <1>27 DEF Remove, Dies, Insert, PutRenamed
  <2>2. UNCHANGED request /\ file' = file /\ \A p \in Paths : Unwritten(p)' <=> Unwritten(p)
    BY <1>0, <1>27 DEF Remove, Unwritten, ControlInv, Renaming, request, job
  <2>. QED
    BY <1>0, <2>1, <2>2, Quiet
<1>28. CASE Finish
  <2>1. UNCHANGED <<list, byName, file>> /\ op' = "none" /\ \A p \in Paths : ~Unwritten(p)
    BY <1>0, <1>28 DEF Finish, Unwritten
  <2>. QED
    BY <2>1, Ended DEF Wiki!TreeNext
<1>29. CASE UNCHANGED vars
  <2>1. UNCHANGED <<list, byName, file, op, path, newPath, links, art, pc>>
    BY <1>29 DEF vars
  <2>. QED
    BY <2>1 DEF Wiki!treeVars, Tree, Dirs, Asked, HasContent, IsGroup, Unwritten, Article, RecordAt
<1>. QED
  BY <1>1, <1>2, <1>3, <1>4, <1>5, <1>6, <1>7, <1>8, <1>9, <1>10, <1>11, <1>12, <1>13,
     <1>14, <1>15, <1>16, <1>17, <1>18, <1>19, <1>20, <1>21, <1>22, <1>23, <1>24, <1>25,
     <1>26, <1>27, <1>28, <1>29 DEF Next, Handle
\* Every behaviour of the handlers is one of the tree of articles.
THEOREM HandlersImplementTree == Spec => ImplementsTree
<1>1. Init => Wiki!TreeInit /\ TreeInv
  <2>. SUFFICES ASSUME Init PROVE Wiki!TreeInit /\ TreeInv
    OBVIOUS
  <2>1. \A p \in AllPaths : ~HasContent(p) /\ ~IsGroup(p)
    BY DEF Init, HasContent, IsGroup, Article, RecordAt, NoRec
  <2>2. \A p \in Paths : p \in AllPaths
    BY DEF AllPaths
  <2>3. Wiki!TreeInit
    BY <2>1, <2>2 DEF Wiki!TreeInit, Tree, Dirs, Asked, Wiki!NoRequest, Init
  <2>4. TreeInv
    BY DEF Init, TreeInv
  <2>. QED
    BY <2>3, <2>4
<1>2. IInv /\ TreeInv /\ [Next]_vars => TreeInv' /\ [Wiki!TreeNext]_(Wiki!treeVars)
  BY TreeInvStep, TreeStep
<1>. QED
  BY <1>1, <1>2, Invariance, PTL DEF Spec, ImplementsTree, Wiki!TreeSpec
=============================================================================

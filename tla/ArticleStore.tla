---------------------------- MODULE ArticleStore ----------------------------
(***************************************************************************)
(* The articles of the wiki: a list of records, the index by path, the     *)
(* text files, and the handlers that create, edit, rename and delete them, *)
(* at the granularity of the per-path locks they take.                     *)
(*                                                                         *)
(* Articles are changed by the event loop only, one request at a time, and *)
(* lock_article's mutexes are not recursive: a handler that locks a path   *)
(* it already holds never goes on.                                         *)
(*                                                                         *)
(* A path is the sequence of its segments, <<>> the top group.  A record's *)
(* "items" are the members of a group or the articles that link to any     *)
(* other kind of article, which share their storage in the code.  A text   *)
(* is the set of paths it links to.  Who may do what is left out: a        *)
(* request that is refused before its first lock changes nothing.          *)
(***************************************************************************)
EXTENDS Naturals, Sequences, FiniteSets

CONSTANTS
  Paths,      \* paths of articles and of the groups above them
  Secret,     \* the segment of SECRET_PATH
  MaxIdx,     \* bound on list indices ever allocated
  MaxLinks,   \* bound on the links of a submitted text
  Renames,    \* whether edits may change the path
  BadTexts    \* whether edits may submit a text that does not render

Root == <<>>
AllPaths == Paths \cup {Root}
Prefixes(p) == {SubSeq(p, 1, k) : k \in 0..Len(p) - 1}

Segments == UNION {{p[i] : i \in 1..Len(p)} : p \in Paths}

ASSUME PathsAssumption ==
  /\ IsFiniteSet(Paths) /\ Paths \subseteq Seq(Segments)
  /\ \A p \in Paths : p # Root /\ Prefixes(p) \subseteq AllPaths
ASSUME BoundAssumption == /\ MaxIdx \in Nat /\ MaxLinks \in Nat
                          /\ Renames \in BOOLEAN /\ BadTexts \in BOOLEAN

Idx == 1..MaxIdx
NoIdx == 0
Types == {"text", "group", "img", "dead"}   \* article_type
NoRec == [ty |-> "none", path |-> Root, items |-> {}]
NoFile == [kind |-> "none", links |-> {}]
Image == [kind |-> "img", links |-> {}]
Text(links) == [kind |-> "text", links |-> links]
Labels == {"idle", "lock", "lock_new", "lock_groups", "insert", "rerender", "refs", "render",
           "write", "put", "remove", "finish", "dead"}

VARIABLES
  list,     \* ctx->article_id: the record at each index
  byName,   \* ctx->article_by_name
  next,     \* indices allocated so far
  file,     \* the files under wiki/
  held,     \* the paths whose article_lock the loop holds
  leaked,   \* of those, the ones a finished handler left locked (history)
  pc,       \* where the handler is
  op,       \* the request: new, upload, edit or delete
  path,     \* the article's path (an edit's old path)
  newPath,  \* an edit's new path, and otherwise path
  links,    \* links of the submitted text
  was,      \* the type of the article when path was locked
  art,      \* the article's index
  gpath,    \* the path whose groups are being locked
  groups,   \* the groups found so far, from the deepest up
  rer,      \* articles still to be rendered again
  adds,     \* links still to be registered
  dels      \* links still to be withdrawn

store == <<list, byName, next, file>>
locks == <<held, leaked>>
request == <<op, path, newPath, links>>
job == <<was, art, gpath, groups, rer, adds, dels>>
vars == <<store, locks, pc, request, job>>

RecordAt(l, n, p) == IF n[p] = NoIdx THEN NoRec ELSE l[n[p]]
Article(p) == RecordAt(list, byName, p)
Extends(r, p) == Len(r) > Len(p) /\ SubSeq(r, 1, Len(p)) = p

\* Mutant: /secret is entered into / like any group.
NumGroupsSecretListed(p) == Len(p)

\* The groups above p, from the deepest up; nothing is listed under / of /secret.
NumGroups(p) == IF p[1] = Secret THEN Len(p) - 1 ELSE Len(p)
GroupPath(p, k) == SubSeq(p, 1, Len(p) - k)

Init ==
  /\ list = [i \in Idx |-> NoRec]
  /\ byName = [p \in AllPaths |-> NoIdx]
  /\ next = 0
  /\ file = [p \in Paths |-> NoFile]
  /\ held = {} /\ leaked = {}
  /\ pc = "idle"
  /\ op = "none" /\ path = Root /\ newPath = Root /\ links = {}
  /\ was = "none" /\ art = NoIdx /\ gpath = Root /\ groups = <<>>
  /\ rer = {} /\ adds = {} /\ dels = {}

Goto(l) == pc' = l
\* The handler's locals end with it.
EndRequest ==
  /\ Goto("idle")
  /\ op' = "none" /\ path' = Root /\ newPath' = Root /\ links' = {}
  /\ was' = "none" /\ art' = NoIdx /\ gpath' = Root /\ groups' = <<>>
  /\ rer' = {} /\ adds' = {} /\ dels' = {}

-----------------------------------------------------------------------------
(* Requests that pass the checks made before the first lock.                 *)

Missing(S) == {p \in S : byName[p] = NoIdx}
RoomFor(n) == next + n <= MaxIdx     \* the bound on allocations

Request(o, p, q, L) ==
  /\ pc = "idle"
  /\ op' = o /\ path' = p /\ newPath' = q /\ links' = L
  /\ Goto("lock")
  /\ UNCHANGED <<store, locks, job>>

\* POST /new with a text that renders.
New(p, L) ==
  /\ RoomFor(1 + Cardinality(Missing(Prefixes(p) \cup L)))
  /\ Request("new", p, p, L)

\* POST /upload.
Upload(p) ==
  /\ RoomFor(1 + Cardinality(Missing(Prefixes(p))))
  /\ Request("upload", p, p, {})

\* POST /edit.
Edit(p, q, L) ==
  /\ q = p \/ Renames
  /\ RoomFor(1 + Cardinality(Missing(Prefixes(q) \cup L)))
  /\ Request("edit", p, q, L)

\* POST /delete.
Delete(p) == Request("delete", p, p, {})

-----------------------------------------------------------------------------
(* lock_article on the request's own paths, and what is decided under it.    *)

\* Mutant: only an article is in the way of a new one, not a group.
LockNewOverGroup ==
  /\ pc = "lock" /\ op \in {"new", "upload"}
  /\ path \notin held
  /\ IF Article(path).ty \in {"none", "dead", "group"}
       THEN /\ held' = held \cup {path}
            /\ was' = Article(path).ty
            /\ rer' = Article(path).items
            /\ gpath' = path /\ groups' = <<>>
            /\ Goto("lock_groups")
            /\ UNCHANGED <<leaked, request, art, adds, dels>>
       ELSE EndRequest /\ UNCHANGED locks
  /\ UNCHANGED store

\* article_new refuses a path in use, and takes over the links to a dead one.
LockNew ==
  /\ pc = "lock" /\ op \in {"new", "upload"}
  /\ path \notin held
  /\ IF Article(path).ty \in {"none", "dead"}
       THEN /\ held' = held \cup {path}
            /\ was' = Article(path).ty
            /\ rer' = Article(path).items
            /\ gpath' = path /\ groups' = <<>>
            /\ Goto("lock_groups")
            /\ UNCHANGED <<leaked, request, art, adds, dels>>
       ELSE EndRequest /\ UNCHANGED locks
  /\ UNCHANGED store

\* Mutant: an edit of what is not there any more is taken for one in place.
LockEditAny ==
  /\ pc = "lock" /\ op = "edit"
  /\ path \notin held
  /\ IF Article(path).ty \in {"text", "dead"}
       THEN /\ held' = held \cup {path}
            /\ was' = "text"
            /\ art' = byName[path]
            /\ Goto(IF newPath = path THEN "render" ELSE "lock_new")
            /\ UNCHANGED <<leaked, request, gpath, groups, rer, adds, dels>>
       ELSE EndRequest /\ UNCHANGED locks
  /\ UNCHANGED store

LockEdit ==
  /\ pc = "lock" /\ op = "edit"
  /\ path \notin held
  /\ IF Article(path).ty = "text"
       THEN /\ held' = held \cup {path}
            /\ was' = "text"
            /\ art' = byName[path]
            /\ Goto(IF newPath = path THEN "render" ELSE "lock_new")
            /\ UNCHANGED <<leaked, request, gpath, groups, rer, adds, dels>>
       ELSE EndRequest /\ UNCHANGED locks
  /\ UNCHANGED store

\* Mutant: whatever is at the path is deleted.
LockDeleteAny ==
  /\ pc = "lock" /\ op = "delete"
  /\ path \notin held
  /\ IF Article(path).ty \in {"text", "img", "group"}
       THEN /\ held' = held \cup {path}
            /\ art' = byName[path]
            /\ list' = [list EXCEPT ![byName[path]].ty = "dead"]
            /\ was' = Article(path).ty
            /\ rer' = Article(path).items
            /\ Goto("rerender")
            /\ UNCHANGED <<byName, next, file, leaked, request, gpath, groups, adds, dels>>
       ELSE EndRequest /\ UNCHANGED <<store, locks>>

\* A deleted article's record stays, as a dead one with the links to it.
LockDelete ==
  /\ pc = "lock" /\ op = "delete"
  /\ path \notin held
  /\ IF Article(path).ty \in {"text", "img"}
       THEN /\ held' = held \cup {path}
            /\ art' = byName[path]
            /\ list' = [list EXCEPT ![byName[path]].ty = "dead"]
            /\ was' = Article(path).ty
            /\ rer' = Article(path).items
            /\ Goto("rerender")
            /\ UNCHANGED <<byName, next, file, leaked, request, gpath, groups, adds, dels>>
       ELSE EndRequest /\ UNCHANGED <<store, locks>>

\* Mutant: a refused rename gives back nothing.
LockNewPathKeepOld ==
  /\ pc = "lock_new"
  /\ newPath \notin held
  /\ \/ /\ Article(newPath).ty = "none"
        /\ held' = held \cup {newPath}
        /\ gpath' = newPath /\ groups' = <<>>
        /\ Goto("lock_groups")
        /\ UNCHANGED <<leaked, request, was, art, rer, adds, dels>>
     \/ /\ Article(newPath).ty # "none"
        /\ held' = held
        /\ EndRequest
        /\ UNCHANGED leaked
     \/ /\ Article(newPath).ty = "dead"
        /\ held' = held \cup {newPath}
        /\ Goto("dead")
        /\ UNCHANGED <<leaked, request, job>>
  /\ UNCHANGED store

\* A rename locks the new path too.  Onto a dead path it goes on with a result and a
\* vector of groups that were never set: it is refused, or it faults.  (With a result that
\* happens not to be 0 and a vector that happens to be a list of groups it would go on, and
\* enter the article under groups nobody named: that outcome is left out.)
LockNewPath ==
  /\ pc = "lock_new"
  /\ newPath \notin held
  /\ \/ /\ Article(newPath).ty = "none"
        /\ held' = held \cup {newPath}
        /\ gpath' = newPath /\ groups' = <<>>
        /\ Goto("lock_groups")
        /\ UNCHANGED <<leaked, request, was, art, rer, adds, dels>>
     \/ /\ Article(newPath).ty # "none"
        /\ held' = held \ {path}
        /\ EndRequest
        /\ UNCHANGED leaked
     \/ /\ Article(newPath).ty = "dead"
        /\ held' = held \cup {newPath}
        /\ Goto("dead")
        /\ UNCHANGED <<leaked, request, job>>
  /\ UNCHANGED store

-----------------------------------------------------------------------------
(* article_lock_groups: the groups above gpath are locked from the deepest.  *)

NextGroup == GroupPath(gpath, Len(groups) + 1)
MoreGroups == Len(groups) < NumGroups(gpath)

LockGroup ==
  /\ pc = "lock_groups" /\ MoreGroups
  /\ NextGroup \notin held
  /\ Article(NextGroup).ty \in {"group", "none"}
  /\ held' = held \cup {NextGroup}
  /\ groups' = Append(groups, byName[NextGroup])
  /\ UNCHANGED <<store, leaked, pc, request, was, art, gpath, rer, adds, dels>>

\* Mutant: only the groups are given back.
GroupsBlockedKeepPath ==
  /\ pc = "lock_groups" /\ MoreGroups
  /\ NextGroup \notin held
  /\ Article(NextGroup).ty \notin {"group", "none"}
  /\ \/ /\ op # "delete" /\ gpath = newPath
        /\ held' = held \ Prefixes(gpath)
        /\ EndRequest
     \/ /\ op \in {"new", "upload"} /\ was = "dead"
        /\ held' = held \ Prefixes(gpath)
        /\ Goto("dead") /\ UNCHANGED <<request, job>>
     \/ /\ op = "delete" \/ gpath # newPath
        /\ held' = held \ Prefixes(gpath)
        /\ groups' = IF op = "delete" THEN groups ELSE <<>>
        /\ Goto("remove")
        /\ UNCHANGED <<request, was, art, gpath, rer, adds, dels>>
  /\ UNCHANGED <<store, leaked>>

\* An article is in the way: every group's lock is given back.  article_new has
\* freed the record of a dead path by then and frees it again.
GroupsBlocked ==
  /\ pc = "lock_groups" /\ MoreGroups
  /\ NextGroup \notin held
  /\ Article(NextGroup).ty \notin {"group", "none"}
  /\ \/ /\ op # "delete" /\ gpath = newPath
        /\ held' = (held \ Prefixes(gpath)) \ {path, newPath}
        /\ EndRequest
     \/ /\ op \in {"new", "upload"} /\ was = "dead"
        /\ held' = held \ Prefixes(gpath)
        /\ Goto("dead") /\ UNCHANGED <<request, job>>
     \/ /\ op = "delete" \/ gpath # newPath
        /\ held' = held \ Prefixes(gpath)
        /\ groups' = IF op = "delete" THEN groups ELSE <<>>
        /\ Goto("remove")
        /\ UNCHANGED <<request, was, art, gpath, rer, adds, dels>>
  /\ UNCHANGED <<store, leaked>>

GroupsLocked ==
  /\ pc = "lock_groups" /\ ~MoreGroups
  /\ Goto(IF op \in {"new", "upload"} THEN "insert"
          ELSE IF op = "edit" /\ gpath = newPath THEN "render" ELSE "remove")
  /\ UNCHANGED <<store, locks, request, job>>

GroupLocks == {GroupPath(gpath, k) : k \in 1..Len(groups)}

-----------------------------------------------------------------------------
(* article_group_insert: item, and each group above it, becomes a member of  *)
(* the next group; the groups that are missing are created.                  *)

Created(k) == Cardinality({j \in 1..k : groups[j] = NoIdx})
\* Mutant: a group that is created is entered under the index it was looked up with.
NodeOfFoundOnly(item, k) ==
  IF k = 0 THEN item
  ELSE groups[k]

NodeOf(item, k) ==
  IF k = 0 THEN item
  ELSE IF groups[k] # NoIdx THEN groups[k] ELSE item + Created(k)

GroupsInserted(l, item) ==
  [i \in Idx |->
     IF \E k \in 1..Len(groups) : NodeOf(item, k) = i
       THEN LET k == CHOOSE k \in 1..Len(groups) : NodeOf(item, k) = i
            IN [ty |-> "group", path |-> GroupPath(gpath, k),
                items |-> l[i].items \cup {NodeOf(item, k - 1)}]
       ELSE l[i]]

GroupNames(n, item) ==
  [p \in AllPaths |->
     IF p \in GroupLocks THEN NodeOf(item, Len(gpath) - Len(p)) ELSE n[p]]

\* article_new: the groups, the record with the links to its dead predecessor, its name.
Insert ==
  LET item == next + 1
  IN /\ pc = "insert"
     /\ list' = [GroupsInserted(list, item) EXCEPT ![item] =
                   [ty |-> IF op = "new" THEN "text" ELSE "img", path |-> path, items |-> rer]]
     /\ byName' = [GroupNames(byName, item) EXCEPT ![path] = item]
     /\ next' = item + Created(Len(groups))
     /\ art' = item
     /\ adds' = links
     /\ held' = held \ GroupLocks
     /\ Goto("rerender")
     /\ UNCHANGED <<file, leaked, request, was, gpath, groups, rer, dels>>

-----------------------------------------------------------------------------
(* rerender_articles: the articles that link here are rendered again, after  *)
(* a rename with their links to the old path rewritten.                      *)

Readable(p) == file[p].kind = "text"

Rewritten(text) == IF op = "edit" /\ path \in text.links
                     THEN Text((text.links \ {path}) \cup {newPath})
                     ELSE text

\* Without a text in its file, the rendering faults; an image there may pass for one.
Rerender(i) ==
  LET p == list[i].path
  IN /\ pc = "rerender" /\ i \in rer
     /\ list[i].ty # "none"
     /\ p \notin held
     /\ \/ /\ file[p].kind # "none"
           /\ file' = [file EXCEPT ![p] = Rewritten(@)]
           /\ rer' = rer \ {i}
           /\ UNCHANGED pc
        \/ /\ ~Readable(p)
           /\ Goto("dead") /\ UNCHANGED <<file, rer>>
     /\ UNCHANGED <<list, byName, next, locks, request, was, art, gpath, groups, adds, dels>>

\* An index that a rename has taken out of the list is skipped.
RerenderGone(i) ==
  /\ pc = "rerender" /\ i \in rer
  /\ list[i].ty = "none"
  /\ rer' = rer \ {i}
  /\ UNCHANGED <<store, locks, pc, request, was, art, gpath, groups, adds, dels>>

Rerendered ==
  /\ pc = "rerender" /\ rer = {}
  /\ IF op = "delete"
       THEN gpath' = path /\ groups' = <<>> /\ Goto("lock_groups")
       ELSE UNCHANGED <<gpath, groups>>
            /\ Goto(CASE op = "new" -> "refs" [] op = "upload" -> "write" [] OTHER -> "finish")
  /\ UNCHANGED <<store, locks, request, was, art, rer, adds, dels>>

-----------------------------------------------------------------------------
(* update_article_refs: art is added to, or taken from, what links to r.     *)

\* "avoid deadlocks": links below the article's own path are left out.  The comparison
\* reads past the end of a shorter path, and may leave out a group above it too.
SkipsRef(r) == Extends(r, newPath)
MaySkipRef(r) == SkipsRef(r) \/ Extends(newPath, r)

SkipRef(r) ==
  /\ pc = "refs" /\ (r \in adds \/ (adds = {} /\ r \in dels))
  /\ MaySkipRef(r)
  /\ adds' = adds \ {r}
  /\ dels' = IF r \in adds THEN dels ELSE dels \ {r}
  /\ UNCHANGED <<store, locks, pc, request, was, art, gpath, groups, rer>>

\* A link to nothing leaves a dead article at its path.
AddRef(r) ==
  /\ pc = "refs" /\ r \in adds
  /\ ~SkipsRef(r) /\ r \notin held
  /\ IF byName[r] = NoIdx
       THEN /\ next' = next + 1
            /\ list' = [list EXCEPT ![next + 1] = [ty |-> "dead", path |-> r, items |-> {art}]]
            /\ byName' = [byName EXCEPT ![r] = next + 1]
       ELSE /\ list' = IF Article(r).ty = "group" THEN list
                       ELSE [list EXCEPT ![byName[r]].items = @ \cup {art}]
            /\ UNCHANGED <<byName, next>>
  /\ adds' = adds \ {r}
  /\ UNCHANGED <<file, locks, pc, request, was, art, gpath, groups, rer, dels>>

\* Mutant: a link that the old and the new text have in common is withdrawn.
RemoveRefAlways(r) ==
  /\ pc = "refs" /\ adds = {} /\ r \in dels
  /\ ~SkipsRef(r) /\ r \notin held
  /\ list' = IF Article(r).ty \in {"none", "group"} THEN list
             ELSE [list EXCEPT ![byName[r]].items = @ \ {art}]
  /\ dels' = dels \ {r}
  /\ UNCHANGED <<byName, next, file, locks, pc, request, was, art, gpath, groups, rer, adds>>

\* Links are withdrawn after all are added.  One that the new text has too was added a
\* second time, and one of the two goes.
RemoveRef(r) ==
  /\ pc = "refs" /\ adds = {} /\ r \in dels
  /\ ~SkipsRef(r) /\ r \notin held
  /\ list' = IF Article(r).ty \in {"none", "group"} \/ r \in links THEN list
             ELSE [list EXCEPT ![byName[r]].items = @ \ {art}]
  /\ dels' = dels \ {r}
  /\ UNCHANGED <<byName, next, file, locks, pc, request, was, art, gpath, groups, rer, adds>>

RefsDone ==
  /\ pc = "refs" /\ adds = {} /\ dels = {}
  /\ Goto("write")
  /\ UNCHANGED <<store, locks, request, job>>

-----------------------------------------------------------------------------
(* The files.                                                                *)

\* A new text is a diff on what its file holds; over an image, whose bytes are taken for a
\* text's, that faults, or puts the text where they point to and makes a text of the file,
\* or fails to and leaves no text in it.  An image is written over anything.
WriteNew ==
  /\ pc = "write" /\ op \in {"new", "upload"}
  /\ \/ /\ file' = [file EXCEPT ![path] = IF op = "upload" THEN Image ELSE Text(links)]
        /\ Goto("finish")
     \/ /\ op = "new" /\ file[path].kind = "img"
        /\ Goto("finish") \/ Goto("dead")
        /\ UNCHANGED file
  /\ UNCHANGED <<list, byName, next, locks, request, job>>

\* An edit that does not render is refused; the groups above a new path stay locked.
\* (The record is freed twice: the process may not survive it.)
RenderFails ==
  /\ BadTexts
  /\ pc = "render"
  /\ held' = held \ {path, newPath}
  /\ leaked' = leaked \cup GroupLocks
  /\ EndRequest \/ (Goto("dead") /\ UNCHANGED <<request, job>>)
  /\ UNCHANGED store

\* A text that has changed, in its links or elsewhere, has them updated.
RenderEdit ==
  /\ pc = "render"
  /\ IF Readable(path)
       THEN \/ /\ adds' = links /\ dels' = file[path].links
               /\ Goto("refs")
               /\ UNCHANGED <<was, art, gpath, groups, rer>>
            \/ /\ links = file[path].links
               /\ Goto("put") /\ UNCHANGED job
       ELSE Goto("dead") /\ UNCHANGED job
  /\ UNCHANGED <<store, locks, request>>

WriteEdit ==
  /\ pc = "write" /\ op = "edit"
  /\ file' = [file EXCEPT ![path] = Text(links)]
  /\ Goto("put")
  /\ UNCHANGED <<list, byName, next, locks, request, job>>

\* An edit in place stores the record it read at first, with the links it had.
PutInPlace ==
  /\ pc = "put" /\ newPath = path
  /\ Goto("finish")
  /\ UNCHANGED <<store, locks, request, job>>

\* Mutant: the old name is not taken out of the index.
PutRenamedKeepName ==
  LET item == next + 1
      moved == [list EXCEPT ![item] = [list[art] EXCEPT !.path = newPath], ![art] = NoRec]
  IN /\ pc = "put" /\ newPath # path
     /\ list' = GroupsInserted(moved, item)
     /\ byName' = [GroupNames(byName, item) EXCEPT ![newPath] = item]
     /\ next' = item + Created(Len(groups))
     /\ file' = [file EXCEPT ![newPath] = file[path], ![path] = NoFile]
     /\ held' = held \ GroupLocks
     /\ rer' = list[art].items
     /\ gpath' = path /\ groups' = <<>>
     /\ Goto("lock_groups")
     /\ UNCHANGED <<leaked, request, was, art, adds, dels>>

\* Mutant: the file is not moved.
PutRenamedKeepFile ==
  LET item == next + 1
      moved == [list EXCEPT ![item] = [list[art] EXCEPT !.path = newPath], ![art] = NoRec]
  IN /\ pc = "put" /\ newPath # path
     /\ list' = GroupsInserted(moved, item)
     /\ byName' = [GroupNames(byName, item) EXCEPT ![newPath] = item, ![path] = NoIdx]
     /\ next' = item + Created(Len(groups))
     /\ UNCHANGED file
     /\ held' = held \ GroupLocks
     /\ rer' = list[art].items
     /\ gpath' = path /\ groups' = <<>>
     /\ Goto("lock_groups")
     /\ UNCHANGED <<leaked, request, was, art, adds, dels>>

\* A rename moves the file and the name, takes a new index, and enters the new groups.
PutRenamed ==
  LET item == next + 1
      moved == [list EXCEPT ![item] = [list[art] EXCEPT !.path = newPath], ![art] = NoRec]
  IN /\ pc = "put" /\ newPath # path
     /\ list' = GroupsInserted(moved, item)
     /\ byName' = [GroupNames(byName, item) EXCEPT ![newPath] = item, ![path] = NoIdx]
     /\ next' = item + Created(Len(groups))
     /\ file' = [file EXCEPT ![newPath] = file[path], ![path] = NoFile]
     /\ held' = held \ GroupLocks
     /\ rer' = list[art].items
     /\ gpath' = path /\ groups' = <<>>
     /\ Goto("lock_groups")
     /\ UNCHANGED <<leaked, request, was, art, adds, dels>>

-----------------------------------------------------------------------------
(* article_group_remove: a group that loses its last member leaves its own   *)
(* group.                                                                    *)

Reaches(k) ==
  \A j \in 1..k - 1 :
    groups[j] # NoIdx /\ list[groups[j]].items = {NodeOf(art, j - 1)}
\* Mutant: only the group nearest to the article loses a member.
LosesFirstOnly(k) == k = 1 /\ groups[k] # NoIdx

Loses(k) == Reaches(k) /\ groups[k] # NoIdx

\* The record is freed twice when the item is not there.
Remove ==
  LET losing == {k \in 1..Len(groups) : Loses(k)}
  IN /\ pc = "remove"
     /\ IF \E k \in losing : NodeOf(art, k - 1) \notin list[groups[k]].items
          THEN Goto("dead") /\ UNCHANGED <<list, held>>
          ELSE /\ list' = [i \in Idx |->
                             IF \E k \in losing : groups[k] = i
                               THEN [list[i] EXCEPT !.items = @ \
                                       {NodeOf(art, k - 1) : k \in {k \in losing : groups[k] = i}}]
                               ELSE list[i]]
               /\ held' = held \ GroupLocks
               /\ Goto(IF op = "edit" THEN "rerender" ELSE IF was = "text" THEN "write" ELSE "finish")
     /\ UNCHANGED <<byName, next, file, leaked, request, job>>

\* A deleted text leaves an empty one in its file.  (Its links are kept: render_article
\* returns 0 when it succeeds, and they are withdrawn when it does not.)
WriteDelete ==
  /\ pc = "write" /\ op = "delete"
  /\ IF Readable(path)
       THEN file' = [file EXCEPT ![path] = Text({})] /\ Goto("finish")
       ELSE Goto("dead") /\ UNCHANGED file
  /\ UNCHANGED <<list, byName, next, locks, request, job>>

\* The request's own locks are given back.
Finish ==
  /\ pc = "finish"
  /\ held' = held \ {path, newPath}
  /\ EndRequest
  /\ UNCHANGED <<store, leaked>>

-----------------------------------------------------------------------------
Handle ==
  \/ LockNew
  \/ LockEdit
  \/ LockDelete
  \/ LockNewPath
  \/ LockGroup
  \/ GroupsBlocked
  \/ GroupsLocked
  \/ Insert
  \/ \E i \in Idx : Rerender(i) \/ RerenderGone(i)
  \/ Rerendered
  \/ \E r \in Paths : SkipRef(r) \/ AddRef(r) \/ RemoveRef(r)
  \/ RefsDone
  \/ WriteNew
  \/ RenderFails
  \/ RenderEdit
  \/ WriteEdit
  \/ WriteDelete
  \/ PutInPlace
  \/ PutRenamed
  \/ Remove
  \/ Finish

Texts == {L \in SUBSET Paths : Cardinality(L) <= MaxLinks}

Next ==
  \/ \E p \in Paths, L \in Texts : New(p, L)
  \/ \E p \in Paths : Upload(p)
  \/ \E p \in Paths, q \in Paths, L \in Texts : Edit(p, q, L)
  \/ \E p \in Paths : Delete(p)
  \/ Handle

Spec == Init /\ [][Next]_vars

\* The loop goes on with the request it has; nothing forces a request to arrive.
FairSpec == Spec /\ WF_vars(Handle)
-----------------------------------------------------------------------------
(* Properties.                                                               *)

\* Every variable holds a value of its kind.
TypeOK ==
  /\ list \in [Idx -> [ty : Types \cup {"none"}, path : AllPaths, items : SUBSET Idx]]
  /\ byName \in [AllPaths -> Idx \cup {NoIdx}]
  /\ next \in 0..MaxIdx
  /\ file \in [Paths -> [kind : {"none", "img", "text"}, links : SUBSET Paths]]
  /\ held \subseteq AllPaths /\ leaked \subseteq AllPaths
  /\ pc \in Labels
  /\ op \in {"none", "new", "upload", "edit", "delete"}
  /\ {path, newPath, gpath} \subseteq AllPaths
  /\ links \subseteq Paths
  /\ was \in Types \cup {"none"}
  /\ art \in Idx \cup {NoIdx}
  /\ groups \in Seq(Idx \cup {NoIdx})
  /\ rer \subseteq Idx
  /\ adds \subseteq Paths /\ dels \subseteq Paths

IsGroup(p) == Article(p).ty = "group"
HasContent(p) == Article(p).ty \in {"text", "img"}

\* The index by path and the list agree both ways, whatever was created, renamed or
\* replaced: a name leads to a record of that path, and a living record has a name.
NamesMatch ==
  /\ \A p \in AllPaths : byName[p] # NoIdx =>
       list[byName[p]].ty # "none" /\ list[byName[p]].path = p
  /\ \A i \in Idx : list[i].ty \in Types \ {"dead"} => byName[list[i].path] = i

\* Browsing is exact: between requests a group lists the articles directly in it and the
\* groups that have something to list, and nothing else.  /secret is not listed in /.
Listed(p) == HasContent(p) \/ (IsGroup(p) /\ Article(p).items # {})
Members(g) == {c \in Paths : GroupPath(c, 1) = g /\ c # <<Secret>> /\ Listed(c)}
ListingExact ==
  pc = "idle" =>
    \A g \in AllPaths : IsGroup(g) => Article(g).items = {byName[c] : c \in Members(g)}

\* Every article can be reached by browsing from / or from /secret: each path above it
\* is a group's.
AboveAreGroups ==
  pc = "idle" =>
    \A p \in Paths : HasContent(p) =>
      \A g \in Prefixes(p) : (g # Root \/ p[1] # Secret) => IsGroup(g)

\* A path that is a group's stays one: no article ever takes the place of a group, even
\* one that has become empty.
GroupsStay == [][\A p \in AllPaths : IsGroup(p) => IsGroup(p)']_vars

\* Nothing stays locked after a request, but the groups of a rename whose text does not
\* render.
LocksReleased == pc = "idle" => held \subseteq leaked

\* The text of a living article is never without its file, through renames onto paths
\* that had files and uploads over deleted texts: reading it would fault.
TextHasFile ==
  \A i \in Idx : list[i].ty = "text" /\ i # art => file[list[i].path].kind # "none"

\* What a text links to knows of it, so that it is rendered again when the target is
\* created or changes: links survive edits, deletions and new articles in the same place.
\* (It holds while nothing is renamed: a renamed article gets a new index.)
LinkNeedsBacklink(p, r) == r # p /\ ~Extends(r, p) /\ ~IsGroup(r)
BacklinksKnown ==
  pc = "idle" =>
    \A p \in Paths : Article(p).ty = "text" /\ Readable(p) =>
      \A r \in file[p].links : LinkNeedsBacklink(p, r) => byName[p] \in Article(r).items

\* update_article_refs leaves out links "to avoid deadlocks": it gets to its end.
RefsEnd == pc = "refs" ~> pc = "write"

\* The ways in which a request never ends: a link to the article's own path, now or in
\* the text it replaces; a rename with a path of its own in the way; a lock left behind.
SelfLink == pc = "refs" /\ newPath \in adds \cup dels
RenameInItsOwnWay ==
  /\ op = "edit" /\ newPath # path
  /\ \/ pc = "lock_groups" /\ path \in Prefixes(newPath)
     \/ pc = "refs" /\ (adds \cup dels) \cap ({path} \cup GroupLocks) # {}
     \/ pc = "rerender" /\ \E i \in rer : list[i].path \in {path, newPath}
Stuck == SelfLink \/ RenameInItsOwnWay \/ leaked # {}

\* Every other request is answered, or ends the process.
RequestsEnd == pc # "idle" ~> pc \in {"idle", "dead"} \/ Stuck
=============================================================================

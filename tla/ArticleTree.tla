---------------------------- MODULE ArticleTree ----------------------------
(***************************************************************************)
(* ArticleStore implements WikiTree: the articles that can be read change  *)
(* by whole operations, however many records, names and files a handler    *)
(* touches, and only as its request asks.                                  *)
(***************************************************************************)
EXTENDS ArticleStore

Contents == {Image} \cup {Text(L) : L \in SUBSET Paths}

\* Groups are listed under every group above them but / of /secret.
Above == [p \in Paths |-> {GroupPath(p, k) : k \in 1..NumGroups(p)}]

LinksTurned == [p \in Paths |-> [q \in Paths |-> [c \in Contents |->
  IF c.kind = "text" /\ p \in c.links THEN Text((c.links \ {p}) \cup {q}) ELSE c]]]

\* A new article can be seen once its file is written; a deleted one at once not.
Unwritten(p) == op \in {"new", "upload"} /\ art # NoIdx /\ p = path /\ pc # "finish"
Tree == [p \in Paths |->
  IF HasContent(p) /\ ~Unwritten(p) THEN file[p] ELSE NoFile]
Dirs == {p \in AllPaths : IsGroup(p)}

Asked ==
  CASE op = "none" -> [op |-> "none"]
    [] op = "new" -> [op |-> op, path |-> path, content |-> Text(links)]
    [] op = "upload" -> [op |-> op, path |-> path, content |-> Image]
    [] op = "edit" -> [op |-> op, path |-> path, to |-> newPath, content |-> Text(links)]
    [] op = "delete" -> [op |-> op, path |-> path]

Wiki == INSTANCE WikiTree WITH
  Absent <- NoFile, Relinked <- LinksTurned,
  tree <- Tree, dirs <- Dirs, request <- Asked

\* The handlers implement the tree of articles: a request changes what it names and the
\* links to it, in whole steps, and nothing else (router.c, routes new to delete).
ImplementsTree == Wiki!TreeSpec
=============================================================================

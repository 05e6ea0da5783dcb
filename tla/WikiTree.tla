------------------------------ MODULE WikiTree ------------------------------
(***************************************************************************)
(* What the wiki promises about its articles: a tree of paths, changed     *)
(* only by what the request at hand asks for, one atomic change at a time. *)
(* Locks, indices, records and the order in which a handler does its work  *)
(* are not seen here.                                                      *)
(***************************************************************************)
CONSTANTS
  Paths,    \* paths of articles
  Above,    \* Above[p]: the paths of the groups that p is listed under
  Contents, \* what an article may hold
  Image,    \* the content of an image
  Absent,   \* what a path without an article holds
  Relinked  \* Relinked[p][q][c]: c with its links to p made links to q

VARIABLES
  tree,     \* what each path holds
  dirs,     \* the paths that are groups
  request   \* the request at hand: what to do, where, and with what content

treeVars == <<tree, dirs, request>>

Articles == {p \in Paths : tree[p] # Absent}
NoRequest == [op |-> "none"]
Requests == {NoRequest}
  \cup [op : {"new", "upload"}, path : Paths, content : Contents]
  \cup [op : {"edit"}, path : Paths, to : Paths, content : Contents]
  \cup [op : {"delete"}, path : Paths]

TreeInit ==
  /\ tree = [p \in Paths |-> Absent]
  /\ dirs = {}
  /\ request = NoRequest

Begin ==
  /\ request = NoRequest
  /\ request' \in Requests
  /\ UNCHANGED <<tree, dirs>>

\* A request may end with nothing done.
End ==
  /\ request' = NoRequest
  /\ UNCHANGED <<tree, dirs>>

\* The groups above a new path are made, where no article is in the way.
MakeDirs ==
  /\ request.op \in {"new", "upload"}
  /\ Above[request.path] \cap Articles = {}
  /\ dirs' = dirs \cup Above[request.path]
  /\ UNCHANGED <<tree, request>>

\* An article appears whole, inside its groups, and never in the place of another one or
\* of a group.  A new text may find an image that was deleted at its path.
Create ==
  /\ request.op \in {"new", "upload"}
  /\ tree[request.path] = Absent /\ request.path \notin dirs
  /\ Above[request.path] \subseteq dirs
  /\ \E c \in {request.content, Image} : tree' = [tree EXCEPT ![request.path] = c]
  /\ UNCHANGED <<dirs, request>>

\* An edit writes what was submitted, to the article it was submitted for.
Write ==
  /\ request.op = "edit"
  /\ tree[request.path] \notin {Absent, Image}
  /\ tree' = [tree EXCEPT ![request.path] = request.content]
  /\ UNCHANGED <<dirs, request>>

\* An article is never at two paths, and never at none, while it moves.
Move ==
  /\ request.op = "edit" /\ request.to # request.path
  /\ tree[request.path] # Absent
  /\ tree[request.to] = Absent /\ request.to \notin dirs
  /\ Above[request.to] \cap Articles = {}
  /\ tree' = [tree EXCEPT ![request.to] = tree[request.path], ![request.path] = Absent]
  /\ dirs' = dirs \cup Above[request.to]
  /\ UNCHANGED request

\* Links of other articles are turned to the new path only after the move.
Relink(r) ==
  /\ request.op = "edit"
  /\ tree[request.path] = Absent /\ tree[request.to] # Absent
  /\ tree[r] # Absent
  /\ tree' = [tree EXCEPT ![r] = Relinked[request.path][request.to][@]]
  /\ UNCHANGED <<dirs, request>>

Remove ==
  /\ request.op = "delete"
  /\ tree[request.path] # Absent
  /\ tree' = [tree EXCEPT ![request.path] = Absent]
  /\ UNCHANGED <<dirs, request>>

TreeNext ==
  \/ Begin \/ End
  \/ MakeDirs \/ Create \/ Write \/ Move \/ Remove
  \/ \E r \in Paths : Relink(r)

TreeSpec == TreeInit /\ [][TreeNext]_treeVars
=============================================================================

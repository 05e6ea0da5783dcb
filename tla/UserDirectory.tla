--------------------------- MODULE UserDirectory ---------------------------
(***************************************************************************)
(* The users' records with the two indexes that find them, by name and by  *)
(* email, and the lists of contributors that hold users in the articles'   *)
(* and groups' records.  Requests are handled one at a time by the loop,   *)
(* and each is one action; what the console can do between two of their    *)
(* steps is SessionTable's.  Of an article only its type and its           *)
(* contributors are kept.                                                  *)
(***************************************************************************)
EXTENDS Integers, Functions

CONSTANTS
  Users,    \* numbers of users in ctx.user_id
  Names,    \* the user names that are entered
  Emails,   \* the emails that are entered
  Paths,    \* paths of articles
  Groups,   \* paths of groups
  Above,    \* the group right above a path; the path of /secret has none
  Ranks     \* the ranks users are given

PERMS_CREATE == 1
PERMS_EDIT == 2
PERMS_DELETE == 3
PERMS_ADMIN == 4

ASSUME AboveAssumption == DOMAIN Above \subseteq Paths /\ Above \in [DOMAIN Above -> Groups]
ASSUME RanksAssumption == Ranks \subseteq 0..255

VARIABLES
  users,        \* user_fmap by number: the records of those who have registered
  user_by_name,
  second,       \* names that user_by_name holds twice
  user_by_email,
  articles,     \* type and contributors of each path
  groups,       \* contributors of each group, none before it exists
  author        \* history: who put the article at its path

vars == <<users, user_by_name, second, user_by_email, articles, groups, author>>
directory == <<users, user_by_name, second, user_by_email>>

NoArticle == [ty |-> "none", contributors |-> {}]

Init ==
  /\ users = <<>> /\ user_by_name = <<>> /\ second = {} /\ user_by_email = <<>>
  /\ articles = [p \in Paths |-> NoArticle]
  /\ groups = [g \in Groups |-> {}]
  /\ author = <<>>

-----------------------------------------------------------------------------
(* The indexes.                                                              *)

\* What filemap_insert and filemap_remove leave of an index.
With(f, k, v) == [x \in DOMAIN f \cup {k} |-> IF x = k THEN v ELSE f[x]]
Without(f, k) == Restrict(f, DOMAIN f \ {k})
NameTaken(n) == n \in DOMAIN user_by_name
EmailTaken(e) == e \in DOMAIN user_by_email

\* filemap_insert, once for all.  What a second insertion of the same key does is up to
\* the library: it may replace the first or stand beside it.
InsertName(n, u) == user_by_name' = With(user_by_name, n, u)
InsertedTwice(n) == second' \in {second, second \cup {n}}

\* filemap_remove takes one entry.
RemovedName(n) == IF n \in second THEN user_by_name ELSE Without(user_by_name, n)

\* Mutant: the old email stays in the index.
RemovedEmailStays(e) == user_by_email
RemovedEmail(e) == Without(user_by_email, e)

-----------------------------------------------------------------------------
(* Accounts.                                                                 *)

\* The record is found under the name, entered twice, and never under the email.
Register(u, n, e) ==
  /\ u \notin DOMAIN users
  /\ ~NameTaken(n) /\ ~EmailTaken(e)
  /\ users' = With(users, u, [name |-> n, email |-> e, perms |-> 0])
  /\ InsertName(n, u) /\ InsertedTwice(n)
  /\ UNCHANGED <<user_by_email, articles, groups, author>>

\* Mutant: a new name is not looked up.
ChangeNameUnchecked(u, n) ==
  IF n = users[u].name THEN UNCHANGED <<user_by_name, second>>
  ELSE /\ user_by_name' = With(RemovedName(users[u].name), n, u)
       /\ second' = second \ {users[u].name}

\* A name is looked up, removed and inserted only when it changes, and so is an email.
ChangeName(u, n) ==
  IF n = users[u].name THEN UNCHANGED <<user_by_name, second>>
  ELSE /\ ~NameTaken(n)
       /\ user_by_name' = With(RemovedName(users[u].name), n, u)
       /\ second' = second \ {users[u].name}

ChangeEmail(u, e) ==
  IF e = users[u].email THEN UNCHANGED user_by_email
  ELSE /\ ~EmailTaken(e)
       /\ user_by_email' = With(RemovedEmail(users[u].email), e, u)

Account(u, n, e) ==
  /\ u \in DOMAIN users
  /\ ChangeName(u, n) /\ ChangeEmail(u, e)
  /\ users' = [users EXCEPT ![u].name = n, ![u].email = e]
  /\ UNCHANGED <<articles, groups, author>>

\* The console's rank command: the user is found by his name.  (An administrator's account
\* page does the same to fewer users; SessionTable has both, step by step.)
SetRank(n, r) ==
  /\ NameTaken(n)
  /\ users' = [users EXCEPT ![user_by_name[n]].perms = r]
  /\ UNCHANGED <<user_by_name, second, user_by_email, articles, groups, author>>

-----------------------------------------------------------------------------
(* Contributors.                                                             *)

HasPerms(u, r) == u \in DOMAIN users /\ users[u].perms >= r
MayChange(u, p) == users[u].perms >= PERMS_ADMIN \/ u \in articles[p].contributors

HasGroup(p) == p \in DOMAIN Above

\* Mutant: a group that exists keeps its contributors.
GroupInsertNewOnly(p, u) ==
  groups' = [g \in Groups |-> IF HasGroup(p) /\ g = Above[p] /\ groups[g] = {} THEN {u}
                              ELSE groups[g]]

\* Of the groups above an article, if there are any, the nearest one gets the user.
GroupInsert(p, u) ==
  groups' = [g \in Groups |-> IF HasGroup(p) /\ g = Above[p] THEN groups[g] \cup {u}
                              ELSE groups[g]]

\* new and upload, over a dead article, too: its contributors are forgotten.
New(u, p, ty) ==
  /\ HasPerms(u, PERMS_CREATE)
  /\ articles[p].ty \in {"none", "dead"}
  /\ articles' = [articles EXCEPT ![p] = [ty |-> ty, contributors |-> {u}]]
  /\ GroupInsert(p, u)
  /\ author' = With(author, p, u)
  /\ UNCHANGED directory

\* Mutant: the old path keeps its record.
MovedKeepsOld(p, q) == [articles EXCEPT ![q] = articles[p]]
Moved(p, q) == [articles EXCEPT ![q] = articles[p], ![p] = NoArticle]

\* An edit that gives the text a new path: the contributors go with it, and the one who
\* moves it gets into the new group.  (A dead article at the new path is ArticleStore's.)
Move(u, p, q) ==
  /\ HasPerms(u, PERMS_EDIT)
  /\ articles[p].ty = "text" /\ articles[q].ty = "none"
  /\ MayChange(u, p)
  /\ articles' = Moved(p, q)
  /\ GroupInsert(q, u)
  /\ author' = With(Without(author, p), q, u)
  /\ UNCHANGED directory

SetContrib(u, p, n, add) ==
  /\ HasPerms(u, PERMS_EDIT)
  /\ articles[p].ty = "text"
  /\ NameTaken(n)
  /\ MayChange(u, p)
  /\ LET target == user_by_name[n]
         contribs == articles[p].contributors
     IN /\ add # (target \in contribs)
        /\ articles' = [articles EXCEPT ![p].contributors =
                          IF add THEN contribs \cup {target} ELSE contribs \ {target}]
  /\ UNCHANGED <<directory, groups, author>>

\* Administrators cannot delete what they are not listed for.
Delete(u, p) ==
  /\ HasPerms(u, PERMS_DELETE)
  /\ u \in articles[p].contributors
  /\ articles[p].ty \in {"text", "img"}
  /\ articles' = [articles EXCEPT ![p].ty = "dead"]
  /\ UNCHANGED <<directory, groups, author>>

Next ==
  \/ \E u \in Users, n \in Names, e \in Emails : Register(u, n, e)
  \/ \E u \in Users, n \in Names, e \in Emails : Account(u, n, e)
  \/ \E n \in Names, r \in Ranks : SetRank(n, r)
  \/ \E u \in Users, p \in Paths, ty \in {"text", "img"} : New(u, p, ty)
  \/ \E u \in Users, p, q \in Paths : Move(u, p, q)
  \/ \E u \in Users, p \in Paths, n \in Names, add \in BOOLEAN : SetContrib(u, p, n, add)
  \/ \E u \in Users, p \in Paths : Delete(u, p)

Spec == Init /\ [][Next]_vars
-----------------------------------------------------------------------------
(* Properties.                                                               *)

\* The indexes lead from names and emails to users who have registered; contributors
\* have, too, and a path without an article has none.
TypeOK ==
  /\ users \in [DOMAIN users -> [name : Names, email : Emails, perms : Ranks \cup {0}]]
  /\ DOMAIN users \subseteq Users
  /\ user_by_name \in [DOMAIN user_by_name -> DOMAIN users]
  /\ user_by_email \in [DOMAIN user_by_email -> DOMAIN users]
  /\ second \subseteq DOMAIN user_by_name
  /\ articles \in [Paths -> [ty : {"none", "text", "img", "dead"},
                            contributors : SUBSET DOMAIN users]]
  /\ \A p \in Paths : articles[p].ty = "none" => articles[p].contributors = {}
  /\ author \in [{p \in Paths : articles[p].ty # "none"} -> DOMAIN users]
  /\ groups \in [Groups -> SUBSET DOMAIN users]

\* A login, a rank or a grant in the name of a user reaches that user and nobody else,
\* through all the changes of names and the names others have had: who bears a name is
\* found under it.  (So no two users bear the same one.)
NameFindsUser == \A u \in DOMAIN users : NameTaken(users[u].name) /\ user_by_name[users[u].name] = u

\* An email in the index is that of the user it leads to.  Emails that were entered at
\* registration are not there, and the change of such an email takes another user's
\* entry away; what is left is nevertheless true.
EmailIndexTrue == \A e \in DOMAIN user_by_email : users[user_by_email[e]].email = e

\* Who put a living article at its path, by a new, an upload or a move, is listed with
\* the group above it, if it has one, whatever was there before and has been deleted or
\* moved since.
GroupsKnowAuthors ==
  \A p \in DOMAIN Above : articles[p].ty \in {"text", "img"} => author[p] \in groups[Above[p]]
=============================================================================

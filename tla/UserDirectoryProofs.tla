------------------------- MODULE UserDirectoryProofs -------------------------
(***************************************************************************)
(* The properties of UserDirectory, for any users, names, emails, paths    *)
(* and ranks.  Each index is an invariant of its own, once the types say   *)
(* that what it leads to has registered.                                   *)
(***************************************************************************)
EXTENDS UserDirectory, TLAPS

USE DEF PERMS_CREATE, PERMS_EDIT, PERMS_DELETE, PERMS_ADMIN

\* Whatever a second insertion has done, a name's removal leaves the others' entries.
LEMMA DropName ==
  ASSUME TypeOK, NEW n, NEW D, user_by_name \in [DOMAIN user_by_name -> D]
  PROVE  /\ DOMAIN RemovedName(n) \in SUBSET DOMAIN user_by_name
         /\ second \ {n} \subseteq DOMAIN RemovedName(n)
         /\ \A x \in DOMAIN user_by_name \ {n} :
              x \in DOMAIN RemovedName(n) /\ RemovedName(n)[x] = user_by_name[x]
         /\ RemovedName(n) \in [DOMAIN RemovedName(n) -> D]
  BY DEF RemovedName, TypeOK, Without, Restrict
-----------------------------------------------------------------------------
\* Users are never forgotten, so that what leads to one goes on leading to one.
LEMMA UsersStay == TypeOK /\ [Next]_vars => DOMAIN users \subseteq DOMAIN users'
<1>. SUFFICES ASSUME TypeOK, [Next]_vars PROVE DOMAIN users \subseteq DOMAIN users'
  OBVIOUS
<1>1. ASSUME NEW u \in Users, NEW n \in Names, NEW e \in Emails, Register(u, n, e)
      PROVE  DOMAIN users \subseteq DOMAIN users'
  BY <1>1 DEF Register, With
<1>. QED
  BY <1>1 DEF Next, vars, directory, Account, SetRank, New, Move, SetContrib, Delete

\* The types are inductive: each index leads to users that exist.
LEMMA TypeStep == TypeOK /\ [Next]_vars => TypeOK'
<1>. SUFFICES ASSUME TypeOK, [Next]_vars PROVE TypeOK'
  OBVIOUS
<1>. USE DEF TypeOK, With
<1>1. ASSUME NEW u \in Users, NEW n \in Names, NEW e \in Emails, Register(u, n, e)
      PROVE  TypeOK'
  <2>. USE <1>1 DEF Register, InsertName, InsertedTwice
  <2>1. users' \in [DOMAIN users' -> [name : Names, email : Emails, perms : Ranks \cup {0}]]
    OBVIOUS
  <2>2. DOMAIN users' = DOMAIN users \cup {u}
    OBVIOUS
  <2>3. user_by_name' \in [DOMAIN user_by_name' -> DOMAIN users']
    BY <2>2
  <2>4. second' \subseteq DOMAIN user_by_name'
    OBVIOUS
  <2>. QED
    BY <2>1, <2>2, <2>3, <2>4
<1>2. ASSUME NEW u \in Users, NEW n \in Names, NEW e \in Emails, Account(u, n, e)
      PROVE  TypeOK'
  <2>. USE <1>2 DEF Account
  <2>1. users' \in [DOMAIN users' -> [name : Names, email : Emails, perms : Ranks \cup {0}]]
        /\ DOMAIN users' = DOMAIN users
    OBVIOUS
  <2>2. user_by_name' \in [DOMAIN user_by_name' -> DOMAIN users]
        /\ second' \subseteq DOMAIN user_by_name'
    <3>1. CASE n = users[u].name
      BY <3>1 DEF ChangeName
    <3>2. CASE n # users[u].name
      <4>. DEFINE f == RemovedName(users[u].name)
      <4>1. /\ DOMAIN f \in SUBSET DOMAIN user_by_name
            /\ second \ {users[u].name} \subseteq DOMAIN f
            /\ f \in [DOMAIN f -> DOMAIN users]
        BY DropName
      <4>2. user_by_name' = With(f, n, u) /\ second' = second \ {users[u].name}
        BY <3>2 DEF ChangeName
      <4>. HIDE DEF f
      <4>. QED
        BY <4>1, <4>2
    <3>. QED
      BY <3>1, <3>2
  <2>3. user_by_email' \in [DOMAIN user_by_email' -> DOMAIN users]
    BY DEF ChangeEmail, RemovedEmail, Without, Restrict
  <2>. QED
    BY <2>1, <2>2, <2>3
<1>3. ASSUME NEW n \in Names, NEW r \in Ranks, SetRank(n, r) PROVE TypeOK'
  BY <1>3 DEF SetRank, NameTaken
<1>4. ASSUME NEW u \in Users, NEW p \in Paths, NEW ty \in {"text", "img"}, New(u, p, ty)
      PROVE  TypeOK'
  <2>. USE <1>4 DEF New, GroupInsert, HasPerms, directory
  <2>1. author' \in [DOMAIN author \cup {p} -> DOMAIN users]
    OBVIOUS
  <2>2. /\ articles' \in [Paths -> [ty : {"none", "text", "img", "dead"},
                                   contributors : SUBSET DOMAIN users]]
        /\ \A x \in Paths : articles'[x].ty = "none" => articles'[x].contributors = {}
    OBVIOUS
  <2>3. {x \in Paths : articles'[x].ty # "none"} = DOMAIN author \cup {p}
    OBVIOUS
  <2>4. groups' \in [Groups -> SUBSET DOMAIN users]
    BY AboveAssumption
  <2>. QED
    BY <2>1, <2>2, <2>3, <2>4
<1>5. ASSUME NEW u \in Users, NEW p \in Paths, NEW q \in Paths, Move(u, p, q) PROVE TypeOK'
  <2>. USE <1>5 DEF Move, Moved, NoArticle, GroupInsert, HasPerms, directory
  <2>1. author' \in [(DOMAIN author \ {p}) \cup {q} -> DOMAIN users]
    BY DEF Without, Restrict
  <2>2. /\ articles' \in [Paths -> [ty : {"none", "text", "img", "dead"},
                                   contributors : SUBSET DOMAIN users]]
        /\ \A x \in Paths : articles'[x].ty = "none" => articles'[x].contributors = {}
    OBVIOUS
  <2>3. {x \in Paths : articles'[x].ty # "none"} = (DOMAIN author \ {p}) \cup {q}
    OBVIOUS
  <2>4. groups' \in [Groups -> SUBSET DOMAIN users]
    BY AboveAssumption
  <2>. QED
    BY <2>1, <2>2, <2>3, <2>4
<1>6. ASSUME NEW u \in Users, NEW p \in Paths, NEW n \in Names, NEW add \in BOOLEAN,
             SetContrib(u, p, n, add)
      PROVE  TypeOK'
  BY <1>6 DEF SetContrib, NameTaken, directory
<1>7. ASSUME NEW u \in Users, NEW p \in Paths, Delete(u, p) PROVE TypeOK'
  BY <1>7 DEF Delete, directory
<1>8. CASE UNCHANGED vars
  BY <1>8 DEF vars
<1>. HIDE DEF TypeOK
<1>. QED
  BY <1>1, <1>2, <1>3, <1>4, <1>5, <1>6, <1>7, <1>8 DEF Next

\* Every variable keeps its type: the indexes, the contributors and the groups lead to
\* users who have registered.
THEOREM TypeCorrect == Spec => []TypeOK
<1>1. Init => TypeOK
  BY DEF Init, TypeOK, NoArticle
<1>. QED
  BY <1>1, TypeStep, PTL DEF Spec
-----------------------------------------------------------------------------
\* A name is entered with the user whose record bears it, and taken out with it.
LEMMA NameStep == TypeOK /\ NameFindsUser /\ [Next]_vars => NameFindsUser'
<1>. SUFFICES ASSUME TypeOK, NameFindsUser, [Next]_vars PROVE NameFindsUser'
  OBVIOUS
<1>. USE DEF TypeOK, NameFindsUser, NameTaken
<1>1. ASSUME NEW u \in Users, NEW n \in Names, NEW e \in Emails, Register(u, n, e)
      PROVE  NameFindsUser'
  BY <1>1 DEF Register, InsertName, With
<1>2. ASSUME NEW u \in Users, NEW n \in Names, NEW e \in Emails, Account(u, n, e)
      PROVE  NameFindsUser'
  <2>. USE <1>2 DEF Account
  <2>1. CASE n = users[u].name
    BY <2>1 DEF ChangeName
  <2>2. CASE n # users[u].name
    <3>. DEFINE old == users[u].name
                f == RemovedName(old)
    <3>1. \A x \in DOMAIN user_by_name \ {old} : x \in DOMAIN f /\ f[x] = user_by_name[x]
      BY DropName
    <3>2. user_by_name' = With(f, n, u) /\ n \notin DOMAIN user_by_name
      BY <2>2 DEF ChangeName
    <3>3. users' = [users EXCEPT ![u].name = n, ![u].email = e] /\ u \in DOMAIN users
      OBVIOUS
    <3>4. ASSUME NEW v \in DOMAIN users, v # u
          PROVE  /\ users'[v].name = users[v].name
                 /\ users[v].name \in DOMAIN user_by_name \ {old, n}
                 /\ user_by_name[users[v].name] = v
      BY <3>2, <3>3, <3>4
    <3>5. DOMAIN users' = DOMAIN users /\ users'[u].name = n
      BY <3>3
    <3>. HIDE DEF f, old
    <3>. QED
      BY <3>1, <3>2, <3>4, <3>5 DEF With
  <2>. QED
    BY <2>1, <2>2
<1>3. ASSUME NEW n \in Names, NEW r \in Ranks, SetRank(n, r) PROVE NameFindsUser'
  BY <1>3 DEF SetRank
<1>4. CASE UNCHANGED <<users, user_by_name>>
  BY <1>4
<1>. HIDE DEF TypeOK, NameFindsUser
<1>. QED
  BY <1>1, <1>2, <1>3, <1>4
     DEF Next, vars, directory, New, Move, SetContrib, Delete

\* A user is found by the name he bears, whoever has borne it before.
THEOREM NamesFindUsers == Spec => []NameFindsUser
<1>1. Init => NameFindsUser
  BY DEF Init, NameFindsUser
<1>. QED
  BY <1>1, NameStep, TypeCorrect, PTL DEF Spec
-----------------------------------------------------------------------------
\* An email is entered and taken out with the record that has it.
LEMMA EmailStep == TypeOK /\ EmailIndexTrue /\ [Next]_vars => EmailIndexTrue'
<1>. SUFFICES ASSUME TypeOK, EmailIndexTrue, [Next]_vars PROVE EmailIndexTrue'
  OBVIOUS
<1>. USE DEF TypeOK, EmailIndexTrue
<1>1. ASSUME NEW u \in Users, NEW n \in Names, NEW e \in Emails, Register(u, n, e)
      PROVE  EmailIndexTrue'
  BY <1>1 DEF Register, With
<1>2. ASSUME NEW u \in Users, NEW n \in Names, NEW e \in Emails, Account(u, n, e)
      PROVE  EmailIndexTrue'
  <2>. USE <1>2 DEF Account
  <2>1. CASE e = users[u].email
    BY <2>1 DEF ChangeEmail
  <2>2. CASE e # users[u].email
    <3>. DEFINE old == users[u].email
    <3>1. SUFFICES ASSUME NEW x \in DOMAIN user_by_email'
                   PROVE  users'[user_by_email'[x]].email = x
      OBVIOUS
    <3>2. x = e => user_by_email'[x] = u
      BY <2>2 DEF ChangeEmail, With
    <3>3. x # e => /\ x \in DOMAIN user_by_email \ {old}
                   /\ user_by_email'[x] = user_by_email[x]
      <4>. DEFINE f == RemovedEmail(old)
      <4>1. DOMAIN f = DOMAIN user_by_email \ {old} /\ \A y \in DOMAIN f : f[y] = user_by_email[y]
        BY DEF RemovedEmail, Without, Restrict
      <4>2. user_by_email' = With(f, e, u)
        BY <2>2 DEF ChangeEmail
      <4>. HIDE DEF f, old
      <4>. QED
        BY <4>1, <4>2, <3>1 DEF With
    <3>4. x # e => user_by_email[x] \in DOMAIN users \ {u}
      BY <3>3
    <3>5. \A v \in DOMAIN users : users'[v].email = IF v = u THEN e ELSE users[v].email
      OBVIOUS
    <3>. QED
      BY <3>2, <3>3, <3>4, <3>5
  <2>. QED
    BY <2>1, <2>2
<1>3. ASSUME NEW n \in Names, NEW r \in Ranks, SetRank(n, r) PROVE EmailIndexTrue'
  BY <1>3 DEF SetRank
<1>4. CASE UNCHANGED <<users, user_by_email>>
  BY <1>4
<1>. HIDE DEF TypeOK, EmailIndexTrue
<1>. QED
  BY <1>1, <1>2, <1>3, <1>4
     DEF Next, vars, directory, New, Move, SetContrib, Delete

\* No email of the index leads to a user who has another one.
THEOREM EmailsLeadHome == Spec => []EmailIndexTrue
<1>1. Init => EmailIndexTrue
  BY DEF Init, EmailIndexTrue
<1>. QED
  BY <1>1, EmailStep, TypeCorrect, PTL DEF Spec
-----------------------------------------------------------------------------
\* Groups only gain contributors.
LEMMA AuthorStep == TypeOK /\ GroupsKnowAuthors /\ [Next]_vars => GroupsKnowAuthors'
<1>. SUFFICES ASSUME TypeOK, GroupsKnowAuthors, [Next]_vars PROVE GroupsKnowAuthors'
  OBVIOUS
<1>. USE AboveAssumption DEF TypeOK, GroupsKnowAuthors
<1>1. ASSUME NEW u \in Users, NEW p \in Paths, NEW ty \in {"text", "img"}, New(u, p, ty)
      PROVE  GroupsKnowAuthors'
  <2>1. /\ author' = With(author, p, u)
        /\ articles' = [articles EXCEPT ![p] = [ty |-> ty, contributors |-> {u}]]
        /\ groups' = [g \in Groups |-> IF HasGroup(p) /\ g = Above[p] THEN groups[g] \cup {u}
                                       ELSE groups[g]]
    BY <1>1 DEF New, GroupInsert
  <2>. SUFFICES ASSUME NEW x \in DOMAIN Above, articles'[x].ty \in {"text", "img"}
                PROVE  author'[x] \in groups'[Above[x]]
    OBVIOUS
  <2>2. x \in Paths /\ Above[x] \in Groups
    OBVIOUS
  <2>3. CASE x = p
    BY <2>1, <2>2, <2>3 DEF With, HasGroup
  <2>4. CASE x # p
    <3>1. articles[x].ty \in {"text", "img"} /\ author'[x] = author[x]
      BY <2>1, <2>2, <2>4 DEF With
    <3>2. author[x] \in groups[Above[x]]
      BY <3>1
    <3>. QED
      BY <2>1, <2>2, <3>1, <3>2
  <2>. QED
    BY <2>3, <2>4
<1>2. ASSUME NEW u \in Users, NEW p \in Paths, NEW q \in Paths, Move(u, p, q)
      PROVE  GroupsKnowAuthors'
  <2>1. /\ author' = With(Without(author, p), q, u) /\ articles' = Moved(p, q)
        /\ articles[p].ty = "text" /\ articles[q].ty = "none"
        /\ groups' = [g \in Groups |-> IF HasGroup(q) /\ g = Above[q] THEN groups[g] \cup {u}
                                       ELSE groups[g]]
    BY <1>2 DEF Move, GroupInsert
  <2>. SUFFICES ASSUME NEW x \in DOMAIN Above, articles'[x].ty \in {"text", "img"}
                PROVE  author'[x] \in groups'[Above[x]]
    OBVIOUS
  <2>2. x \in Paths /\ Above[x] \in Groups /\ p # q
    BY <2>1
  <2>3. CASE x = q
    BY <2>1, <2>2, <2>3 DEF With, HasGroup
  <2>4. CASE x = p
    BY <2>1, <2>2, <2>4 DEF Moved, NoArticle
  <2>5. CASE x # p /\ x # q
    <3>1. articles[x].ty \in {"text", "img"}
      BY <2>1, <2>2, <2>5 DEF Moved
    <3>2. author'[x] = author[x]
      BY <2>1, <2>2, <2>5, <3>1 DEF With, Without, Restrict
    <3>3. author[x] \in groups[Above[x]]
      BY <3>1
    <3>. QED
      BY <2>1, <2>2, <3>2, <3>3
  <2>. QED
    BY <2>3, <2>4, <2>5
<1>3. ASSUME NEW u \in Users, NEW p \in Paths, NEW n \in Names, NEW add \in BOOLEAN,
             SetContrib(u, p, n, add)
      PROVE  GroupsKnowAuthors'
  BY <1>3 DEF SetContrib
<1>4. ASSUME NEW u \in Users, NEW p \in Paths, Delete(u, p) PROVE GroupsKnowAuthors'
  BY <1>4 DEF Delete
<1>5. CASE UNCHANGED <<articles, groups, author>>
  BY <1>5
<1>. HIDE DEF TypeOK, GroupsKnowAuthors
<1>. QED
  BY <1>1, <1>2, <1>3, <1>4, <1>5 DEF Next, vars, Register, Account, SetRank

\* Who has put an article where it is, is listed with the group above it, if
\* it has one.
THEOREM AuthorsAreKnown == Spec => []GroupsKnowAuthors
<1>1. Init => GroupsKnowAuthors
  BY AboveAssumption DEF Init, GroupsKnowAuthors, NoArticle
<1>. QED
  BY <1>1, AuthorStep, TypeCorrect, PTL DEF Spec
=============================================================================

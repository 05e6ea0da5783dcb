------------------------- MODULE SessionTableProofs -------------------------
(***************************************************************************)
(* The safety properties of SessionTable, for any users, sessions, ranks   *)
(* and bounds.  Why they hold: only the loop changes the two maps, and it  *)
(* changes by_idx only while nobody has its write lock; so what setrank    *)
(* finds under that lock stays true until it gives the lock back.  What is *)
(* read before the lock is not safe from the other thread: three theorems  *)
(* are of the web alone.  The last two say what each thread can wait for.  *)
(***************************************************************************)
EXTENDS SessionTable, TLAPS

\* Where setrank has by_idx locked, and where it is using the session it found.
LockedLabels == {"sr_lk", "sr_ck", "sr_put", "sr_save", "sr_unwrite"}
UsingLabels == {"sr_lk", "sr_ck", "sr_put", "sr_save", "sr_refuse"}

\* The write lock's owner is the thread that is inside setrank; the console's
\* setrank is never refused, so it keeps the lock for as long as the session.
LockInv ==
  /\ \A t \in Threads : pc[t] \in LockedLabels => rw = t
  /\ pc["util"] # "sr_refuse"

\* The converse of IndexAgrees: a session of the table is found under its user,
\* unless session_auth has just created it.
TableInv ==
  \A s \in table :
    /\ status[s] = "live"
    /\ owner[s] \in Users
    /\ byIdx[owner[s]] = s \/ (pc["loop"] = "auth_index" /\ mine = s)

\* What setrank uses is what by_idx says of its target.
UsingInv ==
  \A t \in Threads :
    /\ pc[t] \in SetrankLabels => target[t] \in Users
    /\ pc[t] \in UsingLabels => ses[t] = byIdx[target[t]]

\* A login has taken its user's key out of by_idx before it creates a session.
LoginInv ==
  /\ \A u \in Users \ registered : byIdx[u] = NoSession
  /\ pc["loop"] \in LoginLabels => target["loop"] \in registered
  /\ pc["loop"] \in LoginLabels \ {"login_wr"} => byIdx[target["loop"]] = NoSession
  /\ pc["loop"] = "login_lk" => ses["loop"] \in Sids \ table
  /\ pc["loop"] = "auth_index" =>
       mine \in table /\ owner[mine] = target["loop"]

\* The session a request came with is in the table until login or session_auth drops it.
MineInv ==
  /\ pc["loop"] = "idle" => mine = NoSession
  /\ mine # NoSession /\ pc["loop"] \in {"lock", "route", "acct_put", "logout_wr", "login_wr"}
       => mine \in table
  /\ pc["loop"] \in {"lock", "acct_put", "logout_wr"} => mine # NoSession

Parts ==
  /\ IndexAgrees
  /\ NoOrphanSession
  /\ LockInv
  /\ TableInv
  /\ UsingInv
  /\ LoginInv
  /\ MineInv

IInv == TypeOK /\ Parts
-----------------------------------------------------------------------------
\* Every step keeps the types; a login and a profile edit do because their user is one.
LEMMA TypeStep == IInv /\ [Next]_vars => TypeOK'
<1>. SUFFICES ASSUME IInv, [Next]_vars PROVE TypeOK'
  OBVIOUS
<1>. USE RanksAssumption, NullAssumption
     DEF Records, NoRecord, Goto, Forget, AfterSetrank, UnlockSes, Threads, NoThread, Labels,
         SetrankLabels, LoginLabels, sessionVars, lockVars
<1>0. TypeOK /\ LoginInv /\ MineInv /\ TableInv /\ UsingInv
  BY DEF IInv, Parts
<1>1. CASE RequestAnonymous
  BY <1>0, <1>1 DEF RequestAnonymous, TypeOK
<1>2. CASE LockSession
  BY <1>0, <1>2 DEF LockSession, TypeOK
<1>3. CASE RouteOther
  BY <1>0, <1>3 DEF RouteOther, TypeOK
<1>4. CASE Done
  BY <1>0, <1>4 DEF Done, TypeOK
<1>5. CASE LoginRemoveOld
  BY <1>0, <1>5 DEF LoginRemoveOld, LoginInv, TypeOK
<1>6. CASE LoginFreeOld
  BY <1>0, <1>6 DEF LoginFreeOld, TypeOK
<1>7. CASE AuthDropMine
  BY <1>0, <1>7 DEF AuthDropMine, TypeOK
<1>8. CASE AuthUseAfterFree
  BY <1>0, <1>8 DEF AuthUseAfterFree, TypeOK
<1>9. CASE AuthNoMine
  BY <1>0, <1>9 DEF AuthNoMine, TypeOK
<1>10. CASE AuthIndex
  BY <1>0, <1>10 DEF AuthIndex, TypeOK
<1>11. CASE Logout
  BY <1>0, <1>11 DEF Logout, TypeOK
<1>12. CASE LogoutRemove
  BY <1>0, <1>12 DEF LogoutRemove, TypeOK
<1>13. CASE AccountRead
  BY <1>0, <1>13 DEF AccountRead, TypeOK
<1>14. CASE AccountPut
  <2>. USE <1>14 DEF AccountPut
  <2>1. mine \in table /\ owner[mine] \in Users
    BY <1>0 DEF MineInv, TableInv
  <2>2. snap["loop"] \in Records
    BY <1>0 DEF TypeOK
  <2>3. user[owner[mine]] \in Records
    BY <1>0, <2>1 DEF TypeOK
  <2>4. [rank |-> snap["loop"].rank, rev |-> user[owner[mine]].rev + 1] \in Records
    BY <2>2, <2>3
  <2>. HIDE DEF Records
  <2>. QED
    BY <1>0, <2>1, <2>4 DEF TypeOK
<1>15. CASE AccountWithoutSession
  BY <1>0, <1>15 DEF AccountWithoutSession, TypeOK
<1>16. ASSUME NEW s \in Sids, RequestWithCookie(s) PROVE TypeOK'
  BY <1>0, <1>16 DEF RequestWithCookie, TypeOK
<1>17. ASSUME NEW u \in Users, Register(u) PROVE TypeOK'
  BY <1>0, <1>17 DEF Register, TypeOK
<1>18. ASSUME NEW u \in Users, Login(u) PROVE TypeOK'
  BY <1>0, <1>18 DEF Login, TypeOK
<1>19. ASSUME NEW s \in Sids, AuthCreate(s) PROVE TypeOK'
  BY <1>0, <1>19 DEF AuthCreate, TypeOK
<1>20. ASSUME NEW u \in Users, NEW r \in Ranks, WebSetRank(u, r) PROVE TypeOK'
  BY <1>0, <1>20 DEF WebSetRank, TypeOK
<1>21. ASSUME NEW u \in Users, NEW r \in Ranks, ConsoleRank(u, r) PROVE TypeOK'
  BY <1>0, <1>21 DEF ConsoleRank, TypeOK
<1>22. ASSUME NEW t \in Threads, SetrankFind(t) PROVE TypeOK'
  BY <1>0, <1>22 DEF SetrankFind, UsingInv, TypeOK
<1>23. ASSUME NEW t \in Threads, SetrankLock(t) PROVE TypeOK'
  BY <1>0, <1>23 DEF SetrankLock, TypeOK
<1>24. ASSUME NEW t \in Threads, SetrankCheck(t) PROVE TypeOK'
  BY <1>0, <1>24 DEF SetrankCheck, TypeOK
<1>25. ASSUME NEW t \in Threads, SetrankRefuse(t) PROVE TypeOK'
  BY <1>0, <1>25 DEF SetrankRefuse, TypeOK
<1>26. ASSUME NEW t \in Threads, SetrankPut(t) PROVE TypeOK'
  BY <1>0, <1>26 DEF SetrankPut, TypeOK
<1>27. ASSUME NEW t \in Threads, SetrankSave(t) PROVE TypeOK'
  BY <1>0, <1>27 DEF SetrankSave, TypeOK
<1>28. ASSUME NEW t \in Threads, SetrankUnwrite(t) PROVE TypeOK'
  BY <1>0, <1>28 DEF SetrankUnwrite, TypeOK
<1>29. CASE UNCHANGED vars
  BY <1>0, <1>29 DEF vars, sessionVars, lockVars, localVars, TypeOK
<1>30. QED
  BY <1>1, <1>2, <1>3, <1>4, <1>5, <1>6, <1>7, <1>8, <1>9, <1>10, <1>11, <1>12, <1>13, <1>14,
     <1>15, <1>16, <1>17, <1>18, <1>19, <1>20, <1>21, <1>22, <1>23, <1>24, <1>25, <1>26, <1>27,
     <1>28, <1>29
     DEF Next, Serve, Setrank, Threads


\* The console's limit is above every rank in use.
LEMMA ConsoleNeverRefused == \A r \in Ranks : ~ (r >= MaxPerm("util"))
  BY RanksAssumption, ConsoleAssumption DEF MaxPerm, UtilMax

\* Every step keeps the other parts of the inductive invariant.
LEMMA PartsStep == IInv /\ [Next]_vars => Parts'
<1>. SUFFICES ASSUME IInv, [Next]_vars PROVE Parts'
  OBVIOUS
<1>0. TypeOK'
  BY TypeStep
<1>. USE NullAssumption, RanksAssumption, ConsoleAssumption, <1>0
     DEF IInv, Parts, IndexAgrees, NoOrphanSession, LockInv, TableInv, UsingInv, LoginInv, MineInv,
         TypeOK, Goto, Forget, AfterSetrank, MaxPerm, UtilMax, Threads, NoThread, LockedLabels,
         UsingLabels, SetrankLabels, LoginLabels, sessionVars, lockVars
<1>1. CASE RequestAnonymous
  BY <1>1 DEF RequestAnonymous
<1>2. CASE LockSession
  BY <1>2 DEF LockSession
<1>3. CASE RouteOther
  BY <1>3 DEF RouteOther
<1>4. CASE Done
  BY <1>4 DEF Done
<1>5. CASE LoginRemoveOld
  BY <1>5 DEF LoginRemoveOld
<1>6. CASE LoginFreeOld
  BY <1>6 DEF LoginFreeOld
<1>7. CASE AuthDropMine
  BY <1>7 DEF AuthDropMine
<1>8. CASE AuthUseAfterFree
  BY <1>8 DEF AuthUseAfterFree
<1>9. CASE AuthNoMine
  BY <1>9 DEF AuthNoMine
<1>10. CASE AuthIndex
  BY <1>10 DEF AuthIndex
<1>11. CASE Logout
  BY <1>11 DEF Logout
<1>12. CASE LogoutRemove
  BY <1>12 DEF LogoutRemove
<1>13. CASE AccountRead
  BY <1>13 DEF AccountRead
<1>14. CASE AccountPut
  BY <1>14 DEF AccountPut
<1>15. CASE AccountWithoutSession
  BY <1>15 DEF AccountWithoutSession
<1>16. ASSUME NEW s \in Sids, RequestWithCookie(s) PROVE Parts'
  BY <1>16 DEF RequestWithCookie
<1>17. ASSUME NEW u \in Users, Register(u) PROVE Parts'
  BY <1>17 DEF Register
<1>18. ASSUME NEW u \in Users, Login(u) PROVE Parts'
  BY <1>18 DEF Login
<1>19. ASSUME NEW s \in Sids, AuthCreate(s) PROVE Parts'
  BY <1>19 DEF AuthCreate
<1>20. ASSUME NEW u \in Users, NEW r \in Ranks, WebSetRank(u, r) PROVE Parts'
  BY <1>20 DEF WebSetRank
<1>21. ASSUME NEW u \in Users, NEW r \in Ranks, ConsoleRank(u, r) PROVE Parts'
  BY <1>21 DEF ConsoleRank
<1>22. ASSUME NEW t \in Threads, SetrankFind(t) PROVE Parts'
  BY <1>22 DEF SetrankFind
<1>23. ASSUME NEW t \in Threads, SetrankLock(t) PROVE Parts'
  BY <1>23 DEF SetrankLock
<1>24. ASSUME NEW t \in Threads, SetrankCheck(t) PROVE Parts'
  <2>1. snap[t].rank \in Ranks
    BY DEF Records
  <2>2. t = "util" => ~ (snap[t].rank >= MaxPerm(t))
    BY <2>1, ConsoleNeverRefused
  <2>. QED
    BY <1>24, <2>2 DEF SetrankCheck
<1>25. ASSUME NEW t \in Threads, SetrankRefuse(t) PROVE Parts'
  BY <1>25 DEF SetrankRefuse
<1>26. ASSUME NEW t \in Threads, SetrankPut(t) PROVE Parts'
  BY <1>26 DEF SetrankPut
<1>27. ASSUME NEW t \in Threads, SetrankSave(t) PROVE Parts'
  BY <1>27 DEF SetrankSave
<1>28. ASSUME NEW t \in Threads, SetrankUnwrite(t) PROVE Parts'
  BY <1>28 DEF SetrankUnwrite
<1>29. CASE UNCHANGED vars
  BY <1>29 DEF vars, localVars
<1>30. QED
  BY <1>1, <1>2, <1>3, <1>4, <1>5, <1>6, <1>7, <1>8, <1>9, <1>10, <1>11, <1>12, <1>13, <1>14,
     <1>15, <1>16, <1>17, <1>18, <1>19, <1>20, <1>21, <1>22, <1>23, <1>24, <1>25, <1>26, <1>27,
     <1>28, <1>29
     DEF Next, Serve, Setrank
\* The invariant holds initially, and so always.
LEMMA Invariance == Spec => []IInv
<1>1. Init => TypeOK
  BY RanksAssumption, NullAssumption
     DEF Init, TypeOK, Records, NoRecord, Threads, NoThread, Labels, SetrankLabels
<1>2. Init => Parts
  BY NullAssumption
     DEF Init, Parts, IndexAgrees, NoOrphanSession, LockInv, TableInv, UsingInv, LoginInv,
         MineInv, Threads, LockedLabels, UsingLabels, SetrankLabels, LoginLabels
<1>3. IInv /\ [Next]_vars => IInv'
  BY TypeStep, PartsStep DEF IInv
<1>. QED
  BY <1>1, <1>2, <1>3, PTL DEF Spec, IInv

-----------------------------------------------------------------------------
\* Type correctness: every variable of the session table keeps its type.
THEOREM TypeCorrect == Spec => []TypeOK
  BY Invariance, PTL DEF IInv

\* uses_from_idx may follow the key it finds: it leads to a session of the table, in
\* memory, of the user it was found under.
THEOREM IndexAlwaysAgrees == Spec => []IndexAgrees
<1>1. IInv => IndexAgrees
  BY DEF IInv, Parts
<1>. QED
  BY <1>1, Invariance, PTL

\* No two sessions of the table belong to one user.
THEOREM SessionsAreUnique == Spec => []OneSessionPerUser
<1>1. IInv => OneSessionPerUser
  <2>. SUFFICES ASSUME IInv, NEW s1 \in table, NEW s2 \in table, owner[s1] = owner[s2]
                PROVE  s1 = s2
    BY DEF OneSessionPerUser
  <2>. USE DEF IInv, Parts, TableInv
  <2>1. CASE byIdx[owner[s1]] = s1 /\ byIdx[owner[s2]] = s2
    BY <2>1
  <2>2. CASE pc["loop"] = "auth_index"
    <3>1. byIdx[owner[mine]] = NoSession
      BY <2>2 DEF LoginInv, LoginLabels
    <3>. QED
      BY <2>2, <3>1, NullAssumption DEF TypeOK
  <2>. QED
    BY <2>1, <2>2
<1>. QED
  BY <1>1, Invariance, PTL

\* setrank never touches a session that a login or logout has freed under it.
THEOREM SetrankNeverUsesFreed == Spec => []SetrankSessionLive
<1>1. IInv => SetrankSessionLive
  BY DEF IInv, Parts, UsingInv, IndexAgrees, SetrankSessionLive, UsingLabels, SetrankLabels
<1>. QED
  BY <1>1, Invariance, PTL

\* No session in memory is lost, whichever way it left the maps.
THEOREM NoSessionIsLost == Spec => []NoOrphanSession
<1>1. IInv => NoOrphanSession
  BY DEF IInv, Parts
<1>. QED
  BY <1>1, Invariance, PTL
-----------------------------------------------------------------------------
(* The web alone: no command has been typed at the console.                  *)

\* A record that was read is still the user's when it is used, by a login, a rank that is
\* set, or a profile that is saved; so a session of the table grants its user's rank but
\* while setrank has put a record and not yet pointed the session to it.
WebInv ==
  /\ pc["util"] \in {"idle", "dead"}
  /\ \A u \in Users \ registered : user[u] = NoRecord
  /\ pc["loop"] \in LoginLabels \cup SetrankLabels =>
       target["loop"] \in registered /\ snap["loop"] = user[target["loop"]]
  /\ pc["loop"] = "sr_put" => snap["loop"].rank < Admin
  /\ pc["loop"] = "acct_put" => snap["loop"].rank = user[owner[mine]].rank
  /\ \A s \in table :
       \/ cache[s].rank = user[owner[s]].rank
       \/ pc["loop"] = "sr_save" /\ owner[s] = target["loop"]

\* Every step of the web alone keeps it.
LEMMA WebStep == IInv /\ IInv' /\ WebInv /\ cmds' = 0 /\ [Next]_vars => WebInv'
<1>. SUFFICES ASSUME IInv, IInv', WebInv, cmds' = 0, [Next]_vars PROVE WebInv'
  OBVIOUS
<1>. USE NullAssumption, RanksAssumption
     DEF WebInv, Goto, Forget, AfterSetrank, MaxPerm, Threads, NoThread,
         SetrankLabels, LoginLabels, sessionVars, lockVars
<1>0. TypeOK /\ TypeOK' /\ TableInv /\ LoginInv /\ MineInv /\ UsingInv /\ IndexAgrees
  BY DEF IInv, Parts
<1>a. pc["loop"] \in Labels /\ DOMAIN pc = Threads /\ pc["util"] \in {"idle", "dead"}
  BY <1>0 DEF TypeOK
<1>b. \A s \in table : owner[s] \in registered
  BY <1>0 DEF TableInv, LoginInv, TypeOK
<1>1. CASE RequestAnonymous
  BY <1>0, <1>a, <1>b, <1>1
     DEF RequestAnonymous, TypeOK, TableInv, LoginInv, MineInv, UsingInv, IndexAgrees
<1>2. CASE LockSession
  BY <1>0, <1>a, <1>b, <1>2
     DEF LockSession, TypeOK, TableInv, LoginInv, MineInv, UsingInv, IndexAgrees
<1>3. CASE RouteOther
  BY <1>0, <1>a, <1>b, <1>3
     DEF RouteOther, TypeOK, TableInv, LoginInv, MineInv, UsingInv, IndexAgrees
<1>4. CASE Done
  BY <1>0, <1>a, <1>b, <1>4
     DEF Done, TypeOK, TableInv, LoginInv, MineInv, UsingInv, IndexAgrees
<1>5. CASE LoginRemoveOld
  BY <1>0, <1>a, <1>b, <1>5
     DEF LoginRemoveOld, TypeOK, TableInv, LoginInv, MineInv, UsingInv, IndexAgrees
<1>6. CASE LoginFreeOld
  BY <1>0, <1>a, <1>b, <1>6
     DEF LoginFreeOld, TypeOK, TableInv, LoginInv, MineInv, UsingInv, IndexAgrees
<1>7. CASE AuthDropMine
  BY <1>0, <1>a, <1>b, <1>7
     DEF AuthDropMine, TypeOK, TableInv, LoginInv, MineInv, UsingInv, IndexAgrees
<1>8. CASE AuthUseAfterFree
  BY <1>0, <1>a, <1>b, <1>8
     DEF AuthUseAfterFree, TypeOK, TableInv, LoginInv, MineInv, UsingInv, IndexAgrees
<1>9. CASE AuthNoMine
  BY <1>0, <1>a, <1>b, <1>9
     DEF AuthNoMine, TypeOK, TableInv, LoginInv, MineInv, UsingInv, IndexAgrees
<1>10. CASE AuthIndex
  BY <1>0, <1>a, <1>b, <1>10
     DEF AuthIndex, TypeOK, TableInv, LoginInv, MineInv, UsingInv, IndexAgrees
<1>11. CASE Logout
  BY <1>0, <1>a, <1>b, <1>11
     DEF Logout, TypeOK, TableInv, LoginInv, MineInv, UsingInv, IndexAgrees
<1>12. CASE LogoutRemove
  BY <1>0, <1>a, <1>b, <1>12
     DEF LogoutRemove, TypeOK, TableInv, LoginInv, MineInv, UsingInv, IndexAgrees
<1>13. CASE AccountRead
  BY <1>0, <1>a, <1>b, <1>13
     DEF AccountRead, TypeOK, TableInv, LoginInv, MineInv, UsingInv, IndexAgrees
<1>14. CASE AccountPut
  BY <1>0, <1>a, <1>b, <1>14
     DEF AccountPut, TypeOK, TableInv, LoginInv, MineInv, UsingInv, IndexAgrees
<1>15. CASE AccountWithoutSession
  BY <1>0, <1>a, <1>b, <1>15
     DEF AccountWithoutSession, TypeOK, TableInv, LoginInv, MineInv, UsingInv, IndexAgrees
<1>16. ASSUME NEW s \in Sids, RequestWithCookie(s) PROVE WebInv'
  BY <1>0, <1>a, <1>b, <1>16
     DEF RequestWithCookie, TypeOK, TableInv, LoginInv, MineInv, UsingInv, IndexAgrees
<1>17. ASSUME NEW u \in Users, Register(u) PROVE WebInv'
  BY <1>0, <1>a, <1>b, <1>17
     DEF Register, TypeOK, TableInv, LoginInv, MineInv, UsingInv, IndexAgrees
<1>18. ASSUME NEW u \in Users, Login(u) PROVE WebInv'
  BY <1>0, <1>a, <1>b, <1>18
     DEF Login, TypeOK, TableInv, LoginInv, MineInv, UsingInv, IndexAgrees
<1>19. ASSUME NEW s \in Sids, AuthCreate(s) PROVE WebInv'
  BY <1>0, <1>a, <1>b, <1>19
     DEF AuthCreate, TypeOK, TableInv, LoginInv, MineInv, UsingInv, IndexAgrees
<1>20. ASSUME NEW u \in Users, NEW r \in Ranks, WebSetRank(u, r) PROVE WebInv'
  BY <1>0, <1>a, <1>b, <1>20
     DEF WebSetRank, TypeOK, TableInv, LoginInv, MineInv, UsingInv, IndexAgrees
<1>21. ASSUME NEW u \in Users, NEW r \in Ranks, ConsoleRank(u, r) PROVE WebInv'
  BY <1>0, <1>21 DEF ConsoleRank, TypeOK
<1>22. CASE SetrankFind("loop")
  BY <1>0, <1>a, <1>b, <1>22
     DEF SetrankFind, UsingLabels, TypeOK, TableInv, LoginInv, MineInv, UsingInv, IndexAgrees
<1>23. CASE SetrankLock("loop")
  BY <1>0, <1>a, <1>b, <1>23
     DEF SetrankLock, UsingLabels, TypeOK, TableInv, LoginInv, MineInv, UsingInv, IndexAgrees
<1>24. CASE SetrankCheck("loop")
  <2>1. snap["loop"].rank \in Nat
    BY <1>0 DEF TypeOK, Records
  <2>2. pc'["loop"] = "sr_put" => snap["loop"].rank < Admin
    BY <1>a, <1>24, <2>1 DEF SetrankCheck, Admin
  <2>. QED
    BY <1>0, <1>a, <1>24, <2>2 DEF SetrankCheck, TypeOK
<1>25. CASE SetrankRefuse("loop")
  BY <1>0, <1>a, <1>b, <1>25
     DEF SetrankRefuse, UsingLabels, TypeOK, TableInv, LoginInv, MineInv, UsingInv, IndexAgrees
<1>26. CASE SetrankPut("loop")
  BY <1>0, <1>a, <1>b, <1>26
     DEF SetrankPut, UsingLabels, TypeOK, TableInv, LoginInv, MineInv, UsingInv, IndexAgrees
<1>27. CASE SetrankSave("loop")
  BY <1>0, <1>a, <1>b, <1>27
     DEF SetrankSave, UsingLabels, TypeOK, TableInv, LoginInv, MineInv, UsingInv, IndexAgrees
<1>28. CASE SetrankUnwrite("loop")
  BY <1>0, <1>a, <1>b, <1>28
     DEF SetrankUnwrite, UsingLabels, TypeOK, TableInv, LoginInv, MineInv, UsingInv, IndexAgrees
<1>29. CASE UNCHANGED vars
  BY <1>29 DEF vars, localVars
<1>30. ~Setrank("util")
  BY <1>a
     DEF Setrank, SetrankFind, SetrankLock, SetrankCheck, SetrankRefuse, SetrankPut, SetrankSave,
         SetrankUnwrite
<1>. QED
  BY <1>1, <1>2, <1>3, <1>4, <1>5, <1>6, <1>7, <1>8, <1>9, <1>10, <1>11, <1>12, <1>13, <1>14,
     <1>15, <1>16, <1>17, <1>18, <1>19, <1>20, <1>21, <1>22, <1>23, <1>24, <1>25, <1>26, <1>27,
     <1>28, <1>29, <1>30
     DEF Next, Serve, Setrank

\* Only three steps change a record, and each only as it should.
LEMMA WebChanges ==
  ASSUME IInv, WebInv, cmds' = 0, [Next]_vars, NEW u \in Users, user'[u] # user[u]
  PROVE  /\ user'[u].rev >= user[u].rev
         /\ user'[u].rank # user[u].rank => user[u].rank < Admin
<1>. USE DEF TypeOK
<1>0. TypeOK /\ TableInv /\ LoginInv /\ MineInv /\ UsingInv
  BY DEF IInv, Parts
<1>1. CASE \E v \in Users : Register(v)
  <2>1. PICK v \in Users : v \notin registered /\ user' = [user EXCEPT ![v] = NoRecord]
    BY <1>1 DEF Register
  <2>. QED
    BY <1>0, <2>1 DEF WebInv
<1>2. CASE AccountPut
  <2>1. /\ pc["loop"] = "acct_put" /\ mine \in table
        /\ user' = [user EXCEPT ![owner[mine]] =
                       [rank |-> snap["loop"].rank, rev |-> user[owner[mine]].rev + 1]]
    BY <1>0, <1>2 DEF AccountPut, MineInv
  <2>2. u = owner[mine] /\ user'[u].rank = user[u].rank /\ user'[u].rev = user[u].rev + 1
    BY <1>0, <2>1 DEF WebInv
  <2>3. user[u].rev \in Nat
    BY <1>0 DEF Records
  <2>. QED
    BY <2>2, <2>3
<1>3. CASE SetrankPut("loop")
  <2>1. /\ pc["loop"] = "sr_put" /\ snap["loop"] = user[target["loop"]]
        /\ snap["loop"].rank < Admin
        /\ user' = [user EXCEPT ![target["loop"]] = [snap["loop"] EXCEPT !.rank = setto["loop"]]]
    BY <1>3 DEF SetrankPut, WebInv, SetrankLabels
  <2>2. u = target["loop"] /\ user[u] \in Records
    BY <1>0, <2>1
  <2>3. user'[u] = [user[u] EXCEPT !.rank = setto["loop"]]
    BY <1>0, <2>1, <2>2
  <2>4. user'[u].rev = user[u].rev /\ user[u].rev \in Nat
    BY <2>2, <2>3 DEF Records
  <2>. QED
    BY <2>1, <2>2, <2>4
<1>4. CASE Setrank("util")
  BY <1>4 DEF WebInv, Setrank, SetrankFind, SetrankLock, SetrankCheck, SetrankRefuse, SetrankPut,
              SetrankSave, SetrankUnwrite
<1>5. ASSUME UNCHANGED user PROVE FALSE
  BY <1>5
<1>6. CASE Setrank("loop") /\ ~SetrankPut("loop")
  BY <1>5, <1>6 DEF Setrank, SetrankFind, SetrankLock, SetrankCheck, SetrankRefuse, SetrankSave,
                    SetrankUnwrite
<1>7. CASE Serve /\ ~AccountPut /\ ~Setrank("loop") /\ ~\E v \in Users : Register(v)
  BY <1>5, <1>7
     DEF Serve, LockSession, RouteOther, Done, Login, LoginRemoveOld, LoginFreeOld, AuthDropMine,
         AuthUseAfterFree, AuthNoMine, AuthCreate, AuthIndex, Logout, LogoutRemove, AccountRead,
         AccountWithoutSession, WebSetRank
<1>8. CASE RequestAnonymous \/ (\E s \in Sids : RequestWithCookie(s))
           \/ (\E v \in Users, r \in Ranks : ConsoleRank(v, r)) \/ UNCHANGED vars
  BY <1>5, <1>8 DEF RequestAnonymous, RequestWithCookie, ConsoleRank, vars
<1>. QED
  BY <1>1, <1>2, <1>3, <1>4, <1>6, <1>7, <1>8 DEF Next

\* As long as the console is not used, the invariant holds.
LEMMA WebInvariance == Spec /\ [](cmds = 0) => [](IInv /\ WebInv)
<1>1. Init => WebInv
  BY DEF Init, WebInv, LoginLabels, SetrankLabels, Threads
<1>2. IInv /\ IInv' /\ WebInv /\ cmds = 0 /\ (cmds = 0)' /\ [Next]_vars => WebInv'
  BY WebStep
<1>. QED
  BY <1>1, <1>2, Invariance, PTL DEF Spec

\* Of the web alone: between requests a session grants its user's present rank, whatever
\* ranks were set, profiles saved and logins made.
THEOREM SessionsGrantRanks == Spec /\ [](cmds = 0) => []SessionGrantsRank
<1>1. WebInv => SessionGrantsRank
  BY DEF WebInv, SessionGrantsRank
<1>. QED
  BY <1>1, WebInvariance, PTL

\* Of the web alone: no request changes the rank of an administrator.
THEOREM AdminsAreKept == Spec /\ [](cmds = 0) => WebKeepsAdmins
<1>1. IInv /\ WebInv /\ (cmds = 0)' /\ [Next]_vars =>
        [pc'["loop"] # pc["loop"] =>
           \A u \in Users : user[u].rank >= Admin => user'[u].rank = user[u].rank]_vars
  <2>. SUFFICES ASSUME IInv, WebInv, cmds' = 0, [Next]_vars,
                       NEW u \in Users, user[u].rank >= Admin
                PROVE  user'[u].rank = user[u].rank
    OBVIOUS
  <2>1. user[u].rank \in Nat
    BY RanksAssumption DEF IInv, TypeOK, Records
  <2>. QED
    BY <2>1, WebChanges DEF Admin
<1>. QED
  BY <1>1, WebInvariance, PTL DEF Spec, WebKeepsAdmins

\* Of the web alone: no change of a user's rank brings an earlier profile back.
THEOREM ProfilesAreKept == Spec /\ [](cmds = 0) => ProfileKept
<1>1. IInv /\ WebInv /\ (cmds = 0)' /\ [Next]_vars =>
        [\A u \in Users : user'[u].rev >= user[u].rev]_vars
  <2>. SUFFICES ASSUME IInv, WebInv, cmds' = 0, [Next]_vars, NEW u \in Users
                PROVE  user'[u].rev >= user[u].rev
    OBVIOUS
  <2>1. user[u].rev \in Nat
    BY DEF IInv, TypeOK, Records
  <2>. QED
    BY <2>1, WebChanges
<1>. QED
  BY <1>1, WebInvariance, PTL DEF Spec, ProfileKept
-----------------------------------------------------------------------------
(* Waiting: the part of LoopAnswers and ConsoleReturns that is not about     *)
(* fairness.                                                                 *)

\* A thread in the middle of a request or a command goes on, unless it needs a lock that is
\* taken; session_auth finds memory for a session.
CanGoOn(t) ==
  /\ pc[t] \notin {"idle", "dead"}
  /\ pc[t] \in {"login_wr", "logout_wr", "auth_index", "sr_wr"} => rw = NoThread
  /\ pc[t] = "auth" /\ mine # NoSession => rw = NoThread /\ status[mine] # "new"
  /\ pc[t] = "lock" => mutex[mine] = NoThread
  /\ pc[t] \in {"login_lk", "sr_lk"} => mutex[ses[t]] = NoThread
  /\ pc[t] = "auth_new" => \E s \in Sids : status[s] = "new"

\* But for the ways to stop for ever that Hung lists, a thread that waits does so for the
\* other one, which goes on.
NobodyElseStops ==
  \A t \in Threads : pc[t] # "idle" => (\E o \in Threads : CanGoOn(o)) \/ Hung

\* Only a thread inside setrank is the writer of by_idx.
WriterInv == \A t \in Threads : rw = t => pc[t] \in LockedLabels

\* The console holds the lock of the session its setrank uses, and no other; the loop
\* holds, of sessions in memory, that of its request's and that of its setrank's.
MutexInv ==
  \A s \in Sids :
    /\ mutex[s] = "util" => pc["util"] \in {"sr_ck", "sr_put", "sr_save"} /\ ses["util"] = s
    /\ mutex[s] = "loop" /\ status[s] = "live" =>
         \/ s = mine /\ pc["loop"] \notin {"idle", "lock"}
         \/ s = ses["loop"] /\ pc["loop"] \in {"sr_ck", "sr_put", "sr_save", "sr_refuse"}

\* A login has left itself a session to create, the request's own is gone by then, and
\* a request does not set the rank of its own user.
HandInv ==
  /\ \A t \in Threads : pc[t] = "sr_lk" => ses[t] # NoSession
  /\ mine # NoSession => status[mine] # "new"
  /\ pc["loop"] = "auth_new" /\ mine # NoSession => status[mine] = "freed"
  /\ pc["loop"] = "login_lk" => status[ses["loop"]] = "live"
  /\ pc["loop"] \in SetrankLabels => target["loop"] # owner[mine]
  /\ pc["loop"] \in {"login_wr", "login_lk", "auth", "auth_new"} =>
       \E s \in Sids : status[s] = "new"

\* The console stops for ever only with the loop.
DeadInv == pc["util"] = "dead" => pc["loop"] = "dead"

WaitInv == WriterInv /\ MutexInv /\ HandInv /\ DeadInv

\* Every step keeps these invariants.
LEMMA WaitStep == IInv /\ IInv' /\ WaitInv /\ [Next]_vars => WaitInv'
<1>. SUFFICES ASSUME IInv, IInv', WaitInv, [Next]_vars PROVE WaitInv'
  OBVIOUS
<1>. USE NullAssumption
     DEF IInv, Parts, IndexAgrees, NoOrphanSession, LockInv, TableInv, UsingInv, LoginInv, MineInv,
         TypeOK, Goto, Forget, AfterSetrank, UnlockSes, Threads, NoThread, LockedLabels,
         UsingLabels, SetrankLabels, LoginLabels, sessionVars, lockVars, WaitInv, WriterInv, MutexInv,
         HandInv, DeadInv
<1>1. CASE RequestAnonymous
  BY <1>1 DEF RequestAnonymous
<1>2. CASE LockSession
  BY <1>2 DEF LockSession
<1>3. CASE RouteOther
  BY <1>3 DEF RouteOther
<1>4. CASE Done
  BY <1>4 DEF Done
<1>5. CASE LoginRemoveOld
  BY <1>5 DEF LoginRemoveOld
<1>6. CASE LoginFreeOld
  BY <1>6 DEF LoginFreeOld
<1>7. CASE AuthDropMine
  BY <1>7 DEF AuthDropMine
<1>8. CASE AuthUseAfterFree
  BY <1>8 DEF AuthUseAfterFree
<1>9. CASE AuthNoMine
  BY <1>9 DEF AuthNoMine
<1>10. CASE AuthIndex
  BY <1>10 DEF AuthIndex
<1>11. CASE Logout
  BY <1>11 DEF Logout
<1>12. CASE LogoutRemove
  BY <1>12 DEF LogoutRemove
<1>13. CASE AccountRead
  BY <1>13 DEF AccountRead
<1>14. CASE AccountPut
  BY <1>14 DEF AccountPut
<1>15. CASE AccountWithoutSession
  BY <1>15 DEF AccountWithoutSession
<1>16. ASSUME NEW s \in Sids, RequestWithCookie(s) PROVE WaitInv'
  BY <1>16 DEF RequestWithCookie
<1>17. ASSUME NEW u \in Users, Register(u) PROVE WaitInv'
  BY <1>17 DEF Register
<1>18. ASSUME NEW u \in Users, Login(u) PROVE WaitInv'
  BY <1>18 DEF Login
<1>19. ASSUME NEW s \in Sids, AuthCreate(s) PROVE WaitInv'
  BY <1>19 DEF AuthCreate
<1>20. ASSUME NEW u \in Users, NEW r \in Ranks, WebSetRank(u, r) PROVE WaitInv'
  BY <1>20 DEF WebSetRank
<1>21. ASSUME NEW u \in Users, NEW r \in Ranks, ConsoleRank(u, r) PROVE WaitInv'
  BY <1>21 DEF ConsoleRank
<1>22. ASSUME NEW t \in Threads, SetrankFind(t) PROVE WaitInv'
  BY <1>22 DEF SetrankFind
<1>23. ASSUME NEW t \in Threads, SetrankLock(t) PROVE WaitInv'
  BY <1>23 DEF SetrankLock
<1>24. ASSUME NEW t \in Threads, SetrankCheck(t) PROVE WaitInv'
  BY <1>24 DEF SetrankCheck
<1>25. ASSUME NEW t \in Threads, SetrankRefuse(t) PROVE WaitInv'
  BY <1>25 DEF SetrankRefuse
<1>26. ASSUME NEW t \in Threads, SetrankPut(t) PROVE WaitInv'
  BY <1>26 DEF SetrankPut
<1>27. ASSUME NEW t \in Threads, SetrankSave(t) PROVE WaitInv'
  BY <1>27 DEF SetrankSave
<1>28. ASSUME NEW t \in Threads, SetrankUnwrite(t) PROVE WaitInv'
  BY <1>28 DEF SetrankUnwrite
<1>29. CASE UNCHANGED vars
  BY <1>29 DEF vars, localVars
<1>. QED
  BY <1>1, <1>2, <1>3, <1>4, <1>5, <1>6, <1>7, <1>8, <1>9, <1>10, <1>11, <1>12, <1>13,
     <1>14, <1>15, <1>16, <1>17, <1>18, <1>19, <1>20, <1>21, <1>22, <1>23, <1>24, <1>25,
     <1>26, <1>27, <1>28, <1>29
     DEF Next, Serve, Setrank, Threads

\* They hold in every state.
LEMMA WaitHolds == Spec => [](IInv /\ WaitInv)
<1>1. Init => WaitInv
  BY NullAssumption DEF Init, WaitInv, WriterInv, MutexInv, HandInv, DeadInv,
         Threads, NoThread, SetrankLabels
<1>. QED
  BY <1>1, WaitStep, Invariance, PTL DEF Spec

\* Who waits for the write lock waits for a thread that is inside setrank.
LEMMA WriterGoesOn ==
  ASSUME IInv, WaitInv, NEW t \in Threads, rw = t
  PROVE  CanGoOn(t) \/ (pc[t] = "sr_lk" /\ ses[t] \in Sids /\ mutex[ses[t]] \in Threads \ {t})
<1>. USE DEF TypeOK, Threads, NoThread
<1>1. TypeOK /\ LockInv /\ pc[t] \in LockedLabels /\ MutexInv /\ HandInv
  BY DEF IInv, Parts, WaitInv, WriterInv
<1>2. CASE pc[t] # "sr_lk"
  BY <1>1, <1>2 DEF CanGoOn, LockedLabels
<1>3. CASE pc[t] = "sr_lk"
  <2>1. ses[t] \in Sids
    BY <1>1, <1>3 DEF HandInv
  <2>2. mutex[ses[t]] \in Threads \cup {NoThread}
    BY <1>1, <2>1
  <2>3. mutex[ses[t]] # t
    <3>1. CASE t = "util"
      BY <1>1, <1>3, <2>1, <3>1 DEF MutexInv
    <3>2. CASE t = "loop"
      <4>1. status[ses["loop"]] = "live" /\ ses["loop"] # mine
        <5>1. /\ ses["loop"] = byIdx[target["loop"]] /\ target["loop"] \in Users
              /\ target["loop"] # owner[mine]
          BY <1>3, <3>2 DEF IInv, Parts, UsingInv, WaitInv, HandInv, UsingLabels, SetrankLabels
        <5>2. status[ses["loop"]] = "live" /\ owner[ses["loop"]] = target["loop"]
          BY <1>1, <2>1, <3>2, <5>1, NullAssumption DEF IInv, Parts, IndexAgrees
        <5>. QED
          BY <5>1, <5>2
      <4>. QED
        BY <1>1, <1>3, <2>1, <3>2, <4>1 DEF MutexInv
    <3>. QED
      BY <3>1, <3>2
  <2>. QED
    BY <1>3, <2>1, <2>2, <2>3 DEF CanGoOn
<1>. QED
  BY <1>2, <1>3

\* The loop waits for the console, which works on the session the loop needs or is inside
\* setrank; unless that waits for the loop, too.
LEMMA LoopWaits ==
  ASSUME IInv, WaitInv, pc["loop"] # "idle", ~Hung, ~CanGoOn("loop")
  PROVE  CanGoOn("util")
<1>. USE NullAssumption DEF TypeOK, Threads, NoThread
<1>0. TypeOK /\ LockInv /\ MineInv /\ LoginInv /\ MutexInv /\ HandInv /\ WriterInv
      /\ pc["loop"] # "dead"
  BY DEF IInv, Parts, WaitInv, Hung
<1>1. ASSUME NEW s \in Sids, mutex[s] = "util" PROVE CanGoOn("util")
  BY <1>0, <1>1 DEF MutexInv, CanGoOn
<1>2. ASSUME rw # NoThread,
             pc["loop"] \in {"login_wr", "auth", "auth_index", "logout_wr", "sr_wr"}
      PROVE  CanGoOn("util")
  <2>1. rw = "util"
    BY <1>0, <1>2 DEF WriterInv, LockedLabels
  <2>2. ~(pc["util"] = "sr_lk" /\ mutex[ses["util"]] = "loop")
    BY <1>2, <2>1 DEF Hung, LockInversion
  <2>. QED
    BY <2>1, <2>2, WriterGoesOn
<1>3. CASE pc["loop"] = "lock"
  <2>1. mine \in Sids /\ mutex[mine] \in Threads
    BY <1>0, <1>3 DEF MineInv, CanGoOn
  <2>2. mutex[mine] # "loop"
    <3>1. status[mine] = "live"
      BY <1>3, <2>1 DEF IInv, Parts, MineInv, TableInv
    <3>2. ses["loop"] = ses["loop"] /\ pc["loop"] \notin {"sr_ck", "sr_put", "sr_save", "sr_refuse"}
      BY <1>3
    <3>. QED
      BY <1>0, <1>3, <2>1, <3>1, <3>2 DEF MutexInv
  <2>. QED
    BY <1>1, <2>1, <2>2
<1>4. CASE pc["loop"] = "login_lk"
  <2>1. ses["loop"] \in Sids /\ mutex[ses["loop"]] \in Threads /\ status[ses["loop"]] = "live"
    BY <1>0, <1>4 DEF LoginInv, HandInv, CanGoOn
  <2>2. mutex[ses["loop"]] # "loop"
    BY <1>0, <1>4, <2>1 DEF MutexInv, Hung, SelfRelogin
  <2>. QED
    BY <1>1, <2>1, <2>2
<1>5. CASE pc["loop"] = "sr_lk"
  <2>1. rw = "loop"
    BY <1>0, <1>5 DEF LockInv, LockedLabels
  <2>2. ses["loop"] \in Sids /\ mutex[ses["loop"]] = "util"
    BY <2>1, WriterGoesOn
  <2>. QED
    BY <1>1, <2>2
<1>6. CASE pc["loop"] \notin {"lock", "login_lk", "sr_lk"}
  <2>1. /\ pc["loop"] \in {"login_wr", "auth", "auth_index", "logout_wr", "sr_wr"}
        /\ rw # NoThread
    BY <1>0, <1>6 DEF CanGoOn, HandInv
  <2>. QED
    BY <1>2, <2>1
<1>. QED
  BY <1>3, <1>4, <1>5, <1>6

\* The console waits for the loop: for the write lock or for a session in use there.
LEMMA ConsoleWaits ==
  ASSUME IInv, WaitInv, pc["util"] # "idle", ~Hung, ~CanGoOn("util")
  PROVE  CanGoOn("loop")
<1>. USE NullAssumption DEF TypeOK, Threads, NoThread
<1>0. TypeOK /\ LockInv /\ MutexInv /\ HandInv /\ pc["loop"] # "dead"
  BY DEF IInv, Parts, WaitInv, Hung
<1>1. pc["util"] # "dead"
  BY DEF WaitInv, DeadInv, Hung
<1>2. CASE pc["util"] = "sr_wr"
  <2>1. rw \in Threads
    BY <1>0, <1>2 DEF CanGoOn
  <2>2. rw = "loop"
    BY <1>2, <2>1 DEF WaitInv, WriterInv, LockedLabels
  <2>3. pc["loop"] # "idle"
    BY <2>2 DEF WaitInv, WriterInv, LockedLabels
  <2>. QED
    BY <2>3, LoopWaits
<1>3. CASE pc["util"] = "sr_lk"
  <2>1. ses["util"] \in Sids /\ mutex[ses["util"]] = "loop"
    <3>1. rw = "util"
      BY <1>0, <1>3 DEF LockInv, LockedLabels
    <3>. QED
      BY <3>1, WriterGoesOn
  <2>2. status[ses["util"]] = "live"
    BY <1>3, <2>1 DEF IInv, Parts, UsingInv, IndexAgrees, UsingLabels, SetrankLabels
  <2>3. pc["loop"] # "idle"
    BY <1>0, <2>1, <2>2 DEF MutexInv
  <2>. QED
    BY <2>3, LoopWaits
<1>4. CASE pc["util"] \notin {"sr_wr", "sr_lk"}
  BY <1>0, <1>1, <1>4 DEF CanGoOn, SetrankLabels
<1>. QED
  BY <1>2, <1>3, <1>4

\* Of every state: a request is served and a command is executed on, by this thread or after
\* the other one, but in the situations of Hung.
THEOREM NothingElseHangs == Spec => []NobodyElseStops
<1>1. IInv /\ WaitInv => NobodyElseStops
  BY LoopWaits, ConsoleWaits DEF NobodyElseStops, Threads
<1>. QED
  BY <1>1, WaitHolds, PTL

\* How many steps there are at most until a handler ends.
Ahead(l) ==
  CASE l = "lock" -> 12
    [] l = "route" -> 11
    [] l = "sr_wr" -> 10
    [] l = "sr_lk" -> 9
    [] l \in {"sr_ck", "login_wr"} -> 8
    [] l \in {"sr_put", "login_lk"} -> 7
    [] l \in {"sr_save", "auth"} -> 6
    [] l \in {"sr_unwrite", "auth_new"} -> 5
    [] l \in {"sr_refuse", "auth_index", "logout_wr", "acct_put"} -> 4
    [] l = "done" -> 3
    [] l = "idle" -> 2
    [] l = "dead" -> 1
Advances(t) == Ahead(pc'[t]) < Ahead(pc[t])
HandlersAdvance ==
  [][/\ Serve => Advances("loop")
     /\ Setrank("util") => Advances("util")
     /\ \A t \in Threads : pc[t] # "idle" /\ pc'[t] # pc[t] => Advances(t)]_vars

\* A step of setrank.
LEMMA SetrankAdvances ==
  ASSUME TypeOK, NEW t \in Threads, Setrank(t)
  PROVE  Advances(t) /\ \A o \in Threads : o # t => pc'[o] = pc[o]
<1>. USE DEF TypeOK, Goto, Advances, Ahead, AfterSetrank
<1>1. CASE SetrankFind(t)
  BY <1>1 DEF SetrankFind
<1>2. CASE SetrankLock(t) \/ SetrankCheck(t) \/ SetrankPut(t) \/ SetrankSave(t)
  BY <1>2 DEF SetrankLock, SetrankCheck, SetrankPut, SetrankSave
<1>3. CASE SetrankRefuse(t) \/ SetrankUnwrite(t)
  BY <1>3 DEF SetrankRefuse, SetrankUnwrite
<1>. QED
  BY <1>1, <1>2, <1>3 DEF Setrank

\* A step of a request.
LEMMA ServeAdvances ==
  ASSUME TypeOK, Serve
  PROVE  Advances("loop") /\ (pc'["util"] = pc["util"] \/ pc["util"] = "idle" \/ Advances("util"))
<1>. USE DEF TypeOK, Threads, Goto, Advances, Ahead
<1>1. CASE LockSession \/ RouteOther \/ Done \/ LoginRemoveOld \/ LoginFreeOld \/ AuthDropMine
           \/ AuthNoMine \/ AuthIndex
  BY <1>1 DEF LockSession, RouteOther, Done, LoginRemoveOld, LoginFreeOld, AuthDropMine,
              AuthNoMine, AuthIndex
<1>2. CASE Logout \/ LogoutRemove \/ AccountRead \/ AccountPut \/ AccountWithoutSession
  BY <1>2 DEF Logout, LogoutRemove, AccountRead, AccountPut, AccountWithoutSession
<1>3. CASE AuthUseAfterFree
  BY <1>3 DEF AuthUseAfterFree, Labels, SetrankLabels
<1>4. ASSUME NEW u \in Users, Register(u) \/ Login(u) \/ \E r \in Ranks : WebSetRank(u, r)
      PROVE  Advances("loop") /\ pc'["util"] = pc["util"]
  BY <1>4 DEF Register, Login, WebSetRank
<1>5. ASSUME NEW s \in Sids, AuthCreate(s)
      PROVE  Advances("loop") /\ pc'["util"] = pc["util"]
  BY <1>5 DEF AuthCreate
<1>. HIDE DEF Advances
<1>. QED
  BY <1>1, <1>2, <1>3, <1>4, <1>5, SetrankAdvances DEF Serve

\* Every step of a handler brings it nearer to its end, and no step of the other thread
\* sends it back: so a request or a command that can always go on ends.
THEOREM NoHandlerTurnsBack == Spec => HandlersAdvance
<1>1. ASSUME TypeOK, [Next]_vars
      PROVE  [/\ Serve => Advances("loop")
              /\ Setrank("util") => Advances("util")
              /\ \A t \in Threads : pc[t] # "idle" /\ pc'[t] # pc[t] => Advances(t)]_vars
  <2>1. Serve => Advances("loop")
    BY <1>1, ServeAdvances
  <2>2. Setrank("util") => Advances("util")
    BY <1>1, SetrankAdvances DEF Threads
  <2>3. ASSUME NEW t \in Threads, pc[t] # "idle", pc'[t] # pc[t] PROVE Advances(t)
    <3>1. CASE Serve
      BY <1>1, <2>3, <3>1, ServeAdvances DEF Threads
    <3>2. CASE Setrank("util")
      BY <1>1, <2>3, <3>2, SetrankAdvances DEF Threads
    <3>3. ~RequestAnonymous /\ ~\E s \in Sids : RequestWithCookie(s)
      BY <1>1, <2>3 DEF RequestAnonymous, RequestWithCookie, Goto, TypeOK, Threads
    <3>4. ~\E u \in Users, r \in Ranks : ConsoleRank(u, r)
      BY <1>1, <2>3 DEF ConsoleRank, Goto, TypeOK, Threads
    <3>. QED
      BY <1>1, <2>3, <3>1, <3>2, <3>3, <3>4 DEF Next, vars, localVars
  <2>. QED
    BY <2>1, <2>2, <2>3
<1>. QED
  BY <1>1, TypeCorrect, PTL DEF Spec, HandlersAdvance
=============================================================================

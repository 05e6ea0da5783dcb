---------------------------- MODULE SessionTable ----------------------------
(***************************************************************************)
(* User sessions of the wiki server and the two threads that use them.     *)
(*                                                                         *)
(*   - the event loop ("loop") serves one request at a time: readcb finds  *)
(*     the session of the request's cookie, locks it, runs route and       *)
(*     unlocks whatever session the connection holds then;                 *)
(*   - the console ("util") runs the rank and rankall commands.            *)
(*                                                                         *)
(* ctx->user_sessions maps a key to a session; the 128 random bytes of a   *)
(* key are identified with the session created for it.                     *)
(* ctx->user_sessions_by_idx maps a user to the key of his session; rw is  *)
(* the writer of that map's lock, mutex the owner of each session's        *)
(* "transaction lock".  A session keeps a partial object, the location of  *)
(* its user's record, and is modelled by the record found there: a new     *)
(* rank or profile is stored as a new record.  The one handler that writes *)
(* into a record, POST /password, is left out: it writes back the userdata *)
(* it has read there, rank included, with another password, all under its  *)
(* session's lock.                                                         *)
(***************************************************************************)
EXTENDS Naturals, FiniteSets

CONSTANTS
  Users,      \* user list indices
  Sids,       \* sessions ever allocated: the bound on the number of logins
  NoUser,     \* no user: what an unused variable holds
  NoSession,  \* the NULL session
  Ranks,      \* values of userdata_t.perms in use
  MaxRev,     \* bound on saved profile edits per user
  MaxCmds     \* bound on console commands

Admin == 4       \* PERMS_ADMIN: who may set ranks, and whose rank the web may not set
UtilMax == 255   \* UCHAR_MAX: the console's limit

ASSUME NullAssumption == NoSession \notin Sids /\ NoUser \notin Users
ASSUME RanksAssumption == Ranks \subseteq Nat /\ 0 \in Ranks
\* The documented ranks: 255 is left out, for which the console's setrank fails.
ASSUME ConsoleAssumption == \A r \in Ranks : r < UtilMax
ASSUME BoundsAssumption == MaxRev \in Nat /\ MaxCmds \in Nat

Threads == {"loop", "util"}
NoThread == "nobody"

\* A user's record: his rank, and the number of profile edits it has seen.
Records == [rank : Ranks, rev : Nat]

SetrankLabels == {"sr_wr", "sr_lk", "sr_ck", "sr_refuse", "sr_put", "sr_save", "sr_unwrite"}
LoginLabels == {"login_wr", "login_lk", "auth", "auth_new", "auth_index"}
Labels == SetrankLabels \cup LoginLabels
            \cup {"idle", "lock", "route", "logout_wr", "acct_put", "done", "dead"}

VARIABLES
  user,        \* ctx->user_id / user_fmap: the current record of each user
  registered,  \* users in ctx->user_by_name
  table,       \* ctx->user_sessions
  byIdx,       \* ctx->user_sessions_by_idx
  status,      \* the memory of each session: new, live (heap), freed
  owner,       \* user_session.user.index
  cache,       \* user_session.user: the record it points to
  mutex,       \* user_session.lock
  rw,          \* writer of user_sessions_by_idx.lock
  pc,          \* where each thread is
  mine,        \* session->user_ses of the request being served
  ses,         \* the local "ses" / "uses" of each thread
  target,      \* the user a thread's handler is about
  setto,       \* the rank a thread's setrank was given
  snap,        \* the user record a thread has read (list_user, user_ref, user)
  cmds         \* console commands given so far

sessionVars == <<table, byIdx, status, owner, cache>>
lockVars == <<mutex, rw>>
localVars == <<pc, mine, ses, target, setto, snap, cmds>>
vars == <<user, registered, sessionVars, lockVars, localVars>>

Goto(t, l) == pc' = [pc EXCEPT ![t] = l]

NoRecord == [rank |-> 0, rev |-> 0]

\* A handler's locals end with it.
Forget(t) ==
  /\ ses' = [ses EXCEPT ![t] = NoSession]
  /\ target' = [target EXCEPT ![t] = NoUser]
  /\ setto' = [setto EXCEPT ![t] = 0]
  /\ snap' = [snap EXCEPT ![t] = NoRecord]

\* Mutant: the console, too, goes on to what follows a request.
AfterSetrankAsRequest(t) == "done"

\* setrank returns to the rest of route, or to the console's prompt.
AfterSetrank(t) == IF t = "loop" THEN "done" ELSE "idle"

\* The server starts with the users of its files and without sessions.
Init ==
  /\ user \in [Users -> [rank : Ranks, rev : {0}]]
  /\ registered \in SUBSET Users
  /\ \A u \in Users \ registered : user[u] = NoRecord
  /\ table = {}
  /\ byIdx = [u \in Users |-> NoSession]
  /\ status = [s \in Sids |-> "new"]
  /\ owner = [s \in Sids |-> NoUser]
  /\ cache = [s \in Sids |-> NoRecord]
  /\ mutex = [s \in Sids |-> NoThread]
  /\ rw = NoThread
  /\ pc = [t \in Threads |-> "idle"]
  /\ mine = NoSession
  /\ ses = [t \in Threads |-> NoSession]
  /\ target = [t \in Threads |-> NoUser]
  /\ setto = [t \in Threads |-> 0]
  /\ snap = [t \in Threads |-> NoRecord]
  /\ cmds = 0

-----------------------------------------------------------------------------
(* readcb: a request arrives, is authenticated, served and finished.         *)

\* The cookie names no session of the table: route runs without a user.
RequestAnonymous ==
  /\ pc["loop"] = "idle"
  /\ Goto("loop", "route")
  /\ UNCHANGED <<user, registered, sessionVars, lockVars, mine, ses, target, setto, snap, cmds>>

\* The cookie names session s: the loop goes on to lock it.
RequestWithCookie(s) ==
  /\ pc["loop"] = "idle"
  /\ s \in table
  /\ mine' = s
  /\ Goto("loop", "lock")
  /\ UNCHANGED <<user, registered, sessionVars, lockVars, ses, target, setto, snap, cmds>>

LockSession ==
  /\ pc["loop"] = "lock"
  /\ mutex[mine] = NoThread
  /\ mutex' = [mutex EXCEPT ![mine] = "loop"]
  /\ Goto("loop", "route")
  /\ UNCHANGED <<user, registered, sessionVars, rw, mine, ses, target, setto, snap, cmds>>

\* A handler that changes none of this: a page, an error, a wrong password.  A new password
\* counts as one (see above).
RouteOther ==
  /\ pc["loop"] = "route"
  /\ Goto("loop", "done")
  /\ UNCHANGED <<user, registered, sessionVars, lockVars, mine, ses, target, setto, snap, cmds>>

\* After route, readcb unlocks the session the connection then has: the one it
\* locked or the one route created, whoever holds its lock.
Done ==
  /\ pc["loop"] = "done"
  /\ mutex' = IF mine = NoSession THEN mutex ELSE [mutex EXCEPT ![mine] = NoThread]
  /\ mine' = NoSession
  /\ Forget("loop")
  /\ Goto("loop", "idle")
  /\ UNCHANGED <<user, registered, sessionVars, rw, cmds>>

-----------------------------------------------------------------------------
(* route: register, login, logout and session_auth.                          *)

\* A new user is added and then given a session.  (Bound: a session is left.)
Register(u) ==
  /\ pc["loop"] = "route"
  /\ u \notin registered
  /\ \E s \in Sids : status[s] = "new"
  /\ registered' = registered \cup {u}
  /\ user' = [user EXCEPT ![u] = NoRecord]
  /\ target' = [target EXCEPT !["loop"] = u]
  /\ snap' = [snap EXCEPT !["loop"] = NoRecord]
  /\ Goto("loop", "auth")
  /\ UNCHANGED <<sessionVars, lockVars, mine, ses, setto, cmds>>

\* Name and password match: user_ref is read before anything is locked.
Login(u) ==
  /\ pc["loop"] = "route"
  /\ u \in registered
  /\ \E s \in Sids : status[s] = "new"
  /\ target' = [target EXCEPT !["loop"] = u]
  /\ snap' = [snap EXCEPT !["loop"] = user[u]]
  /\ Goto("loop", "login_wr")
  /\ UNCHANGED <<user, registered, sessionVars, lockVars, mine, ses, setto, cmds>>

\* Mutant: the old key leaves by_idx only, and its session is not looked for.
LoginForgetOld ==
  /\ pc["loop"] = "login_wr"
  /\ rw = NoThread
  /\ byIdx' = [byIdx EXCEPT ![target["loop"]] = NoSession]
  /\ Goto("loop", "auth")
  /\ UNCHANGED <<user, registered, table, status, owner, cache, lockVars, mine, ses, target, setto, snap, cmds>>

\* Mutant: the old session leaves both maps and is never freed.
LoginLoseOld ==
  /\ pc["loop"] = "login_wr"
  /\ rw = NoThread
  /\ byIdx' = [byIdx EXCEPT ![target["loop"]] = NoSession]
  /\ table' = table \ {byIdx[target["loop"]]}
  /\ Goto("loop", "auth")
  /\ UNCHANGED <<user, registered, status, owner, cache, lockVars, mine, ses, target, setto, snap, cmds>>

\* Under by_idx's write lock, the user's previous session leaves both maps.
LoginRemoveOld ==
  LET old == byIdx[target["loop"]]
  IN /\ pc["loop"] = "login_wr"
     /\ rw = NoThread
     /\ byIdx' = [byIdx EXCEPT ![target["loop"]] = NoSession]
     /\ table' = table \ {old}
     /\ ses' = [ses EXCEPT !["loop"] = old]
     /\ Goto("loop", IF old = NoSession THEN "auth" ELSE "login_lk")
     /\ UNCHANGED <<user, registered, status, owner, cache, lockVars, mine, target, setto, snap, cmds>>

\* The previous session is locked, so that nobody uses it, and freed.
LoginFreeOld ==
  /\ pc["loop"] = "login_lk"
  /\ mutex[ses["loop"]] = NoThread
  /\ mutex' = [mutex EXCEPT ![ses["loop"]] = "loop"]
  /\ status' = [status EXCEPT ![ses["loop"]] = "freed"]
  /\ Goto("loop", "auth")
  /\ UNCHANGED <<user, registered, table, byIdx, owner, cache, rw, mine, ses, target, setto, snap, cmds>>

\* session_auth: the session the request came with is removed and freed.
AuthDropMine ==
  /\ pc["loop"] = "auth"
  /\ mine # NoSession
  /\ status[mine] = "live"
  /\ rw = NoThread
  /\ LET u == owner[mine]
         old == byIdx[u]
     IN /\ byIdx' = [byIdx EXCEPT ![u] = NoSession]
        /\ table' = table \ {old}
        /\ status' = IF old = NoSession THEN status ELSE [status EXCEPT ![mine] = "freed"]
  /\ Goto("loop", "auth_new")
  /\ UNCHANGED <<user, registered, owner, cache, lockVars, mine, ses, target, setto, snap, cmds>>

\* session_auth with a session that login has freed: the index it reads there is
\* no user's, or one's; a session found under it is removed and mine freed twice.
AuthUseAfterFree ==
  /\ pc["loop"] = "auth"
  /\ mine # NoSession
  /\ status[mine] = "freed"
  /\ rw = NoThread
  /\ \/ /\ Goto("loop", "auth_new")
        /\ UNCHANGED <<byIdx, table>>
     \/ \E u \in Users :
          /\ byIdx[u] # NoSession
          /\ byIdx' = [byIdx EXCEPT ![u] = NoSession]
          /\ table' = table \ {byIdx[u]}
          /\ pc' = [t \in Threads |-> "dead"]
  /\ UNCHANGED <<user, registered, status, owner, cache, lockVars, mine, ses, target, setto, snap, cmds>>

AuthNoMine ==
  /\ pc["loop"] = "auth"
  /\ mine = NoSession
  /\ Goto("loop", "auth_new")
  /\ UNCHANGED <<user, registered, sessionVars, lockVars, mine, ses, target, setto, snap, cmds>>

\* The new session, with an unlocked lock, enters user_sessions ...
AuthCreate(s) ==
  /\ pc["loop"] = "auth_new"
  /\ status[s] = "new"
  /\ status' = [status EXCEPT ![s] = "live"]
  /\ owner' = [owner EXCEPT ![s] = target["loop"]]
  /\ cache' = [cache EXCEPT ![s] = snap["loop"]]
  /\ table' = table \cup {s}
  /\ mine' = s
  /\ Goto("loop", "auth_index")
  /\ UNCHANGED <<user, registered, byIdx, lockVars, ses, target, setto, snap, cmds>>

\* ... and then user_sessions_by_idx, whose lock the insertion takes.
AuthIndex ==
  /\ pc["loop"] = "auth_index"
  /\ rw = NoThread
  /\ byIdx' = [byIdx EXCEPT ![target["loop"]] = mine]
  /\ Goto("loop", "done")
  /\ UNCHANGED <<user, registered, table, status, owner, cache, lockVars, mine, ses, target, setto, snap, cmds>>

Logout ==
  /\ pc["loop"] = "route"
  /\ mine # NoSession
  /\ Goto("loop", "logout_wr")
  /\ UNCHANGED <<user, registered, sessionVars, lockVars, mine, ses, target, setto, snap, cmds>>

\* Mutant: the session leaves user_sessions, its key stays in by_idx.
LogoutKeepKey ==
  /\ pc["loop"] = "logout_wr"
  /\ rw = NoThread
  /\ table' = table \ {mine}
  /\ status' = [status EXCEPT ![mine] = "freed"]
  /\ mine' = NoSession
  /\ Goto("loop", "done")
  /\ UNCHANGED <<user, registered, byIdx, owner, cache, lockVars, ses, target, setto, snap, cmds>>

LogoutRemove ==
  LET u == owner[mine]
      old == byIdx[u]
  IN /\ pc["loop"] = "logout_wr"
     /\ rw = NoThread
     /\ byIdx' = [byIdx EXCEPT ![u] = NoSession]
     /\ table' = table \ {old}
     /\ status' = IF old = NoSession THEN status ELSE [status EXCEPT ![mine] = "freed"]
     /\ mine' = IF old = NoSession THEN mine ELSE NoSession
     /\ Goto("loop", "done")
     /\ UNCHANGED <<user, registered, owner, cache, lockVars, ses, target, setto, snap, cmds>>

-----------------------------------------------------------------------------
(* route: the account page.                                                  *)

\* A profile edit reads the record its session points to ...
AccountRead ==
  /\ pc["loop"] = "route"
  /\ mine # NoSession
  /\ user[owner[mine]].rev < MaxRev
  /\ snap' = [snap EXCEPT !["loop"] = cache[mine]]
  /\ Goto("loop", "acct_put")
  /\ UNCHANGED <<user, registered, sessionVars, lockVars, mine, ses, target, setto, cmds>>

\* ... and stores a new one with the form's profile and the old userdata.  Whether
\* filemap_list_update refreshes the session's partial is the library's choice.
AccountPut ==
  LET u == owner[mine]
      new == [rank |-> snap["loop"].rank, rev |-> user[u].rev + 1]
  IN /\ pc["loop"] = "acct_put"
     /\ user' = [user EXCEPT ![u] = new]
     /\ \/ cache' = [cache EXCEPT ![mine] = new]
        \/ UNCHANGED cache
     /\ Goto("loop", "done")
     /\ UNCHANGED <<registered, table, byIdx, status, owner, lockVars, mine, ses, target, setto, snap, cmds>>

\* POST /account or /password without a session follows the NULL pointer: the
\* fault handler returns to the faulting read for ever.
AccountWithoutSession ==
  /\ pc["loop"] = "route"
  /\ mine = NoSession
  /\ Goto("loop", "dead")
  /\ UNCHANGED <<user, registered, sessionVars, lockVars, mine, ses, target, setto, snap, cmds>>

\* Mutant: the user's record is taken from his session, when he has one.
WebSetRankOfSession(u, r) ==
  /\ pc["loop"] = "route"
  /\ mine # NoSession
  /\ cache[mine].rank >= Admin
  /\ u \in registered
  /\ u # owner[mine]
  /\ target' = [target EXCEPT !["loop"] = u]
  /\ setto' = [setto EXCEPT !["loop"] = r]
  /\ snap' = [snap EXCEPT !["loop"] = IF byIdx[u] = NoSession THEN user[u] ELSE cache[byIdx[u]]]
  /\ Goto("loop", "sr_wr")
  /\ UNCHANGED <<user, registered, sessionVars, lockVars, mine, ses, cmds>>

\* POST /account/u: an administrator sets the rank of another user.
WebSetRank(u, r) ==
  /\ pc["loop"] = "route"
  /\ mine # NoSession
  /\ cache[mine].rank >= Admin
  /\ u \in registered
  /\ u # owner[mine]
  /\ target' = [target EXCEPT !["loop"] = u]
  /\ setto' = [setto EXCEPT !["loop"] = r]
  /\ snap' = [snap EXCEPT !["loop"] = user[u]]
  /\ Goto("loop", "sr_wr")
  /\ UNCHANGED <<user, registered, sessionVars, lockVars, mine, ses, cmds>>

\* The console's rank command (rankall is a series of them).
ConsoleRank(u, r) ==
  /\ pc["util"] = "idle"
  /\ cmds < MaxCmds
  /\ u \in registered
  /\ cmds' = cmds + 1
  /\ target' = [target EXCEPT !["util"] = u]
  /\ setto' = [setto EXCEPT !["util"] = r]
  /\ snap' = [snap EXCEPT !["util"] = user[u]]
  /\ Goto("util", "sr_wr")
  /\ UNCHANGED <<user, registered, sessionVars, lockVars, mine, ses>>

-----------------------------------------------------------------------------
(* setrank, run by either thread with the user reference read beforehand.    *)

\* Mutant: administrators are below the web's limit.
MaxPermAboveAdmin(t) == IF t = "loop" THEN Admin + 1 ELSE UtilMax

MaxPerm(t) == IF t = "loop" THEN Admin ELSE UtilMax

\* Mutant: by_idx is only read-locked for the search.
SetrankFindUnlocked(t) ==
  /\ pc[t] = "sr_wr"
  /\ rw = NoThread
  /\ ses' = [ses EXCEPT ![t] = byIdx[target[t]]]
  /\ Goto(t, IF byIdx[target[t]] = NoSession THEN "sr_ck" ELSE "sr_lk")
  /\ UNCHANGED <<user, registered, sessionVars, lockVars, mine, target, setto, snap, cmds>>

\* uses_from_idx leaves user_sessions_by_idx locked for writing.
SetrankFind(t) ==
  /\ pc[t] = "sr_wr"
  /\ rw = NoThread
  /\ rw' = t
  /\ ses' = [ses EXCEPT ![t] = byIdx[target[t]]]
  /\ Goto(t, IF byIdx[target[t]] = NoSession THEN "sr_ck" ELSE "sr_lk")
  /\ UNCHANGED <<user, registered, sessionVars, mutex, mine, target, setto, snap, cmds>>

SetrankLock(t) ==
  /\ pc[t] = "sr_lk"
  /\ mutex[ses[t]] = NoThread
  /\ mutex' = [mutex EXCEPT ![ses[t]] = t]
  /\ Goto(t, "sr_ck")
  /\ UNCHANGED <<user, registered, sessionVars, rw, mine, ses, target, setto, snap, cmds>>

\* Mutant: a refusal leaves by_idx locked.
SetrankCheckKeepLock(t) ==
  /\ pc[t] = "sr_ck"
  /\ Goto(t, IF snap[t].rank >= MaxPerm(t) THEN "sr_refuse" ELSE "sr_put")
  /\ UNCHANGED <<user, registered, sessionVars, lockVars, mine, ses, target, setto, snap, cmds>>

SetrankCheck(t) ==
  /\ pc[t] = "sr_ck"
  /\ IF snap[t].rank >= MaxPerm(t)
       THEN rw' = NoThread /\ Goto(t, "sr_refuse")
       ELSE rw' = rw /\ Goto(t, "sr_put")
  /\ UNCHANGED <<user, registered, sessionVars, mutex, mine, ses, target, setto, snap, cmds>>

\* mtx_unlock frees the lock whoever holds it; setrank skips it without a session.
UnlockSes(t) ==
  mutex' = IF ses[t] = NoSession THEN mutex ELSE [mutex EXCEPT ![ses[t]] = NoThread]

\* Mutant: a refusal leaves the session locked.
SetrankRefuseKeepLock(t) ==
  /\ pc[t] = "sr_refuse"
  /\ Forget(t)
  /\ Goto(t, AfterSetrank(t))
  /\ UNCHANGED <<user, registered, sessionVars, lockVars, mine, cmds>>

SetrankRefuse(t) ==
  /\ pc[t] = "sr_refuse"
  /\ UnlockSes(t)
  /\ Forget(t)
  /\ Goto(t, AfterSetrank(t))
  /\ UNCHANGED <<user, registered, sessionVars, rw, mine, cmds>>

SetrankPut(t) ==
  LET new == [snap[t] EXCEPT !.rank = setto[t]]
  IN /\ pc[t] = "sr_put"
     /\ user' = [user EXCEPT ![target[t]] = new]
     /\ snap' = [snap EXCEPT ![t] = new]
     /\ Goto(t, "sr_save")
     /\ UNCHANGED <<registered, sessionVars, lockVars, mine, ses, target, setto, cmds>>

\* Mutant: the session keeps pointing to the old record.
SetrankSaveStale(t) ==
  /\ pc[t] = "sr_save"
  /\ UnlockSes(t)
  /\ Goto(t, "sr_unwrite")
  /\ UNCHANGED <<user, registered, sessionVars, rw, mine, ses, target, setto, snap, cmds>>

\* The session, if there is one, is pointed to the new record and unlocked.
SetrankSave(t) ==
  /\ pc[t] = "sr_save"
  /\ cache' = IF ses[t] = NoSession THEN cache ELSE [cache EXCEPT ![ses[t]] = snap[t]]
  /\ UnlockSes(t)
  /\ Goto(t, "sr_unwrite")
  /\ UNCHANGED <<user, registered, table, byIdx, status, owner, rw, mine, ses, target, setto, snap, cmds>>

SetrankUnwrite(t) ==
  /\ pc[t] = "sr_unwrite"
  /\ rw' = NoThread
  /\ Forget(t)
  /\ Goto(t, AfterSetrank(t))
  /\ UNCHANGED <<user, registered, sessionVars, mutex, mine, cmds>>

Setrank(t) ==
  \/ SetrankFind(t)
  \/ SetrankLock(t)
  \/ SetrankCheck(t)
  \/ SetrankRefuse(t)
  \/ SetrankPut(t)
  \/ SetrankSave(t)
  \/ SetrankUnwrite(t)

-----------------------------------------------------------------------------
\* What the loop does once a request has arrived.
Serve ==
  \/ LockSession
  \/ RouteOther
  \/ Done
  \/ \E u \in Users : Register(u) \/ Login(u)
  \/ LoginRemoveOld
  \/ LoginFreeOld
  \/ AuthDropMine
  \/ AuthUseAfterFree
  \/ AuthNoMine
  \/ \E s \in Sids : AuthCreate(s)
  \/ AuthIndex
  \/ Logout
  \/ LogoutRemove
  \/ AccountRead
  \/ AccountPut
  \/ AccountWithoutSession
  \/ \E u \in Users, r \in Ranks : WebSetRank(u, r)
  \/ Setrank("loop")

Next ==
  \/ RequestAnonymous
  \/ \E s \in Sids : RequestWithCookie(s)
  \/ Serve
  \/ \E u \in Users, r \in Ranks : ConsoleRank(u, r)
  \/ Setrank("util")

Spec == Init /\ [][Next]_vars

\* The scheduler runs both threads: one that can go on does.  Nothing forces a
\* request to arrive or a command to be typed.
Fairness == WF_vars(Serve) /\ WF_vars(Setrank("util"))
FairSpec == Spec /\ Fairness
-----------------------------------------------------------------------------
(* Properties.                                                               *)

\* Every variable holds a value of its kind.
TypeOK ==
  /\ user \in [Users -> Records]
  /\ registered \subseteq Users
  /\ table \subseteq Sids
  /\ byIdx \in [Users -> Sids \cup {NoSession}]
  /\ status \in [Sids -> {"new", "live", "freed"}]
  /\ owner \in [Sids -> Users \cup {NoUser}]
  /\ cache \in [Sids -> Records]
  /\ mutex \in [Sids -> Threads \cup {NoThread}]
  /\ rw \in Threads \cup {NoThread}
  /\ pc \in [Threads -> Labels]
  /\ pc["util"] \in SetrankLabels \cup {"idle", "dead"}
  /\ mine \in Sids \cup {NoSession}
  /\ ses \in [Threads -> Sids \cup {NoSession}]
  /\ target \in [Threads -> Users \cup {NoUser}]
  /\ setto \in [Threads -> Ranks]
  /\ snap \in [Threads -> Records]
  /\ cmds \in Nat

\* What uses_from_idx relies on when it follows a key without testing the result:
\* a key found under a user leads to a session of the table, in allocated memory,
\* of that same user, whatever login, logout and session_auth have taken out.
IndexAgrees ==
  \A u \in Users : byIdx[u] # NoSession =>
    /\ byIdx[u] \in table
    /\ status[byIdx[u]] = "live"
    /\ owner[byIdx[u]] = u

\* A user has one session: of two sessions in the table with the same user, one would
\* be out of reach of setrank and of the next login, and stay valid for ever.
OneSessionPerUser ==
  \A s1, s2 \in table : owner[s1] = owner[s2] => s1 = s2

\* The session that setrank locks, changes and unlocks is not freed meanwhile, although
\* the loop locks and frees sessions without holding the lock of by_idx.
SetrankSessionLive ==
  \A t \in Threads :
    pc[t] \in {"sr_lk", "sr_ck", "sr_put", "sr_save", "sr_refuse"} /\ ses[t] # NoSession
      => status[ses[t]] = "live" /\ ses[t] \in table

\* Every session in memory is in the table, or in the hands of the login that is about
\* to free it: none is lost by the different orders in which the maps are emptied.
NoOrphanSession ==
  \A s \in Sids : status[s] = "live" =>
    \/ s \in table
    \/ pc["loop"] = "login_lk" /\ ses["loop"] = s
    \/ pc["loop"] = "dead"

\* Between requests, the session a cookie leads to grants its user's present rank: a
\* rank set, a profile saved from the session's own record and a new login agree.
\* (It holds of the web alone: a console command in the middle of a login breaks it.)
SessionGrantsRank ==
  pc["loop"] = "idle" =>
    \A s \in table : cache[s].rank = user[owner[s]].rank

\* No request lowers or raises the rank of an administrator, through setrank or by
\* saving a profile.  (It holds of the web alone: setrank decides on a record read
\* before its locks, which the console may have replaced.)
WebKeepsAdmins ==
  [][pc'["loop"] # pc["loop"] =>
       \A u \in Users : user[u].rank >= Admin => user'[u].rank = user[u].rank]_vars

\* A saved profile stays: no later change of rank brings an earlier profile back.
\* (It holds of the web alone, for the same reason.)
ProfileKept == [][\A u \in Users : user'[u].rev >= user[u].rev]_vars

\* The session lock as "transaction lock" (context.c): the loop is not in the middle of
\* an edit of a session's user while the console's setrank has that session locked.
TransactionLock ==
  ~ /\ pc["loop"] = "acct_put"
    /\ ses["util"] = mine
    /\ pc["util"] \in {"sr_put", "sr_save"}

\* session_auth expects to be called when login has removed the request's own session
\* ("otherwise has been removed during session"): login gets there.
ReloginProceeds == pc["loop"] = "login_lk" ~> pc["loop"] = "auth"

\* The ways in which the event loop stops for ever.
SelfRelogin ==      \* login waits for the session lock its own request holds
  pc["loop"] = "login_lk" /\ ses["loop"] = mine /\ mutex[mine] = "loop"
LockInversion ==    \* the loop holds a session lock and wants by_idx; setrank the reverse
  /\ pc["util"] = "sr_lk" /\ rw = "util" /\ mutex[ses["util"]] = "loop"
  /\ pc["loop"] \in {"login_wr", "auth", "auth_index", "logout_wr", "sr_wr"}
Hung == SelfRelogin \/ LockInversion \/ pc["loop"] = "dead"

\* Those are the only ones: any other request is answered.
LoopAnswers == pc["loop"] # "idle" ~> pc["loop"] = "idle" \/ Hung

\* And any other rank command returns to the prompt, once requests leave the session's
\* lock alone (a busy client can always be first to take it).
ConsoleReturns ==
  <>[](pc["loop"] # "route")
    => (pc["util"] # "idle" ~> pc["util"] = "idle" \/ Hung)
=============================================================================

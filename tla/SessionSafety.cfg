SPECIFICATION FairSpec
CONSTANTS
  Users = {u1, u2}
  Sids = {s1, s2, s3}
  NoUser = NoUser
  NoSession = NoSession
  Ranks = {0, 4}
  MaxRev = 0
  MaxCmds = 1
CHECK_DEADLOCK FALSE
INVARIANTS TypeOK IndexAgrees OneSessionPerUser SetrankSessionLive NoOrphanSession
PROPERTIES LoopAnswers ConsoleReturns

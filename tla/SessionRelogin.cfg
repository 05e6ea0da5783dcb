SPECIFICATION FairSpec
CONSTANTS
  Users = {u1, u2}
  Sids = {s1, s2}
  NoUser = NoUser
  NoSession = NoSession
  Ranks = {0, 4}
  MaxRev = 0
  MaxCmds = 0
CHECK_DEADLOCK FALSE
PROPERTIES ReloginProceeds

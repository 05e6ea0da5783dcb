SPECIFICATION Spec
CONSTANTS
  Users = {u1, u2}
  Sids = {s1, s2, s3}
  NoUser = NoUser
  NoSession = NoSession
  Ranks = {0, 4}
  MaxRev = 2
  MaxCmds = 0
SYMMETRY Symmetry
CHECK_DEADLOCK FALSE
INVARIANTS SessionGrantsRank
PROPERTIES WebKeepsAdmins ProfileKept

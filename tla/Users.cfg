SPECIFICATION Spec
CONSTANTS
  u1 = u1 u2 = u2
  n1 = n1 n2 = n2 n3 = n3
  e1 = e1 e2 = e2 e3 = e3
  p1 = p1 p2 = p2 g1 = g1
  Users <- TwoUsers
  Names <- ThreeNames
  Emails <- ThreeEmails
  Paths <- TwoPaths
  Groups <- OneGroup
  Above <- GroupsAbove
  Ranks <- SomeRanks
SYMMETRY Symmetry
INVARIANTS TypeOK NameFindsUser EmailIndexTrue GroupsKnowAuthors

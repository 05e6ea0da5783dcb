SPECIFICATION Spec
CONSTANTS
  MaxWrites = 3
  MaxCrashes = 1
  MaxCmds = 2
  DiffCounts <- OneOrTwo
  Marked <- Second
INVARIANTS TypeOK HistoryIntact ConsoleCoherent CacheFresh FatalOnlyAfterFault
CHECK_DEADLOCK FALSE

SPECIFICATION FairSpec
CONSTANTS
  Paths <- NestedPaths
  Secret = "secret"
  MaxIdx = 4
  MaxLinks = 1
  Renames = FALSE
  BadTexts = FALSE
CHECK_DEADLOCK FALSE
PROPERTIES RefsEnd

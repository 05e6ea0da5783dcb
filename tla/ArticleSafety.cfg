SPECIFICATION Spec
CONSTANTS
  Paths <- NestedPaths
  Secret = "secret"
  MaxIdx = 6
  MaxLinks = 3
  Renames = FALSE
  BadTexts = TRUE
CHECK_DEADLOCK FALSE
INVARIANTS TypeOK ListingExact AboveAreGroups BacklinksKnown
PROPERTIES GroupsStay

SPECIFICATION FairSpec
CONSTANTS
  Paths <- SecretPaths
  Secret = "secret"
  MaxIdx = 4
  MaxLinks = 1
  Renames = TRUE
  BadTexts = TRUE
CHECK_DEADLOCK FALSE
INVARIANTS ListingExact NamesMatch LocksReleased TextHasFile
PROPERTIES ImplementsTree RequestsEnd

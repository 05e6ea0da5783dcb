SPECIFICATION FairSpec
CONSTANTS
  Letters = {x, y}
  CR = CR
  LF = LF
  Texts <- ShortAndLines
INVARIANTS TypeOK ChangesInOrder RebuildsLines ExactOnRegular
PROPERTY Terminates
CHECK_DEADLOCK FALSE

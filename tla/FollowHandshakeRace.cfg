SPECIFICATION Spec
CONSTANTS
  Actor = {a1}
  Opaque = {a1}
  MaxSends = 2
  MaxTries = 2
INVARIANTS
  UndoIsHonoured
\* The account sends MaxSends activities and then stops.
CHECK_DEADLOCK FALSE

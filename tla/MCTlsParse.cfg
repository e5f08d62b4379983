SPECIFICATION Spec
CONSTANTS
  Splits = {0, 1, 2, 3, 4, 5, 6, 7, 8, 9, 10, 11, 12, 13, 14, 15}
INVARIANT InfoSound
INVARIANT ReparseSettled
PROPERTY NothingTakenBack
CHECK_DEADLOCK FALSE

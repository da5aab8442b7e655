SPECIFICATION Spec
CONSTANTS
  Size = 6
  MaxTo = 2
  MaxInserts = 7
PROPERTY CancelStops
CHECK_DEADLOCK FALSE

SPECIFICATION Spec
CONSTANTS
  Size = 6
  MaxTo = 2
  MaxInserts = 7
INVARIANT HeapOrdered
PROPERTY RemovesExactly
CHECK_DEADLOCK FALSE

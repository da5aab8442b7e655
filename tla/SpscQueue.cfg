\* Four slots: the cursors can be on the same slot, next to each other and
\* apart, and the interval of used slots can wrap.
CONSTANTS
  N = 4
  Msg = {m1, m2}
  NoMsg = NoMsg
SPECIFICATION FairSpec
INVARIANT IInv
PROPERTY ImplementsFifo
PROPERTY EntriesReleased

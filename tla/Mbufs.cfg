SPECIFICATION Spec
CONSTANTS
  NBufs = 6
  NScarce = 4
  TX_CACHE_SIZE = 2
  TXBUF_SIZE = 2
  RX_BATCH = 1
  DEQ_BATCH = 2
  NicSize = 1
  MaxAway = 1
  MaxLost = 1
INVARIANT OneOwner
INVARIANT BatchFits

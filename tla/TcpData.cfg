SPECIFICATION FairSpec
CONSTANTS
  SeqModulus = 16
  WndModulus = 8
  TxLen = 2
  RxLen = 2
  FAST_REMIT_THRESH = 2
  Iss <- WrapIss
  Loads <- DataLoads
  AppFastLen = 2
  SlowFastLen = 1
  TCP_TX_BUMP_THRESH = 2
INVARIANT StreamIntact
INVARIANT PositionsOrdered
INVARIANT RingsAccounted
INVARIANT SendableIsScheduled
PROPERTY AllDelivered
CHECK_DEADLOCK FALSE

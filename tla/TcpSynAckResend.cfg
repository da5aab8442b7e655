SPECIFICATION Spec
CONSTANTS
  Hosts <- Both
  Loads <- ResendLoads
  BindTo <- Port1
  Targets <- AtServer
  Keep <- OnlyFalse
  ReqLen = 1
  PuntLen = 1
  MaxSocks = 2
  MaxReuse = 2
  CtlLen = 1
INVARIANT RxSeqIsNext
CHECK_DEADLOCK FALSE

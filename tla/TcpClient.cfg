SPECIFICATION LiveSpec
CONSTANTS
  Hosts <- Client
  Loads <- ClientLoads
  BindTo <- Port1
  Targets <- AtServer
  Keep <- AnyOutcome
  ReqLen = 1
  PuntLen = 1
  MaxSocks = 2
  MaxReuse = 2
  CtlLen = 1
INVARIANT HalfOpenTimed
PROPERTY CallsReturn
PROPERTY HalfOpenEnds
CHECK_DEADLOCK FALSE

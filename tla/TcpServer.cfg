SPECIFICATION Spec
CONSTANTS
  Hosts <- Both
  Loads <- ServerLoads
  BindTo <- Port1
  Targets <- AtServer
  Keep <- OnlyFalse
  ReqLen = 1
  PuntLen = 1
  MaxSocks = 4
  MaxReuse = 2
  CtlLen = 1
INVARIANT BacklogExact
INVARIANT ListenersExact
INVARIANT LibAgrees
INVARIANT NumbersAgree
INVARIANT FlowsExact
INVARIANT HalfOpenTimed
CHECK_DEADLOCK FALSE

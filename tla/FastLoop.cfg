SPECIFICATION LiveSpec
CONSTANTS
  MaxGuests = 2
  NCores = 2
  Cap = 3
  MaxCreds = 3
  MaxCyc = 1
  MaxDebt = 1
  q1 = q1
  q2 = q2
  q3 = q3
  f1 = f1
  f2 = f2
  f3 = f3
  Queues <- MCQueues
  Flows <- MCFlows
  PROTOQ_ID_INVALID = PROTOQ_ID_INVALID
  SCHED_ID_INVALID = SCHED_ID_INVALID
  QLen = 1
  Prios = {0, 1}
  MaxAvail = 2
  Loads <- MCLoads
INVARIANT BudgetInv
INVARIANT CapPerGuest
INVARIANT ListExact
INVARIANT SchedulersInOrder
PROPERTY ChargesKept
PROPERTY NoneStarves

SPECIFICATION FairSpec
CONSTANTS
  Size = 3
  NCores = 2
  TableSize = 2
  BufSize = 2
  CTL_BATCH_SIZE = 1
  Loads <- ArpLoads
INVARIANT CopiesAgree
INVARIANT UpdateFirst
INVARIANT PendingTimed
PROPERTY PacketsLeave
CHECK_DEADLOCK FALSE

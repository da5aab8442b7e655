SPECIFICATION FairSpec
CONSTANTS
  Clients <- MCClients
  Loads <- MCLoads
  MaxGuests = 2
  NCores = 2
  MAX_PROTO_QUEUES = 3
  MAX_PROTO_MAPS = 5
  GUESTQ_SIZE = 2
  GUESTQ_NELEMS = 2
  SHMALLOC_ALIGN = 2
  shm_len = 13
CHECK_DEADLOCK FALSE
INVARIANT RegionsApart
INVARIANT KnownEverywhere
INVARIANT ProgramsAlive
PROPERTY ProgramsForward
PROPERTY GuestCallsReturn

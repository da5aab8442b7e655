SPECIFICATION FairSpec
CONSTANTS
  Apps <- MCApps
  Threads <- MCThreads
  Fds <- MCFds
  Loads <- MCLoads
  NCores = 2
  MAX_SOCKETS = 3
  MIN_PORT = 2
  MAX_PORT = 4
  MAX_REUSOCK_PORT = 2
  UDP_PORT_SCAN_MAX = 2
  UDP_MAX_PAYLOAD = 2
  SLOW_BATCH_SIZE = 2
  RingLen = 3
  AppLen = 2
CHECK_DEADLOCK FALSE
INVARIANT PortsExact
INVARIANT PayloadsIntact
INVARIANT RingsAgree
PROPERTY UdpCallsReturn

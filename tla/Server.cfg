SPECIFICATION FairSpec
CONSTANTS
  Conns = {p1, p2, p3, p4}
  NoConn = NoConn
  NumThreads = 2
  NumFds = 3
  MaxFds = 2
  Faults = {"fcntl", "epoll_add"}
  Silent = {}
INVARIANTS
  OneConnPerLoop
  ChannelTable
  NoStrandedBacklog
  WorkersAccounted
PROPERTIES
  EveryConnServed
CHECK_DEADLOCK FALSE

\* A peer that connects and then neither speaks nor closes.
SPECIFICATION FairSpec
CONSTANTS
  Conns = {p1, p2}
  NoConn = NoConn
  NumThreads = 1
  NumFds = 2
  MaxFds = 2
  Faults = {}
  Silent = {p1}
PROPERTIES
  ConnExpires
CHECK_DEADLOCK FALSE

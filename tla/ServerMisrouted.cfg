CONSTANTS
  CLIENT_MAX_COUNT = 2
  Registered = {0, 1}
  MaxFd = 2
  Conns = {c1, c2, c3}
  NoConn = NoConn
  MaxInbox = 1
  ALL = ALL
  NOBODY = NOBODY
  PatientClients = TRUE
SPECIFICATION Spec
CHECK_DEADLOCK FALSE
SYMMETRY ConnSymmetry
INVARIANT RelayReachesAddressee

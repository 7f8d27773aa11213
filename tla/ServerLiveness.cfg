CONSTANTS
  CLIENT_MAX_COUNT = 2
  Registered = {0}
  MaxFd = 3
  Conns = {c1, c2, c3}
  NoConn = NoConn
  MaxInbox = 1
  ALL = ALL
  NOBODY = NOBODY
  PatientClients = TRUE
SPECIFICATION LiveSpec
CHECK_DEADLOCK FALSE
PROPERTIES
  DeadSessionLeaves
  ConnectionAccepted

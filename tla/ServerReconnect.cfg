CONSTANTS
  CLIENT_MAX_COUNT = 2
  Registered = {0}
  MaxFd = 3
  Conns = {c1, c2, c3}
  NoConn = NoConn
  MaxInbox = 1
  ALL = ALL
  NOBODY = NOBODY
  PatientClients = FALSE
SPECIFICATION Spec
CHECK_DEADLOCK FALSE
SYMMETRY ConnSymmetry
PROPERTY SessionsSurvive

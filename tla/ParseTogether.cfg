CONSTANTS
  Parsers = {p1, p2}
  COMMAND_MAX_COUNT = 3
  MaxFields = 4
  NULL = NULL
SPECIFICATION Spec
CHECK_DEADLOCK FALSE
INVARIANTS
  TypeOK
  AloneParsesOwn
  CommandIsOwn

  

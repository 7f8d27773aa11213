CONSTANTS
  cr_max_cnt = 2
  FirstRoom = 0
  Known <- MCKnown
  Positions <- MCPositions
  MAX_SPEED = 5
  STEP = 5
  FIRST_SPEED = 0
  POLL_PERIOD = 1
  MaxWaiting = 1
SPECIFICATION LiveSpec
INVARIANTS
  TypeOK
  FanTakesTwoClicks
PROPERTIES
  ConfirmedAsShown
  ShownIsOwn
  ShowsChosenRoom

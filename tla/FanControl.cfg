CONSTANTS
  Readings <- MCReadings
  Commands <- MCCommands
  MANUAL_SECONDS = 2
  SAMPLE_PERIOD = 2
SPECIFICATION LiveSpec
INVARIANTS
  TypeOK
  ManualIsTimed
PROPERTIES
  RuleFollowsDensity
  OutlierRejected
  ManualEnds

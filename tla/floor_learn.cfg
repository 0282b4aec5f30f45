SPECIFICATION Spec
CONSTANTS
  intel = intel
  amd = amd
  other = other
  nowhere = nowhere
  none = none
  noDuty = noDuty
  Buckets = 2
  Celsius <- Temperatures
  NoTemp = none
  Model <- ModelDuty
  Board = {intel, amd, other}
  NoBoard = nowhere
  Profile <- Profiles
  NoProfile = "unknown"
  LegacyProfile = "Intel"
  Hysteretic = {"Intel"}
  Reporting = {intel}
  FirmwareDuty = {0, 40}
  CallDuty = {60}
  NoDuty = noDuty
  LegacyFloor <- Legacy
  MaxCalls = 1
  MaxTicks = 3
  MaxStarts = 2
CHECK_DEADLOCK FALSE
INVARIANTS
  TypeOK
  FloorCoversFirmware
  NoForeignFloor
  SavedMeansSaved
PROPERTIES
  FloorIsMemory

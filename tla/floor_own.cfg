SPECIFICATION Spec
CONSTANTS
  intel = intel
  amd = amd
  other = other
  nowhere = nowhere
  none = none
  noDuty = noDuty
  Buckets = 2
  Celsius <- Temperatures
  NoTemp = none
  Model <- ModelDuty
  Board = {intel}
  NoBoard = nowhere
  Profile <- Profiles
  NoProfile = "unknown"
  LegacyProfile = "Intel"
  Hysteretic = {"Intel"}
  Reporting = {intel}
  FirmwareDuty = {0, 40}
  CallDuty = {60}
  NoDuty = noDuty
  LegacyFloor <- Legacy
  MaxCalls = 1
  MaxTicks = 2
  MaxStarts = 1
CHECK_DEADLOCK FALSE
PROPERTIES
  OnlyFirmwareIsLearned

SPECIFICATION Spec
CONSTANTS
  cool = cool
  warm = warm
  hot = hot
  none = none
  Observable = TRUE
  Client = {c1}
  Temp = {warm, hot}
  Hot = {hot}
  NoTemp = none
  Floor <- Floors
  Request = {0}
  CurveDuty = {84}
  MaxCalls = 2
  MaxFaults = 1
  MaxUpsets = 1
CHECK_DEADLOCK FALSE
INVARIANTS
  TypeOK
  NeverBelowFloor
  GuardedTakeover
  RestoreNotOrphaned
  OffIsFirmware

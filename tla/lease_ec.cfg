SPECIFICATION FairSpec
CONSTANTS
  cool = cool
  warm = warm
  hot = hot
  none = none
  Observable = FALSE
  Client = {c1}
  Temp = {cool, hot}
  Hot = {hot}
  NoTemp = none
  Floor <- Floors
  Request = {20}
  CurveDuty = {20, 84}
  MaxCalls = 1
  MaxFaults = 1
  MaxUpsets = 1
CHECK_DEADLOCK FALSE
INVARIANTS
  NeverBelowFloor
  GuardedTakeover
  NeverStalled
PROPERTIES
  WatchdogReturnsFan
  CrashReturnsFan
  RestoreRuns

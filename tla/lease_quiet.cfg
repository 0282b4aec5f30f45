SPECIFICATION FairSpec
CONSTANTS
  cool = cool
  warm = warm
  hot = hot
  none = none
  Observable = TRUE
  Client = {c1, c2}
  Temp = {cool, warm}
  Hot = {}
  NoTemp = none
  Floor <- Floors
  Request = {0}
  CurveDuty = {84}
  MaxCalls = 2
  MaxFaults = 1
  MaxUpsets = 0
CHECK_DEADLOCK FALSE
PROPERTIES
  FloorHoldsWhenQuiet

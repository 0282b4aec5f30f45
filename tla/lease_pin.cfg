SPECIFICATION Spec
CONSTANTS
  cool = cool
  warm = warm
  hot = hot
  none = none
  Observable = TRUE
  Client = {c1}
  Temp = {cool}
  Hot = {}
  NoTemp = none
  Floor <- Floors
  Request = {0}
  CurveDuty = {84}
  MaxCalls = 2
  MaxFaults = 0
  MaxUpsets = 0
CHECK_DEADLOCK FALSE
PROPERTY PinMeansPin

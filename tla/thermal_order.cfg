\* The control sensor of the AMD board climbs past its ceiling.
SPECIFICATION WarmingSpec
CONSTANTS
  Dmi <- AmdBoard
  ControlTenths = {600, 820, 830, 949, 950}
  ControlCrit = {978}
  PackTenths = {}
  PackCrit = {}
  NoReading = NoReading
INVARIANT FullDutyBeforeCeiling
CHECK_DEADLOCK FALSE

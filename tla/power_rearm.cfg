\* The corrections run out, the limit is set again, and firmware moves it once more.
SPECIFICATION ProfileSpec
CONSTANTS
  None = None
  Book <- OnlyFast
  Canonical <- OnlyPosition
  Watts = {12}
  MAX_WATTS = 25
  FirmwareWatts = {22}
  AutoChoices = {}
  InitialState <- FirstBoot
  MAX_POWER_CORRECTIONS = 1
  MaxProfileStarts = 1
  MaxEvents = 4
PROPERTIES
  SetAgainEnforces
CHECK_DEADLOCK FALSE

\* Three values, so that a second choice may differ from the first and from what was held.
SPECIFICATION GuiSpec
CONSTANTS
  Setting = {1, 2, 3}
  NoSetting = 0
  MaxChoices = 2
  MaxUpsets = 1
INVARIANTS
  NoJumpBack
  SidesKept
CHECK_DEADLOCK FALSE

\* One row is set, an old snapshot puts its old value back, and the other is set.
SPECIFICATION GuiSpec
CONSTANTS
  Setting = {1, 2}
  NoSetting = 0
  MaxChoices = 2
  MaxUpsets = 0
INVARIANT SidesAsChosen
CHECK_DEADLOCK FALSE

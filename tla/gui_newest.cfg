\* An earlier command of a control is refused while a later one waits.
SPECIFICATION GuiSpec
CONSTANTS
  Setting = {1, 2, 3}
  NoSetting = 0
  MaxChoices = 2
  MaxUpsets = 1
PROPERTY NewestStaysHeld
CHECK_DEADLOCK FALSE

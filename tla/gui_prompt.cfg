\* A prompt stays open for longer than the window waits.
SPECIFICATION GuiSpec
CONSTANTS
  Setting = {1, 2}
  NoSetting = 0
  MaxChoices = 2
  MaxUpsets = 0
INVARIANT HeldUntilAnswered
CHECK_DEADLOCK FALSE

\* A snapshot arrives during the prompt of an Apply that is then refused.
SPECIFICATION EditorSpec
CONSTANTS
  DefaultQuiet <- BuiltInQuiet
  OtherCurves <- ShortCurve
  SpinCelsius = {56}
  SpinDuty = {0}
  NoPoints = NoPoints
  MaxPoints = 7
  MaxEdits = 2
  MaxSent = 1
INVARIANT RefusedIsKept
CHECK_DEADLOCK FALSE

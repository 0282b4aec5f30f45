\* A curve is edited to stay at a stop, with no gap left, and a point is added.
SPECIFICATION EditorSpec
CONSTANTS
  DefaultQuiet <- BuiltInQuiet
  OtherCurves <- ShortCurve
  SpinCelsius = {56}
  SpinDuty = {0}
  NoPoints = NoPoints
  MaxPoints = 7
  MaxEdits = 2
  MaxSent = 1
INVARIANT AddedStaysValid
CHECK_DEADLOCK FALSE

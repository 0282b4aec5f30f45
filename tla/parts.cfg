\* Eight parts, one at a time.
SPECIFICATION Spec
CONSTANTS
  \* CurveEngine
  Curves <- MCCurves
  CurveCelsius <- MCCurveCelsius
  NoCelsius = NoCelsius
  NoCurveDuty = NoCurveDuty
  \* ThermalLimits
  Dmi <- MCDmi
  ControlTenths <- MCControl
  ControlCrit = {978, 1105}
  PackTenths <- MCPack
  PackCrit = {500}
  NoReading = NoReading
  \* PowerTelemetry
  Range_uj = 3
  MaxGap = 2
  IMPLAUSIBLE_WATTS = 1
  Draw = {0, 1}
  FLOOR_WINDOW = 2
  Nothing = Nothing
  MaxSleeps = 1
  \* ChargeLimit
  None = None
  ChargeClient = {"a", "b"}
  Percent = {10, 80, 90}
  ProfileLimit = {60}
  Factory <- MCFactory
  OtherMin = {20}
  MaxChargeCalls = 2
  MaxChargeFaults = 1
  MaxChargeResets = 1
  MaxChargeStarts = 2
  \* PpdAdoption
  Position = {1, 2}
  MaxLives = 2
  MaxMoves = 2
  \* CurveEditor
  DefaultQuiet <- MCQuiet
  OtherCurves <- MCOtherCurves
  SpinCelsius = {41, 118}
  SpinDuty = {0, 255}
  NoPoints = NoPoints
  MaxPoints = 4
  MaxEdits = 2
  MaxSent = 2
  \* GuiControls
  Setting = {1, 2}
  NoSetting = 0
  MaxChoices = 2
  MaxUpsets = 1
  \* ProfileStore
  StoreClient = {"a", "b"}
  Simple = {"balanced", "own", "performance", "quiet"}
  Odd = {"My Own"}
  Stems <- MCStems
  Touched = {"My Own", "own", "quiet"}
  MachineStates <- MCMachine
  ByHand <- MCByHand
  NoFile = NoFile
  Broken = Broken
  MaxStoreEvents = 3
INVARIANTS
  TablesReachFirmware
  WattsAreTrue
  ChargeIsChosen
  ChargeLimitHolds
  AddedIsValid
  DrawnIsKept
  NoJumpBack
  SidesKept
  KnownIsWhatLoads
  BuiltInsKnown
PROPERTIES
  RampBounded
  SettlesOnCurve
  HotterAsksMore
  IdleFloorConfirmed
  PpdFollowedAtLast
  WindowAgreesAtLast
CHECK_DEADLOCK FALSE

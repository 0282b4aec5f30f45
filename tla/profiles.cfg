\* A call, a slide, a rewrite, a fault, a change of source and a restart, in any order.
SPECIFICATION ProfileSpec
CONSTANTS
  None = None
  Book <- MCBook
  Canonical <- MCCanonical
  Watts = {12}
  MAX_WATTS = 25
  FirmwareWatts = {22}
  AutoChoices <- MCAuto
  InitialState <- MCInitial
  MAX_POWER_CORRECTIONS = 2
  MaxProfileStarts = 2
  MaxEvents = 3
INVARIANTS
  WholeProfile
  ChoiceStays
  LimitIsChosen
PROPERTIES
  LimitEnforced
CHECK_DEADLOCK FALSE

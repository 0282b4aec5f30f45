\* PPD appears between the first probe and the subscription to its names.
SPECIFICATION AdoptionSpec
CONSTANTS
  Position = {1, 2}
  MaxLives = 1
  MaxMoves = 0
PROPERTY AdoptedWhenever
CHECK_DEADLOCK FALSE

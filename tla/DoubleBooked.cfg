SPECIFICATION CalSpec
CONSTANTS
  CalRepos = {"foo"}
  CalTag <- TagIsName
  HumanNumbers = {1, 2}
  Dependents <- SecondWaits
  FirstEvents <- ThreeCalendars
  Horizon = 6
  EventIds = {1, 2, 3, 4, 5}
  MaxMoves = 0
  MoveTimes = {}
  CalHazards = {}
CHECK_DEADLOCK FALSE
PROPERTIES NoDoubleBooking

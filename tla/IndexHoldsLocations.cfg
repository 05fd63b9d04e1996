CONSTANTS
  Half = 64
  Runs <- MCRuns
  Evts <- MCEvts
  Positions <- MCPositions
  NoIndex = NoIndex
SPECIFICATION TripSpec
INVARIANT HoldsLocations

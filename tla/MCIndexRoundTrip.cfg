CONSTANTS
  Half = 8
  Runs <- MCRuns
  Evts <- MCEvts
  Positions <- MCPositions
  NoIndex = NoIndex
SPECIFICATION TripSpec
INVARIANTS
  CountersMatch
  RoundTrip

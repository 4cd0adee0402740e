CHECK_DEADLOCK FALSE
SPECIFICATION Spec
CONSTANTS
  x = x  y = y  o1 = o1  o2 = o2  k1 = k1
  Names = {x, y}
  Obeyers = {o1}
  Watchers = {}
  Main = Main  Nobody = Nobody
  MaxAgents = 2
  Slots = {1, 2, 3}
  RestartLimit = 1
  MaxFresh = 0
  MaxCrashes = 1
  MaxFailures = 1
  Pins = TRUE
  Reads = FALSE
  ShutsDown = FALSE
INVARIANTS StoppedIsGone  WantedIsSaved
SYMMETRY NameSymmetry

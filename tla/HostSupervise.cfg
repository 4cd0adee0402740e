CHECK_DEADLOCK FALSE
SPECIFICATION FairSpec
CONSTANTS
  x = x  y = y  o1 = o1  o2 = o2  k1 = k1
  Names = {x}
  Obeyers = {o1, o2}
  Watchers = {k1}
  Main = Main  Nobody = Nobody
  MaxAgents = 1
  Slots = {1, 2}
  RestartLimit = 2
  MaxFresh = 0
  MaxCrashes = 0
  MaxFailures = 0
  Pins = TRUE
  Reads = TRUE
  ShutsDown = TRUE
INVARIANTS TypeOK  RestartsAreBounded
PROPERTY StopsComplete

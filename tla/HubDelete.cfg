SPECIFICATION FairSpec
CONSTANTS
  h1 = h1  h2 = h2  x = x   r1 = r1  r2 = r2 
  Hosts = {h1}
  Names = {x}
  Requests = {r1, r2}
  NoHost = NoHost  NoName = NoName  NoRequest = NoRequest
  Restored <- H1RunsX
  FirstCreated = 2
  MaxCreated = 2
  MaxStops = 2
  MaxDials <- Twice
  ReportBuffer = 1
  MaxExits = 1
  Patience = FALSE
INVARIANTS StopsHaveOneOwner StopWasConfirmed NoOrphanedWait 
PROPERTIES DeleteAnswered

SPECIFICATION Spec
CONSTANTS
  h1 = h1  h2 = h2  x = x   r1 = r1  r2 = r2 
  Hosts = {h1, h2}
  Names = {x}
  Requests = {r1, r2}
  NoHost = NoHost  NoName = NoName  NoRequest = NoRequest
  Restored <- NothingRestored
  FirstCreated = 1
  MaxCreated = 2
  MaxStops = 0
  MaxDials <- Once
  ReportBuffer = 1
  MaxExits = 0
  Patience = FALSE
PROPERTY OnlyItsOwnLeaves

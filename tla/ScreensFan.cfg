SPECIFICATION FairSpec
CONSTANTS
  v1 = v1  v2 = v2
  Viewers = {v1}
  Dials = 2
  MaxOutput = 3
  Buffer = 1
  Blank = Blank  Garbled = Garbled  None = None
INVARIANTS TypeOK SubscribersAreOpen RegisteredIsFed
PROPERTIES  ViewersCatchUp
CHECK_DEADLOCK FALSE

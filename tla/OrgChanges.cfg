SPECIFICATION FairSpec
CONSTANTS
  c1 = c1  c2 = c2  j1 = j1  j2 = j2  s1 = s1  s2 = s2
  Commands = {c1}
  Joins = {j1, j2}
  Servers = {s1}
  Writers = {c1, j1, j2, s1}
  Founder = Founder  Editor = Editor  Standing = Standing
  Uses = 1
  NoFile = NoFile  Torn = Torn  NoOne = NoOne
INVARIANTS TypeOK OnlyAnEditTears ClaimsWithinUses JoinersAreAdmitted
PROPERTIES HubNeverGoesBack RegisterSpec 
CHECK_DEADLOCK FALSE

SPECIFICATION Spec
CONSTANTS
  a = a  b = b
  r1 = r1  r2 = r2
  None = None
  Agents = {a}
  Requests = {r1, r2}
  NoticeIds = {1, 2, 3}
  MaxAsked = 1
  MaxClicks = 1
  Browsers = {"full"}
  Permissions = {"granted"}
  Storages = {"on"}
PROPERTIES NeverReplays

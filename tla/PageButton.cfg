SPECIFICATION Spec
CONSTANTS
  a = a  b = b
  r1 = r1  r2 = r2
  None = None
  Agents = {a}
  Requests = {r1}
  NoticeIds = {1, 2, 3}
  MaxAsked = 1
  MaxClicks = 1
  Browsers = {"full", "noConstructor", "unsupported"}
  Permissions = {"default", "granted", "denied"}
  Storages = {"on", "off", "blocked"}
INVARIANTS OnePrompt ChoiceIsSaved
SYMMETRY Alike

CONSTANTS
  e1 = e1
  e2 = e2
  r1 = r1
  x1 = x1
  c1 = c1
  l1 = l1
  p1 = p1
  p2 = p2
  Token = Token
  Path = Path
  None = None
  Edits = {e1}
  Restores = {}
  Deletes = {}
  Clears = {}
  Lists = {l1}
  Polls = {}
  Starts <- MCUnread
  MaxEntries = 2
  MaxReloads = 0
SPECIFICATION Spec
PROPERTIES BackupsKept
CHECK_DEADLOCK FALSE

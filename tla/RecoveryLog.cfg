CONSTANTS
  e1 = e1
  e2 = e2
  r1 = r1
  x1 = x1
  c1 = c1
  l1 = l1
  p1 = p1
  p2 = p2
  Token = Token
  Path = Path
  None = None
  Edits = {e1, e2}
  Restores = {r1}
  Deletes = {x1}
  Clears = {c1}
  Lists = {l1}
  Polls = {p1, p2}
  Starts <- MCStarts
  MaxEntries = 2
  MaxReloads = 1
SPECIFICATION FairSpec
INVARIANTS TypeOK LogOnDisk RollbackBesideOriginal
PROPERTIES BackupsKept UnsavedKept SeenSaveClears
CHECK_DEADLOCK FALSE

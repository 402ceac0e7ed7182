CONSTANTS
  i1 = i1
  deactivate = deactivate
  Invocations = {i1}
  Deactivate = deactivate
  MaxRequests = 3
  f1 = f1
  f2 = f2
  q1 = q1
  q2 = q2
  Paths = {f1, f2}
  Scratch = {f1}
  Requests = {q1, q2}
  NoFile = NoFile
  Expired = Expired
  NoCall = NoCall
  g1 = g1
  w1 = w1
  w2 = w2
  k1 = k1
  k2 = k2
  SignIns <- MCSignIns
  Strict = {g1}
  Taskpanes = {w1, w2}
  Clicks = {k1, k2}
  Typed = Typed
  MaxGrants = 4
  MaxStarts = 2
  n1 = n1
  n2 = n2
  n3 = n3
  x1 = x1
  Names = {n1, n2, n3}
  Texts = {x1}
  Blank = Blank
  Gone = Gone
  MaxRows = 3
  Spans <- MCSpans
  MaxCells = 2
  MaxTools = 2
  MaxChanges = 4
  MaxTyped = 1
  Starting <- MCStarting
SPECIFICATION DeskSpec
SYMMETRY MCDeskSymmetry
INVARIANTS DeskTypeOK SandboxKeepsHouse TagsFollowFiles SignedInAsAsked UndoUndoes
PROPERTIES FilesKept
CHECK_DEADLOCK FALSE

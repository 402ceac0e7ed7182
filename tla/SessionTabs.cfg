CONSTANTS
  c1 = c1
  c2 = c2
  c3 = c3
  None = None
  MaxRuntimes = 3
  MaxMessages = 2
  MaxClosed = 1
  MaxQueued = 1
  MaxReloads = 1
  Calls = {c1, c2}
SPECIFICATION Spec
SYMMETRY MCCalls
INVARIANTS TypeOK IdleTabSaved LayoutCatchesUp
PROPERTIES MessagesKept ClosedTabSaved
CHECK_DEADLOCK FALSE

CONSTANTS
  c1 = c1
  c2 = c2
  c3 = c3
  None = None
  MaxRuntimes = 2
  MaxMessages = 4
  MaxClosed = 2
  MaxQueued = 1
  MaxReloads = 0
  Calls = {c1}
SPECIFICATION Spec
SYMMETRY MCCalls
PROPERTIES MessagesNeverLost
CHECK_DEADLOCK FALSE

CONSTANTS
  a1 = a1
  a2 = a2
  b1 = b1
  b2 = b2
  w1 = w1
  x1 = x1
  x2 = x2
  y1 = y1
  y2 = y2
  y3 = y3
  PyCalls = {y1, y2, y3}
  WithInput = {y1, y2}
  PyNone = PyNone
  Unknown = Unknown
  Nothing = Nothing
  NoModel = NoModel
  Boot = Boot
  NoInstance = NoInstance
  Agents = {a1, a2}
  Ids = {w1}
  Builds = {b1, b2}
  MaxStructure = 1
  Windows = {a1, a2}
  Providers = {b1, b2}
  Extensions = {x1, x2}
  Listed <- MCListed
  Requests = {b1, b2}
  MaxDropped = 1
  Operations = {"install", "enable", "disable", "reload", "grant", "uninstall"}
SPECIFICATION ServicesSpec
SYMMETRY MCServicesSymmetry
INVARIANTS ServicesTypeOK TrustedIsCurrent FreeTabsUsable RunsAsEnabled AgentsHaveTheTools AnswersOwnInput
PROPERTIES UninstallRemovesOwn
CHECK_DEADLOCK FALSE

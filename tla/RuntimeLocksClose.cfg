CONSTANTS
  c1 = c1
  c2 = c2
  c3 = c3
  s1 = s1
  s2 = s2
  d1 = d1
  Calls <- MCCalls
  Sessions <- MCSessions
  SessionOf <- MCSessionOf
  Mutating <- MCCalls
  Restores = {}
  Documents <- MCDocuments
  Unknown = Unknown
  NoCall = NoCall
  NoDocument = NoDocument
  MaxIdentityChanges = 0
  OneCallAtATime <- MCSessions
  LongSessions = {}
SPECIFICATION LSpec
PROPERTIES NoCloseUnderWrite
CHECK_DEADLOCK FALSE

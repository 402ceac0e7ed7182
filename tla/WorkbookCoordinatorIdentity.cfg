CONSTANTS
  c1 = c1
  c2 = c2
  c3 = c3
  r1 = r1
  s1 = s1
  s2 = s2
  d1 = d1
  d2 = d2
  Calls <- MCWriters
  Sessions <- MCSessions
  SessionOf <- MCWritersSession
  Mutating <- MCWriters
  Restores = {}
  Documents <- MCOneDocument
  Unknown = Unknown
  NoCall = NoCall
  NoDocument = NoDocument
  MaxIdentityChanges = 1
SPECIFICATION Spec
INVARIANTS OneWriterPerDocument
CHECK_DEADLOCK FALSE

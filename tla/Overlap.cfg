CONSTANTS
  c1 = c1
  c2 = c2
  c3 = c3
  r1 = r1
  s1 = s1
  s2 = s2
  d1 = d1
  d2 = d2
  n1 = n1
  n2 = n2
  o1 = o1
  o2 = o2
  Calls <- MCMixed
  Sessions <- MCSessions
  SessionOf <- MCMixedSession
  Mutating <- MCWriters
  Restores <- MCRestores
  Documents <- MCDocuments
  Unknown = Unknown
  NoCall = NoCall
  NoDocument = NoDocument
  MaxIdentityChanges = 1
  Conns = {n1, n2}
  Changes = {o1, o2}
  NoChange = NoChange
SYMMETRY MCOverlapSymmetry
SPECIFICATION OverlapSpec
INVARIANTS SerializedMutation NoStrandedWrite RefusedStaysOff
PROPERTIES OwnRecordOnly
CHECK_DEADLOCK FALSE

CONSTANTS
  t1 = t1
  t2 = t2
  p1 = p1
  p2 = p2
  k1 = k1
  k2 = k2
  None = None
  Runtimes = {t1, t2}
  Prompts = {p1, p2}
  Commands = {k1}
SPECIFICATION Spec
PROPERTIES NoPromptLost

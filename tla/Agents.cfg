CONSTANTS
  t1 = t1
  t2 = t2
  p1 = p1
  p2 = p2
  k1 = k1
  None = None
  NoTab = NoTab
  NoBuild = NoBuild
  Unread = Unread
  Runtimes = {t1, t2}
  Prompts = {p1, p2}
  Commands = {k1}
  Tabs = {t1, t2}
  MaxSource = 3
  MaxConfig = 2
  MaxRemote = 3
SPECIFICATION AgentsSpec
INVARIANTS AgentsTypeOK LoopOwnsAgent RestIsCurrent PublishesCurrent
PROPERTIES PromptsKept ClosedTabStartsNoPrompt QueueDrains RefreshesEnd

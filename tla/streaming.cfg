CONSTANTS
  Cams = {c1, c2}
  Sids = {s1}
  First = c1
  None = None
  Openers = {o1, o2}
  NThreads = 2
  MaxDepth = 2
  MaxCleaning = 2
  MaxOthers = 1
SPECIFICATION FairSpec
INVARIANTS FramesBounded StreamPerCamera NoLeftovers
PROPERTY StreamsEnd
CHECK_DEADLOCK FALSE
CONSTRAINT Apart

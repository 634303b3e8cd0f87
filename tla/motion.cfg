CONSTANTS
  Callers = {t1, t2}
  First = t1
  MaxRequests = 5
  MaxTime = 5
  MaxSharedCalls = 3
  MaxSharedTime = 3
  Cooldown = 2
  InitialFiles = {"drawn"}
  Faults <- AllFaults
SPECIFICATION FairSpec
CONSTRAINT Explored
INVARIANTS DetectionFollowsSwitch 
PROPERTIES TriggersApart StoppedEnd
CHECK_DEADLOCK FALSE

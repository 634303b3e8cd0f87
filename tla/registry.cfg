CONSTANTS
  c1 = c1
  c2 = c2
  Cams = {c1}
  Viewers = {v1}
  Threads = {t1, t2}
  Drivers = {d1, d2}
  NoCam = NoCam
  NoDriver = NoDriver
  NoThread = NoThread
  Holds <- HoldsNothing
  Requests <- Watching
  Faults <- AllFaults
  InitOpen = {c1}
SPECIFICATION FairSpec
PROPERTIES ImplementsLifecycle ReopenHonoured
CHECK_DEADLOCK FALSE

CONSTANTS
  c1 = c1
  c2 = c2
  Cams = {c1, c2}
  Viewers = {v1, v2}
  Threads = {t1, t2}
  Drivers = {d1, d2}
  NoCam = NoCam
  NoDriver = NoDriver
  NoThread = NoThread
  Holds <- C1HoldsC2
  Requests <- Leaving
  Faults = {}
  InitOpen = {c1, c2}
SPECIFICATION FairSpec
PROPERTIES AutoCloses BusyNotAutoClosed
CHECK_DEADLOCK FALSE

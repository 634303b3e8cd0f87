CONSTANTS
  c1 = c1
  c2 = c2
  Cams = {c1}
  Viewers = {v1}
  Threads = {t1, t2, t3}
  Drivers = {d1, d2}
  NoCam = NoCam
  NoDriver = NoDriver
  NoThread = NoThread
  Holds <- HoldsNothing
  Requests <- Locked
  Faults <- AllFaults
  InitOpen = {c1}
SPECIFICATION Spec
INVARIANTS QuietConsistent AdminCloseClearsIntent
PROPERTY NoDriverReplaced
SYMMETRY Symmetry

CONSTANTS
  Encoders = {e1, e2}
  Callers = {t1, t2}
  NoEncoder = NoEncoder
  NoPath = NoPath
  QueueSize = 1
  RingSizes = {1, 2}
  MaxClock = 1
  Faults <- AllFaults
SPECIFICATION FairSpec
INVARIANTS TypeOK NoOrphanEncoder RingMatchesDisk
PROPERTIES EveryEndSignalled StoppedEnds
CONSTRAINT UpToClash
CHECK_DEADLOCK FALSE

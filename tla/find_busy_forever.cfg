CONSTANTS
  Encoders = {e1}
  Callers = {t1}
  NoEncoder = NoEncoder
  NoPath = NoPath
  QueueSize = 1
  RingSizes = {1}
  MaxClock = 1
  Faults <- AllFaults
SPECIFICATION Spec
INVARIANT BusyMeansEncoding
CHECK_DEADLOCK FALSE

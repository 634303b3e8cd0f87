CONSTANTS
  Kinds <- AllKinds
  Drivers = {d1, d2}
  Setters = {s1}
  Messages <- AllMessages
  NoDriver = NoDriver
  Leftover = Leftover
  FailLimit = 2
  MaxSets = 2
SPECIFICATION FairSpec
PROPERTIES StoppedEnds LossNoticed
INVARIANTS TypeOK ClosedReleased ReadsOwnDevice HwFollowsPlugin
CHECK_DEADLOCK FALSE
CONSTRAINT Apart

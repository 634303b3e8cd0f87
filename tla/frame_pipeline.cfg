CONSTANTS
  MaxSession = 2
  MaxFrame = 2
  Faults = {"unplug"}
SPECIFICATION FairSpec
INVARIANT ClosedIsEmpty
PROPERTIES DisplayMonotonic NewestShown PipesEnd
CHECK_DEADLOCK FALSE

SPECIFICATION FairSpec
CONSTANTS
  Topics = {camera, lidar}
  MaxBags = 3
  MaxMessages = 2
  MaxRequests = 3
INVARIANTS
  EngineMatchesWriter
  CountsNearBag
  OneCallbackLate
PROPERTIES
  CallsReturn
CHECK_DEADLOCK FALSE

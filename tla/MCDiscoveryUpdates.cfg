SPECIFICATION FairSpec
CONSTANTS
  Topic <- MCTopic
  Options <- AllOptions
  Updates <- SomeUpdates
  Reuse = TRUE
  MaxFailures = 1
INVARIANTS
  OneDiscoveryThread
  NoThreadBehindHandler
PROPERTIES
  HandlerReturns

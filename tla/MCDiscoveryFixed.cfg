SPECIFICATION FairSpec
CONSTANTS
  Topic <- MCTopic
  Options <- NamedOptions
  Updates <- NoUpdates
  Reuse = FALSE
  MaxFailures = 1
PROPERTIES
  EndsWhenAllSubscribed
  AvailableIsSubscribed

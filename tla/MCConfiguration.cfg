SPECIFICATION FairQosSpec
CONSTANTS
  ArgLists <- MCArgLists
  Documents <- MCDocuments
  InitialFiles <- MCInitialFiles
  NewNames <- MCNewNames
  MaxRequests = 3
  Half = 4
  OverrideFiles <- MCOverrideFiles
  Topics <- MCTopics
  Publishers <- MCPublishers
INVARIANTS
  ReadsAsGrouped
  ServedConfigIsNeutral
  ValidConfigInForce
  OverrideIsRequested
PROPERTIES
  OneDocumentInForce
  HeardOrWarned
CHECK_DEADLOCK FALSE

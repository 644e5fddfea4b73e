SPECIFICATION FairSpec
CONSTANTS
  MaxFiles = 5
  MaxWakeups = 2
INVARIANTS
  FilesInOrder
  LastFileListed
PROPERTIES
  SplitIsListed
  StopReturns

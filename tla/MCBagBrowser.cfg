SPECIFICATION FairSpec
CONSTANTS
  Bags = {run1, run2}
  Remote = {run1}
  Files = {metadata, data}
  Metadata = metadata
  NoBag = NoBag
  Size = 101
  Reports <- MCReports
  TailLength = 1
  MaxLines = 2
  MaxTransfers = 2
  MaxRequests = 1
INVARIANTS
  TransferIsShown
  NothingLostUntold
  ListIsTrue
PROPERTIES
  TransferEnds
CHECK_DEADLOCK FALSE

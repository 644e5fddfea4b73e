SPECIFICATION FairTable
CONSTANTS
  Topics = {"image", "tf"}
  Requested = {"image"}
  Name <- MCName
  Type <- MCType
  Bytes <- MCBytes
  Windows = {14, 100}
  Keys = {3}
  Window = 2
  MaxMessages <- MCMaxMessages
  MaxRequests = 1
INVARIANTS
  TableIsSound
PROPERTIES
  DiesOnlyOf
  TableCatchesUp
CHECK_DEADLOCK FALSE

SPECIFICATION Spec
CONSTANTS
  Name <- MCName
  Cwd <- MCCwd
  Stamp <- MCStamp
  Frontend = "headless"
  AutoStart = FALSE
  Configs <- MCConfigs
  BootConfig <- Boot
  CliOutput <- Unset
  Requests <- MCRequests
  Metadata = "metadata.yaml"
  Saves <- SavesAmongBags
  InitialFs <- MCInitialFs
  MaxTime = 1
  MaxDepth = 2
INVARIANTS
  BagsStayApart
  RecorderMatchesNode
PROPERTIES
  FreshDirectory
  ImplementsBagArchive

SPECIFICATION Spec
CONSTANTS
  Name <- MCName
  Cwd <- MCCwd
  Stamp <- MCStamp
  Frontend = "tui"
  AutoStart = FALSE
  Configs <- ClashConfigs
  BootConfig <- Boot
  CliOutput <- Unset
  Requests <- NoRequests
  Metadata = "metadata.yaml"
  Saves <- SavesByBags
  InitialFs <- MCInitialFs
  MaxTime = 1
  MaxDepth = 3
PROPERTIES
  StoppedBagListed
  ImplementsBagArchive

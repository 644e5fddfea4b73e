SPECIFICATION FairSpec
CONSTANTS
  drive = drive
  empty = empty
  lidar = lidar
  odom = odom
  NoBag = NoBag
  Bags = {drive, empty}
  Topics = {lidar, odom}
  Messages <- MCMessages
  Rates = {1, 2}
  SmallGap = 1
  MaxPerTick = 2
  Horizon = 6
  MaxRequests = 5
INVARIANTS
  StateIsTrue
  EveryMessageOnce
  NeverEarly
PROPERTIES
  PlaybackProceeds
CHECK_DEADLOCK FALSE

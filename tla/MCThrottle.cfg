SPECIFICATION Spec
CONSTANTS
  Throttles <- MCThrottles
  Sizes <- MCSizes
  StartTime = 20
  Jumps <- MCJumps
  MaxElapsed = 4
  MaxJumps = 1
INVARIANTS
  RateKept
  BandwidthKept
  NotSilenced

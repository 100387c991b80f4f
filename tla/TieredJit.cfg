SPECIFICATION Spec
CONSTANTS
  Runs = 2
  StartTiers = {0, 2}
  Threshold = 1
  MaxThreads = 6
  MaxRefused = 1
  None = None
INVARIANTS CallsItsOwnCode CompilesAsItsTier
PROPERTIES Climbs

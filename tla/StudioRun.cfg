SPECIFICATION FairSpec
CONSTANTS
  Kinds = {"stepping", "sundials", "fmuSignal", "fmuPhysical"}
  MaxRuns = 2
  MaxPasses = 1
  MaxBeats = 1
  MaxClicks = 2
INVARIANTS PartiesAgree PausedIsShown
PROPERTIES StopEndsRun RunComesBack

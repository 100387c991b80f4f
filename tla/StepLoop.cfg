SPECIFICATION Spec
CONSTANTS
  Dt = 3
  Interval = 3
  EndTime = 12
  Eps = 1
  NudgeMax = 2
  Streak = 2
  MaxDoubled = 3
INVARIANTS TimeIsIntegrated RowsKeepPace
PROPERTIES Terminates

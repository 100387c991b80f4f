SPECIFICATION FairSpec
CONSTANTS
  Structures = {s1, s2}
  Params = {k}
  Numbers = {0, 1}
  Codes = {tagA}
  Blank = blank
  Default = 0
  None = none
  MaxRuns = 3
INVARIANTS AnswersAreSound
PROPERTIES EveryRunAnswered

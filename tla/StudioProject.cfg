CONSTANTS
    MaxEdits = 2
    Dirs = {d1, d2}
    HomeDir = d1
    NewDir = d2
    NoDir = NoDir
    NoDraft = NoDraft
    MaxCalls = 2
    MaxFaults = 1
SPECIFICATION Spec
INVARIANTS CleanIsOnDisk DraftIsCurrent WorkSurvives
PROPERTIES DirtyIsSaved

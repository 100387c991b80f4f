CONSTANTS
    MaxEdits = 3
    MaxHistory = 1
    MaxDepth = 3
    NoSave = NoSave
SPECIFICATION Spec
INVARIANTS CleanIsSaved ProjectIsWhole
PROPERTIES ImplementsUndoList

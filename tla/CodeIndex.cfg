CONSTANTS
    Files = {f1, f2}
    Ignored = {f2}
    Texts = {t1, t2}
    Tables = {"symbols", "chunks"}
    FirstDisks <- MCFirstDisks
    Binary = Binary
    Gone = Gone
    Command = Command
    Watchers = {w1, w2}
    NoFile = NoFile
    NoEntry = NoEntry
    NoWatcher = NoWatcher
    MaxChanges = 2
    MaxCommands = 2
    MaxFaults = 1
SPECIFICATION IndexSpec
SYMMETRY Symmetry
INVARIANTS EntriesAreWhole IndexIsCurrent BuildsRepair
CHECK_DEADLOCK FALSE

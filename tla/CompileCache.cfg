CONSTANTS
    Procs = {p1, p2}
    MaxEdits = 1
    MaxCompiles = 3
    MaxBuilds = 2
    MaxFaults = 1
    Nothing = Nothing
    LruCap = 1
    SizeOf <- MCSizeOf
    DeferredWrite = FALSE
SPECIFICATION CacheSpec
SYMMETRY Symmetry
INVARIANTS CodeIsWhole BundleIsOfTheModel
CHECK_DEADLOCK FALSE

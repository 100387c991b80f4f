SPECIFICATION EventSpec
CONSTANTS
    Inputs = {u, tick}
    Tick = tick
    Registers = {x, y}
    First = x
    Programs <- MCPrograms
    AlgFixedPointMax = 2
    EventIterMax = 2
INVARIANT RisesAreActedOn
INVARIANT SettledIsStable
PROPERTY ActsOnRise
PROPERTY IterationEnds
CHECK_DEADLOCK FALSE

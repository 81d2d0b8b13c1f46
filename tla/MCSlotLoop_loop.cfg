CONSTANTS
    DayLen = 6
    CountMax = 2
    NoCap = NoCap
    NoWindows = NoWindows
    NoOverride = NoOverride
    Inputs <- MCInputs
    Zones <- AllZones
    Durations = {0, 1, 2}
    Intervals = {0, 1, 2}
    Caps = {1, 2, 3}
SPECIFICATION FairSpec
INVARIANTS LoopComputesCalculateSlots OfferedHasRoom CalendarMatchesSlots
PROPERTY LoopReturns
CHECK_DEADLOCK FALSE

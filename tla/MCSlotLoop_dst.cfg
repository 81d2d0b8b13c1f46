CONSTANTS
    DayLen = 6
    CountMax = 2
    NoCap = NoCap
    NoWindows = NoWindows
    NoOverride = NoOverride
    Inputs <- MCInputs
    Zones <- Shifted
    Durations = {1, 2}
    Intervals = {1, 2}
    Caps = {1, 2}
SPECIFICATION Spec
INVARIANT OfferedHasRoomOnEveryDate
CHECK_DEADLOCK FALSE

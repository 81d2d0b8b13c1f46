CONSTANTS
    DayLen = 8
    CountMax = 3
    NoCap = NoCap
    NoWindows = NoWindows
    NoOverride = NoOverride
    None = None
    b1 = b1
    b2 = b2
    b3 = b3
    i1 = i1
    i2 = i2
    h1 = h1
    h2 = h2
    r1 = r1
    r2 = r2
    r3 = r3
    r4 = r4
    r5 = r5
    Handlers = {h1, h2}
    BookingIds = {b1, b2, b3}
    Invitees = {i1}
    Rules = {}
    Trigger <- MCTrigger
    Lead <- MCLead
    EventConfigs <- OpenOrRestricted
    OverrideConfigs <- NoOverrides
    InviteeEdits = {}
    Starts = {2, 4}
    Zone <- NoShift
    Kinds = {"create", "cancel", "update", "edit"}
    Failures = TRUE
    FirstMinute = 1
    LastMinute = 1
    MaxJobs = 2
SPECIFICATION Spec
SYMMETRY Symmetry
INVARIANTS UsedTokenHasLiveBooking TokenSharedByRacesOnly OverbookedByRacesOnly
PROPERTY CancelledIsFinal

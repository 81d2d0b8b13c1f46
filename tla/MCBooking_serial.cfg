CONSTANTS
    DayLen = 8
    CountMax = 3
    NoCap = NoCap
    NoWindows = NoWindows
    NoOverride = NoOverride
    None = None
    b1 = b1
    b2 = b2
    b3 = b3
    i1 = i1
    i2 = i2
    h1 = h1
    h2 = h2
    r1 = r1
    r2 = r2
    r3 = r3
    r4 = r4
    r5 = r5
    Handlers = {h1}
    BookingIds = {b1, b2}
    Invitees = {i1}
    Rules = {r2, r4, r5}
    Trigger <- MCTrigger
    Lead <- MCLead
    EventConfigs <- Edited
    OverrideConfigs <- SomeOverrides
    InviteeEdits = {"REVOKED"}
    Starts = {2, 3}
    Zone <- NoShift
    Kinds = {"create", "cancel", "reschedule", "delete"}
    Failures = FALSE
    FirstMinute = 0
    LastMinute = 1
    MaxJobs = 3
SPECIFICATION Spec
SYMMETRY Symmetry
INVARIANTS TypeOK CancelledQuiet RemindersMatchStart
PROPERTY PlacedAsOffered

CONSTANTS
    DayLen = 8
    CountMax = 3
    NoCap = NoCap
    NoWindows = NoWindows
    NoOverride = NoOverride
    None = None
    b1 = b1
    b2 = b2
    b3 = b3
    i1 = i1
    i2 = i2
    h1 = h1
    h2 = h2
    r1 = r1
    r2 = r2
    r3 = r3
    r4 = r4
    r5 = r5
    Handlers = {h1, h2}
    BookingIds = {b1, b2, b3}
    Invitees = {i1}
    Rules = {}
    Trigger <- MCTrigger
    Lead <- MCLead
    EventConfigs <- Restricted2
    OverrideConfigs <- NoOverrides
    InviteeEdits = {}
    Starts = {2}
    Zone <- NoShift
    Kinds = {"create", "cancel"}
    Failures = FALSE
    FirstMinute = 0
    LastMinute = 0
    MaxJobs = 1
SPECIFICATION Spec
INVARIANT TokenSingleUse

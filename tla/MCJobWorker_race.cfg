CONSTANTS
    w1 = w1
    w2 = w2
    p1 = p1
    NoRow = NoRow
    NoKey = NoKey
    Workers = {w1, w2}
    Recipients = {p1}
    QueuedTypes = {"CONFIRMATION"}
    RuleTriggers = {"ON_BOOKING"}
    StartTimes = {4}
    LongLead = 3
    Limit = 1
    Faults = {}
    MaxJobs = 2
    LastTime = 0
SPECIFICATION Spec
SYMMETRY Symmetry
INVARIANT NoDuplicateMail

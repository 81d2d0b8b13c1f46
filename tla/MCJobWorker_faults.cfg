CONSTANTS
    w1 = w1
    w2 = w2
    p1 = p1
    NoRow = NoRow
    NoKey = NoKey
    Workers = {w1, w2}
    Recipients = {p1}
    QueuedTypes = {"CONFIRMATION", "CAMPAIGN:BOOKING"}
    RuleTriggers = {"ON_BOOKING"}
    StartTimes = {4}
    LongLead = 3
    Limit = 2
    Faults = {"read", "send", "record", "status", "crash"}
    MaxJobs = 3
    LastTime = 1
SPECIFICATION Spec
SYMMETRY Symmetry
INVARIANTS TypeOK ClaimedByOne OneMailPerJob CompletedMeansHandled CancelledJobNotMailed
PROPERTY ImplementsJobQueue

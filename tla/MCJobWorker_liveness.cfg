CONSTANTS
    w1 = w1
    w2 = w2
    p1 = p1
    NoRow = NoRow
    NoKey = NoKey
    Workers = {w1}
    Recipients = {p1}
    QueuedTypes = {"REMINDER", "CAMPAIGN:BOOKING"}
    RuleTriggers = {"REMINDER_24H"}
    StartTimes = {2, 4}
    LongLead = 3
    Limit = 2
    Faults = {"read"}
    MaxJobs = 3
    LastTime = 1
SPECIFICATION FairSpec
INVARIANT NoDuplicateMail
PROPERTIES DueJobsAreTaken ClaimedJobsEnd

SPECIFICATION FairSpec
CONSTANTS
    r1 = r1
    r2 = r2
    w1 = w1
    Runs <- TwoRuns
    Writers = {w1}
    JobKeys <- Jobs
    JobKeyOf <- TwoRunJobs
    NoOwner = NoOwner
    MaxFaults = 2
    MaxCrashes = 1
INVARIANTS
    ActiveRowHasOwner
PROPERTIES
    ImplementsContract
    AcknowledgedCancelHonoured
    LeaseComesBack
    EveryRunSettles

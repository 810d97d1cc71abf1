SPECIFICATION FairSpec
CONSTANTS
    j1 = j1
    j2 = j2
    Jobs <- TwoJobs
    Day = 2
    Zones = {0}
    OffDates = {1}
    NoDate = NoDate
    NoZone = NoZone
    MaxClock = 4
    MaxOps = 4
    MaxFaults = 2
    MaxCrashes = 1
INVARIANTS
    ClaimedOncePerDate
    SnapshotIsTold
PROPERTY
    DueDigestIsServed

SPECIFICATION FairSpec
CONSTANTS
    a = a
    b = b
    Jobs <- TwoJobs
    JobOrder <- InOrder
    Unavailable = {b}
    Day = 2
    Zones = {0, 1}
    MailZones = {0, 1}
    NoDate = NoDate
    Nobody = Nobody
    Editor = Editor
    Mailer = Mailer
    Manual = Manual
    MaxClock = 3
    MaxEdits = 2
    MaxFaults = 1
    MaxCrashes = 1
INVARIANTS
    OncePerDate
    ClaimHasRun
PROPERTIES
    EditCompletes
    DueIsServed

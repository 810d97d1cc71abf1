SPECIFICATION Spec
CONSTANTS
    None = None
    Damaged = Damaged
    Foreign = Foreign
    Torn = Torn
    MaxGen = 3
    MaxArtifacts = 0
    Keep = 1
    MaxFaults = 0
    MaxCrashes = 1
    MaxDamage = 0
INVARIANTS
    MigrationIsWhatIsRead
CHECK_DEADLOCK FALSE

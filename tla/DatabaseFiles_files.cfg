SPECIFICATION Spec
CONSTANTS
    None = None
    Damaged = Damaged
    Foreign = Foreign
    Torn = Torn
    MaxGen = 3
    MaxArtifacts = 4
    Keep = 2
    MaxFaults = 2
    MaxCrashes = 2
    MaxDamage = 1
INVARIANTS
    NeverTorn
    NoThirdDatabase
    PriorIsKept
    ReportIsTrue
PROPERTIES
    KeepsKnownGood

CHECK_DEADLOCK FALSE

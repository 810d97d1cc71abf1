SPECIFICATION RefreshSpec
CONSTANTS
    a = a
    b = b
    p1 = p1
    p2 = p2
    p3 = p3
    p4 = p4
    Nobody = Nobody
    Companies = {a, b}
    Browser = {b}
    Openings <- Openings4
    Owner <- Owners
    Link <- Links
    Id <- Ids
    Valid = {p1, p2, p3}
    Rank <- Ranks
    MaxRuns = 2
    MaxFailures = 1
INVARIANTS
    ApplicationStays

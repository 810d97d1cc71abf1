SPECIFICATION BothSpec
CONSTANTS
    a = a
    b = b
    p1 = p1
    p2 = p2
    p3 = p3
    p4 = p4
    Nobody = Nobody
    Companies = {a, b}
    Browser = {b}
    Openings <- Openings4
    Owner <- Owners
    Link <- Links
    Id <- Ids
    Valid = {p1, p2, p3}
    Rank <- Ranks
    MaxRuns = 2
    MaxFailures = 1
    n1 = n1
    n2 = n2
    d1 = d1
    d2 = d2
    g1 = g1
    u1 = u1
    Nothing = Nothing
    Names = {n1, n2}
    Sites = {d1, d2}
    Boards = {g1, u1}
    Unfit = {u1}
    Inputs <- TwoInputs
    MaxCommands = 3
INVARIANTS
    BoardIsShown
    SnapshotAgrees
PROPERTIES
    NothingLost
    VerifiedIsEarned
    StoredBoardsStay

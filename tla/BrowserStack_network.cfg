SPECIFICATION StackSpec
CONSTANTS
    s1 = s1
    s2 = s2
    Sessions <- TwoSessions
    NoBrowser = NoBrowser
    home = home
    other = other
    Origins = {home, other}
    Addresses = {1, 2}
    Routable = {2}
    MaxRedirects = 3
    t1 = t1
    t2 = t2
    t3 = t3
    Tunnels = {t1, t2, t3}
    MaxSlots = 2
    MaxCalls = 3
    MaxSlow = 1
    r1 = r1
    r2 = r2
    PageRequests = {r1, r2}
    MaxPageRedirects = 1
    MaxFaults = 2
INVARIANTS
    LeaseMatchesOwner
    OnlyApproved
    SecretsStayHome
    NoStrayUnwind
PROPERTIES
    ProvenReleaseMeansDead
    StrandedLeaseRecovers
    SlotsComeBack
    ProxyRecovers
    ChromiumFollowsRunner
    NothingHangs
\* Every session is over.
CHECK_DEADLOCK FALSE

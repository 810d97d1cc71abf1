SPECIFICATION Spec
CONSTANTS
    Callers = {c1, c2}
    Startup = Startup
    Ttl = 2
    CheckTime = 1
    MaxRaises = 1
    RequireExisting = FALSE
    Tokens = {t1, t2}
    Attempts = {a1, a2}
    Requests = {r1, r2}
    None = None
    Keep = Keep
    CacheSeconds = {0, 2}
    HandoffTtl = 1
    Idle = 2
    Absolute = 3
    RoundTrip = 1
    SessionStarts <- Starts
    t1 = t1
    t2 = t2
    a1 = a1
    a2 = a2
PROPERTIES Current AskersAnswered EndedIsOut SignInSettles
CHECK_DEADLOCK FALSE

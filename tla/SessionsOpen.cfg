SPECIFICATION Spec
CONSTANTS
    Client = {c1, c2}
    Call = {d1}
    MaxSessions = 1
    IdleTimeout = 1
    RequireConsent = TRUE
    MaxClock = 2
INVARIANT LiveSessionsAtMost
CHECK_DEADLOCK FALSE

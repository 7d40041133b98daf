SPECIFICATION Spec
CONSTANTS
    Threshold = 2
    WindowMs = 3
    MaxTime = 10
    MaxFailures = 4
    Evaluation = {e1, e2}
    Gated = {"A1"}
    TenantOf <- OneTenant
    AgentOf <- OneAgent
    UnitsOf <- TwoCosts
    RequestLimit = 2
    CostLimit = 2
    CostCeiling = 3
    InvocationLimit = 1
    MaxChanges = 1
    Sequence = {1, 2}
    StepCount = 3
    MaxSignals = 2
    Request = {r1, r2}
    Cancel = {k1, k2}
    Nobody = none
    Client = {c1, c2, c3}
    Call = {d1}
    MaxSessions = 1
    IdleTimeout = 1
    RequireConsent = TRUE
    MaxClock = 2
    Address = {a1, a2}
    Holder = {h1, h2}
    Limiter <- Limiters
    Secured = TRUE
    MaxMoment = 3
    MaxAsks = 4
    Work = {w1, w2}
    Junk = junk
    Sends = 2
    MaxRecords = 3
    MaxBreaks = 2
    Attempts = 2
    MaxCalls = 2
    MaxRotations = 1
INVARIANTS
    BudgetsHold
    GateFailsClosed
    ExitIsHonest
    OneEndPerTask
    SessionsAreSafe
    LimitsAreOwn
    OffsetsAreHonest
    AttemptsAreClean
    PricesAreSound
PROPERTIES
    ImplementsWindow
    DrainExits
CHECK_DEADLOCK FALSE

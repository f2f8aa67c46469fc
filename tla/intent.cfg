CONSTANTS
    s1 = s1
    s2 = s2
    dir = dir
    file = file
    doc = doc
    p = p
    q = q
    d = d
    NoRow = NoRow
    NoSession = NoSession
    NoClaim = NoClaim
    Sessions = {s1, s2}
    HookSessions = {s2}
    Claims <- MCClaims
    Wants <- MCWants
    Unscoped <- MCUnscoped
    Touches <- MCTouches
    Within <- MCWithin
    Procs = {p}
    Doctors = {d}
    Backends = {"mysql", "sqlite"}
    MaxFaults = 1
    MaxEdits = 1
    GoOn = FALSE
SPECIFICATION Spec
CHECK_DEADLOCK FALSE
INVARIANT RegistryInv
PROPERTY PendingReachesTable

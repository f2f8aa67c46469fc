SPECIFICATION Spec
CONSTANTS
    a = a
    b = b
    i = i
    j = j
    r1 = r1
    r2 = r2
    Nothing = Nothing
    Slugs <- MCSlugs
    Operators <- MCOperators
    Runs <- MCRuns
    Edits <- MCEdits
    Stages = {"code"}
    Attended = {"review"}
    MaxConcurrent = 1
    MaxCommands = 2
    MaxFaults = 1
INVARIANT FleetInv
PROPERTY HistoryIsKept
SYMMETRY Symmetric
CHECK_DEADLOCK FALSE

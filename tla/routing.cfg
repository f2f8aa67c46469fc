SPECIFICATION Spec
CONSTANTS
    i = i
    j = j
    Nobody = Nobody
    Nothing = Nothing
    Procs <- MCProcs
    PrefixIds <- MCPrefixIds
    Slugs <- MCSlugs
    Requests <- MCRequests
    Contexts <- MCContexts
    MaxCommands = 3
    MaxFaults = 1
    MaxLines = 3
    Cap = 2
    GuardrailCap = 1
    BlastRadius = 15
INVARIANT RoutingInv
PROPERTY ClosedIsFinal
SYMMETRY Symmetric
CHECK_DEADLOCK FALSE

CONSTANTS
    p = p
    q = q
    t = t
    i = i
    j = j
    Absent = Absent
    Nobody = Nobody
    NoTask = NoTask
    Plans = {p, q}
    Tasks = {t}
    RealTasks = {}
    Procs = {i, j}
    MaxBlocks = 3
    MaxCommands = 5
    MaxDeaths = 1
SPECIFICATION Spec
CHECK_DEADLOCK FALSE
INVARIANT QueueInv
PROPERTY OnlyHaltsReopen
SYMMETRY Symmetric

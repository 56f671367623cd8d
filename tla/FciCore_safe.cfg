CONSTANTS
    p1 = p1
    p2 = p2
    Procs = {p1, p2}
    s1 = s1
    s2 = s2
    Sockets = {s1, s2}
    Slaves = {slave}
    Local = local
    Worker = worker
    Ageing = ageing
    Others = {}
    Permitted = {local, slave}
    Slots <- MCSlots
    Conns = {c}
    QueueLen = 2
    Budgets <- MCBudgets
    None = None
SPECIFICATION Spec
\* The environment may have nothing left to do.
SYMMETRY Symmetry
CHECK_DEADLOCK FALSE
INVARIANTS OneCommandAtATime EventsToMaker ItemsAnnounced WaitsEnd

SPECIFICATION Spec
CONSTANTS
    n1 = n1
    n2 = n2
    n3 = n3
    Nodes = {n1, n2, n3}
    Faults = {"restore", "restart", "health", "save", "discard", "crash"}
    DryRuns = {TRUE, FALSE}
    MaxRenewed = 2
    Torn = Torn
    Mixed = Mixed
    Original = Original
SYMMETRY Symmetric
INVARIANTS
    TypeOK
    RollbackOrder
    StateMatchesResults
    SuccessMeansRestored
CHECK_DEADLOCK FALSE

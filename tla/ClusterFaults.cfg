SPECIFICATION Spec
CONSTANTS
    n1 = n1
    n2 = n2
    Nodes = {n1, n2}
    Failing = {n1}
    Unreliable = {n1}
    Aging = {n1}
    DryRuns = {n1}
    NoConditions = NoConditions
INVARIANT TypeOK
PROPERTIES
    OwnEntryOnly
    ImplementsNodePhase

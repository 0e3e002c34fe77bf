SPECIFICATION Spec
CONSTANTS
    n1 = n1
    n2 = n2
    Nodes = {n1, n2}
    Failing = {n1}
    Unreliable = {}
    Aging = {n1, n2}
    DryRuns = {}
    NoConditions = NoConditions
PROPERTY CriticalStaysShown

SPECIFICATION Spec
CONSTANT MaxRevision = 4
INVARIANTS
    TypeOK
    NeverAsleep
PROPERTIES
    RequestServed
    Attended
    DeletionQuiets

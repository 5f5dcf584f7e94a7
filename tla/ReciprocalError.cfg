CONSTANTS
    x1 = x1
    x2 = x2
    x3 = x3
    Vars <- OneVar
    CUBES = 3
    K = 1
    Algorithm = "vazirani"
    AliceDnfs <- AllDnfs
    BobDnfs <- AllDnfs
SPECIFICATION Spec
INVARIANTS
    ReciprocalWithinDocumentedError

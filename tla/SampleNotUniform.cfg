CONSTANTS
    x1 = x1
    x2 = x2
    x3 = x3
    Vars <- OneVar
    CUBES = 2
    K = 1
    Algorithm = "karp_luby"
    AliceDnfs <- AllDnfs
    BobDnfs <- AllDnfs
SPECIFICATION Spec
INVARIANTS
    SampleUniform

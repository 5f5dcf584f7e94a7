CONSTANTS
    x1 = x1
    x2 = x2
    x3 = x3
    Vars <- TwoVars
    CUBES = 2
    K = 2
    Algorithm = "karp_luby"
    AliceDnfs <- AllDnfs
    BobDnfs <- AllDnfs
SPECIFICATION Spec
INVARIANTS
    CanonicalIsFirstCover
    CoverageTheorem
    EverySampleReached
    ExactWhenDisjoint
PROPERTIES
    ImplementsCoverageAlgorithm

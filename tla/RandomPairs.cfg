CONSTANTS
    x1 = x1
    x2 = x2
    x3 = x3
    Vars <- ThreeVars
    CUBES = 2
    max_overlap = 1
SPECIFICATION Spec
INVARIANTS
    TypeOK
    OverlapBounded
    NeverReviolated
    SecondPassConfirms
PROPERTIES
    GenerationEnds

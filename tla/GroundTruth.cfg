CONSTANTS
    Junk = Junk
    Huge = Huge
    Vars <- TwoVars
    CUBES = 2
    PAIRS <- GeneratedPairs
SPECIFICATION Spec
INVARIANTS
    PlainMirrorsCircuit
    NoFileLeft
    TruthIsIntersection
    ZeroWhenEmpty

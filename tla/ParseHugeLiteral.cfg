CONSTANTS
    NoFile = NoFile
    Junk = Junk
    Huge = Huge
    Vars <- TwoVars
    CUBES = 2
    FILES <- OneLineFiles
SPECIFICATION Spec
INVARIANTS
    OutOfRangeThrows

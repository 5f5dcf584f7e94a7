CONSTANTS
    NoFile = NoFile
    Junk = Junk
    Huge = Huge
    Vars <- TwoVars
    CUBES = 2
    FILES <- AllFiles
SPECIFICATION Spec
INVARIANTS
    TypeOK
    ReturnsParsedDnf
    AcceptsWellFormed
    CubesMeanFile
PROPERTIES
    ParseEnds

CONSTANTS
    a = a
    b = b
    long = long
    none = none
    Names <- WithLong
    LongNames <- OnlyLong
    NoName = none
    MaxNodes = 4
    Paths <- SomePaths
    MaxOpen = 2
SPECIFICATION Spec
INVARIANTS TypeOK NlinkCountsNames NamedNodesAreReachable DirectoriesFormATree OpenFilesAreMapped
PROPERTIES ImplementsNamespace RefusalChangesNothing
CONSTRAINT Explored

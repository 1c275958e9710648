CONSTANTS
    a = a
    b = b
    long = long
    none = none
    Names <- TwoNames
    LongNames = {}
    NoName = none
    MaxNodes = 3
    Paths <- ShortPaths
    MaxOpen = 0
SPECIFICATION Spec
PROPERTIES RenameRefusesOnlyLoops

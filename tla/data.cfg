CONSTANTS
    f = f
    g = g
    Files = {f, g}
    Bytes = {0, 1}
    Unit = 2
    MaxInt = 7
    MaxAlloc = 4
    MaxLen = 1
    t1 = t1
    Threads = {t1}
    Names = {"a", "bb", "rsrc"}
    NameLen <- Lengths
    Reserved = "rsrc"
    Values <- SomeValues
    a1 = a1
    a2 = a2
    a3 = a3
    a4 = a4
    Arrays = {a1, a2, a3, a4}
    Nil = Nil
    MaxSize = 5
    Types = {"reg", "dir"}
    Perms = {1, 2}
    Ids = {0, 1}
    Flags = {0, 1}
    MaxTime = 1
SPECIFICATION SumSpec
CONSTRAINT Explored
INVARIANTS TypeOK ValuesComeWhole AskedSizeSuffices AttributesMakeSense
PROPERTIES ImplementsAbstractFile

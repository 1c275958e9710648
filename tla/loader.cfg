CONSTANTS
    t1 = t1
    t2 = t2
    good = good
    std = std
    broken = broken
    pgood = pgood
    pbroken = pbroken
    nolib = nolib
    nopath = nopath
    freed = freed
    Threads <- TwoThreads
    Libs <- AllLibs
    Paths <- AllPaths
    PathLib <- LibAt
    Default <- std
    NSyms = 2
    Exports <- TwoSyms
    NoLib <- nolib
    NoPath <- nopath
    Freed <- freed
    MaxCalls = 2
    Addresses = {1, 2}
    NProcs = 2
    ProcsOf <- WithProcs
    Sign = 2
    Inputs <- SomeCalls
    Scan <- Scanned
    Old = Old
    SizeT = 8
    Byte = 4
    Fail = Fail
    Torn = Torn
SPECIFICATION SumSpec
CHECK_DEADLOCK FALSE
INVARIANTS PublishedLibraryIsWhole LibraryIsWhole HandleFindsItsHost CallsCrossUnchanged ParsesAsDocumented
PROPERTIES LoadedOnce LoadingEnds

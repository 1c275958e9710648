CONSTANTS
    t1 = t1
    t2 = t2
    good = good
    std = std
    broken = broken
    pgood = pgood
    pbroken = pbroken
    nolib = nolib
    nopath = nopath
    freed = freed
    Threads <- OneThread
    Libs <- AllLibs
    Paths <- OnlyGood
    PathLib <- LibAtGood
    Default <- std
    NSyms = 2
    Exports <- TwoSyms
    NoLib <- nolib
    NoPath <- nopath
    Freed <- freed
    MaxCalls = 2
SPECIFICATION Spec
CHECK_DEADLOCK FALSE
INVARIANTS FirstMountsValueWins

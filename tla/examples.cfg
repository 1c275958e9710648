CONSTANTS
    Threads = {t1, t2}
    Ids = {0, 1, 2}
    Callers <- TwoCallers
    Files = {f, g}
    Fds = {0, 1}
    None = None
    Peak = 3
    MaxTicks = 13
SPECIFICATION SumSpec
CHECK_DEADLOCK FALSE
CONSTRAINT Explored
INVARIANTS IdsComeBack AloneActsAsCaller DescriptorsAreHandles ViewCatchesUp

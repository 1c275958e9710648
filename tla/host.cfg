CONSTANTS
    c1 = c1
    c2 = c2
    m1 = m1
    m2 = m2
    none = none
    Callers <- OneCaller
    MountPoints <- TwoPaths
    NoPath <- none
    MaxMounts = 3
    MaxInUse = 1
    UnmountMayFail = TRUE
SPECIFICATION FairSpec
CHECK_DEADLOCK FALSE
INVARIANTS TypeOK GoroutineStaysInItsMount ClosedChannelsAreStopped SignalsAreCaughtWhileServing FuseIsOfThisSession HandleLivesAsLongAsFuseMain
PROPERTIES SignalUnmountsOwnSession MountReturnsClean DetachedMountReturns CaughtSignalEndsMount ImplementsContract

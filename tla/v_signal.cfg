CONSTANTS
    c1 = c1
    c2 = c2
    m1 = m1
    m2 = m2
    none = none
    Callers <- OneCaller
    MountPoints <- OnePath
    NoPath <- none
    MaxMounts = 1
    MaxInUse = 1
    UnmountMayFail = TRUE
SPECIFICATION FairSpec
CHECK_DEADLOCK FALSE
PROPERTIES CaughtSignalIsServed

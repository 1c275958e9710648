CONSTANTS
    c1 = c1
    c2 = c2
    m1 = m1
    m2 = m2
    none = none
    Callers <- OneCaller
    MountPoints <- OnePath
    NoPath <- none
    MaxMounts = 2
    MaxInUse = 1
    UnmountMayFail = FALSE
SPECIFICATION Spec
CHECK_DEADLOCK FALSE
PROPERTIES UnmountActsOnItsSession
ACTION_CONSTRAINT CallersKeepToTheDoc

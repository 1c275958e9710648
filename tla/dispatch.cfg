SPECIFICATION Spec
CONSTANTS
    Threads = {t1, t2}
    Files = {f, g}
    Target = g
    Handles = {h1, h2}
    NoHandle = NoHandle
    Nil = Nil
    Free = Free
    FileSystems <- SomeFileSystems
    Builds <- BothTables
    Ops <- AllOps
CONSTRAINT Explored
INVARIANTS HandlesAgree CallsCarryTheirHandle SuccessIsEarned
PROPERTIES EveryRequestIsAnswered

CONSTANTS
    Runs = {r1, r2}
    Conns = {c1, c2}
    None = None
SPECIFICATION FairSpec
INVARIANTS
    TypeOK
    OneTickLoop
    ReturnedIsQuiet
    ResultExplained
PROPERTIES
    RunReturns
CHECK_DEADLOCK FALSE

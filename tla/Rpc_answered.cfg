CONSTANTS
    Types = {t1}
    None = None
    Oneofs = 2
    SendDepth = 1
    MaxCalls = 2
    MaxQueued = 2
SPECIFICATION FairSpec
PROPERTIES
    EveryCallAnswered

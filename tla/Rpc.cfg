CONSTANTS
    Types = {t1}
    None = None
    Oneofs = 2
    SendDepth = 2
    MaxCalls = 2
    MaxQueued = 2
SPECIFICATION FairSpec
INVARIANTS
    AnswersInOrder
    CallAccountedFor
PROPERTIES
    CallSettles

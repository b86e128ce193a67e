CONSTANTS
    PingInterval = 3
    PingTimeout = 18
    MaxGap = 2
    MaxLag = 1
    Rtt = 3
    MaxLoss = 2
SPECIFICATION Spec
INVARIANTS
    TypeOK
    NoFalseTimeout
    
    DeathNoticed

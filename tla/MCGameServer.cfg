CONSTANTS
    None = None
    Conns = {c1, c2}
    Players = {1, 2}
    Addrs = {a1}
    EventDepth = 1
    SendDepth = 1
    PingTimeout = 1
    Elapsed = {1}
    TcpFrames = {"login"}
    UdpFrames = {"game"}
    Sockets <- SharedSockets
    Pipelined = TRUE
    MaxFrames = 1
    MaxDatagrams = 2
    Topics = {t1}
SPECIFICATION GameSpec
SYMMETRY Symmetric
INVARIANTS
    RegistryConsistent
    UdpRouteSound
    ReadyReachable
    PairedByTokenHolder
    MapsStayTight
    MapsInverse
    NoneLeftBehind
PROPERTIES
    ReleasedByCleanup
    ImplementsPlayerSessions
    UsesSubManager
    ImplementsSubscriptions

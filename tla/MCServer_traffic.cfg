CONSTANTS
    None = None
    Conns = {c1}
    Players = {1}
    Addrs = {a1}
    EventDepth = 2
    SendDepth = 1
    PingTimeout = 1
    Elapsed = {1}
    TcpFrames = {"login", "malformed", "pong", "game", "rpc", "other"}
    UdpFrames = {"game"}
    Sockets <- SharedSockets
    Pipelined = TRUE
    MaxFrames = 3
    MaxDatagrams = 2
SPECIFICATION FairSpec
INVARIANTS
    TypeOK
    DisconnectAccounted
    HandlerLiveOrReplaced
PROPERTIES
    NoConnectAfterDisconnect
    ImplementsPlayerSessions
    ReaderExitCleansUp
    RefusedIsHungUp
    SilenceEndsSession

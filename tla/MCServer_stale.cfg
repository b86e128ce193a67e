CONSTANTS
    None = None
    Conns = {c1, c2}
    Players = {1}
    Addrs = {a1}
    EventDepth = 3
    SendDepth = 1
    PingTimeout = 1
    Elapsed = {1}
    TcpFrames = {"login", "game"}
    UdpFrames = {}
    Sockets <- SharedSockets
    Pipelined = FALSE
    MaxFrames = 2
    MaxDatagrams = 1
SPECIFICATION Spec
SYMMETRY Symmetric
INVARIANTS
    HandlersSeeLiveSessions

CONSTANTS
    None = None
    Conns = {c1}
    Players = {1}
    Addrs = {}
    EventDepth = 1
    SendDepth = 1
    PingTimeout = 1
    Elapsed = {1}
    TcpFrames = {"login", "game"}
    UdpFrames = {}
    Sockets <- SharedSockets
    Pipelined = TRUE
    MaxFrames = 3
    MaxDatagrams = 0
SPECIFICATION FairSpec
PROPERTIES
    OverflowDisconnects

CONSTANTS
    None = None
    Conns = {c1, c2}
    Players = {1}
    Addrs = {}
    EventDepth = 2
    SendDepth = 1
    PingTimeout = 1
    Elapsed = {1}
    TcpFrames = {"login"}
    UdpFrames = {}
    Sockets <- SharedSockets
    Pipelined = TRUE
    MaxFrames = 2
    MaxDatagrams = 0
SPECIFICATION Spec
SYMMETRY Symmetric
INVARIANTS
    CleanedStaysOut

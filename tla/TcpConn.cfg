CONSTANTS
    SendDepth = 2
    MaxPushes = 3
SPECIFICATION FairSpec
PROPERTIES
    SilentAfterCleanup
    ShutdownCompletes
    CleanupUnblocks

CONSTANTS
    SendDepth = 1
    MaxPushes = 1
SPECIFICATION FairSpec
PROPERTIES
    WriterExits

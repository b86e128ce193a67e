CONSTANTS
    Base = 2
    HeaderSize = 2
    MaxFrameLen = 2
    MaxPayload = 3
    MaxFrames = 3
SPECIFICATION FairSpec
INVARIANTS
    TypeOK
    ReceivedAsWritten
    ErrorsAreTrue
PROPERTIES
    FramesArrive
CHECK_DEADLOCK FALSE

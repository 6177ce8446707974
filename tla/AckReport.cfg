\* Liveness: every packet that has to be acknowledged is reported.
CONSTANTS
    MaxPackno = 1
    MaxOut = 2
    MaxRanges = 0
    RetxSinceAck = 2
    AnySinceAck = 2
    SendFails = FALSE
SPECIFICATION FairSpec
PROPERTY EveryPacketIsReported
CHECK_DEADLOCK FALSE

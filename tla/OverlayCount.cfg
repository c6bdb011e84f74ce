CONSTANTS
    MaxSize = 20
    BitLengths = {1, 63, 64, 65, 256, 4000, 65535, 65536, 65537, 131072, 524207, 524208, 524288, 524352, 524353}
    LastBits = {0, 62, 64, 65535, 65536, 524287}
    OverlaySize = 5
    OverlayCount = 8
    OverlayFailures = 1
    None = None
SPECIFICATION ASpec
INVARIANT MakesMaxCount
CHECK_DEADLOCK FALSE

SPECIFICATION FairSpec
CONSTANTS
    b1 = b1
    b2 = b2
    Browsers = {b1, b2}
    Operators = {b1, b2}
    SizeOf <- MCSizeOf
    MaxEvents = 1
    MaxFrames = 2
    MaxBytes = 3
    MaxControl = 1
    NoBrowser = NoBrowser
    NoItem = NoItem
INVARIANTS
    TypeOK
    WriterIsSubscribed
    ChannelsBounded
    NoSilentLoss
    OneLateKeystroke
PROPERTIES
    DeliveredInOrder
    SlowReaderLeaves
CHECK_DEADLOCK FALSE

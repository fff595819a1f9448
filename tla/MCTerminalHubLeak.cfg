SPECIFICATION Spec
CONSTANTS
    b1 = b1
    b2 = b2
    Browsers = {b1, b2}
    Operators = {b1, b2}
    SizeOf <- MCSizeOf
    MaxEvents = 1
    MaxFrames = 1
    MaxBytes = 2
    MaxControl = 1
    NoBrowser = NoBrowser
    NoItem = NoItem
INVARIANTS
    SubscriberHasGateway
CHECK_DEADLOCK FALSE

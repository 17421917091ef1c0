SPECIFICATION Spec
CONSTANTS
    ByteBase = 4
    Messages <- MCMessages
    MaxMessages = 3
INVARIANT EveryMessagePrinted
CHECK_DEADLOCK FALSE

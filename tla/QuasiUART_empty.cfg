SPECIFICATION Spec
CONSTANTS
    ByteBase = 4
    Messages <- MCWithEmpty
    MaxMessages = 3
INVARIANT EveryMessagePrinted
CHECK_DEADLOCK FALSE

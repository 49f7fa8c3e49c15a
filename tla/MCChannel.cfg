CONSTANT MaxMessages = 3
SPECIFICATION Spec
INVARIANTS
    DeliveredThenClosed
    MapLeadsToProxy
PROPERTIES
    ImplementsContract
    CloseIsSeen
CHECK_DEADLOCK FALSE

CONSTANTS
    MessageSize = 3
    MaxWrites = 3
    ReadSizes <- MCReadSizes
    MaxRead = 2
SPECIFICATION Spec
INVARIANTS
    OneWaiterForPendingWrites
    StreamsIntact
PROPERTIES
    AcceptedIsWritten
    DeathIsReported
CHECK_DEADLOCK FALSE

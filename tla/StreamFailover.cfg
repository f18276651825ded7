\* Two flows, one after the other; packets of the first may arrive at any time
\* later, or never.  The application resizes its receive buffer.
SPECIFICATION Spec
CONSTANTS
    MTU = 1
    InitMaxTsn = 9
    RootParent = FALSE
    WriteSizes = {}
    MessageSizes = {1}
    CloseSizes = {0}
    MaxBytes = 2
    MaxWrites = 2
    MaxFlows = 2
    MaxFaults = 0
    MinReceiveBuffer = 2
    ReceiveBuffers = {2, 4}
    ReadSizes = {1}
INVARIANTS
    BufferAccounting
    RetainedUntilAcked
    FlightBytes
CHECK_DEADLOCK FALSE

\* One flow, which may lose a packet or presume one lost; a message of two
\* segments, a plain write and the close, in any order the writer can choose.
SPECIFICATION FairSpec
CONSTANTS
    MTU = 2
    InitMaxTsn = 9
    RootParent = TRUE
    WriteSizes = {1}
    MessageSizes = {3}
    CloseSizes = {0}
    MaxBytes = 4
    MaxWrites = 3
    MaxFlows = 1
    MaxFaults = 1
    MinReceiveBuffer = 4
    ReceiveBuffers = {4}
    ReadSizes = {2, 5}
INVARIANTS
    BytesInOrder
    GapFillable
    EveryByteHeld
    QueuedWillBeSent
    MessageFraming
PROPERTIES
    StreamPromise
    AllDelivered
CHECK_DEADLOCK FALSE

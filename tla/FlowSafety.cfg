SPECIFICATION Spec
CONSTANTS
    A = a
    B = b
    CCModes = {"CC_FIXED"}
    CwndMin = 2
    CwndMax = 4
    SeqMod = 10
    AckMod = 32
    MaskBits = 3
    AckctMax = 2
    MissThresh = 2
    AckAckPackets = 2
    MaxPacketSeq = 12
    MaxDataA = 11
    MaxDataB = 1
    Stoppable = {b}
    MaxAcks = 2
    Burst = 4
    MaxBoth = 2
CONSTRAINT
    Scenarios
INVARIANTS
    TypeOK
    RecordsInRange
    InFlightAccounting
    OneVerdict
    SettledBeforeExpiry
    AtMostOnce
    AckSound
    AckNotForgotten
    RetransmitArmed
CHECK_DEADLOCK FALSE

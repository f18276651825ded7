SPECIFICATION FairSpec
CONSTANTS
    A = a
    B = b
    CCModes = {"CC_TCP", "CC_VEGAS", "CC_DELAY", "CC_AGGRESSIVE"}
    CwndMin = 1
    CwndMax = 4
    SeqMod = 32
    AckMod = 32
    MaskBits = 2
    AckctMax = 1
    MissThresh = 1
    AckAckPackets = 2
    MaxPacketSeq = 6
    MaxDataA = 2
    MaxDataB = 0
    Stoppable = {a}
PROPERTIES
    EventualVerdict
    EventualAck
    WindowReopens
CHECK_DEADLOCK FALSE

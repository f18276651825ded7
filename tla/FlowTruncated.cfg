SPECIFICATION Spec
CONSTANTS
    A = a
    B = b
    CCModes = {"CC_FIXED"}
    CwndMin = 2
    CwndMax = 4
    SeqMod = 32
    AckMod = 4
    MaskBits = 2
    AckctMax = 1
    MissThresh = 1
    AckAckPackets = 2
    MaxPacketSeq = 12
    MaxDataA = 4
    MaxDataB = 0
    Stoppable = {}
INVARIANTS
    AckNotForgotten
CHECK_DEADLOCK FALSE

SPECIFICATION FairSpec
CONSTANTS
    a = a
    b = b
    p = p
    q = q
    Host = {a, b}
    Attempt = {p, q}
    Home <- MCHome
    At <- MCAt
    Idr <- MCIdr
    Method <- MCMethod
    NoFlow = NoFlow
    MaxChan <- MCMaxChan
    Tries = 2
    MaxNonces = 3
    MaxFaults = 1
INVARIANTS
    Agreement
    EarlyLeavesNoState
    OneFlowPerExchange
PROPERTIES
    Terminates
CHECK_DEADLOCK FALSE

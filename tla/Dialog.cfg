SPECIFICATION FairSpec
CONSTANTS
    Services = {"web", "ftp"}
    Registered = {"web"}
    SidMod = 16
    ListenModes = {"accept"}
    Calls <- DialogCalls
    CWnd = 2
    MaxConnects = 1
    MaxCalls = 2
    MaxFaults = 1
INVARIANTS SameStream ServedAsAsked HandedOnce
PROPERTY Answered
CHECK_DEADLOCK FALSE

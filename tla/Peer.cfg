SPECIFICATION FairSpec
CONSTANTS
    Client = {c}
    Addr = {d, e, x}
    Full = {x}
    Known = {}
    FirstStage = "early"
    Flow = {f, g}
    NoFlow = NoFlow
    Strm = {s, t}
    StallMax = 2
INVARIANTS
    AttachedToPrimary
    WaitersServed
PROPERTIES
    StallSearches
CHECK_DEADLOCK FALSE

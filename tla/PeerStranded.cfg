SPECIFICATION AnsweringSpec
CONSTANTS
    Client = {c}
    Addr = {d}
    Full = {}
    Known = {d}
    FirstStage = "late"
    Flow = {f}
    NoFlow = NoFlow
    Strm = {s}
    StallMax = 2
PROPERTIES
    SignalEventually
CHECK_DEADLOCK FALSE

SPECIFICATION Spec
CONSTANTS
    Radix = 4
    ControlMarker = 1
    MaxControlMessage = 16
    ShellBufferSize = 2
    ReadMax = 2
    MaxPiece = 2
    MaxEscapes = 2
    Input <- MCInput
    Output <- MCOutput
    IsTty = TRUE
    Tios <- MCTios
    Portable = {"ECHO", "ICANON"}
    Speeds = {9600}
    TerminalMsg <- MCTerminalMsg
    ShellMsg <- MCShellMsg
    ExitMsg <- MCExitMsg
    NoPty = NoPty
INVARIANTS
    FramesIntactToMarker
    BytesForwarded
    BacklogBounded
CHECK_DEADLOCK FALSE

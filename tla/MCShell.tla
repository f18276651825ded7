------------------------------ MODULE MCShell ------------------------------
(* Instance of Shell: a terminal, whose message holds a marker and needs   *)
(* two bytes of length; there is a marker among the input too.             *)
EXTENDS Shell

MCInput       == <<2, 5, 3, 1, 6>>
MCOutput      == <<7>>
MCTios        == [flags |-> {"ECHO", "IMAXBEL"}, size |-> "CS5", speed |-> 115200]
MCTerminalMsg == <<1, 0, 1, 7, 1>>
MCShellMsg    == <<2>>
MCExitMsg     == <<4, 1>>
=============================================================================

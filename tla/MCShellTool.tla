---------------------------- MODULE MCShellTool ----------------------------
(* Instances of ShellTool for TLC: two concurrent invocations, timeouts of *)
(* 0 and 1 second or the default 60, commands of 1, 60 and 61 seconds (on, *)
(* and just past, the default deadline) and one that never exits.  The     *)
(* clock counts to 61 seconds, the longest command that exits.             *)
EXTENDS ShellTool, TLC

MCTimeoutVals == {0, 1}
MCDurations == {1, 60, 61, Forever}
MCExitCodes == {0, 2}
MCMaxClock == 61
=============================================================================

-------------------------- MODULE MCDebugSession --------------------------
(* Values for DebugSession: one line, or two that are set in turn, and     *)
(* together where requests overlap; pause does what attach has done, and   *)
(* variables is stackTrace with an answer that never parses, as the        *)
(* state's does not with two lines.                                        *)
EXTENDS DebugSession

OneLine == {1}
OneList == {{}, {1}}
TwoLines == {1, 2}
TwoLists == {{}, {1}, {2}}
ThreeCommands == {"continue", "next", "stackTrace"}

=============================================================================

------------------------------- MODULE MCWin -------------------------------
(* LcdWindows for TLC: which keys, calls and bounds a run uses is in its cfg. *)
EXTENDS LcdWindows
=============================================================================

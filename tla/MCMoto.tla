------------------------------- MODULE MCMoto -------------------------------
(* Instances of MotoControl for TLC.                                        *)
EXTENDS MotoControl

\* lcd_task only, or the shell's Moto_Cycle as well
OneCaller == {"lcd_task"}
TwoCallers == {"lcd_task", "tshell"}
NoShell == {}
==============================================================================

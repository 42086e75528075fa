------------------------------ MODULE MCScreen ------------------------------
(* Instances of ScreenPower for TLC.                                        *)
EXTENDS ScreenPower
==============================================================================

------------------------------ MODULE MCButton ------------------------------
(* Instances of Button for TLC.                                            *)
EXTENDS Button, TLC

CONSTANTS enter, down
TwoKeys == {enter, down}
HeadFirst == <<enter, down>>
==============================================================================

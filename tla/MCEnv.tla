------------------------------- MODULE MCEnv -------------------------------
(* Instances of EnvStore for TLC.                                          *)
EXTENDS EnvStore, TLC

CONSTANTS week, day
TwoKeys == {week, day}
TwoValues == {0, 1}
==============================================================================

------------------------------- MODULE MCLock -------------------------------
(* Instances of EnvLock for TLC: the threads that call Flash_Set.          *)
EXTENDS EnvLock, TLC

CONSTANTS timer, moto, button, rtc, lcd
CallingThreads == {timer, moto, button, rtc, lcd}
Priorities == timer :> 4 @@ moto :> 5 @@ button :> 5 @@ rtc :> 10 @@ lcd :> 15
==============================================================================

------------------------- MODULE MotoControlProofs -------------------------
(***************************************************************************)
(* Proofs about MotoControl, for every set of callers and every value of   *)
(* the bounds.                                                             *)
(***************************************************************************)
EXTENDS MotoControl, FiniteSets, FiniteSetTheorems, TLAPS

\* Every variable of MotoControl keeps its type.
THEOREM TypeCorrect == Spec => []TypeOK
<1>1. Moto_Init => TypeOK
  BY MotoConstants DEF MotoConstants, Moto_Init, TypeOK, MotoBits, JumpBits
<1>2. TypeOK /\ [Next]_vars => TypeOK'
  <2> SUFFICES ASSUME TypeOK, [Next]_vars PROVE TypeOK'
    OBVIOUS
  <2> USE MotoConstants DEF MotoConstants, TypeOK, MotoBits, JumpBits
  <2>1. CASE Move
    BY <2>1 DEF Move, timer
  <2>2. CASE Poll
    BY <2>2 DEF Poll, Moto_Free_Event_Release, RightDone, LeftDone, StopMotor, PinsOff, timer
  <2>3. CASE Settled
    BY <2>3 DEF Settled, hw, timer
  <2>4. CASE Overload
    BY <2>4 DEF Overload, StopMotor, PinsOff, timer
  <2>5. CASE NoOverload
    BY <2>5 DEF NoOverload, hw, timer
  <2>6. CASE Stalled
    BY <2>6 DEF Stalled, rt_timer_stop, hw, timer
  <2>7. CASE Recv
    BY <2>7 DEF Recv, SwitchEvent, StopMotor, PinsOff
  <2>8. CASE Moto_Cycle_Timer_Callback
    <3>1. Moto_Event' \subseteq MotoBits
      BY <2>8 DEF Moto_Cycle_Timer_Callback, AskBack, TimerLeavesList
    <3>2. timerActivated' \in {0, 1} /\ Moto_Cycle_Timer' \in 0 .. MinLoops + 1
      BY <2>8 DEF Moto_Cycle_Timer_Callback, AskBack, TimerLeavesList
    <3>3. timerPc' \in {"idle", "jumpd"}
      BY <2>8 DEF Moto_Cycle_Timer_Callback, AskBack, TimerLeavesList
    <3>4. Counter_Error' \in Nat
      BY <2>8 DEF Moto_Cycle_Timer_Callback, AskBack, TimerLeavesList
    <3>5. screenTimers' \in {"running", "stopped", "expired"}
      BY <2>8 DEF Moto_Cycle_Timer_Callback, AskBack, TimerLeavesList
    <3>6. UNCHANGED <<hw, MotoWorkFlag, motoPc, cyc, lcd_jump_event, cycles>>
      BY <2>8 DEF Moto_Cycle_Timer_Callback, AskBack, TimerLeavesList
    <3>7. QED
      BY <3>1, <3>2, <3>3, <3>4, <3>5, <3>6 DEF hw
  <2>9. CASE CallbackReturns
    BY <2>9 DEF CallbackReturns, hw
  <2>10. CASE EnterLowPower
    BY <2>10 DEF EnterLowPower, PinsOff, timer
  <2>11. ASSUME NEW c \in Callers, Moto_Cycle(c) PROVE TypeOK'
    <3>1. cyc' \in [Callers -> {"idle", "send", "start"}]
      BY <2>11 DEF Moto_Cycle
    <3>2. cycles' \in Nat /\ screenTimers' \in {"running", "stopped", "expired"}
      BY <2>11 DEF Moto_Cycle
    <3>3. lcd_jump_event' \subseteq JumpBits
      BY <2>11 DEF Moto_Cycle
    <3>4. UNCHANGED <<hw, MotoWorkFlag, Moto_Event, timer, timerPc, motoPc, Counter_Error>>
      BY <2>11 DEF Moto_Cycle
    <3>5. QED
      BY <3>1, <3>2, <3>3, <3>4 DEF hw, timer
  <2>12. ASSUME NEW c \in Callers, CallerGoesOn(c) PROVE TypeOK'
    <3>1. CASE CycleSendForward(c)
      BY <2>12, <3>1 DEF CycleSendForward, hw, timer
    <3>2. CASE CycleStartTimer(c)
      BY <2>12, <3>2 DEF CycleStartTimer, hw, timer
    <3>3. QED
      BY <2>12, <3>1, <3>2 DEF CallerGoesOn
  <2>13. ASSUME NEW bit \in ShellCommands, Shell(bit) PROVE TypeOK'
    BY <2>13 DEF Shell, hw, timer
  <2>14. CASE KeyPress
    BY <2>14 DEF KeyPress, hw, timer
  <2>15. CASE UNCHANGED vars
    BY <2>15 DEF vars, hw, timer
  <2>16. QED
    BY <2>1, <2>2, <2>3, <2>4, <2>5, <2>6, <2>7, <2>8, <2>9, <2>10, <2>11, <2>12,
       <2>13, <2>14, <2>15 DEF Next, MotoThread, TimerThread
<1>3. QED
  BY <1>1, <1>2, PTL DEF Spec
----------------------------------------------------------------------------
\* The motor is never powered outside the loop's supervision, and never while
\* Moto_Thread is blocked at the right switch or in the flash write of jumpb:
\* for every interleaving, with shell commands and sleeps at any moment.
THEOREM Supervised == Spec => []DriveSupervised
<1>1. Moto_Init => DriveSupervised
  BY DEF Moto_Init, DriveSupervised, BlockedMeansStopped, Driven
<1>2. TypeOK /\ DriveSupervised /\ [Next]_vars => DriveSupervised'
  <2> SUFFICES ASSUME TypeOK, DriveSupervised, [Next]_vars PROVE DriveSupervised'
    OBVIOUS
  <2> USE DEF TypeOK, DriveSupervised, BlockedMeansStopped, Driven
  <2>1. CASE Move
    BY <2>1 DEF Move
  <2>2. CASE Poll
    BY <2>2 DEF Poll, Moto_Free_Event_Release, RightDone, LeftDone, StopMotor, PinsOff
  <2>3. CASE Settled \/ NoOverload
    BY <2>3 DEF Settled, NoOverload, hw
  <2>4. CASE Overload
    BY <2>4 DEF Overload, StopMotor, PinsOff
  <2>5. CASE Stalled
    BY <2>5 DEF Stalled, hw
  <2>6. CASE Recv
    BY <2>6 DEF Recv, SwitchEvent, StopMotor, PinsOff
  <2>7. CASE TimerThread
    BY <2>7 DEF TimerThread, Moto_Cycle_Timer_Callback, AskBack, CallbackReturns, hw
  <2>8. CASE EnterLowPower
    BY <2>8 DEF EnterLowPower, PinsOff
  <2>9. ASSUME NEW c \in Callers, Moto_Cycle(c) \/ CallerGoesOn(c) PROVE DriveSupervised'
    BY <2>9 DEF Moto_Cycle, CallerGoesOn, CycleSendForward, CycleStartTimer, hw
  <2>10. ASSUME NEW bit \in ShellCommands, Shell(bit) PROVE DriveSupervised'
    BY <2>10 DEF Shell, hw
  <2>11. CASE KeyPress
    BY <2>11 DEF KeyPress, hw
  <2>12. CASE UNCHANGED vars
    BY <2>12 DEF vars, hw
  <2>13. QED
    BY <2>1, <2>2, <2>3, <2>4, <2>5, <2>6, <2>7, <2>8, <2>9, <2>10, <2>11, <2>12
       DEF Next, MotoThread
<1>3. QED
  BY <1>1, <1>2, TypeCorrect, PTL DEF Spec
----------------------------------------------------------------------------
\* Every pending Back bit is one that PendingBack describes, as long as no
\* operator sends bits from the shell and the device does not sleep mid-cycle.
THEOREM BackIsPending ==
  ASSUME ShellCommands = {}, SleepMidCycle = FALSE
  PROVE  Spec => []PendingBack
<1>1. Moto_Init => PendingBack
  BY DEF Moto_Init, PendingBack
<1>2. TypeOK /\ DriveSupervised /\ PendingBack /\ [Next]_vars => PendingBack'
  <2> SUFFICES ASSUME TypeOK, DriveSupervised, PendingBack, [Next]_vars
               PROVE  PendingBack'
    OBVIOUS
  <2> USE DEF TypeOK, PendingBack
  <2>1. CASE Move
    BY <2>1 DEF Move, DriveSupervised
  <2>2. CASE Poll
    <3>1. CASE RightDone
      BY <2>2, <3>1 DEF Poll, RightDone
    <3>2. CASE LeftDone
      BY <2>2, <3>2 DEF Poll, LeftDone, StopMotor, PinsOff, MOTO_LEFT
    <3>3. CASE UNCHANGED <<MOTO_IN1, MOTO_IN2, Moto_Event>>
      BY <2>2, <3>3 DEF Poll
    <3>4. QED
      BY <2>2, <3>1, <3>2, <3>3 DEF Poll, Moto_Free_Event_Release
  <2>3. CASE Settled \/ NoOverload
    BY <2>3 DEF Settled, NoOverload, hw
  <2>4. CASE Overload
    BY <2>4 DEF Overload
  <2>5. CASE Stalled
    BY <2>5 DEF Stalled
  <2>6. CASE Recv
    BY <2>6 DEF Recv
  <2>7. CASE TimerThread
    BY <2>7 DEF TimerThread, Moto_Cycle_Timer_Callback, AskBack, CallbackReturns, MOTO_RIGHT, hw
  <2>8. CASE EnterLowPower
    BY <2>8 DEF EnterLowPower, CycleIdle
  <2>9. ASSUME NEW c \in Callers, Moto_Cycle(c) \/ CallerGoesOn(c) PROVE PendingBack'
    BY <2>9 DEF Moto_Cycle, CallerGoesOn, CycleSendForward, CycleStartTimer, hw
  <2>10. CASE KeyPress
    BY <2>10 DEF KeyPress, hw
  <2>11. CASE UNCHANGED vars
    BY <2>11 DEF vars, hw
  <2>12. QED
    BY <2>1, <2>2, <2>3, <2>4, <2>5, <2>6, <2>7, <2>8, <2>9, <2>10, <2>11
       DEF Next, MotoThread
<1>3. QED
  BY <1>1, <1>2, TypeCorrect, Supervised, PTL DEF Spec

\* The motor starts driving back only while the valve is at the right switch:
\* only Recv sets MOTO_IN1, and only for a lone Back bit.
THEOREM BackFromRight ==
  ASSUME ShellCommands = {}, SleepMidCycle = FALSE
  PROVE  Spec => BackStartsAtRight
<1> DEFINE Start == MOTO_IN1 = 0 /\ MOTO_IN1' = 1 => pos = "right"
<1>1. TypeOK /\ PendingBack /\ [Next]_vars => [Start]_vars
  <2> SUFFICES ASSUME TypeOK, PendingBack, Next, MOTO_IN1 = 0, MOTO_IN1' = 1
               PROVE  pos = "right"
    OBVIOUS
  <2>1. CASE Recv
    <3>1. Moto_Event = {"Back"} /\ MOTO_LEFT = 1 /\ motoPc = "recv"
      BY <2>1 DEF Recv, SwitchEvent, ClearToGoBack, StopMotor, PinsOff
    <3>2. QED
      BY <3>1 DEF PendingBack, MOTO_LEFT
  <2>2. CASE Move
    BY <2>2 DEF Move
  <2>3. CASE Poll
    BY <2>3 DEF Poll, Moto_Free_Event_Release, RightDone, LeftDone, StopMotor, PinsOff
  <2>4. CASE Settled \/ NoOverload \/ Stalled
    BY <2>4 DEF Settled, NoOverload, Stalled, hw
  <2>5. CASE Overload \/ EnterLowPower
    BY <2>5 DEF Overload, EnterLowPower, StopMotor, PinsOff
  <2>6. CASE TimerThread
    BY <2>6 DEF TimerThread, Moto_Cycle_Timer_Callback, AskBack, CallbackReturns, hw
  <2>7. ASSUME NEW c \in Callers, Moto_Cycle(c) \/ CallerGoesOn(c) PROVE MOTO_IN1' = MOTO_IN1
    BY <2>7 DEF Moto_Cycle, CallerGoesOn, CycleSendForward, CycleStartTimer, hw
  <2>8. CASE KeyPress
    BY <2>8 DEF KeyPress, hw
  <2>9. QED
    BY <2>1, <2>2, <2>3, <2>4, <2>5, <2>6, <2>7, <2>8 DEF Next, MotoThread
<1>2. QED
  BY <1>1, TypeCorrect, BackIsPending, PTL DEF Spec, BackStartsAtRight
----------------------------------------------------------------------------
\* Without a sleep in mid-cycle, MotoWorkFlag 2 means that the motor is being
\* driven back, so Moto_Cycle refuses a cycle only for a working motor.
THEOREM WorkingIsDriven ==
  ASSUME SleepMidCycle = FALSE
  PROVE  Spec => []WorkingMeansDriven
<1>1. Moto_Init => WorkingMeansDriven
  BY DEF Moto_Init, WorkingMeansDriven
<1>2. TypeOK /\ WorkingMeansDriven /\ [Next]_vars => WorkingMeansDriven'
  <2> SUFFICES ASSUME TypeOK, WorkingMeansDriven, [Next]_vars PROVE WorkingMeansDriven'
    OBVIOUS
  <2> USE DEF TypeOK, WorkingMeansDriven
  <2>1. CASE Move
    BY <2>1 DEF Move
  <2>2. CASE Poll
    BY <2>2 DEF Poll, Moto_Free_Event_Release, RightDone, LeftDone, StopMotor, PinsOff
  <2>3. CASE Settled \/ NoOverload \/ Stalled
    BY <2>3 DEF Settled, NoOverload, Stalled, hw
  <2>4. CASE Overload
    BY <2>4 DEF Overload, StopMotor
  <2>5. CASE Recv
    BY <2>5 DEF Recv, SwitchEvent, StopMotor
  <2>6. CASE TimerThread
    BY <2>6 DEF TimerThread, Moto_Cycle_Timer_Callback, CallbackReturns, hw
  <2>7. CASE EnterLowPower
    BY <2>7 DEF EnterLowPower, CycleIdle
  <2>8. ASSUME NEW c \in Callers, Moto_Cycle(c) \/ CallerGoesOn(c)
        PROVE  WorkingMeansDriven'
    BY <2>8 DEF Moto_Cycle, CallerGoesOn, CycleSendForward, CycleStartTimer, hw
  <2>9. ASSUME NEW bit \in ShellCommands, Shell(bit) PROVE WorkingMeansDriven'
    BY <2>9 DEF Shell, hw
  <2>10. CASE KeyPress
    BY <2>10 DEF KeyPress, hw
  <2>11. CASE UNCHANGED vars
    BY <2>11 DEF vars, hw
  <2>12. QED
    BY <2>1, <2>2, <2>3, <2>4, <2>5, <2>6, <2>7, <2>8, <2>9, <2>10, <2>11
       DEF Next, MotoThread
<1>3. QED
  BY <1>1, <1>2, TypeCorrect, PTL DEF Spec
----------------------------------------------------------------------------
(* Failures per cycle.                                                     *)

Sending == {c \in Callers : cyc[c] = "send"}
Starting == {c \in Callers : cyc[c] = "start"}
Count(P) == IF P THEN 1 ELSE 0

\* Every cycle that is accepted may be counted as a failure twice.  The two
\* credits start with the caller; one goes with the Forward bit to the drive
\* and is spent by an overload, the other goes to the timer and is spent by its
\* callback, or goes with the Back bit to the drive on the way back.
Drive == Count(MotoWorkFlag # 0 \/ motoPc \in {"settle", "adc"})
Pending == Count("Forward" \in Moto_Event) + Count("Back" \in Moto_Event)
Unspent ==
    2 * Cardinality(Sending) + Cardinality(Starting)
        + Pending + Drive + Count(Moto_Cycle_Timer # 0)

Credits ==
    /\ IsFiniteSet(Sending) /\ IsFiniteSet(Starting)
    /\ Counter_Error + Unspent <= 2 * cycles

\* A step that leaves the callers alone and spends no more than it has.
LEMMA Spend ==
    ASSUME TypeOK, TypeOK', Credits, UNCHANGED <<cyc, cycles>>,
           Counter_Error' + Pending' + Drive' + Count(Moto_Cycle_Timer' # 0)
               <= Counter_Error + Pending + Drive + Count(Moto_Cycle_Timer # 0)
    PROVE  Credits'
<1>1. Sending' = Sending /\ Starting' = Starting
  BY DEF Sending, Starting
<1>2. /\ Pending \in Int /\ Drive \in Int /\ Count(Moto_Cycle_Timer # 0) \in Int
      /\ Pending' \in Int /\ Drive' \in Int /\ Count(Moto_Cycle_Timer' # 0) \in Int
  BY DEF Pending, Drive, Count
<1>3. Cardinality(Sending) \in Nat /\ Cardinality(Starting) \in Nat
  BY FS_CardinalityType DEF Credits
<1>4. Counter_Error \in Nat /\ Counter_Error' \in Nat /\ cycles \in Nat
  BY DEF TypeOK
<1> QED
  BY <1>1, <1>2, <1>3, <1>4 DEF Credits, Unspent

LEMMA CreditStep ==
    ASSUME ShellCommands \subseteq {"Free"}, TypeOK, TypeOK', Credits, [Next]_vars
    PROVE  Credits'
<1>1. CASE Move \/ KeyPress \/ Settled \/ NoOverload \/ CallbackReturns \/ EnterLowPower
           \/ UNCHANGED vars
  <2>1. UNCHANGED <<cyc, cycles, Counter_Error, Moto_Event, Moto_Cycle_Timer, MotoWorkFlag>>
    BY <1>1 DEF Move, KeyPress, Settled, NoOverload, CallbackReturns, EnterLowPower, vars, timer
  <2>2. motoPc' \in {"settle", "adc"} => motoPc \in {"settle", "adc"}
    BY <1>1 DEF Move, KeyPress, Settled, NoOverload, CallbackReturns, EnterLowPower, vars
  <2> QED
    BY <2>1, <2>2, Spend DEF Pending, Drive, Count, TypeOK
<1>2. CASE Poll
  <2>1. UNCHANGED <<cyc, cycles, Counter_Error, Moto_Cycle_Timer>>
    BY <1>2 DEF Poll, timer
  <2>2. /\ "Forward" \in Moto_Event' <=> "Forward" \in Moto_Event
        /\ "Back" \in Moto_Event' <=> "Back" \in Moto_Event
    BY <1>2 DEF Poll, Moto_Free_Event_Release, RightDone, LeftDone
  <2>3. MotoWorkFlag = 0 => MotoWorkFlag' = 0 /\ motoPc' = "recv"
    BY <1>2 DEF Poll
  <2> QED
    BY <2>1, <2>2, <2>3, Spend DEF Pending, Drive, Count, TypeOK
<1>3. CASE Overload
  <2>1. /\ UNCHANGED <<cyc, cycles, Moto_Cycle_Timer, Moto_Event>>
        /\ Counter_Error' = Counter_Error + 1
        /\ motoPc = "adc" /\ motoPc' = "stall" /\ MotoWorkFlag' = 0
    BY <1>3 DEF Overload, StopMotor, timer
  <2> QED
    BY <2>1, Spend DEF Pending, Drive, Count, TypeOK
<1>4. CASE Stalled
  <2>1. /\ UNCHANGED <<cyc, cycles, Counter_Error, MotoWorkFlag>>
        /\ motoPc' = "recv"
        /\ Moto_Cycle_Timer' \in {0, Moto_Cycle_Timer}
        /\ "Forward" \in Moto_Event' <=> "Forward" \in Moto_Event
        /\ "Back" \in Moto_Event' <=> "Back" \in Moto_Event
    BY <1>4 DEF Stalled, rt_timer_stop, timer
  <2> QED
    BY <2>1, Spend DEF Pending, Drive, Count, TypeOK
<1>5. CASE Recv
  <2>1. /\ UNCHANGED <<cyc, cycles, Counter_Error>>
        /\ Moto_Event' = {} /\ motoPc' = "delay"
        /\ Moto_Cycle_Timer = 0 => Moto_Cycle_Timer' = 0
    BY <1>5 DEF Recv, TypeOK
  <2>2. \/ MotoWorkFlag' \in {0, MotoWorkFlag}
        \/ "Forward" \in Moto_Event \/ "Back" \in Moto_Event
    BY <1>5 DEF Recv, SwitchEvent, StopMotor
  <2> QED
    BY <2>1, <2>2, Spend DEF Pending, Drive, Count, TypeOK
<1>6. CASE Moto_Cycle_Timer_Callback
  <2>1. /\ UNCHANGED <<cyc, cycles, MotoWorkFlag, motoPc>>
        /\ Moto_Cycle_Timer # 0 /\ Moto_Cycle_Timer' = 0
    BY <1>6 DEF Moto_Cycle_Timer_Callback, TimerLeavesList
  <2>2. \/ Moto_Event' = Moto_Event \cup {"Back"} /\ UNCHANGED Counter_Error
        \/ Moto_Event' = Moto_Event \cup {"Free"} /\ Counter_Error' = Counter_Error + 1
    BY <1>6 DEF Moto_Cycle_Timer_Callback, AskBack
  <2>3. Counter_Error \in Nat /\ Counter_Error' \in Nat
    BY DEF TypeOK
  <2>4. CASE Moto_Event' = Moto_Event \cup {"Back"} /\ UNCHANGED Counter_Error
    BY <2>1, <2>3, <2>4, Spend DEF Pending, Drive, Count
  <2>5. CASE Moto_Event' = Moto_Event \cup {"Free"} /\ Counter_Error' = Counter_Error + 1
    BY <2>1, <2>3, <2>5, Spend DEF Pending, Drive, Count
  <2> QED
    BY <2>2, <2>4, <2>5
<1>7. ASSUME NEW c \in Callers, Moto_Cycle(c) PROVE Credits'
  <2>1. UNCHANGED <<Counter_Error, Moto_Event, Moto_Cycle_Timer, MotoWorkFlag, motoPc>>
    BY <1>7 DEF Moto_Cycle, timer
  <2>2. CASE UNCHANGED <<cyc, cycles>>
    BY <2>1, <2>2, Spend DEF Pending, Drive, Count, TypeOK
  <2>3. CASE cyc[c] = "idle" /\ cyc' = [cyc EXCEPT ![c] = "send"] /\ cycles' = cycles + 1
    <3>1. Sending' = Sending \cup {c} /\ c \notin Sending /\ Starting' = Starting
      BY <2>3 DEF Sending, Starting, TypeOK
    <3>2. IsFiniteSet(Sending) /\ IsFiniteSet(Starting)
      BY DEF Credits
    <3>3. IsFiniteSet(Sending') /\ Cardinality(Sending') = Cardinality(Sending) + 1
      BY <3>1, <3>2, FS_AddElement
    <3>4. Cardinality(Sending) \in Nat /\ Cardinality(Starting) \in Nat
      BY <3>2, FS_CardinalityType
    <3>5. Pending' = Pending /\ Drive' = Drive /\ Pending \in Nat /\ Drive \in Nat
          /\ Count(Moto_Cycle_Timer # 0) \in Nat
      BY <2>1 DEF Pending, Drive, Count
    <3> QED
      BY <2>1, <2>3, <3>1, <3>2, <3>3, <3>4, <3>5 DEF Credits, Unspent, TypeOK
  <2> QED
    BY <1>7, <2>2, <2>3 DEF Moto_Cycle
<1>8. ASSUME NEW c \in Callers, CycleSendForward(c) PROVE Credits'
  <2>1. /\ UNCHANGED <<Counter_Error, Moto_Cycle_Timer, MotoWorkFlag, motoPc, cycles>>
        /\ Moto_Event' = Moto_Event \cup {"Forward"}
        /\ cyc[c] = "send" /\ cyc' = [cyc EXCEPT ![c] = "start"]
    BY <1>8 DEF CycleSendForward, timer
  <2>2. /\ Sending' = Sending \ {c} /\ c \in Sending
        /\ Starting' = Starting \cup {c} /\ c \notin Starting
    BY <2>1 DEF Sending, Starting, TypeOK
  <2>3. IsFiniteSet(Sending) /\ IsFiniteSet(Starting)
    BY DEF Credits
  <2>4. /\ IsFiniteSet(Sending') /\ Cardinality(Sending') = Cardinality(Sending) - 1
        /\ IsFiniteSet(Starting') /\ Cardinality(Starting') = Cardinality(Starting) + 1
    BY <2>2, <2>3, FS_AddElement, FS_RemoveElement
  <2>5. Cardinality(Sending) \in Nat /\ Cardinality(Starting) \in Nat
    BY <2>3, FS_CardinalityType
  <2>6. Pending' <= Pending + 1 /\ Pending \in Nat /\ Pending' \in Nat /\ Drive' = Drive
        /\ Drive \in Nat /\ Count(Moto_Cycle_Timer # 0) \in Nat
    BY <2>1 DEF Pending, Drive, Count
  <2> QED
    BY <2>1, <2>3, <2>4, <2>5, <2>6 DEF Credits, Unspent, TypeOK
<1>9. ASSUME NEW c \in Callers, CycleStartTimer(c) PROVE Credits'
  <2>1. /\ UNCHANGED <<Counter_Error, Moto_Event, MotoWorkFlag, motoPc, cycles>>
        /\ cyc[c] = "start" /\ cyc' = [cyc EXCEPT ![c] = "idle"]
    BY <1>9 DEF CycleStartTimer
  <2>2. Sending' = Sending /\ Starting' = Starting \ {c} /\ c \in Starting
    BY <2>1 DEF Sending, Starting, TypeOK
  <2>3. IsFiniteSet(Sending) /\ IsFiniteSet(Starting)
    BY DEF Credits
  <2>4. IsFiniteSet(Starting') /\ Cardinality(Starting') = Cardinality(Starting) - 1
    BY <2>2, <2>3, FS_RemoveElement
  <2>5. Cardinality(Sending) \in Nat /\ Cardinality(Starting) \in Nat
    BY <2>3, FS_CardinalityType
  <2>6. Pending' = Pending /\ Pending \in Nat /\ Drive' = Drive /\ Drive \in Nat
        /\ Count(Moto_Cycle_Timer # 0) \in Nat /\ Count(Moto_Cycle_Timer' # 0) \in Nat
        /\ Count(Moto_Cycle_Timer' # 0) <= Count(Moto_Cycle_Timer # 0) + 1
    BY <2>1 DEF Pending, Drive, Count
  <2> QED
    BY <2>1, <2>2, <2>3, <2>4, <2>5, <2>6 DEF Credits, Unspent, TypeOK
<1>10. ASSUME NEW bit \in ShellCommands, Shell(bit) PROVE Credits'
  <2>1. /\ UNCHANGED <<cyc, cycles, Counter_Error, Moto_Cycle_Timer, MotoWorkFlag, motoPc>>
        /\ Moto_Event' = Moto_Event \cup {"Free"}
    BY <1>10 DEF Shell, timer
  <2> QED
    BY <2>1, Spend DEF Pending, Drive, Count, TypeOK
<1> QED
  BY <1>1, <1>2, <1>3, <1>4, <1>5, <1>6, <1>7, <1>8, <1>9, <1>10
     DEF Next, MotoThread, TimerThread, CallerGoesOn

\* A cycle is counted as a failure at most twice, by jumpb and jumpd together,
\* with any number of callers, sleeps at any moment and moto_stop from the shell.
THEOREM FailuresPerCycle ==
  ASSUME ShellCommands \subseteq {"Free"}
  PROVE  Spec => []ErrorsPerCycle
<1>1. Moto_Init => Credits
  <2> SUFFICES ASSUME Moto_Init PROVE Credits
    OBVIOUS
  <2>1. Sending = {} /\ Starting = {}
    BY DEF Moto_Init, Sending, Starting
  <2>2. IsFiniteSet({}) /\ Cardinality({}) = 0
    BY FS_EmptySet
  <2>3. Pending = 0 /\ Drive = 0 /\ Count(Moto_Cycle_Timer # 0) = 0
    BY DEF Moto_Init, Pending, Drive, Count
  <2> QED
    BY <2>1, <2>2, <2>3 DEF Moto_Init, Credits, Unspent
<1>2. TypeOK /\ TypeOK' /\ Credits /\ [Next]_vars => Credits'
  BY CreditStep
<1>3. TypeOK /\ Credits => ErrorsPerCycle
  <2> SUFFICES ASSUME TypeOK, Credits PROVE Counter_Error <= 2 * cycles
    BY DEF ErrorsPerCycle
  <2>1. Cardinality(Sending) \in Nat /\ Cardinality(Starting) \in Nat
    BY FS_CardinalityType DEF Credits
  <2>2. Pending \in Nat /\ Drive \in Nat /\ Count(Moto_Cycle_Timer # 0) \in Nat
    BY DEF Pending, Drive, Count
  <2> QED
    BY <2>1, <2>2 DEF Credits, Unspent, TypeOK
<1> QED
  BY <1>1, <1>2, <1>3, TypeCorrect, PTL DEF Spec
============================================================================

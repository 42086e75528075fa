---------------------------- MODULE MotoControl ----------------------------
(***************************************************************************)
(* The motor controller of the backwash valve, device/MotoControl.c.       *)
(*                                                                         *)
(* Threads, highest priority first: the soft-timer thread (Moto_Cycle_     *)
(* Timer_Callback, EnterLowPower), Moto_Thread (Moto_Entry), and below     *)
(* them the callers of Moto_Cycle (lcd_task and the shell).  A lower       *)
(* thread only runs while Moto_Thread is blocked; the timer thread         *)
(* preempts everybody.  A thread's step is the code between two points     *)
(* where another thread can observe or change what it uses.                *)
(***************************************************************************)
EXTENDS Integers

CONSTANTS
    Callers,        \* threads that call Moto_Cycle
    MaxCycles,      \* bound: cycles accepted in a behaviour
    MinLoops,       \* turns of Moto_Entry's 50 ms loop that fit into the shortest cycle
    MaxErrors,      \* bound: increments of Counter_Error in a behaviour
    ShellCommands,  \* subset of MotoBits an operator may send from the shell
    SleepMidCycle,  \* may EnterLowPower run while a cycle is in progress?
    TimerMargin     \* does the backwash time avoid the arrival at the right switch?

MotoBits == {"Free", "Forward", "Back"}
JumpBits == {"TDS", "STALLING", "FINISH", "NOMOTO", "EXIT"}

ASSUME MotoConstants ==
    /\ MaxCycles \in Nat
    /\ MaxErrors \in Nat
    /\ MinLoops \in Nat
    /\ ShellCommands \subseteq MotoBits
    /\ SleepMidCycle \in BOOLEAN
    /\ TimerMargin \in BOOLEAN

VARIABLES
    pos,               \* where the valve is: "left", "mid", "right"
    MOTO_IN1,          \* H-bridge input 1 (1: drive back)
    MOTO_IN2,          \* H-bridge input 2 (1: drive forward)
    MotoWorkFlag,      \* 0 idle, 1 forward, 2 back
    Moto_Event,        \* the set of pending bits of the event object
    Moto_Cycle_Timer,  \* 0: off; 1: may expire; n: may expire n-1 loops from now
    timerActivated,    \* its RT_TIMER_FLAG_ACTIVATED
    timerPc,           \* timer thread: "idle", or "jumpd": blocked in Flash_Set
    motoPc,            \* Moto_Thread, see MotoThread below
    cyc,               \* per caller: where it is in Moto_Cycle
    screenTimers,      \* "running", "stopped" by ScreenTimerStop, "expired"
    lcd_jump_event,    \* pending bits of the event object read by window 3
    Counter_Error,     \* failures counted by jumpb and jumpd
    cycles             \* cycles accepted so far

hw == <<pos, MOTO_IN1, MOTO_IN2>>
timer == <<Moto_Cycle_Timer, timerActivated>>
vars == <<hw, MotoWorkFlag, Moto_Event, timer, timerPc, motoPc, cyc,
          screenTimers, lcd_jump_event, Counter_Error, cycles>>

TypeOK ==
    /\ pos \in {"left", "mid", "right"}
    /\ MOTO_IN1 \in {0, 1}
    /\ MOTO_IN2 \in {0, 1}
    /\ MotoWorkFlag \in {0, 1, 2}
    /\ Moto_Event \subseteq MotoBits
    /\ Moto_Cycle_Timer \in 0 .. MinLoops + 1
    /\ timerActivated \in {0, 1}
    /\ timerPc \in {"idle", "jumpd"}
    /\ motoPc \in {"delay", "settle", "adc", "stall", "recv"}
    /\ cyc \in [Callers -> {"idle", "send", "start"}]
    /\ screenTimers \in {"running", "stopped", "expired"}
    /\ lcd_jump_event \subseteq JumpBits
    /\ Counter_Error \in Nat
    /\ cycles \in Nat

\* The limit switches read 0 when the valve covers them.
MOTO_LEFT == IF pos = "left" THEN 0 ELSE 1
MOTO_RIGHT == IF pos = "right" THEN 0 ELSE 1

\* Faulty variant: only one of the two inputs is cleared.
PinsOffIn1Only == MOTO_IN1' = 0 /\ UNCHANGED MOTO_IN2

\* Both bridge inputs low: the motor is not powered.
PinsOff == MOTO_IN1' = 0 /\ MOTO_IN2' = 0

\* Faulty variant: the flag is reset after forward drive only.
StopMotorForwardOnly ==
    PinsOff /\ MotoWorkFlag' = IF MotoWorkFlag = 1 THEN 0 ELSE MotoWorkFlag

StopMotor == PinsOff /\ MotoWorkFlag' = 0

Driven == MOTO_IN1 = 1 \/ MOTO_IN2 = 1

Moto_Init ==
    /\ pos \in {"left", "mid", "right"}
    /\ MOTO_IN1 = 0
    /\ MOTO_IN2 = 0
    /\ MotoWorkFlag = 0
    /\ Moto_Event = {}
    /\ Moto_Cycle_Timer = 0
    /\ timerActivated = 0
    /\ timerPc = "idle"
    /\ motoPc = "recv"
    /\ cyc = [c \in Callers |-> "idle"]
    /\ screenTimers = "running"
    /\ lcd_jump_event = {}
    /\ Counter_Error = 0
    /\ cycles = 0

----------------------------------------------------------------------------
(* The mechanics: a driven valve travels until it meets an end stop.  Both *)
(* inputs high would brake.                                                *)

Move ==
    /\ \/ MOTO_IN2 = 1 /\ MOTO_IN1 = 0
          /\ \/ pos = "left" /\ pos' = "mid"
             \/ pos = "mid" /\ pos' = "right"
       \/ MOTO_IN1 = 1 /\ MOTO_IN2 = 0
          /\ \/ pos = "right" /\ pos' = "mid"
             \/ pos = "mid" /\ pos' = "left"
    /\ UNCHANGED <<MOTO_IN1, MOTO_IN2, MotoWorkFlag, Moto_Event, timer, timerPc,
                   motoPc, cyc, screenTimers, lcd_jump_event, Counter_Error, cycles>>

----------------------------------------------------------------------------
(* Moto_Thread.  motoPc is "delay" (the 50 ms delay that ends the loop),   *)
(* "settle" (the 200 ms delay at the right switch), "adc" (about to sample *)
(* the motor current), "stall" (blocked in jumpb's Flash_Set) or "recv"    *)
(* (about to receive Moto_Event).                                          *)

\* Right switch reached while driving forward.
RightDone ==
    /\ MOTO_RIGHT = 0 /\ MotoWorkFlag = 1
    /\ Moto_Event' = Moto_Event \cup {"Free"}
    /\ StopMotor
    /\ motoPc' = "settle"
    /\ UNCHANGED <<screenTimers, lcd_jump_event>>

\* Faulty variant: LeftDone tests for the wrong direction.
LeftDoneWrongFlag ==
    /\ MOTO_LEFT = 0 /\ MotoWorkFlag = 1
    /\ StopMotor
    /\ screenTimers' = "running"
    /\ lcd_jump_event' = lcd_jump_event \cup {"FINISH"}
    /\ motoPc' = "adc"
    /\ UNCHANGED Moto_Event

\* Left switch reached while driving back: the cycle ends with TDS or FINISH,
\* after the comparison of TDS_Value (TdsWork) with Setting_Hardness.
LeftDone ==
    /\ MOTO_LEFT = 0 /\ MotoWorkFlag = 2
    /\ StopMotor
    /\ screenTimers' = "running"
    /\ \E outcome \in {"TDS", "FINISH"} :
          lcd_jump_event' = lcd_jump_event \cup {outcome}
    /\ motoPc' = "adc"
    /\ UNCHANGED Moto_Event

Moto_Free_Event_Release ==
    \/ RightDone
    \/ LeftDone
    \/ /\ ~(MOTO_RIGHT = 0 /\ MotoWorkFlag = 1)
       /\ ~(MOTO_LEFT = 0 /\ MotoWorkFlag = 2)
       /\ motoPc' = "adc"
       /\ UNCHANGED <<MOTO_IN1, MOTO_IN2, MotoWorkFlag, Moto_Event, screenTimers,
                      lcd_jump_event>>

\* The top of the loop: limit switches are looked at only while working.
Poll ==
    /\ motoPc = "delay"
    /\ \/ /\ MotoWorkFlag > 0
          /\ Moto_Free_Event_Release
       \/ /\ MotoWorkFlag = 0
          /\ motoPc' = "recv"
          /\ UNCHANGED <<MOTO_IN1, MOTO_IN2, MotoWorkFlag, Moto_Event, screenTimers,
                         lcd_jump_event>>
    /\ UNCHANGED <<pos, timer, timerPc, cyc, Counter_Error, cycles>>

\* After the 200 ms delay MotoWorkFlag is 0, so line 140 is never true here.
Settled ==
    /\ motoPc = "settle"
    /\ motoPc' = "adc"
    /\ UNCHANGED <<hw, MotoWorkFlag, Moto_Event, timer, timerPc, cyc, screenTimers,
                   lcd_jump_event, Counter_Error, cycles>>

\* The current is sampled; above 200 the motor is stopped and jumpb counts
\* the failure, blocking in Flash_Set.
Overload ==
    /\ motoPc = "adc"
    /\ Counter_Error < MaxErrors
    /\ StopMotor
    /\ Counter_Error' = Counter_Error + 1
    /\ motoPc' = "stall"
    /\ UNCHANGED <<pos, Moto_Event, timer, timerPc, cyc, screenTimers, lcd_jump_event,
                   cycles>>

NoOverload ==
    /\ motoPc = "adc"
    /\ motoPc' = "recv"
    /\ UNCHANGED <<hw, MotoWorkFlag, Moto_Event, timer, timerPc, cyc, screenTimers,
                   lcd_jump_event, Counter_Error, cycles>>

\* rt_timer_stop returns an error, and leaves the timer in the list, when
\* its ACTIVATED flag is clear.
rt_timer_stop ==
    IF timerActivated = 1
    THEN Moto_Cycle_Timer' = 0 /\ timerActivated' = 0
    ELSE UNCHANGED timer

\* jumpb returns: STALLING is reported, the cycle timer stopped.
Stalled ==
    /\ motoPc = "stall"
    /\ lcd_jump_event' = lcd_jump_event \cup {"STALLING"}
    /\ rt_timer_stop
    /\ Moto_Event' = Moto_Event \cup {"Free"}
    /\ screenTimers' = "running"
    /\ motoPc' = "recv"
    /\ UNCHANGED <<hw, MotoWorkFlag, timerPc, cyc, Counter_Error, cycles>>

\* Faulty variant: the way back tests the switch of the way forward.
ClearToGoBackRight == MOTO_RIGHT = 1

ClearToGoBack == MOTO_LEFT = 1

\* The switch over the received bits: only a single bit matches a case.
SwitchEvent ==
    \/ /\ Moto_Event = {"Free"}
       /\ StopMotor
    \/ /\ Moto_Event = {"Forward"}
       /\ MotoWorkFlag' = 1
       /\ IF MOTO_RIGHT = 1
          THEN MOTO_IN1' = 0 /\ MOTO_IN2' = 1
          ELSE UNCHANGED <<MOTO_IN1, MOTO_IN2>>
    \/ /\ Moto_Event = {"Back"}
       /\ ClearToGoBack
       /\ MOTO_IN1' = 1 /\ MOTO_IN2' = 0
       /\ MotoWorkFlag' = 2
    \/ /\ \/ Moto_Event \notin {{"Free"}, {"Forward"}, {"Back"}}
          \/ Moto_Event = {"Back"} /\ ~ClearToGoBack
       /\ UNCHANGED <<MOTO_IN1, MOTO_IN2, MotoWorkFlag>>

\* rt_event_recv takes and clears every bit.  The cycle timer runs for at
\* least 1 s and this loop for 50 ms: MinLoops of them pass before it expires.
Recv ==
    /\ motoPc = "recv"
    /\ SwitchEvent
    /\ Moto_Event' = {}
    /\ Moto_Cycle_Timer' = IF Moto_Cycle_Timer > 1 THEN Moto_Cycle_Timer - 1 ELSE Moto_Cycle_Timer
    /\ motoPc' = "delay"
    /\ UNCHANGED <<pos, timerActivated, timerPc, cyc, screenTimers, lcd_jump_event,
                   Counter_Error, cycles>>

MotoThread == Poll \/ Settled \/ Overload \/ NoOverload \/ Stalled \/ Recv

\* Moto_Thread is blocked, so that threads below it run.
MotoBlocked == motoPc \in {"delay", "settle", "stall"}

----------------------------------------------------------------------------
(* The soft-timer thread.                                                  *)

\* The arrival at the right switch and the reception of its Free bit.
ArrivingRight == (pos = "right" /\ MotoWorkFlag = 1) \/ "Free" \in Moto_Event

\* Faulty variant: the timer is periodic.
TimerLeavesListPeriodic == Moto_Cycle_Timer' = MinLoops + 1

TimerLeavesList == Moto_Cycle_Timer' = 0

\* Faulty variant: the callback does not look at the right switch.
AskBackAnywhere ==
    /\ Moto_Event' = Moto_Event \cup {"Back"}
    /\ timerActivated' = 0
    /\ UNCHANGED <<timerPc, screenTimers, Counter_Error>>

AskBack ==
    /\ MOTO_RIGHT = 0
    /\ Moto_Event' = Moto_Event \cup {"Back"}
    /\ timerActivated' = 0
    /\ UNCHANGED <<timerPc, screenTimers, Counter_Error>>

\* The one-shot timer leaves the list, its callback runs.  At the right
\* switch it asks for the way back; anywhere else it gives up and blocks in
\* jumpd's Flash_Set.  ACTIVATED is cleared when the callback returns.
Moto_Cycle_Timer_Callback ==
    /\ timerPc = "idle"
    /\ Moto_Cycle_Timer = 1
    /\ TimerMargin => ~ArrivingRight
    /\ TimerLeavesList
    /\ \/ AskBack
       \/ /\ MOTO_RIGHT = 1
          /\ Counter_Error < MaxErrors
          /\ Moto_Event' = Moto_Event \cup {"Free"}
          /\ screenTimers' = "running"
          /\ Counter_Error' = Counter_Error + 1
          /\ timerPc' = "jumpd"
          /\ UNCHANGED timerActivated
    /\ UNCHANGED <<hw, MotoWorkFlag, motoPc, cyc, lcd_jump_event, cycles>>

\* Flash_Set returns: NOMOTO is reported, and rt_soft_timer_check clears
\* ACTIVATED, whether or not the timer was started again meanwhile.
CallbackReturns ==
    /\ timerPc = "jumpd"
    /\ lcd_jump_event' = lcd_jump_event \cup {"NOMOTO"}
    /\ timerActivated' = 0
    /\ timerPc' = "idle"
    /\ UNCHANGED <<hw, MotoWorkFlag, Moto_Event, Moto_Cycle_Timer, motoPc, cyc,
                   screenTimers, Counter_Error, cycles>>

TimerThread == Moto_Cycle_Timer_Callback \/ CallbackReturns

\* No cycle is being started, running or being reported.
CycleIdle ==
    /\ MotoWorkFlag = 0
    /\ Moto_Event = {}
    /\ Moto_Cycle_Timer = 0
    /\ motoPc \in {"delay", "recv"}
    /\ \A c \in Callers : cyc[c] = "idle"

\* BeforSleep writes every motor pin low and AfterWake initialises them low;
\* nothing else of this component changes.  The Vcc timer (which then has
\* expired) or the hourly low-power timer calls it.
EnterLowPower ==
    /\ timerPc = "idle"
    /\ SleepMidCycle \/ CycleIdle
    /\ PinsOff
    /\ \/ screenTimers = "running" /\ screenTimers' = "expired"
       \/ UNCHANGED screenTimers
    /\ UNCHANGED <<pos, MotoWorkFlag, Moto_Event, timer, timerPc, motoPc, cyc,
                   lcd_jump_event, Counter_Error, cycles>>

----------------------------------------------------------------------------
(* Moto_Cycle, called by lcd_task or from the shell.                       *)

\* Lines 97-102: refused on a low battery (without mains), or while working.
Moto_Cycle(c) ==
    /\ MotoBlocked
    /\ cyc[c] = "idle"
    /\ \/ \* low voltage and no DC supply: jumpe
          /\ lcd_jump_event' = lcd_jump_event \cup {"EXIT"}
          /\ UNCHANGED <<cyc, screenTimers, cycles>>
       \/ /\ MotoWorkFlag = 0
          /\ cycles < MaxCycles
          /\ cycles' = cycles + 1
          /\ screenTimers' = "stopped"
          /\ cyc' = [cyc EXCEPT ![c] = "send"]
          /\ UNCHANGED lcd_jump_event
    /\ UNCHANGED <<hw, MotoWorkFlag, Moto_Event, timer, timerPc, motoPc, Counter_Error>>

CycleSendForward(c) ==
    /\ MotoBlocked
    /\ cyc[c] = "send"
    /\ Moto_Event' = Moto_Event \cup {"Forward"}
    /\ cyc' = [cyc EXCEPT ![c] = "start"]
    /\ UNCHANGED <<hw, MotoWorkFlag, timer, timerPc, motoPc, screenTimers,
                   lcd_jump_event, Counter_Error, cycles>>

\* rt_timer_start takes the timer out of the list first, so it also restarts.
CycleStartTimer(c) ==
    /\ MotoBlocked
    /\ cyc[c] = "start"
    /\ Moto_Cycle_Timer' = MinLoops + 1
    /\ timerActivated' = 1
    /\ cyc' = [cyc EXCEPT ![c] = "idle"]
    /\ UNCHANGED <<hw, MotoWorkFlag, Moto_Event, timerPc, motoPc, screenTimers,
                   lcd_jump_event, Counter_Error, cycles>>

CallerGoesOn(c) == CycleSendForward(c) \/ CycleStartTimer(c)

\* The shell commands moto_forward, moto_back and moto_stop.
Shell(bit) ==
    /\ MotoBlocked
    /\ Moto_Event' = Moto_Event \cup {bit}
    /\ UNCHANGED <<hw, MotoWorkFlag, timer, timerPc, motoPc, cyc, screenTimers,
                   lcd_jump_event, Counter_Error, cycles>>

\* A key press restarts the screen timers (DeviceInit.c, ScreenTimerRefresh).
KeyPress ==
    /\ screenTimers' = "running"
    /\ UNCHANGED <<hw, MotoWorkFlag, Moto_Event, timer, timerPc, motoPc, cyc,
                   lcd_jump_event, Counter_Error, cycles>>

----------------------------------------------------------------------------
Next ==
    \/ Move
    \/ MotoThread
    \/ TimerThread
    \/ EnterLowPower
    \/ \E c \in Callers : Moto_Cycle(c) \/ CallerGoesOn(c)
    \/ \E bit \in ShellCommands : Shell(bit)
    \/ KeyPress

Spec == Moto_Init /\ [][Next]_vars

\* Moto_Thread and the timer thread have the highest priorities of the
\* application and always run on; a caller below them gets the processor
\* again and again while Moto_Thread is in its delay; a powered motor moves.
Fairness ==
    /\ WF_vars(MotoThread)
    /\ WF_vars(TimerThread)
    /\ \A c \in Callers : SF_vars(CallerGoesOn(c))
    /\ WF_vars(Move)

FairSpec == Spec /\ Fairness
----------------------------------------------------------------------------
(* Properties.                                                             *)

\* While Moto_Thread sleeps 200 ms at the right switch or waits for the
\* flash in jumpb, nobody looks at switches or current: the motor is off.
BlockedMeansStopped == motoPc \in {"settle", "stall"} => ~Driven

\* A powered motor is always under the loop's supervision: never both inputs
\* high, forward drive only with MotoWorkFlag 1 (so that the right switch
\* stops it), backward drive only with MotoWorkFlag set (so that the current
\* is sampled), none while the loop is blocked.  Holds for any interleaving,
\* shell commands and sleeps.
DriveSupervised ==
    /\ MOTO_IN1 = 0 \/ MOTO_IN2 = 0
    /\ MOTO_IN2 = 1 => MotoWorkFlag = 1
    /\ MOTO_IN1 = 1 => MotoWorkFlag # 0
    /\ BlockedMeansStopped

\* What the refusal of Moto_Cycle ("Moto is Working Now") says of
\* MotoWorkFlag 2: the motor is being driven back.
WorkingMeansDriven == MotoWorkFlag = 2 => MOTO_IN1 = 1

\* The way back starts at the right switch only: a lost, late or repeated
\* Back bit never makes a valve that stands elsewhere move back.
BackStartsAtRight == [][MOTO_IN1 = 0 /\ MOTO_IN1' = 1 => pos = "right"]_vars

\* One cycle is counted as a failure at most twice (overload and timeout).
ErrorsPerCycle == Counter_Error <= 2 * cycles

\* Why BackStartsAtRight holds: a pending Back bit belongs to a valve at the
\* right switch, or already driven back, or already home with no forward
\* drive, or it is about to be dropped together with a Free bit.
PendingBack ==
    "Back" \in Moto_Event =>
        \/ pos = "right"
        \/ MOTO_IN1 = 1
        \/ pos = "left" /\ MOTO_IN2 = 0
        \/ "Free" \in Moto_Event
        \/ motoPc = "stall"

\* The motor does not stay powered against the end stop it drives into.
StopsAtEndStop ==
    /\ (MOTO_IN2 = 1 /\ pos = "right") ~> (MOTO_IN2 = 0)
    /\ (MOTO_IN1 = 1 /\ pos = "left") ~> (MOTO_IN1 = 0)

\* The Back bit the timer callback sends for a valve at the right switch
\* ("Moto Start Back") starts the way back, unless the motor has been
\* reported as stalling.
BackIsActedOn ==
    ("Back" \in Moto_Event /\ pos = "right")
        ~> (MotoWorkFlag = 2 \/ "STALLING" \in lcd_jump_event)

\* The screen timers that Moto_Cycle stops are started again when the cycle
\* ends one way or the other; until then the device cannot go to sleep.
ScreenTimersResume == screenTimers = "stopped" ~> screenTimers = "running"
============================================================================

---------------------------- MODULE ScreenPower ----------------------------
(***************************************************************************)
(* The display, its timers and the sleep of the device: OpenLcdDisplay,    *)
(* CloseLcdVcc, CloseLcdBacklight, LcdInit (lcd/12864.c), the key and      *)
(* timer callbacks (device/DeviceInit.c), EnterLowPower (device/LowPower.c)*)
(* and the requests lcd_task_entry serves (lcd/lcd_display.c).             *)
(*                                                                         *)
(* Priorities: timer thread, button_task, lcd_task.  OpenLcdDisplay writes *)
(* LCD_Flag first and the pins (LcdInit takes milliseconds) afterwards, so *)
(* it is two steps; a thread above the caller may run in between.          *)
(***************************************************************************)
EXTENDS Integers

CONSTANTS
    MaxKeys,   \* bound: presses waiting in the key semaphores
    LongCount  \* a long press of K2 acts with the callback after this many

ASSUME ScreenConstants ==
    /\ MaxKeys \in Nat
    /\ LongCount \in Nat /\ LongCount >= 1

\* The flags lcd_task polls: Delta_press_work_Flag and JumptoReminderFlag,
\* JumptoAutomaticFlag, JumpToBatteryEmptyFlag or JumpToBatteryNewFlag.
Requests == {"flow", "reminder", "automatic", "battery"}

\* The key callbacks: K0, K1 and K2_Sem_Release (a press; of K1 also every
\* 10 ms while it is held), K2_Long_Sem_Release (every 10 ms while K2 is held)
\* and K2_Long_Free_Release.  Which of them come, and when: module Button.
Callbacks == {"press", "long", "free"}

\* What OpenLcdDisplay still has to write: nothing, the backlight, or LcdInit.
PinWork == {"none", "light", "init"}

VARIABLES
    LCD_Flag,       \* 0 lit and operable, 1 lit, 2 dark with contents, 3 off
    LCD_EN,         \* display supply
    LCD_BL,         \* backlight
    screenTimers,   \* "off", "fresh" (both run) or "dim" (only the Vcc timer)
    LowPowerTimer,  \* 1: running
    RTC_Check_Sem,  \* 1: the hourly check is due
    power,          \* "run" or "stop" (STOP2 mode)
    keyOp,          \* button_task: "idle" or its PinWork
    callback,       \* the callback button_task runs while keyOp # "idle"
    K2_Long_Counter,
    K2_Long_Flag,
    lcdOp,          \* lcd_task: "idle" or its PinWork
    lcdReq,         \* the request lcd_task serves while lcdOp # "idle"
    requests,       \* pending requests
    K_Sem,          \* released and not yet taken key presses
    cycle,          \* a backwash cycle is running (MotoControl)
    hurried         \* history: see Hurry

lcd == <<LCD_Flag, LCD_EN, LCD_BL>>
hold == <<callback, K2_Long_Counter, K2_Long_Flag>>
tasks == <<keyOp, hold, lcdOp, lcdReq, requests, K_Sem>>
vars == <<lcd, screenTimers, LowPowerTimer, RTC_Check_Sem, power, tasks, cycle, hurried>>

TypeOK ==
    /\ LCD_Flag \in 0 .. 3
    /\ LCD_EN \in {0, 1}
    /\ LCD_BL \in {0, 1}
    /\ screenTimers \in {"off", "fresh", "dim"}
    /\ LowPowerTimer \in {0, 1}
    /\ RTC_Check_Sem \in {0, 1}
    /\ power \in {"run", "stop"}
    /\ keyOp \in PinWork \cup {"idle"}
    /\ callback \in Callbacks
    /\ K2_Long_Counter \in 0 .. LongCount
    /\ K2_Long_Flag \in {0, 1}
    /\ lcdOp \in PinWork \cup {"idle"}
    /\ lcdReq \in Requests
    /\ requests \subseteq Requests
    /\ K_Sem \in 0 .. MaxKeys
    /\ cycle \in {"no", "running"}
    /\ hurried \in {0, 1}

\* lcd_task has initialised the display, Key_Init has started the timers.
Init ==
    /\ LCD_Flag = 0 /\ LCD_EN = 1 /\ LCD_BL = 1
    /\ screenTimers = "fresh"
    /\ LowPowerTimer = 0
    /\ RTC_Check_Sem = 0
    /\ power = "run"
    /\ keyOp = "idle" /\ lcdOp = "idle" /\ lcdReq = "flow"
    /\ callback = "press" /\ K2_Long_Counter = 0 /\ K2_Long_Flag = 0
    /\ requests = {}
    /\ K_Sem = 0
    /\ cycle = "no"
    /\ hurried = 0

----------------------------------------------------------------------------
(* OpenLcdDisplay: the switch on LCD_Flag, then the pins.                  *)

\* Faulty variant: a dark display becomes operable at the first press.
NextFlagAtOnce == CASE LCD_Flag \in {0, 1, 2} -> 0 [] LCD_Flag = 3 -> 1

NextFlag == CASE LCD_Flag \in {0, 1} -> 0 [] LCD_Flag \in {2, 3} -> 1

PinsToWrite ==
    CASE LCD_Flag \in {0, 1} -> "none" [] LCD_Flag = 2 -> "light" [] LCD_Flag = 3 -> "init"

\* Faulty variant: LcdInit leaves the supply off.
WritePinsNoSupply(work) ==
    /\ LCD_BL' = IF work = "none" THEN LCD_BL ELSE 1
    /\ UNCHANGED LCD_EN

WritePins(work) ==
    /\ LCD_BL' = IF work = "none" THEN LCD_BL ELSE 1
    /\ LCD_EN' = IF work = "init" THEN 1 ELSE LCD_EN

----------------------------------------------------------------------------
(* button_task.                                                            *)

KeyPressed ==
    /\ power = "run"
    /\ keyOp = "idle"
    /\ K_Sem < MaxKeys
    /\ keyOp' = PinsToWrite
    /\ callback' \in Callbacks
    /\ LCD_Flag' = NextFlag
    /\ UNCHANGED <<LCD_EN, LCD_BL, screenTimers, LowPowerTimer, RTC_Check_Sem, power,
                   K2_Long_Counter, K2_Long_Flag, lcdOp, lcdReq, requests, K_Sem, cycle,
                   hurried>>

\* K2_Long_Sem_Release does not look at LCD_Flag.
LongPressCounts ==
    \/ /\ K2_Long_Flag = 1
       /\ UNCHANGED <<K2_Long_Counter, K2_Long_Flag, K_Sem>>
    \/ /\ K2_Long_Flag = 0 /\ K2_Long_Counter < LongCount
       /\ K2_Long_Counter' = K2_Long_Counter + 1
       /\ UNCHANGED <<K2_Long_Flag, K_Sem>>
    \/ /\ K2_Long_Flag = 0 /\ K2_Long_Counter >= LongCount
       /\ K2_Long_Flag' = 1 /\ K2_Long_Counter' = 0
       /\ K_Sem' = K_Sem + 1

\* The callback goes on: pins, ScreenTimerRefresh, and what it is for; a press
\* counts only when LCD_Flag is 0.
Key_Sem_Release ==
    /\ power = "run"
    /\ keyOp # "idle"
    /\ WritePins(keyOp)
    /\ screenTimers' = "fresh"
    /\ \/ /\ callback = "press"
          /\ K_Sem' = IF LCD_Flag = 0 THEN K_Sem + 1 ELSE K_Sem
          /\ UNCHANGED <<K2_Long_Counter, K2_Long_Flag>>
       \/ callback = "long" /\ LongPressCounts
       \/ /\ callback = "free"
          /\ K2_Long_Flag' = 0 /\ K2_Long_Counter' = 0
          /\ UNCHANGED K_Sem
    /\ keyOp' = "idle" /\ callback' = "press"
    /\ UNCHANGED <<LCD_Flag, LowPowerTimer, RTC_Check_Sem, power, lcdOp, lcdReq, requests,
                   cycle, hurried>>

----------------------------------------------------------------------------
(* lcd_task.                                                               *)

LcdMayRun == power = "run" /\ keyOp = "idle"

\* Faulty variant: the screen timers are stopped before the battery is tested.
StopTimersFirst(rest) ==
    /\ screenTimers' = "off"
    /\ \/ cycle' = "running" /\ requests' = rest
       \/ UNCHANGED cycle /\ requests' = rest \cup {"battery"}

\* Moto_Cycle, with the requests left besides: it stops the screen timers when
\* it starts a cycle, does nothing when one is running, and asks for the
\* battery window when the voltage is low.
Moto_Cycle(rest) ==
    \/ /\ cycle = "no" /\ cycle' = "running"
       /\ screenTimers' = "off"
       /\ requests' = rest
    \/ /\ cycle = "running"
       /\ requests' = rest
       /\ UNCHANGED <<screenTimers, cycle>>
    \/ /\ requests' = rest \cup {"battery"}
       /\ UNCHANGED <<screenTimers, cycle>>

\* A window takes a key: nothing here, or enter in window 2, or in window 25.
TakeKey ==
    /\ LcdMayRun /\ lcdOp = "idle"
    /\ K_Sem > 0
    /\ K_Sem' = K_Sem - 1
    /\ \/ UNCHANGED <<requests, screenTimers, cycle>>
       \/ Moto_Cycle(requests)
       \/ /\ requests' = requests \cup {"automatic"}
          /\ UNCHANGED <<screenTimers, cycle>>
    /\ UNCHANGED <<lcd, LowPowerTimer, RTC_Check_Sem, power, keyOp, hold, lcdOp, lcdReq,
                   hurried>>

\* LcdtoBackwash; the other requests start no cycle.
StartCycle(r) ==
    \/ r = "automatic" /\ Moto_Cycle(requests \ {r})
    \/ /\ r # "automatic"
       /\ requests' = requests \ {r}
       /\ UNCHANGED <<screenTimers, cycle>>

\* lcd_task takes up a request and opens the display for it.
ServeRequest(r) ==
    /\ LcdMayRun /\ lcdOp = "idle"
    /\ r \in requests
    /\ StartCycle(r)
    /\ lcdOp' = PinsToWrite
    /\ lcdReq' = r
    /\ LCD_Flag' = NextFlag
    /\ UNCHANGED <<LCD_EN, LCD_BL, LowPowerTimer, RTC_Check_Sem, power, keyOp, hold, K_Sem,
                   hurried>>

\* Only a reminder restarts the screen timers; the water-flow work goes on to
\* ask for a cycle or a reminder (Setting_Deltapress).
RequestServed ==
    /\ LcdMayRun /\ lcdOp # "idle"
    /\ WritePins(lcdOp)
    /\ lcdOp' = "idle" /\ lcdReq' = "flow"
    /\ screenTimers' = IF lcdReq = "reminder" THEN "fresh" ELSE screenTimers
    /\ \/ lcdReq # "flow" /\ UNCHANGED requests
       \/ lcdReq = "flow" /\ \E r \in {"automatic", "reminder"} :
             requests' = requests \cup {r}
    /\ UNCHANGED <<LCD_Flag, LowPowerTimer, RTC_Check_Sem, power, keyOp, hold, K_Sem, cycle,
                   hurried>>

----------------------------------------------------------------------------
(* The timer thread.                                                       *)

\* A key is held and counted, or waits for lcd_task.
KeyAtWork == K2_Long_Counter > 0 \/ K2_Long_Flag = 1 \/ K_Sem > 0

\* hurried is set when the timer thread interrupts OpenLcdDisplay, or puts the
\* device to sleep in mid-cycle or, by the hour, over running screen timers;
\* also when a screen timer, of 30 s, runs out between two callbacks of a held
\* key or before lcd_task takes a key, both a matter of 10 ms.
Hurry(undisturbed) ==
    hurried' = IF keyOp = "idle" /\ lcdOp = "idle" /\ undisturbed THEN hurried ELSE 1

LcdBacklightTimerCallback ==
    /\ power = "run"
    /\ screenTimers = "fresh"
    /\ screenTimers' = "dim"
    /\ LCD_Flag' = 2
    /\ LCD_BL' = 0
    /\ Hurry(~KeyAtWork)
    /\ UNCHANGED <<LCD_EN, LowPowerTimer, RTC_Check_Sem, power, tasks, cycle>>

\* CloseLcdVcc switches the supply off; it does not write the backlight pin.
CloseLcdVcc == LCD_Flag' = 3 /\ LCD_EN' = 0 /\ UNCHANGED LCD_BL

EnterLowPower == CloseLcdVcc /\ power' = "stop"

LcdVccTimerCallback ==
    /\ power = "run"
    /\ screenTimers = "dim"
    /\ Hurry(cycle = "no" /\ ~KeyAtWork)
    /\ screenTimers' = "off"
    /\ EnterLowPower
    /\ UNCHANGED <<LowPowerTimer, RTC_Check_Sem, tasks, cycle>>

LowPowerTimerCallback ==
    /\ power = "run"
    /\ LowPowerTimer = 1
    /\ Hurry(screenTimers = "off" /\ cycle = "no")
    /\ LowPowerTimer' = 0
    /\ EnterLowPower
    /\ UNCHANGED <<screenTimers, RTC_Check_Sem, tasks, cycle>>

----------------------------------------------------------------------------
(* Interrupts and the other threads.                                       *)

\* A key wakes the device (JumptoMainWin draws the main window); button_task
\* may or may not still see it pressed.
button_wakeup ==
    /\ power = "stop"
    /\ power' = "run"
    /\ UNCHANGED <<lcd, screenTimers, LowPowerTimer, RTC_Check_Sem, tasks, cycle, hurried>>

HAL_RTC_AlarmAEventCallback ==
    /\ RTC_Check_Sem' = 1
    /\ power' = "run"
    /\ UNCHANGED <<lcd, screenTimers, LowPowerTimer, tasks, cycle, hurried>>

\* The water-flow switch; without Deltapress_Enable lcd_task drops the flag.
Delta_press ==
    /\ power' = "run"
    /\ requests' \in {requests, requests \cup {"flow"}}
    /\ UNCHANGED <<lcd, screenTimers, LowPowerTimer, RTC_Check_Sem, keyOp, hold, lcdOp,
                   lcdReq, K_Sem, cycle, hurried>>

\* The hourly check finds a schedule due, or starts the low-power timer (the
\* faulty variant does not).
CheckFindsEvent ==
    /\ power = "run" /\ RTC_Check_Sem = 1
    /\ RTC_Check_Sem' = 0
    /\ \E r \in {"reminder", "automatic"} : requests' = requests \cup {r}
    /\ UNCHANGED <<lcd, screenTimers, LowPowerTimer, power, keyOp, hold, lcdOp, lcdReq,
                   K_Sem, cycle, hurried>>

CheckFindsNoneStaysUp ==
    /\ power = "run" /\ RTC_Check_Sem = 1
    /\ RTC_Check_Sem' = 0
    /\ UNCHANGED <<lcd, screenTimers, LowPowerTimer, power, tasks, cycle, hurried>>

CheckFindsNone ==
    /\ power = "run" /\ RTC_Check_Sem = 1
    /\ RTC_Check_Sem' = 0
    /\ LowPowerTimer' = 1
    /\ UNCHANGED <<lcd, screenTimers, power, tasks, cycle, hurried>>

\* The battery watcher asks for one of its windows.
JumpToBattery ==
    /\ power = "run"
    /\ requests' = requests \cup {"battery"}
    /\ UNCHANGED <<lcd, screenTimers, LowPowerTimer, RTC_Check_Sem, power, keyOp, hold,
                   lcdOp, lcdReq, K_Sem, cycle, hurried>>

\* A cycle ends (MotoControl): ScreenTimerRefresh.
CycleEnds ==
    /\ power = "run" /\ cycle = "running"
    /\ cycle' = "no"
    /\ screenTimers' = "fresh"
    /\ UNCHANGED <<lcd, LowPowerTimer, RTC_Check_Sem, power, tasks, hurried>>

Next ==
    \/ KeyPressed \/ Key_Sem_Release
    \/ TakeKey
    \/ \E r \in Requests : ServeRequest(r)
    \/ RequestServed
    \/ LcdBacklightTimerCallback \/ LcdVccTimerCallback \/ LowPowerTimerCallback
    \/ button_wakeup \/ HAL_RTC_AlarmAEventCallback \/ Delta_press
    \/ CheckFindsEvent \/ CheckFindsNone
    \/ JumpToBattery \/ CycleEnds

Spec == Init /\ [][Next]_vars

\* The RTC alarm comes every hour, the check thread and the timer thread run
\* above the tasks that use the display, and a schedule, whose period is at
\* least a day, is not due at every check.
Fairness ==
    /\ WF_vars(HAL_RTC_AlarmAEventCallback)
    /\ SF_vars(CheckFindsNone)
    /\ WF_vars(LowPowerTimerCallback)
    /\ WF_vars(LcdBacklightTimerCallback)
    /\ WF_vars(LcdVccTimerCallback)

FairSpec == Spec /\ Fairness

----------------------------------------------------------------------------
(* Properties.  Those about LCD_Flag speak of the moments at which nobody  *)
(* is inside OpenLcdDisplay.                                               *)

Quiet == keyOp = "idle" /\ lcdOp = "idle"
Undisturbed == Quiet /\ hurried = 0

\* The comment on LCD_Flag (lcd/12864.c:19), value 2: dark, but with the
\* contents still shown.  Does not hold (README, known deviations).
TwoMeansShown == Quiet /\ LCD_Flag = 2 => LCD_EN = 1

\* What holds of that comment's four values as long as the timer thread has
\* neither interrupted OpenLcdDisplay nor put the device to sleep over running
\* screen timers: 0 and 1 are lit, 2 is dark with the contents shown, 3 has no
\* supply (its backlight pin may be on).
FlagTellsDisplay ==
    Undisturbed =>
        /\ LCD_Flag \in {0, 1} => LCD_EN = 1 /\ LCD_BL = 1
        /\ LCD_Flag = 2 => LCD_EN = 1 /\ LCD_BL = 0
        /\ LCD_Flag = 3 => LCD_EN = 0

\* A callback hands a key to the windows only if the display was lit before
\* it, or lcd_task is about to light it: the callback that lights a dark
\* display does no more.  For K0 and K2 that is the first press.  A key that
\* is held lights the display and acts with a later callback of the same
\* press: K1 with the next one, and K2, whose long press does not look at
\* LCD_Flag at all, because it counts callbacks (README, known deviations).
KeysActOnVisibleScreen ==
    [][K_Sem' > K_Sem /\ hurried = 0
         => (LCD_EN = 1 /\ LCD_BL = 1) \/ lcdOp \in {"init", "light"}]_vars

\* However the timer thread cuts into OpenLcdDisplay or puts the device to
\* sleep, a display without supply that LCD_Flag calls lit or dark is put
\* right: LcdInit is under way, or a screen timer runs that ends with
\* CloseLcdVcc, or a cycle that starts them when it ends.
WrongFlagIsPutRight ==
    LCD_EN = 0 /\ LCD_Flag # 3 =>
        "init" \in {keyOp, lcdOp} \/ screenTimers # "off" \/ cycle = "running"

\* The battery-powered device always falls asleep again.  The screen timers
\* alone do not ensure it (a battery window opens the display without them,
\* a key may wake the device without being seen by button_task): the hourly
\* check does.
SleepsAgain == power = "run" ~> power = "stop"
============================================================================

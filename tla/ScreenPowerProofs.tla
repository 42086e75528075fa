-------------------------- MODULE ScreenPowerProofs --------------------------
(***************************************************************************)
(* Proofs about ScreenPower, for every bound on pending key presses and    *)
(* every number of callbacks that a long press takes to act.               *)
(***************************************************************************)
EXTENDS ScreenPower, TLAPS

\* A press under way finds room in its semaphore.
RoomForKey == keyOp # "idle" => K_Sem < MaxKeys

\* Every variable of ScreenPower keeps its type.
THEOREM TypeCorrect == Spec => []TypeOK
<1> USE ScreenConstants DEF ScreenConstants
<1>1. Init => TypeOK /\ RoomForKey
  BY DEF Init, TypeOK, RoomForKey, Requests, PinWork, Callbacks
<1>2. TypeOK /\ RoomForKey /\ [Next]_vars => TypeOK' /\ RoomForKey'
  <2> SUFFICES ASSUME TypeOK, RoomForKey, [Next]_vars
               PROVE  TypeOK' /\ RoomForKey'
    OBVIOUS
  <2> USE DEF TypeOK, RoomForKey, Requests, PinWork, Callbacks
  <2>1. CASE KeyPressed
    BY <2>1 DEF KeyPressed, PinsToWrite, NextFlag
  <2>2. CASE Key_Sem_Release
    <3>1. K_Sem' \in 0 .. MaxKeys
      BY <2>2 DEF Key_Sem_Release, LongPressCounts
    <3>2. K2_Long_Counter' \in 0 .. LongCount /\ K2_Long_Flag' \in {0, 1}
      BY <2>2 DEF Key_Sem_Release, LongPressCounts
    <3> QED
      BY <2>2, <3>1, <3>2 DEF Key_Sem_Release, WritePins
  <2>3. CASE TakeKey
    <3>1. /\ requests' \subseteq Requests /\ screenTimers' \in {"off", "fresh", "dim"}
          /\ cycle' \in {"no", "running"}
      BY <2>3 DEF TakeKey, Moto_Cycle
    <3> QED
      BY <2>3, <3>1 DEF TakeKey, LcdMayRun, lcd, hold
  <2>4. ASSUME NEW r \in Requests, ServeRequest(r)
        PROVE  TypeOK' /\ RoomForKey'
    <3>1. requests' \subseteq Requests
      BY <2>4 DEF ServeRequest, StartCycle, Moto_Cycle
    <3>2. screenTimers' \in {"off", "fresh", "dim"} /\ cycle' \in {"no", "running"}
      BY <2>4 DEF ServeRequest, StartCycle, Moto_Cycle
    <3>3. lcdOp' \in PinWork \cup {"idle"} /\ LCD_Flag' \in 0 .. 3 /\ lcdReq' \in Requests
      BY <2>4 DEF ServeRequest, PinsToWrite, NextFlag
    <3>4. UNCHANGED <<LCD_EN, LCD_BL, LowPowerTimer, RTC_Check_Sem, power, keyOp, hold,
                      K_Sem, hurried>>
      BY <2>4 DEF ServeRequest
    <3> QED
      BY <3>1, <3>2, <3>3, <3>4 DEF hold
  <2>5. CASE RequestServed
    <3>1. requests' \subseteq Requests
      BY <2>5 DEF RequestServed
    <3> QED
      BY <2>5, <3>1 DEF RequestServed, WritePins, hold
  <2>6. CASE LcdBacklightTimerCallback
    BY <2>6 DEF LcdBacklightTimerCallback, Hurry, tasks, hold
  <2>7. CASE LcdVccTimerCallback
    BY <2>7 DEF LcdVccTimerCallback, Hurry, EnterLowPower, CloseLcdVcc, tasks, hold
  <2>8. CASE LowPowerTimerCallback
    BY <2>8 DEF LowPowerTimerCallback, Hurry, EnterLowPower, CloseLcdVcc, tasks, hold
  <2>9. CASE button_wakeup
    BY <2>9 DEF button_wakeup, lcd, tasks, hold
  <2>10. CASE Delta_press
    BY <2>10 DEF Delta_press, lcd, hold
  <2>11. CASE CheckFindsEvent
    BY <2>11 DEF CheckFindsEvent, lcd, hold
  <2>12. CASE CheckFindsNone
    BY <2>12 DEF CheckFindsNone, lcd, tasks, hold
  <2>13. CASE JumpToBattery
    BY <2>13 DEF JumpToBattery, lcd, hold
  <2>14. CASE CycleEnds
    BY <2>14 DEF CycleEnds, lcd, tasks, hold
  <2>15. CASE UNCHANGED vars
    BY <2>15 DEF vars, lcd, tasks, hold
  <2>16. CASE HAL_RTC_AlarmAEventCallback
    BY <2>16 DEF HAL_RTC_AlarmAEventCallback, lcd, tasks, hold
  <2> QED
    BY <2>1, <2>2, <2>3, <2>4, <2>5, <2>6, <2>7, <2>8, <2>9, <2>10, <2>11, <2>12, <2>13,
       <2>14, <2>15, <2>16 DEF Next
<1> QED
  BY <1>1, <1>2, PTL DEF Spec
----------------------------------------------------------------------------
\* A display without supply that LCD_Flag calls lit or dark is put right,
\* wherever the timer thread cuts into OpenLcdDisplay and whenever it puts the
\* device to sleep: no step leaves such a display with nothing under way.
THEOREM WrongFlagPutRight == Spec => []WrongFlagIsPutRight
<1>1. Init => WrongFlagIsPutRight
  BY DEF Init, WrongFlagIsPutRight
<1>2. TypeOK /\ WrongFlagIsPutRight /\ [Next]_vars => WrongFlagIsPutRight'
  <2> SUFFICES ASSUME TypeOK, WrongFlagIsPutRight, [Next]_vars
               PROVE  WrongFlagIsPutRight'
    OBVIOUS
  <2> USE DEF TypeOK, WrongFlagIsPutRight, PinWork
  <2>1. CASE KeyPressed
    BY <2>1 DEF KeyPressed, PinsToWrite, NextFlag
  <2>2. CASE Key_Sem_Release
    BY <2>2 DEF Key_Sem_Release, WritePins
  <2>3. CASE TakeKey
    BY <2>3 DEF TakeKey, Moto_Cycle, lcd
  <2>4. ASSUME NEW r \in Requests, ServeRequest(r)
        PROVE  WrongFlagIsPutRight'
    <3>1. UNCHANGED <<LCD_EN, keyOp>> /\ lcdOp = "idle"
      BY <2>4 DEF ServeRequest
    <3>2. LCD_Flag = 3 => lcdOp' = "init"
      BY <2>4 DEF ServeRequest, PinsToWrite
    <3>3. (UNCHANGED screenTimers /\ cycle' = cycle) \/ cycle' = "running"
      BY <2>4 DEF ServeRequest, StartCycle, Moto_Cycle
    <3> QED
      BY <3>1, <3>2, <3>3
  <2>5. CASE RequestServed
    BY <2>5 DEF RequestServed, WritePins
  <2>6. CASE LcdBacklightTimerCallback
    BY <2>6 DEF LcdBacklightTimerCallback
  <2>7. CASE LcdVccTimerCallback \/ LowPowerTimerCallback
    BY <2>7 DEF LcdVccTimerCallback, LowPowerTimerCallback, EnterLowPower, CloseLcdVcc
  <2>8. CASE button_wakeup \/ HAL_RTC_AlarmAEventCallback \/ Delta_press
    BY <2>8 DEF button_wakeup, HAL_RTC_AlarmAEventCallback, Delta_press, lcd, tasks
  <2>9. CASE CheckFindsEvent \/ CheckFindsNone \/ JumpToBattery \/ CycleEnds
    BY <2>9 DEF CheckFindsEvent, CheckFindsNone, JumpToBattery, CycleEnds, lcd, tasks
  <2>10. CASE UNCHANGED vars
    BY <2>10 DEF vars, lcd, tasks
  <2> QED
    BY <2>1, <2>2, <2>3, <2>4, <2>5, <2>6, <2>7, <2>8, <2>9, <2>10 DEF Next
<1> QED
  BY <1>1, <1>2, TypeCorrect, PTL DEF Spec
----------------------------------------------------------------------------
(* FlagTellsDisplay speaks of quiet moments; its inductive strengthening   *)
(* says what the flag, the pins and the pin work under way have to do with *)
(* each other in between, and that nothing runs that could touch a display *)
(* that is off.  A key that is held, or waits for lcd_task, keeps the      *)
(* display lit; a callback that lights it hands no key on.                 *)

\* What is pending, in button_task or lcd_task, will set the pins.
Work == {keyOp, lcdOp}

\* A long press has begun to count.
KeyHeld == K2_Long_Counter > 0 \/ K2_Long_Flag = 1

FlagAndPins ==
    hurried = 0 =>
        /\ LCD_Flag = 3 => LCD_EN = 0 /\ Quiet /\ screenTimers = "off" /\ cycle = "no"
        /\ LCD_Flag = 2 => LCD_EN = 1 /\ LCD_BL = 0 /\ Quiet
        /\ LCD_Flag \in {0, 1} =>
              /\ LCD_EN = 1 \/ "init" \in Work
              /\ LCD_BL = 1 \/ "init" \in Work \/ "light" \in Work
        /\ KeyAtWork => LCD_Flag \in {0, 1} /\ (screenTimers = "fresh" \/ cycle = "running")
        /\ keyOp \in {"init", "light"} => LCD_Flag # 0 /\ ~KeyHeld

LEMMA FlagAndPinsInit == Init => FlagAndPins
BY DEF Init, FlagAndPins, Quiet, KeyAtWork

LEMMA FlagAndPinsStep == TypeOK /\ FlagAndPins /\ [Next]_vars => FlagAndPins'
<1> SUFFICES ASSUME TypeOK, FlagAndPins, [Next]_vars PROVE FlagAndPins'
  OBVIOUS
<1> USE ScreenConstants
        DEF ScreenConstants, TypeOK, FlagAndPins, Quiet, Work, PinWork, KeyAtWork, KeyHeld
<1>1. CASE KeyPressed
  BY <1>1 DEF KeyPressed, PinsToWrite, NextFlag
<1>2. CASE Key_Sem_Release
  BY <1>2 DEF Key_Sem_Release, WritePins
<1>3. CASE TakeKey
  BY <1>3 DEF TakeKey, Moto_Cycle, lcd, hold
<1>4. ASSUME NEW r \in Requests, ServeRequest(r)
      PROVE  FlagAndPins'
  BY <1>4 DEF ServeRequest, StartCycle, Moto_Cycle, PinsToWrite, NextFlag, LcdMayRun, hold
<1>5. CASE RequestServed
  BY <1>5 DEF RequestServed, WritePins, LcdMayRun, hold
<1>6. CASE LcdBacklightTimerCallback
  BY <1>6 DEF LcdBacklightTimerCallback, Hurry, tasks, hold
<1>7. CASE LcdVccTimerCallback
  BY <1>7 DEF LcdVccTimerCallback, Hurry, EnterLowPower, CloseLcdVcc, tasks, hold
<1>8. CASE LowPowerTimerCallback
  BY <1>8 DEF LowPowerTimerCallback, Hurry, EnterLowPower, CloseLcdVcc, tasks, hold
<1>9. CASE button_wakeup \/ HAL_RTC_AlarmAEventCallback \/ Delta_press
  BY <1>9 DEF button_wakeup, HAL_RTC_AlarmAEventCallback, Delta_press, lcd, tasks, hold
<1>10. CASE CheckFindsEvent \/ CheckFindsNone \/ JumpToBattery
  BY <1>10 DEF CheckFindsEvent, CheckFindsNone, JumpToBattery, lcd, tasks, hold
<1>11. CASE CycleEnds
  BY <1>11 DEF CycleEnds, lcd, tasks, hold
<1>12. CASE UNCHANGED vars
  BY <1>12 DEF vars, lcd, tasks, hold
<1> QED
  BY <1>1, <1>2, <1>3, <1>4, <1>5, <1>6, <1>7, <1>8, <1>9, <1>10, <1>11, <1>12 DEF Next

LEMMA FlagAndPinsImplies == TypeOK /\ FlagAndPins => FlagTellsDisplay
BY DEF TypeOK, FlagAndPins, FlagTellsDisplay, Undisturbed, Quiet, Work

LEMMA FlagAndPinsAlways == Spec => []FlagAndPins
<1> QED
  BY FlagAndPinsInit, FlagAndPinsStep, TypeCorrect, PTL DEF Spec

\* LCD_Flag tells what the pins show, by the comment on it, whenever nobody is
\* inside OpenLcdDisplay and the timer thread has not cut into it or put a lit
\* device to sleep by the hour: whoever else ran in between, in any order.
THEOREM FlagIsTrue == Spec => []FlagTellsDisplay
<1> QED
  BY FlagAndPinsAlways, FlagAndPinsImplies, TypeCorrect, PTL

\* A callback hands a key to the windows only if the display was lit before
\* it, or lcd_task is about to light it: for the four semaphores, long presses
\* included, as long as a long press takes more than one callback to act.
THEOREM KeysFindScreenLit == Spec => KeysActOnVisibleScreen
<1>1. TypeOK /\ FlagAndPins /\ [Next]_vars =>
        [K_Sem' > K_Sem /\ hurried = 0
           => (LCD_EN = 1 /\ LCD_BL = 1) \/ lcdOp \in {"init", "light"}]_vars
  <2> SUFFICES ASSUME TypeOK, FlagAndPins, Next, K_Sem' > K_Sem, hurried = 0
               PROVE  (LCD_EN = 1 /\ LCD_BL = 1) \/ lcdOp \in {"init", "light"}
    OBVIOUS
  <2>1. K_Sem \in Int
    BY ScreenConstants DEF ScreenConstants, TypeOK
  <2>2. Key_Sem_Release
    <3>1. TakeKey => K_Sem' = K_Sem - 1
      BY DEF TakeKey
    <3>2. Key_Sem_Release \/ TakeKey \/ UNCHANGED K_Sem
      BY DEF Next, KeyPressed, ServeRequest, RequestServed, LcdBacklightTimerCallback,
             LcdVccTimerCallback, LowPowerTimerCallback, button_wakeup,
             HAL_RTC_AlarmAEventCallback, Delta_press, CheckFindsEvent, CheckFindsNone,
             JumpToBattery, CycleEnds, tasks
    <3> QED
      BY <2>1, <3>1, <3>2
  <2>3. keyOp # "idle" /\ (LCD_Flag = 0 \/ K2_Long_Counter > 0)
    BY <2>1, <2>2, ScreenConstants
       DEF ScreenConstants, TypeOK, Key_Sem_Release, LongPressCounts
  \* This callback had nothing to light ...
  <2>4. keyOp = "none"
    BY <2>3 DEF TypeOK, PinWork, FlagAndPins, KeyHeld
  \* ... and the flag, which says lit, is true but for what lcd_task is doing.
  <2>5. LCD_Flag \in {0, 1}
    BY <2>3 DEF TypeOK, FlagAndPins, Quiet
  <2> QED
    BY <2>4, <2>5 DEF TypeOK, PinWork, FlagAndPins, Work
<1> QED
  BY <1>1, FlagAndPinsAlways, TypeCorrect, PTL DEF Spec, KeysActOnVisibleScreen
=============================================================================

--------------------------- MODULE RTCWorkProofs ---------------------------
(***************************************************************************)
(* The counts of device/RTCWork.c never run ahead of the time that has     *)
(* really passed, for every period, every number of losses of power and    *)
(* every interleaving of the alarm, RTC_Check and lcd_task.                *)
(***************************************************************************)
EXTENDS RTCWork, TLAPS

CountInv == TypeOK /\ NotAhead

\* What a restart, or the start of the program, leaves in RAM has its type.
LEMMA ZeroType ==
    /\ Zero \in [Schedules -> {0, 1}] /\ Zero \in [Schedules -> Nat]
    /\ Zero \in [Schedules -> 0 .. MaxWeek] /\ Zero \in [Schedules -> 0 .. MaxDay]
    /\ \A s \in Schedules : Zero[s] = 0
    /\ [week |-> 0, day |-> 0, enable |-> 0] \in Choices
  BY RtcConstants DEF RtcConstants, Zero, Choices

\* The variables of the two schedules are distinct entries of Key_list.
LEMMA IdsDistinct ==
    \A s \in Schedules :
        /\ WeekId(s) \in Ids /\ DayId(s) \in Ids
        /\ EnableId(s) \in Ids /\ TimeId(s) \in Ids
        /\ \A t \in Schedules :
              /\ WeekId(s) \notin {DayId(t), EnableId(t), TimeId(t)}
              /\ DayId(s) \notin {EnableId(t), TimeId(t)}
              /\ EnableId(s) # TimeId(t)
              /\ s # t => /\ WeekId(s) # WeekId(t) /\ DayId(s) # DayId(t)
                          /\ EnableId(s) # EnableId(t) /\ TimeId(s) # TimeId(t)
  BY DEF Schedules, WeekId, DayId, EnableId, TimeId, Ids

\* Saving a settings window leaves a value that the window offers.
LEMMA NoZeroPeriodType == \A v \in Choices : NoZeroPeriod(v) \in Choices
  BY RtcConstants DEF RtcConstants, NoZeroPeriod, Choices

LEMMA CountInit == Init => CountInv
<1> SUFFICES ASSUME Init PROVE CountInv
  OBVIOUS
<1>1. \A i \in Ids : flash[i] = 0
  BY DEF Init
<1>2. TypeOK
  BY <1>1, ZeroType, IdsDistinct, RtcConstants
     DEF RtcConstants, Init, TypeOK, Schedules
<1>3. NotAhead
  BY <1>1, ZeroType, IdsDistinct, RtcConstants DEF RtcConstants, Init, NotAhead
<1> QED
  BY <1>2, <1>3 DEF CountInv

\* A store in flash keeps the types when it writes a value of the id's range.
LEMMA FlashSetType ==
    ASSUME TypeOK, NEW id \in Ids, NEW value \in Nat, Flash_Set(id, value),
           \A s \in Schedules : /\ id = WeekId(s) => value \in 0 .. MaxWeek
                                /\ id = DayId(s) => value \in 0 .. MaxDay
                                /\ id = EnableId(s) => value \in {0, 1}
    PROVE  /\ flash' \in [Ids -> Nat]
           /\ \A s \in Schedules : /\ flash'[WeekId(s)] \in 0 .. MaxWeek
                                   /\ flash'[DayId(s)] \in 0 .. MaxDay
                                   /\ flash'[EnableId(s)] \in {0, 1}
<1>1. flash' \in [Ids -> Nat]
  BY DEF Flash_Set, TypeOK
<1>2. \A i \in Ids : flash'[i] = IF i = id THEN value ELSE flash[i]
  BY DEF Flash_Set, TypeOK
<1>3. ASSUME NEW s \in Schedules
      PROVE  /\ flash'[WeekId(s)] \in 0 .. MaxWeek
             /\ flash'[DayId(s)] \in 0 .. MaxDay
             /\ flash'[EnableId(s)] \in {0, 1}
  BY <1>2, IdsDistinct DEF TypeOK
<1> QED
  BY <1>1, <1>3

\* Every step of the program keeps the types.
LEMMA TypeStep == TypeOK /\ [Next]_vars => TypeOK'
<1> SUFFICES ASSUME TypeOK, [Next]_vars PROVE TypeOK'
  OBVIOUS
<1> USE RtcConstants DEF RtcConstants, settings, check, task
<1>1. CASE HAL_RTC_AlarmAEventCallback
  <2>1. Time' \in [Schedules -> Nat] /\ since' \in [Schedules -> Nat]
    BY <1>1 DEF HAL_RTC_AlarmAEventCallback, RTC_Timer_Entry, TypeOK
  <2> QED
    BY <1>1, <2>1 DEF HAL_RTC_AlarmAEventCallback, Tear, TypeOK
<1>2. CASE TakeCheckSem
  BY <1>2 DEF TakeCheckSem, ClearEvent, TypeOK, Schedules
<1>3. CASE Decide
  <2>1. Time' \in [Schedules -> Nat] /\ arg' \in Nat
    BY <1>3 DEF Decide, TypeOK
  <2> QED
    BY <1>3, <2>1 DEF Decide, NextSchedule, TypeOK, Schedules
<1>4. CASE Store
  <2>1. /\ flash' \in [Ids -> Nat]
        /\ \A s \in Schedules : /\ flash'[WeekId(s)] \in 0 .. MaxWeek
                                /\ flash'[DayId(s)] \in 0 .. MaxDay
                                /\ flash'[EnableId(s)] \in {0, 1}
    BY <1>4, FlashSetType, IdsDistinct DEF Store, TypeOK
  <2> QED
    BY <1>4, <2>1 DEF Store, NextSchedule, TypeOK, Schedules
<1>5. CASE Clear
  <2>1. /\ flash' \in [Ids -> Nat]
        /\ \A s \in Schedules : /\ flash'[WeekId(s)] \in 0 .. MaxWeek
                                /\ flash'[DayId(s)] \in 0 .. MaxDay
                                /\ flash'[EnableId(s)] \in {0, 1}
    BY <1>5, FlashSetType, IdsDistinct DEF Clear, StoreZero, TypeOK
  <2> QED
    BY <1>5, <2>1 DEF Clear, TypeOK
<1>6. CASE Jump
  <2>1. Flag' \in [Schedules -> {0, 1}] /\ since' \in [Schedules -> Nat]
    BY <1>6 DEF Jump, TypeOK
  <2> QED
    BY <1>6, <2>1 DEF Jump, NextSchedule, TypeOK, Schedules
<1>7. CASE EndCheck
  BY <1>7 DEF EndCheck, TypeOK
<1>8. CASE LowPowerTimerCallback
  BY <1>8 DEF LowPowerTimerCallback, TypeOK
<1>9. CASE GotValue
  <2>1. /\ Week' \in [Schedules -> 0 .. MaxWeek]
        /\ Day' \in [Schedules -> 0 .. MaxDay]
        /\ Enable' \in [Schedules -> {0, 1}]
    BY <1>9 DEF GotValue, TypeOK
  <2> QED
    BY <1>9, <2>1 DEF GotValue, TypeOK
<1>10. CASE Moto_Cycle
  BY <1>10, ZeroType DEF Moto_Cycle, RTC_Clear, TypeOK
<1>11. CASE Delta_press_work
  <2>1. Flag' \in [Schedules -> {0, 1}]
    BY <1>11 DEF Delta_press_work, TypeOK
  <2> QED
    BY <1>11, <2>1 DEF Delta_press_work, TypeOK
<1>12. ASSUME NEW s \in Schedules, SeeFlag(s) PROVE TypeOK'
  <2>1. Flag' \in [Schedules -> {0, 1}] /\ Time' \in [Schedules -> Nat]
    BY <1>12, ZeroType DEF SeeFlag, RTC_Clear, TypeOK
  <2> QED
    BY <1>12, <2>1 DEF SeeFlag, TypeOK
<1>13. ASSUME NEW s \in Edited, BeginSave(s) PROVE TypeOK'
  <2>1. new' \in Choices /\ ls' \in Schedules
    BY <1>13, NoZeroPeriodType DEF BeginSave, Schedules
  <2> QED
    BY <1>13, <2>1 DEF BeginSave, Tear, TypeOK
<1>14. CASE Save
  <2> USE <1>14 DEF Save
  <2>1. new.week \in 0 .. MaxWeek /\ new.day \in 0 .. MaxDay /\ new.enable \in {0, 1}
    BY DEF TypeOK, Choices
  <2>2. CASE lcd \in {"week", "day", "enable"}
    <3>1. /\ Week' \in [Schedules -> 0 .. MaxWeek]
          /\ Day' \in [Schedules -> 0 .. MaxDay]
          /\ Enable' \in [Schedules -> {0, 1}]
          /\ Time' \in [Schedules -> Nat]
      BY <2>1, <2>2 DEF SaveWeek, SaveDay, SaveEnable, TypeOK
    <3> QED
      BY <2>2, <3>1 DEF SaveWeek, SaveDay, SaveEnable, TypeOK
  <2>3. CASE lcd \in {"fweek", "fday", "fenable"}
    <3>1. /\ flash' \in [Ids -> Nat]
          /\ \A s \in Schedules : /\ flash'[WeekId(s)] \in 0 .. MaxWeek
                                  /\ flash'[DayId(s)] \in 0 .. MaxDay
                                  /\ flash'[EnableId(s)] \in {0, 1}
      <4>1. CASE lcd = "fweek"
        BY <2>1, <4>1, FlashSetType, IdsDistinct
           DEF SaveWeek, SaveDay, SaveEnable, TypeOK
      <4>2. CASE lcd = "fday"
        BY <2>1, <4>2, FlashSetType, IdsDistinct
           DEF SaveWeek, SaveDay, SaveEnable, TypeOK
      <4>3. CASE lcd = "fenable"
        BY <2>1, <4>3, FlashSetType, IdsDistinct
           DEF SaveWeek, SaveDay, SaveEnable, TypeOK
      <4> QED
        BY <2>3, <4>1, <4>2, <4>3
    <3> QED
      BY <2>3, <3>1 DEF SaveWeek, SaveDay, SaveEnable, TypeOK
  <2> QED
    BY <2>2, <2>3 DEF SaveWeek, SaveDay, SaveEnable
<1>15. CASE PowerLoss \/ rt_hw_cpu_reset
  <2>1. Time' \in [Schedules -> Nat]
    BY <1>15, IdsDistinct DEF PowerLoss, rt_hw_cpu_reset, Restart, TypeOK
  <2>2. torn' \in {0, 1} /\ crashes' \in Nat
    BY <1>15 DEF PowerLoss, rt_hw_cpu_reset, Tear, TypeOK
  <2>3. Restart
    BY <1>15 DEF PowerLoss, rt_hw_cpu_reset
  <2> QED
    BY <2>1, <2>2, <2>3, ZeroType DEF Restart, TypeOK, Schedules
<1>16. CASE BeginFactory
  BY <1>16 DEF BeginFactory, Tear, TypeOK
<1>17. CASE Flash_Factory
  <2>1. FactoryIds[step] \in Ids /\ step + 1 \in 1 .. 9
    BY <1>17 DEF Flash_Factory, FactoryIds, Ids, TypeOK
  <2>2. /\ flash' \in [Ids -> Nat]
        /\ \A s \in Schedules : /\ flash'[WeekId(s)] \in 0 .. MaxWeek
                                /\ flash'[DayId(s)] \in 0 .. MaxDay
                                /\ flash'[EnableId(s)] \in {0, 1}
    BY <1>17, <2>1, FlashSetType DEF Flash_Factory
  <2> QED
    BY <1>17, <2>1, <2>2 DEF Flash_Factory, TypeOK
<1>18. CASE UNCHANGED vars
  BY <1>18 DEF vars, TypeOK
<1> QED
  BY <1>1, <1>2, <1>3, <1>4, <1>5, <1>6, <1>7, <1>8, <1>9, <1>10, <1>11, <1>12,
     <1>13, <1>14, <1>15, <1>16, <1>17, <1>18
     DEF Next, RTC_Check_Callback

\* A store that writes no more than what is already there, or than the hours
\* that have passed, keeps the count in flash behind them.
LEMMA FlashSetOther ==
    ASSUME TypeOK, NEW id \in Ids, NEW value \in Nat, Flash_Set(id, value)
    PROVE  \A s \in Schedules :
              flash'[TimeId(s)] = IF id = TimeId(s) THEN value ELSE flash[TimeId(s)]
  BY IdsDistinct DEF Flash_Set, TypeOK

\* A step that only clears counts, and leaves RTC_Check alone, keeps them
\* behind the hours.
LEMMA CountsDrop ==
    ASSUME TypeOK, NotAhead, UNCHANGED <<chk, cs, arg, since>>,
           \A s \in Schedules : /\ Time'[s] \in {0, Time[s]}
                                /\ flash'[TimeId(s)] \in {0, flash[TimeId(s)]}
    PROVE  NotAhead'
<1> SUFFICES ASSUME NEW s \in Schedules
             PROVE  /\ since[s] < SinceCap =>
                          /\ Time'[s] <= since[s]
                          /\ flash'[TimeId(s)] <= since[s]
                          /\ cs = s /\ chk = "store" => arg <= since[s]
                    /\ cs = s /\ chk \in {"clear", "jump"} => Time'[s] = 0
                    /\ cs = s /\ chk = "jump" => flash'[TimeId(s)] = 0
  BY DEF NotAhead, TimeId
<1>1. since[s] \in Nat
  BY DEF TypeOK
<1>2. Time'[s] \in {0, Time[s]} /\ flash'[TimeId(s)] \in {0, flash[TimeId(s)]}
  OBVIOUS
<1>3. /\ since[s] < SinceCap => /\ Time[s] <= since[s]
                                /\ flash[TimeId(s)] <= since[s]
                                /\ cs = s /\ chk = "store" => arg <= since[s]
      /\ cs = s /\ chk \in {"clear", "jump"} => Time[s] = 0
      /\ cs = s /\ chk = "jump" => flash[TimeId(s)] = 0
  BY DEF NotAhead
<1> QED
  BY <1>1, <1>2, <1>3

\* Every step of the program keeps the counts behind the hours.
LEMMA AheadStep == TypeOK /\ NotAhead /\ [Next]_vars => NotAhead'
<1> SUFFICES ASSUME TypeOK, NotAhead, [Next]_vars PROVE NotAhead'
  OBVIOUS
<1> USE RtcConstants DEF RtcConstants, settings, check, task
<1>1. CASE HAL_RTC_AlarmAEventCallback
  <2>1. chk = "take" /\ chk' = "take"
    BY <1>1 DEF HAL_RTC_AlarmAEventCallback, CheckDone
  <2>2. ASSUME NEW s \in Schedules, since'[s] < SinceCap
        PROVE  Time'[s] <= since'[s] /\ flash'[TimeId(s)] <= since'[s]
    <3>1. since[s] \in Nat /\ Time[s] \in Nat /\ flash[TimeId(s)] \in Nat
      BY IdsDistinct DEF TypeOK
    <3>2. /\ since'[s] = IF since[s] < SinceCap THEN since[s] + 1 ELSE since[s]
          /\ Time'[s] \in {Time[s], Time[s] + 1}
          /\ flash' = flash
      BY <1>1 DEF HAL_RTC_AlarmAEventCallback, RTC_Timer_Entry
    <3>3. since[s] < SinceCap /\ since'[s] = since[s] + 1
      BY <2>2, <3>1, <3>2
    <3>4. Time[s] <= since[s] /\ flash[TimeId(s)] <= since[s]
      BY <3>3 DEF NotAhead
    <3> QED
      BY <3>1, <3>2, <3>3, <3>4
  <2> QED
    BY <2>1, <2>2 DEF NotAhead, TimeId
<1>2. CASE TakeCheckSem
  BY <1>2 DEF TakeCheckSem, NotAhead
<1>3. CASE Decide
  BY <1>3 DEF Decide, NextSchedule, TypeOK, NotAhead
<1>4. CASE Store
  <2>1. \A s \in Schedules :
           flash'[TimeId(s)] = IF s = cs THEN arg ELSE flash[TimeId(s)]
    BY <1>4, FlashSetOther, IdsDistinct DEF Store, TypeOK
  <2> QED
    BY <1>4, <2>1 DEF Store, NextSchedule, TypeOK, NotAhead
<1>5. CASE Clear
  <2>1. \A s \in Schedules :
           flash'[TimeId(s)] = IF s = cs THEN 0 ELSE flash[TimeId(s)]
    BY <1>5, FlashSetOther, IdsDistinct DEF Clear, StoreZero, TypeOK
  <2> QED
    BY <1>5, <2>1 DEF Clear, TypeOK, NotAhead
<1>6. CASE Jump
  BY <1>6 DEF Jump, NextSchedule, TypeOK, NotAhead
<1>7. CASE EndCheck
  BY <1>7 DEF EndCheck, NotAhead
<1>8. CASE LowPowerTimerCallback
  BY <1>8 DEF LowPowerTimerCallback, NotAhead
<1>9. CASE GotValue
  BY <1>9 DEF GotValue, NotAhead
<1>10. CASE Moto_Cycle
  BY <1>10, ZeroType, CountsDrop DEF Moto_Cycle, RTC_Clear
<1>11. CASE Delta_press_work
  BY <1>11 DEF Delta_press_work, NotAhead
<1>12. ASSUME NEW s \in Schedules, SeeFlag(s) PROVE NotAhead'
  BY <1>12, ZeroType, CountsDrop DEF SeeFlag, RTC_Clear
<1>13. ASSUME NEW s \in Edited, BeginSave(s) PROVE NotAhead'
  BY <1>13 DEF BeginSave, NotAhead
<1>14. CASE Save
  <2> USE <1>14 DEF Save
  <2>1. \A s \in Schedules : Time'[s] \in {0, Time[s]}
    BY DEF SaveWeek, SaveDay, SaveEnable, TypeOK
  <2>2. new.week \in Nat /\ new.day \in Nat /\ new.enable \in Nat
    BY DEF TypeOK, Choices
  <2>3. \A s \in Schedules : flash'[TimeId(s)] = flash[TimeId(s)]
    <3>1. CASE lcd = "fweek"
      BY <2>2, <3>1, FlashSetOther, IdsDistinct DEF SaveWeek, SaveDay, SaveEnable, TypeOK
    <3>2. CASE lcd = "fday"
      BY <2>2, <3>2, FlashSetOther, IdsDistinct DEF SaveWeek, SaveDay, SaveEnable, TypeOK
    <3>3. CASE lcd = "fenable"
      BY <2>2, <3>3, FlashSetOther, IdsDistinct DEF SaveWeek, SaveDay, SaveEnable, TypeOK
    <3> QED
      BY <3>1, <3>2, <3>3 DEF SaveWeek, SaveDay, SaveEnable
  <2> QED
    BY <2>1, <2>3, CountsDrop
<1>15. CASE Restart /\ crashes' = crashes + 1
  BY <1>15, IdsDistinct DEF Restart, TypeOK, NotAhead
<1>16. CASE BeginFactory
  BY <1>16 DEF BeginFactory, NotAhead
<1>17. CASE Flash_Factory
  <2>1. FactoryIds[step] \in Ids
    BY <1>17 DEF Flash_Factory, FactoryIds, Ids, TypeOK
  <2>2. \A s \in Schedules : flash'[TimeId(s)] \in {0, flash[TimeId(s)]}
    BY <1>17, <2>1, FlashSetOther DEF Flash_Factory
  <2> QED
    BY <1>17, <2>2, CountsDrop DEF Flash_Factory
<1>18. CASE UNCHANGED vars
  BY <1>18 DEF vars, NotAhead
<1> QED
  BY <1>1, <1>2, <1>3, <1>4, <1>5, <1>6, <1>7, <1>8, <1>9, <1>10, <1>11, <1>12,
     <1>13, <1>14, <1>15, <1>16, <1>17, <1>18
     DEF Next, RTC_Check_Callback, PowerLoss, rt_hw_cpu_reset

\* Type correctness of the schedules, their copy in flash included, across
\* saves, factory resets and losses of power.
THEOREM RtcTypeCorrect == Spec => []TypeOK
<1>1. CountInv => TypeOK
  BY DEF CountInv
<1>2. CountInv /\ [Next]_vars => CountInv'
  BY TypeStep, AheadStep DEF CountInv
<1> QED
  BY CountInit, <1>1, <1>2, PTL DEF Spec

\* No count, in RAM or in flash, ever exceeds the hours since its schedule
\* last raised its flag: RTC_Check_Callback clears both before it jumps, so
\* that no restart repeats a reminder or a backwash.
THEOREM CountsNeverAhead == Spec => []NotAhead
<1>1. CountInv => NotAhead
  BY DEF CountInv
<1>2. CountInv /\ [Next]_vars => CountInv'
  BY TypeStep, AheadStep DEF CountInv
<1> QED
  BY CountInit, <1>1, <1>2, PTL DEF Spec
----------------------------------------------------------------------------
(* An enabled schedule has a period.                                       *)

Positive(week, day) == week > 0 \/ day > 0

\* As long as nothing was torn, no check runs while lcd_task writes settings.
NoCheckInSave == torn = 0 /\ ~Quiet => CheckDone

\* A schedule that is enabled has a period, in RAM and in flash, except in
\* the middle of its save or of the factory reset, which write one by one.
RamPeriod ==
    torn = 0 => \A s \in Schedules :
        Enable[s] # 0 /\ ~(ls = s /\ lcd \in {"fweek", "day", "fday", "enable"})
            => Positive(Week[s], Day[s])

FlashPeriod ==
    torn = 0 /\ lcd # "factory" => \A s \in Schedules :
        flash[EnableId(s)] # 0 /\ ~(ls = s /\ lcd \in {"day", "fday", "enable", "fenable"})
            => Positive(flash[WeekId(s)], flash[DayId(s)])

\* What a save, the start and the factory reset have written so far.
SaveProgress ==
    /\ lcd \in {"week", "fweek", "day", "fday", "enable", "fenable"} =>
          Positive(new.week, new.day)
    /\ lcd \in {"fweek", "day", "fday", "enable", "fenable"} => Week[ls] = new.week
    /\ lcd \in {"day", "fday", "enable", "fenable"} => flash[WeekId(ls)] = new.week
    /\ lcd \in {"fday", "enable", "fenable"} => Day[ls] = new.day
    /\ lcd \in {"enable", "fenable"} => flash[DayId(ls)] = new.day

BootProgress ==
    lcd = "boot" => \A s \in Schedules :
        /\ step > WeekId(s) => Week[s] = flash[WeekId(s)]
        /\ step > DayId(s) => Day[s] = flash[DayId(s)]
        /\ step <= EnableId(s) => Enable[s] = 0

FactoryProgress ==
    lcd = "factory" => \A s \in Schedules :
        step > EnableId(s) => flash[EnableId(s)] = 0

SettingsInv == RamPeriod /\ FlashPeriod /\ SaveProgress /\ BootProgress /\ FactoryProgress

\* A due schedule has waited for a day.
WaitedADay == torn = 0 /\ chk \in {"clear", "jump"} => since[cs] >= HoursPerDay

LEMMA FlashSetEntry ==
    ASSUME TypeOK, NEW id \in Ids, NEW value, Flash_Set(id, value)
    PROVE  \A i \in Ids : flash'[i] = IF i = id THEN value ELSE flash[i]
  BY DEF Flash_Set, TypeOK

\* A step that leaves the settings alone, in RAM and in flash.
LEMMA SettingsKept ==
    ASSUME SettingsInv, UNCHANGED <<settings, task>>, torn' = 0 => torn = 0,
           \A s \in Schedules : /\ flash'[WeekId(s)] = flash[WeekId(s)]
                                /\ flash'[DayId(s)] = flash[DayId(s)]
                                /\ flash'[EnableId(s)] = flash[EnableId(s)],
           ls \in Schedules
    PROVE  SettingsInv'
<1> USE DEF settings, task, WeekId, DayId, EnableId
<1>1. RamPeriod'
  BY DEF SettingsInv, RamPeriod
<1>2. FlashPeriod'
  BY DEF SettingsInv, FlashPeriod
<1>3. SaveProgress'
  BY DEF SettingsInv, SaveProgress
<1>4. BootProgress' /\ FactoryProgress'
  BY DEF SettingsInv, BootProgress, FactoryProgress
<1> QED
  BY <1>1, <1>2, <1>3, <1>4 DEF SettingsInv

\* What the window functions save has a period.
LEMMA NoZeroPeriodPositive ==
    \A v \in Choices : Positive(NoZeroPeriod(v).week, NoZeroPeriod(v).day)
  BY RtcConstants DEF RtcConstants, NoZeroPeriod, Choices, Positive

LEMMA SaveStep == TypeOK /\ SettingsInv /\ Save => SettingsInv'
<1> SUFFICES ASSUME TypeOK, SettingsInv, Save PROVE SettingsInv'
  OBVIOUS
<1> USE DEF Save, task
<1>0. /\ UNCHANGED <<ls, new, step, torn>>
      /\ ls \in Schedules
      /\ Week \in [Schedules -> Nat] /\ Day \in [Schedules -> Nat]
      /\ Enable \in [Schedules -> {0, 1}]
      /\ WeekId(ls) \in Ids /\ DayId(ls) \in Ids /\ EnableId(ls) \in Ids
  BY IdsDistinct DEF TypeOK
<1>1. CASE lcd = "week"
  <2>1. /\ lcd' = "fweek" /\ UNCHANGED <<flash, Day, Enable>>
        /\ Week' = [Week EXCEPT ![ls] = new.week]
    BY <1>1 DEF SaveWeek, SaveDay, SaveEnable
  <2> QED
    BY <1>0, <1>1, <2>1
       DEF SettingsInv, RamPeriod, FlashPeriod, SaveProgress, BootProgress, FactoryProgress,
           WeekId, DayId, EnableId
<1>2. CASE lcd = "fweek"
  <2>1. lcd' = "day" /\ UNCHANGED <<Week, Day, Enable>> /\ Flash_Set(WeekId(ls), new.week)
    BY <1>2 DEF SaveWeek, SaveDay, SaveEnable
  <2>2. \A i \in Ids : flash'[i] = IF i = WeekId(ls) THEN new.week ELSE flash[i]
    BY <1>0, <2>1, FlashSetEntry
  <2>3. \A s \in Schedules : s # ls =>
           /\ flash'[WeekId(s)] = flash[WeekId(s)] /\ flash'[DayId(s)] = flash[DayId(s)]
           /\ flash'[EnableId(s)] = flash[EnableId(s)]
    BY <1>0, <2>2, IdsDistinct
  <2>4. flash'[WeekId(ls)] = new.week
    BY <1>0, <2>2
  <2> QED
    BY <1>0, <1>2, <2>1, <2>3, <2>4
       DEF SettingsInv, RamPeriod, FlashPeriod, SaveProgress, BootProgress, FactoryProgress,
           WeekId, DayId, EnableId
<1>3. CASE lcd = "day"
  <2>1. /\ lcd' = "fday" /\ UNCHANGED <<flash, Week, Enable>>
        /\ Day' = [Day EXCEPT ![ls] = new.day]
    BY <1>3 DEF SaveWeek, SaveDay, SaveEnable
  <2> QED
    BY <1>0, <1>3, <2>1
       DEF SettingsInv, RamPeriod, FlashPeriod, SaveProgress, BootProgress, FactoryProgress,
           WeekId, DayId, EnableId
<1>4. CASE lcd = "fday"
  <2>1. lcd' = "enable" /\ UNCHANGED <<Week, Day, Enable>> /\ Flash_Set(DayId(ls), new.day)
    BY <1>4 DEF SaveWeek, SaveDay, SaveEnable
  <2>2. \A i \in Ids : flash'[i] = IF i = DayId(ls) THEN new.day ELSE flash[i]
    BY <1>0, <2>1, FlashSetEntry
  <2>3. \A s \in Schedules : s # ls =>
           /\ flash'[WeekId(s)] = flash[WeekId(s)] /\ flash'[DayId(s)] = flash[DayId(s)]
           /\ flash'[EnableId(s)] = flash[EnableId(s)]
    BY <1>0, <2>2, IdsDistinct
  <2>4. flash'[WeekId(ls)] = flash[WeekId(ls)] /\ flash'[DayId(ls)] = new.day
    BY <1>0, <2>2, IdsDistinct
  <2> QED
    BY <1>0, <1>4, <2>1, <2>3, <2>4
       DEF SettingsInv, RamPeriod, FlashPeriod, SaveProgress, BootProgress, FactoryProgress,
           WeekId, DayId, EnableId
<1>5. CASE lcd = "enable"
  <2>1. /\ lcd' = "fenable" /\ UNCHANGED <<flash, Week, Day>>
        /\ Enable' = [Enable EXCEPT ![ls] = new.enable]
    BY <1>5 DEF SaveWeek, SaveDay, SaveEnable
  <2> QED
    BY <1>0, <1>5, <2>1
       DEF SettingsInv, RamPeriod, FlashPeriod, SaveProgress, BootProgress, FactoryProgress,
           WeekId, DayId, EnableId
<1>6. CASE lcd = "fenable"
  <2>1. lcd' = "loop" /\ UNCHANGED <<Week, Day, Enable>> /\ Flash_Set(EnableId(ls), new.enable)
    BY <1>6 DEF SaveWeek, SaveDay, SaveEnable
  <2>2. \A i \in Ids : flash'[i] = IF i = EnableId(ls) THEN new.enable ELSE flash[i]
    BY <1>0, <2>1, FlashSetEntry
  <2>3. \A s \in Schedules : s # ls =>
           /\ flash'[WeekId(s)] = flash[WeekId(s)] /\ flash'[DayId(s)] = flash[DayId(s)]
           /\ flash'[EnableId(s)] = flash[EnableId(s)]
    BY <1>0, <2>2, IdsDistinct
  <2>4. flash'[WeekId(ls)] = flash[WeekId(ls)] /\ flash'[DayId(ls)] = flash[DayId(ls)]
    BY <1>0, <2>2, IdsDistinct
  <2> QED
    BY <1>0, <1>6, <2>1, <2>3, <2>4
       DEF SettingsInv, RamPeriod, FlashPeriod, SaveProgress, BootProgress, FactoryProgress,
           WeekId, DayId, EnableId
<1> QED
  BY <1>1, <1>2, <1>3, <1>4, <1>5, <1>6 DEF SaveWeek, SaveDay, SaveEnable

\* Every step of the program keeps the settings as SettingsInv describes them.
LEMMA SettingsStep ==
    TypeOK /\ SettingsInv /\ [Next]_vars => SettingsInv'
<1> SUFFICES ASSUME TypeOK, SettingsInv, [Next]_vars PROVE SettingsInv'
  OBVIOUS
<1>1. CASE HAL_RTC_AlarmAEventCallback \/ TakeCheckSem \/ Decide \/ Jump \/ EndCheck
           \/ LowPowerTimerCallback \/ Moto_Cycle \/ Delta_press_work
           \/ (\E s \in Schedules : SeeFlag(s)) \/ UNCHANGED vars
  <2>1. UNCHANGED <<settings, task, flash>> /\ (torn' = 0 => torn = 0)
    BY <1>1 DEF HAL_RTC_AlarmAEventCallback, Tear, TakeCheckSem, Decide, Jump, EndCheck,
       LowPowerTimerCallback, Moto_Cycle, Delta_press_work, SeeFlag, vars, TypeOK
  <2> QED
    BY <2>1, SettingsKept DEF TypeOK
<1>2. CASE Store \/ Clear
  <2>1. UNCHANGED <<settings, task, torn>>
    BY <1>2 DEF Store, Clear
  <2>2. PICK value : Flash_Set(TimeId(cs), value)
    BY <1>2 DEF Store, Clear, StoreZero
  <2>3. \A i \in Ids : i # TimeId(cs) => flash'[i] = flash[i]
    BY <2>2, FlashSetEntry, IdsDistinct DEF TypeOK
  <2>4. \A s \in Schedules : /\ flash'[WeekId(s)] = flash[WeekId(s)]
                             /\ flash'[DayId(s)] = flash[DayId(s)]
                             /\ flash'[EnableId(s)] = flash[EnableId(s)]
    BY <2>3, IdsDistinct DEF TypeOK
  <2> QED
    BY <2>1, <2>4, SettingsKept DEF TypeOK
<1>3. CASE GotValue
  <2>1. /\ UNCHANGED <<flash, ls, new, torn>> /\ lcd = "boot"
        /\ lcd' = (IF step < 6 THEN "boot" ELSE "loop")
        /\ step' = (IF step < 6 THEN step + 1 ELSE 1)
    BY <1>3 DEF GotValue
  <2>2. \A s \in Schedules :
           /\ Week'[s] = IF step = WeekId(s) THEN flash[WeekId(s)] ELSE Week[s]
           /\ Day'[s] = IF step = DayId(s) THEN flash[DayId(s)] ELSE Day[s]
           /\ Enable'[s] = IF step = EnableId(s) THEN flash[EnableId(s)] ELSE Enable[s]
    BY <1>3 DEF GotValue
  <2>3. step \in 1 .. 9 /\ ls \in Schedules
    BY DEF TypeOK
  <2>4. BootProgress'
    BY <2>1, <2>2, <2>3 DEF SettingsInv, BootProgress, WeekId, DayId, EnableId
  <2>5. RamPeriod'
    <3> SUFFICES ASSUME torn = 0, NEW s \in Schedules, Enable'[s] # 0
                 PROVE  Positive(Week'[s], Day'[s])
      BY <2>1 DEF RamPeriod
    <3>1. CASE step = EnableId(s)
      <4>1. Week'[s] = flash[WeekId(s)] /\ Day'[s] = flash[DayId(s)] /\ flash[EnableId(s)] # 0
        BY <2>1, <2>2, <3>1 DEF SettingsInv, BootProgress, WeekId, DayId, EnableId
      <4> QED
        BY <2>1, <4>1 DEF SettingsInv, FlashPeriod
    <3>2. CASE step # EnableId(s)
      <4>1. Enable[s] # 0 /\ step > EnableId(s)
        BY <2>1, <2>2, <2>3, <3>2 DEF SettingsInv, BootProgress, EnableId
      <4>2. Week'[s] = Week[s] /\ Day'[s] = Day[s]
        BY <2>2, <4>1 DEF WeekId, DayId, EnableId
      <4> QED
        BY <2>1, <4>1, <4>2 DEF SettingsInv, RamPeriod
    <3> QED
      BY <3>1, <3>2
  <2>6. FlashPeriod'
    BY <2>1 DEF SettingsInv, FlashPeriod, WeekId, DayId, EnableId
  <2>7. SaveProgress' /\ FactoryProgress'
    BY <2>1 DEF SaveProgress, FactoryProgress
  <2> QED
    BY <2>4, <2>5, <2>6, <2>7 DEF SettingsInv
<1>4. ASSUME NEW s \in Edited, BeginSave(s) PROVE SettingsInv'
  <2>1. /\ UNCHANGED <<settings, flash>> /\ lcd = "loop" /\ lcd' = "week"
        /\ torn' = 0 => torn = 0
    BY <1>4 DEF BeginSave, Tear, TypeOK
  <2>2. Positive(new'.week, new'.day)
    BY <1>4, NoZeroPeriodPositive DEF BeginSave
  <2> QED
    BY <2>1, <2>2
       DEF SettingsInv, RamPeriod, FlashPeriod, SaveProgress, BootProgress, FactoryProgress,
           settings, WeekId, DayId, EnableId
<1>5. CASE Save
  BY <1>5, SaveStep
<1>6. CASE PowerLoss \/ rt_hw_cpu_reset
  <2>1. /\ Week' = Zero /\ Day' = Zero /\ Enable' = Zero /\ UNCHANGED flash
        /\ lcd' = "boot" /\ step' = 1
        /\ torn' = 0 => torn = 0
    BY <1>6 DEF PowerLoss, rt_hw_cpu_reset, Restart, Tear, TypeOK
  <2>2. ASSUME torn' = 0, NEW s \in Schedules, flash[EnableId(s)] # 0
        PROVE  Positive(flash[WeekId(s)], flash[DayId(s)])
    <3>1. CASE PowerLoss
      <4>1. lcd \in {"boot", "loop"}
        BY <2>2, <3>1 DEF PowerLoss, Tear, Quiet
      <4> QED
        BY <2>1, <2>2, <4>1 DEF SettingsInv, FlashPeriod
    <3>2. CASE rt_hw_cpu_reset
      <4>1. lcd = "factory" /\ step > 6
        BY <3>2 DEF rt_hw_cpu_reset, FactoryIds, TypeOK
      <4>2. step > EnableId(s)
        BY <4>1 DEF EnableId, TypeOK
      <4> QED
        BY <2>2, <4>1, <4>2 DEF SettingsInv, FactoryProgress
    <3> QED
      BY <1>6, <3>1, <3>2
  <2> QED
    BY <2>1, <2>2, ZeroType
       DEF SettingsInv, RamPeriod, FlashPeriod, SaveProgress, BootProgress, FactoryProgress,
           WeekId, DayId, EnableId, Schedules
<1>7. CASE BeginFactory
  <2>1. /\ UNCHANGED <<settings, flash, ls, new>> /\ lcd = "loop" /\ lcd' = "factory"
        /\ step' = 1
        /\ torn' = 0 => torn = 0
    BY <1>7 DEF BeginFactory, Tear, TypeOK
  <2> QED
    BY <2>1
       DEF SettingsInv, RamPeriod, FlashPeriod, SaveProgress, BootProgress, FactoryProgress,
           settings, EnableId
<1>8. CASE Flash_Factory
  <2>1. /\ UNCHANGED <<settings, ls, new, torn, lcd>> /\ lcd = "factory"
        /\ step' = step + 1 /\ step \in 1 .. 8
        /\ Flash_Set(FactoryIds[step], 0)
    BY <1>8 DEF Flash_Factory, FactoryIds, TypeOK
  <2>2. FactoryIds[step] \in Ids
    BY <2>1 DEF FactoryIds, Ids
  <2>3. \A i \in Ids : flash'[i] = IF i = FactoryIds[step] THEN 0 ELSE flash[i]
    BY <2>1, <2>2, FlashSetEntry
  <2>4. FactoryProgress'
    <3> SUFFICES ASSUME NEW s \in Schedules, step + 1 > EnableId(s)
                 PROVE  flash'[EnableId(s)] = 0
      BY <2>1 DEF FactoryProgress, EnableId
    <3>1. CASE step = EnableId(s)
      <4>1. FactoryIds[step] = EnableId(s)
        BY <3>1 DEF FactoryIds, EnableId
      <4> QED
        BY <2>3, <4>1, IdsDistinct
    <3>2. CASE step > EnableId(s)
      BY <2>1, <2>3, <3>2, IdsDistinct DEF SettingsInv, FactoryProgress
    <3> QED
      BY <2>1, <3>1, <3>2 DEF EnableId
  <2>5. RamPeriod'
    BY <2>1 DEF SettingsInv, RamPeriod, settings
  <2> QED
    BY <2>1, <2>4, <2>5 DEF SettingsInv, FlashPeriod, SaveProgress, BootProgress
<1> QED
  BY <1>1, <1>2, <1>3, <1>4, <1>5, <1>6, <1>7, <1>8 DEF Next, RTC_Check_Callback

\* A save or a factory reset that begins after the last check meets no other
\* unless an alarm, which then tears it, starts one.
LEMMA NoCheckStep ==
    TypeOK /\ NoCheckInSave /\ [Next]_vars => NoCheckInSave'
<1> SUFFICES ASSUME TypeOK, NoCheckInSave, [Next]_vars, torn' = 0, ~Quiet'
             PROVE  CheckDone'
  BY DEF NoCheckInSave
<1> USE DEF check, task
<1>1. CASE HAL_RTC_AlarmAEventCallback
  BY <1>1 DEF HAL_RTC_AlarmAEventCallback, Tear, Quiet
<1>2. CASE UNCHANGED <<lcd, torn>> /\ ~HAL_RTC_AlarmAEventCallback
  <2>1. CheckDone
    BY <1>2 DEF NoCheckInSave, Quiet
  <2> QED
    BY <1>2, <2>1
       DEF CheckDone, Next, vars, RTC_Check_Callback, TakeCheckSem, Decide, Store, Clear, Jump,
           EndCheck, LowPowerTimerCallback, GotValue, Moto_Cycle, Delta_press_work, SeeFlag,
           BeginSave, Save, PowerLoss, Restart, BeginFactory, Flash_Factory, rt_hw_cpu_reset
<1>3. CASE GotValue
  BY <1>3 DEF GotValue, Quiet
<1>4. CASE (\E s \in Edited : BeginSave(s)) \/ BeginFactory
  BY <1>4 DEF BeginSave, BeginFactory, Tear, CheckDone
<1>5. CASE Save
  <2>1. UNCHANGED <<torn, chk, RTC_Check_Sem>> /\ ~Quiet
    BY <1>5 DEF Save, SaveWeek, SaveDay, SaveEnable, Quiet
  <2> QED
    BY <2>1 DEF NoCheckInSave, CheckDone
<1>6. CASE PowerLoss \/ rt_hw_cpu_reset
  BY <1>6 DEF PowerLoss, rt_hw_cpu_reset, Restart, Quiet
<1> QED
  BY <1>1, <1>2, <1>3, <1>4, <1>5, <1>6
     DEF Next, vars, RTC_Check_Callback, TakeCheckSem, Decide, Store, Clear, Jump,
         EndCheck, LowPowerTimerCallback, Moto_Cycle, Delta_press_work, SeeFlag,
         Flash_Factory

\* A period that is not zero is at least a day long.
LEMMA DayIsShortest ==
    ASSUME TypeOK, NEW s \in Schedules, Positive(Week[s], Day[s])
    PROVE  Period(s) \in Nat /\ Period(s) >= HoursPerDay /\ Period(s) > 0
<1> USE RtcConstants DEF RtcConstants
<1>1. Week[s] \in Nat /\ Day[s] \in Nat
  BY DEF TypeOK
<1> DEFINE days == DaysPerWeek * Week[s] + Day[s]
<1>2. days \in Nat /\ days >= 1
  <2>1. DaysPerWeek * Week[s] \in Nat
    BY <1>1
  <2>2. Week[s] > 0 => DaysPerWeek * Week[s] >= 1
    BY <1>1
  <2> QED
    BY <1>1, <2>1, <2>2 DEF Positive
<1> HIDE DEF days
<1>3. HoursPerDay * days \in Nat /\ HoursPerDay * days >= HoursPerDay
  BY <1>2
<1> QED
  BY <1>3 DEF Period, days

\* RTC_Check finds every enabled schedule with a period.
LEMMA CheckedHasPeriod ==
    ASSUME TypeOK, SettingsInv, NoCheckInSave, torn = 0, chk = "decide", Enable[cs] # 0
    PROVE  Positive(Week[cs], Day[cs]) /\ cs \in Schedules
<1>1. Quiet
  BY DEF NoCheckInSave, CheckDone
<1> QED
  BY <1>1 DEF SettingsInv, RamPeriod, Quiet, TypeOK

LEMMA WaitedStep ==
    ASSUME TypeOK, NotAhead, SettingsInv, NoCheckInSave, WaitedADay, [Next]_vars
    PROVE  WaitedADay'
<1> SUFFICES ASSUME torn' = 0, chk' \in {"clear", "jump"} PROVE since'[cs'] >= HoursPerDay
  BY DEF WaitedADay
<1> USE DEF check, task
<1>1. CASE Decide
  <2>1. /\ chk = "decide" /\ Enable[cs] # 0 /\ Due(cs) /\ cs' = cs
        /\ UNCHANGED <<since, torn>>
    BY <1>1 DEF Decide, NextSchedule
  <2>2. cs \in Schedules /\ Positive(Week[cs], Day[cs])
    BY <2>1, CheckedHasPeriod
  <2>3. Period(cs) \in Nat /\ Period(cs) >= HoursPerDay
    BY <2>2, DayIsShortest
  <2>4. Time[cs] \in Nat /\ since[cs] \in Nat /\ Time[cs] >= Period(cs)
    BY <2>1, <2>2 DEF Due, TypeOK
  <2>5. since[cs] < SinceCap => Time[cs] <= since[cs]
    BY <2>2 DEF NotAhead
  <2> QED
    BY <2>1, <2>3, <2>4, <2>5, RtcConstants DEF RtcConstants
<1>2. CASE Clear
  BY <1>2 DEF Clear, WaitedADay
<1>3. CASE UNCHANGED <<chk, cs, since>> /\ (torn' = 0 => torn = 0)
  BY <1>3 DEF WaitedADay
<1>4. CASE TakeCheckSem \/ Store \/ Jump \/ EndCheck \/ PowerLoss \/ rt_hw_cpu_reset
  BY <1>4 DEF TakeCheckSem, Store, Jump, NextSchedule, EndCheck, PowerLoss, rt_hw_cpu_reset,
     Restart
<1>5. CASE HAL_RTC_AlarmAEventCallback
  BY <1>5 DEF HAL_RTC_AlarmAEventCallback, CheckDone
<1>6. CASE \/ LowPowerTimerCallback \/ GotValue \/ Moto_Cycle \/ Delta_press_work
           \/ (\E s \in Schedules : SeeFlag(s)) \/ (\E s \in Edited : BeginSave(s))
           \/ Save \/ BeginFactory \/ Flash_Factory \/ UNCHANGED vars
  <2>1. UNCHANGED <<chk, cs, since>> /\ (torn' = 0 => torn = 0)
    BY <1>6 DEF LowPowerTimerCallback, GotValue, Moto_Cycle, Delta_press_work, SeeFlag,
       BeginSave, Save, BeginFactory, Flash_Factory, Tear, vars, TypeOK
  <2> QED
    BY <1>3, <2>1
<1> QED
  BY <1>1, <1>2, <1>4, <1>5, <1>6 DEF Next, RTC_Check_Callback

PeriodInv == CountInv /\ SettingsInv /\ NoCheckInSave /\ WaitedADay

LEMMA PeriodAlways == Spec => []PeriodInv
<1>1. Init => PeriodInv
  <2> SUFFICES ASSUME Init PROVE PeriodInv
    OBVIOUS
  <2>1. \A s \in Schedules : flash[EnableId(s)] = 0 /\ Enable[s] = 0
    BY ZeroType, IdsDistinct DEF Init
  <2>2. SettingsInv
    BY <2>1 DEF Init, SettingsInv, RamPeriod, FlashPeriod, SaveProgress, BootProgress,
       FactoryProgress, WeekId, DayId, EnableId, Schedules
  <2> QED
    BY <2>2, CountInit DEF Init, PeriodInv, NoCheckInSave, Quiet, WaitedADay
<1>2. PeriodInv /\ [Next]_vars => PeriodInv'
  BY TypeStep, AheadStep, SettingsStep, NoCheckStep, WaitedStep DEF PeriodInv, CountInv
<1> QED
  BY <1>1, <1>2, PTL DEF Spec

\* A check finds no enabled schedule with a zero period, for all periods the
\* windows offer and any number of crashes, as long as none tears a save.
THEOREM EnabledSchedulesHavePeriods == Spec => []EnabledHasPeriod
<1>1. PeriodInv => EnabledHasPeriod
  BY CheckedHasPeriod, DayIsShortest DEF PeriodInv, CountInv, EnabledHasPeriod
<1> QED
  BY <1>1, PeriodAlways, PTL

\* RTC_Check raises the flag of a schedule at most once a day.
THEOREM FlagsAtMostDaily == Spec => []AtMostDaily
<1>1. PeriodInv => AtMostDaily
  BY DEF PeriodInv, WaitedADay, AtMostDaily
<1> QED
  BY <1>1, PeriodAlways, PTL
=============================================================================

------------------------------ MODULE RTCWork ------------------------------
(***************************************************************************)
(* The two schedules of device/RTCWork.c, the reminder and the automatic   *)
(* backwash: the hourly alarm interrupt, the RTC_Check thread, the places  *)
(* where lcd_task changes the schedules (lcd/lcd_display.c: the settings   *)
(* windows, the backwash, the factory reset) and what a loss of power      *)
(* leaves of them.                                                         *)
(*                                                                         *)
(* Flash_Set and Flash_Get are atomic and durable here: EasyFlash keeps a  *)
(* variable's old value until the new one is complete.                     *)
(***************************************************************************)
EXTENDS Integers, Sequences

CONSTANTS
    HoursPerDay,  \* 24
    DaysPerWeek,  \* 7
    MaxWeek,      \* 51, the largest week count of the settings windows
    MaxDay,       \* 6
    Edited,       \* the schedules whose settings window is used
    MaxCrashes,   \* bound: losses of power
    MaxTime,      \* bound: the largest count, above every period
    SinceCap      \* bound: where the history variable since stops counting

ASSUME RtcConstants ==
    /\ HoursPerDay \in Nat \ {0}
    /\ DaysPerWeek \in Nat \ {0}
    /\ MaxWeek \in Nat
    /\ MaxDay \in Nat \ {0}
    /\ Edited \subseteq {"Reminder", "Automatic"}
    /\ MaxCrashes \in Nat
    /\ MaxTime \in Nat
    /\ SinceCap \in Nat /\ SinceCap >= HoursPerDay

Schedules == {"Reminder", "Automatic"}

\* The indices of Key_list.
WeekId(s) == IF s = "Reminder" THEN 1 ELSE 4
DayId(s) == IF s = "Reminder" THEN 2 ELSE 5
EnableId(s) == IF s = "Reminder" THEN 3 ELSE 6
TimeId(s) == IF s = "Reminder" THEN 16 ELSE 17
Ids == (1 .. 6) \cup {16, 17}

VARIABLES
    Week, Day, Enable,  \* the settings in RAM
    Time,               \* RTC_Reminder_Time, RTC_Automatic_Time
    flash,              \* the EasyFlash variables
    Flag,               \* JumptoReminderFlag, JumptoAutomaticFlag
    RTC_Check_Sem,
    RTC_Event_Flag,
    LowPowerTimer,      \* 1: started, the device goes to sleep within a second
    chk, cs, arg,       \* RTC_Check: where it is, its schedule, the value to store
    lcd, ls, new,       \* lcd_task: where it is, the schedule saved, the new settings
    step,               \* the progress of GotValue and of Flash_Factory
    since,              \* history: hours since the schedule last raised its flag
    torn,               \* history: see Tear
    crashes

settings == <<Week, Day, Enable>>
check == <<RTC_Event_Flag, LowPowerTimer, chk, cs, arg>>
task == <<lcd, ls, new, step>>
vars == <<settings, Time, flash, Flag, RTC_Check_Sem, check, task, since, torn, crashes>>

\* Faulty variant: line 1375 is missing.
NoZeroPeriodUnguarded(v) == v

\* What a settings window can save: line 1211 (1375) turns a zero period into
\* one day, and a third value of Enable leaves without saving.
NoZeroPeriod(v) == IF v.week = 0 /\ v.day = 0 THEN [v EXCEPT !.day = 1] ELSE v

Choices == [week : 0 .. MaxWeek, day : 0 .. MaxDay, enable : {0, 1}]

TypeOK ==
    /\ Week \in [Schedules -> 0 .. MaxWeek]
    /\ Day \in [Schedules -> 0 .. MaxDay]
    /\ Enable \in [Schedules -> {0, 1}]
    /\ Time \in [Schedules -> Nat]
    /\ flash \in [Ids -> Nat]
    /\ \A s \in Schedules : /\ flash[WeekId(s)] \in 0 .. MaxWeek
                            /\ flash[DayId(s)] \in 0 .. MaxDay
                            /\ flash[EnableId(s)] \in {0, 1}
    /\ Flag \in [Schedules -> {0, 1}]
    /\ RTC_Check_Sem \in {0, 1}
    /\ RTC_Event_Flag \in {0, 1}
    /\ LowPowerTimer \in {0, 1}
    /\ chk \in {"take", "decide", "store", "clear", "jump", "end"}
    /\ cs \in Schedules
    /\ arg \in Nat
    /\ lcd \in {"boot", "loop", "week", "fweek", "day", "fday", "enable", "fenable", "factory"}
    /\ ls \in Schedules
    /\ new \in Choices
    /\ step \in 1 .. 9
    /\ since \in [Schedules -> Nat]
    /\ torn \in {0, 1}
    /\ crashes \in Nat

Zero == [s \in Schedules |-> 0]

Init ==
    /\ Week = Zero /\ Day = Zero /\ Enable = Zero /\ Time = Zero
    /\ flash = [i \in Ids |-> 0]
    /\ Flag = Zero
    /\ RTC_Check_Sem = 0 /\ RTC_Event_Flag = 0 /\ LowPowerTimer = 0
    /\ chk = "take" /\ cs = "Reminder" /\ arg = 0
    /\ lcd = "boot" /\ ls = "Reminder"
    /\ new = [week |-> 0, day |-> 0, enable |-> 0]
    /\ step = 1
    /\ since = Zero
    /\ torn = 0
    /\ crashes = 0

Flash_Set(id, value) == flash' = [flash EXCEPT ![id] = value]

\* The hours of a period.
Period(s) == HoursPerDay * (DaysPerWeek * Week[s] + Day[s])

\* lcd_task is not in the middle of writing settings.
Quiet == lcd \in {"boot", "loop"}
CheckDone == chk = "take" /\ RTC_Check_Sem = 0

\* torn is set when a save or a factory reset is cut by an alarm or by a loss
\* of power, or begins in the middle of a check.
Tear(uncut) == torn' = IF uncut THEN torn ELSE 1

----------------------------------------------------------------------------
(* The alarm interrupt.  It comes every hour, long after the last check and*)
(* its low-power timer have ended.                                         *)

RTC_Timer_Entry ==
    /\ Time' = [s \in Schedules |-> IF Enable[s] # 0 THEN Time[s] + 1 ELSE Time[s]]
    /\ since' = [s \in Schedules |-> IF since[s] < SinceCap THEN since[s] + 1 ELSE since[s]]

HAL_RTC_AlarmAEventCallback ==
    /\ CheckDone
    /\ LowPowerTimer = 0
    /\ \A s \in Schedules : Time[s] < MaxTime
    /\ Tear(Quiet)
    /\ RTC_Timer_Entry
    /\ RTC_Check_Sem' = 1
    /\ UNCHANGED <<settings, flash, Flag, check, task, crashes>>

----------------------------------------------------------------------------
(* RTC_Check_Callback.  It leaves the processor inside Flash_Set, so the   *)
(* decision, the store and the jump are steps of their own.                *)

\* Faulty variant: the flag of an earlier event stays.
ClearEventForgotten == UNCHANGED RTC_Event_Flag

ClearEvent == RTC_Event_Flag' = 0

TakeCheckSem ==
    /\ chk = "take"
    /\ RTC_Check_Sem = 1
    /\ RTC_Check_Sem' = 0
    /\ ClearEvent
    /\ chk' = "decide" /\ cs' = "Reminder"
    /\ UNCHANGED <<settings, Time, flash, Flag, LowPowerTimer, arg, task, since, torn, crashes>>

\* After the reminder comes the automatic backwash, then the end.
NextSchedule ==
    \/ cs = "Reminder" /\ cs' = "Automatic" /\ chk' = "decide"
    \/ cs = "Automatic" /\ chk' = "end" /\ UNCHANGED cs

\* Faulty variants: only the exact hour is due; one hour early.
DueExactly(s) == Time[s] = Period(s)

DueEarly(s) == Time[s] + 1 >= Period(s)

Due(s) == Time[s] >= Period(s)

Decide ==
    /\ chk = "decide"
    /\ \/ /\ Enable[cs] = 0
          /\ NextSchedule
          /\ UNCHANGED <<Time, RTC_Event_Flag, arg>>
       \/ /\ Enable[cs] # 0
          /\ Due(cs)
          /\ Time' = [Time EXCEPT ![cs] = 0]
          /\ RTC_Event_Flag' = 1
          /\ chk' = "clear"
          /\ UNCHANGED <<cs, arg>>
       \/ /\ Enable[cs] # 0
          /\ ~Due(cs)
          /\ arg' = Time[cs]
          /\ chk' = "store"
          /\ UNCHANGED <<Time, RTC_Event_Flag, cs>>
    /\ UNCHANGED <<settings, flash, Flag, RTC_Check_Sem, LowPowerTimer, task, since, torn, crashes>>

Store ==
    /\ chk = "store"
    /\ Flash_Set(TimeId(cs), arg)
    /\ NextSchedule
    /\ UNCHANGED <<settings, Time, Flag, RTC_Check_Sem, RTC_Event_Flag, LowPowerTimer, arg,
                   task, since, torn, crashes>>

\* Faulty variant: the count of a due schedule is cleared in RAM only.
StoreZeroForgotten == UNCHANGED flash

StoreZero == Flash_Set(TimeId(cs), 0)

Clear ==
    /\ chk = "clear"
    /\ StoreZero
    /\ chk' = "jump"
    /\ UNCHANGED <<settings, Time, Flag, RTC_Check_Sem, RTC_Event_Flag, LowPowerTimer, cs, arg,
                   task, since, torn, crashes>>

\* JumptoReminder; JumptoAutomatic (which also counts the backwash).
Jump ==
    /\ chk = "jump"
    /\ Flag' = [Flag EXCEPT ![cs] = 1]
    /\ since' = [since EXCEPT ![cs] = 0]
    /\ NextSchedule
    /\ UNCHANGED <<settings, Time, flash, RTC_Check_Sem, RTC_Event_Flag, LowPowerTimer, arg,
                   task, torn, crashes>>

EndCheck ==
    /\ chk = "end"
    /\ LowPowerTimer' = IF RTC_Event_Flag = 0 THEN 1 ELSE LowPowerTimer
    /\ chk' = "take"
    /\ UNCHANGED <<settings, Time, flash, Flag, RTC_Check_Sem, RTC_Event_Flag, cs, arg,
                   task, since, torn, crashes>>

RTC_Check_Callback == TakeCheckSem \/ Decide \/ Store \/ Clear \/ Jump \/ EndCheck

\* The low-power timer's callback puts the device to sleep (see ScreenPower).
LowPowerTimerCallback ==
    /\ LowPowerTimer = 1
    /\ LowPowerTimer' = 0
    /\ UNCHANGED <<settings, Time, flash, Flag, RTC_Check_Sem, RTC_Event_Flag, chk, cs, arg,
                   task, since, torn, crashes>>

----------------------------------------------------------------------------
(* lcd_task.  RTC_Check has the higher priority: lcd_task runs only while  *)
(* RTC_Check sleeps or waits in a Flash_Set.                               *)

CheckWaits == chk \in {"take", "store", "clear", "jump"}

\* The start of lcd_task reads the settings in the order of their ids; each
\* Flash_Get leaves the processor.
GotValue ==
    /\ lcd = "boot"
    /\ CheckWaits
    /\ Week' = [s \in Schedules |-> IF step = WeekId(s) THEN flash[WeekId(s)] ELSE Week[s]]
    /\ Day' = [s \in Schedules |-> IF step = DayId(s) THEN flash[DayId(s)] ELSE Day[s]]
    /\ Enable' = [s \in Schedules |->
                     IF step = EnableId(s) THEN flash[EnableId(s)] ELSE Enable[s]]
    /\ IF step < 6 THEN step' = step + 1 /\ UNCHANGED lcd
                   ELSE step' = 1 /\ lcd' = "loop"
    /\ UNCHANGED <<Time, flash, Flag, RTC_Check_Sem, check, ls, new, since, torn, crashes>>

\* Moto_Cycle, from a window, the shell or the automatic backwash.
RTC_Clear == Time' = Zero

Moto_Cycle ==
    /\ lcd = "loop"
    /\ CheckWaits
    /\ RTC_Clear
    /\ UNCHANGED <<settings, flash, Flag, RTC_Check_Sem, check, task, since, torn, crashes>>

\* Delta_press_work: the pressure switch raises a flag as well.
Delta_press_work ==
    /\ lcd = "loop"
    /\ CheckWaits
    /\ \E s \in Schedules : Flag' = [Flag EXCEPT ![s] = 1]
    /\ UNCHANGED <<settings, Time, flash, RTC_Check_Sem, check, task, since, torn, crashes>>

\* lcd_task_entry sees a flag: the reminder window, or the backwash, whose
\* Moto_Cycle clears the counts before it tests whether the motor may start.
SeeFlag(s) ==
    /\ lcd = "loop"
    /\ CheckWaits
    /\ Flag[s] = 1
    /\ Flag' = [Flag EXCEPT ![s] = 0]
    /\ IF s = "Automatic" THEN RTC_Clear ELSE UNCHANGED Time
    /\ UNCHANGED <<settings, flash, RTC_Check_Sem, check, task, since, torn, crashes>>

\* The confirming key of UserMain4WinFun or UserMain5WinFun.  The save leaves
\* the processor in each of its three Flash_Set.
BeginSave(s) ==
    /\ lcd = "loop"
    /\ CheckWaits
    /\ Tear(CheckDone)
    /\ \E v \in Choices : new' = NoZeroPeriod(v)
    /\ ls' = s
    /\ lcd' = "week"
    /\ UNCHANGED <<settings, Time, flash, Flag, RTC_Check_Sem, check, step, since, crashes>>

SaveWeek ==
    \/ /\ lcd = "week"
       /\ Week' = [Week EXCEPT ![ls] = new.week]
       /\ lcd' = "fweek"
       /\ UNCHANGED flash
    \/ /\ lcd = "fweek"
       /\ Flash_Set(WeekId(ls), new.week)
       /\ lcd' = "day"
       /\ UNCHANGED Week

SaveDay ==
    \/ /\ lcd = "day"
       /\ Day' = [Day EXCEPT ![ls] = new.day]
       /\ lcd' = "fday"
       /\ UNCHANGED flash
    \/ /\ lcd = "fday"
       /\ Flash_Set(DayId(ls), new.day)
       /\ lcd' = "enable"
       /\ UNCHANGED Day

SaveEnable ==
    \/ /\ lcd = "enable"
       /\ Time' = [Time EXCEPT ![ls] = 0]
       /\ Enable' = [Enable EXCEPT ![ls] = new.enable]
       /\ lcd' = "fenable"
       /\ UNCHANGED flash
    \/ /\ lcd = "fenable"
       /\ Flash_Set(EnableId(ls), new.enable)
       /\ lcd' = "loop"
       /\ UNCHANGED <<Time, Enable>>

Save ==
    /\ CheckWaits
    /\ \/ SaveWeek /\ UNCHANGED <<Day, Enable, Time>>
       \/ SaveDay /\ UNCHANGED <<Week, Enable, Time>>
       \/ SaveEnable /\ UNCHANGED <<Week, Day>>
    /\ UNCHANGED <<Flag, RTC_Check_Sem, check, ls, new, step, since, torn, crashes>>

----------------------------------------------------------------------------
(* Resets.                                                                 *)

\* A start of the program: RTC_Init reads the counts, the settings stay 0
\* until lcd_task has run GotValue.
Restart ==
    /\ Week' = Zero /\ Day' = Zero /\ Enable' = Zero
    /\ Time' = [s \in Schedules |-> flash[TimeId(s)]]
    /\ Flag' = Zero
    /\ RTC_Check_Sem' = 0 /\ RTC_Event_Flag' = 0 /\ LowPowerTimer' = 0
    /\ chk' = "take" /\ cs' = "Reminder" /\ arg' = 0
    /\ lcd' = "boot" /\ ls' = "Reminder"
    /\ new' = [week |-> 0, day |-> 0, enable |-> 0]
    /\ step' = 1
    /\ UNCHANGED <<flash, since>>

PowerLoss ==
    /\ crashes < MaxCrashes
    /\ Tear(Quiet)
    /\ Restart
    /\ crashes' = crashes + 1

\* Window 19: Flash_Factory zeroes the variables in the order of their ids,
\* then the processor is reset.
FactoryIds == <<1, 2, 3, 4, 5, 6, 16, 17>>

BeginFactory ==
    /\ lcd = "loop"
    /\ CheckWaits
    /\ Tear(CheckDone)
    /\ crashes < MaxCrashes
    /\ lcd' = "factory"
    /\ step' = 1
    /\ UNCHANGED <<settings, Time, flash, Flag, RTC_Check_Sem, check, ls, new, since, crashes>>

Flash_Factory ==
    /\ lcd = "factory"
    /\ CheckWaits
    /\ step <= Len(FactoryIds)
    /\ Flash_Set(FactoryIds[step], 0)
    /\ step' = step + 1
    /\ UNCHANGED <<settings, Time, Flag, RTC_Check_Sem, check, lcd, ls, new, since, torn, crashes>>

rt_hw_cpu_reset ==
    /\ lcd = "factory"
    /\ CheckWaits
    /\ step > Len(FactoryIds)
    /\ Restart
    /\ crashes' = crashes + 1
    /\ UNCHANGED torn

Next ==
    \/ HAL_RTC_AlarmAEventCallback
    \/ RTC_Check_Callback
    \/ LowPowerTimerCallback
    \/ GotValue
    \/ Moto_Cycle
    \/ Delta_press_work
    \/ \E s \in Schedules : SeeFlag(s)
    \/ \E s \in Edited : BeginSave(s)
    \/ Save
    \/ PowerLoss
    \/ BeginFactory \/ Flash_Factory \/ rt_hw_cpu_reset

Spec == Init /\ [][Next]_vars

\* The alarm is a hardware clock's; RTC_Check and the low-power timer have
\* priorities above lcd_task; lcd_task finishes what it has begun.
FairSpec ==
    /\ Spec
    /\ WF_vars(HAL_RTC_AlarmAEventCallback)
    /\ WF_vars(RTC_Check_Callback)
    /\ WF_vars(LowPowerTimerCallback)
    /\ WF_vars(GotValue)
    /\ WF_vars(Save)
    /\ WF_vars(Flash_Factory)
    /\ WF_vars(rt_hw_cpu_reset)

----------------------------------------------------------------------------
(* Properties.                                                             *)

\* Neither a count in RAM, nor the one in flash that a restart resumes, nor
\* the one about to be stored runs ahead of the hours since the schedule last
\* raised its flag, wherever power is lost and whatever is saved meanwhile: a
\* restart never makes a backwash or a reminder come twice in a period.  Both
\* counts are zero by the time the flag is raised.
NotAhead ==
    \A s \in Schedules :
        /\ since[s] < SinceCap => /\ Time[s] <= since[s]
                                  /\ flash[TimeId(s)] <= since[s]
                                  /\ cs = s /\ chk = "store" => arg <= since[s]
        /\ cs = s /\ chk \in {"clear", "jump"} => Time[s] = 0
        /\ cs = s /\ chk = "jump" => flash[TimeId(s)] = 0

\* A check never finds a schedule enabled with a period of zero, for which it
\* would raise the flag every hour: the settings windows turn "0 weeks, 0
\* days" into one day (lcd/lcd_display.c:1211 and 1375).  A save that was torn
\* apart breaks this: week, day and enable are written one by one.
EnabledHasPeriod ==
    torn = 0 /\ chk = "decide" /\ Enable[cs] # 0 => Period(cs) > 0

\* RTC_Check raises the flag of a schedule at most once a day, the shortest
\* period the settings windows offer, across saves, losses of power, factory
\* resets and backwashes, none of which tears a save apart.
AtMostDaily == torn = 0 /\ chk = "jump" => since[cs] >= HoursPerDay

\* The count of a schedule that stays enabled returns to zero again and again:
\* by a raised flag, or by a backwash.
CountReturns ==
    \A s \in Schedules : <>[](Enable[s] # 0) => []<>(Time[s] = 0)

\* An hourly wake-up ends with a raised flag or with the low-power timer that
\* puts the device back to sleep, not with an idle device that stays awake.
WakeUpEnds ==
    RTC_Check_Sem = 1 ~> \/ LowPowerTimer = 1
                         \/ \E s \in Schedules : Flag[s] = 1
                         \/ lcd = "boot"
============================================================================

# Verification of the SYRL431 backwash filter controller

SYRL431 is the firmware of a battery-backed controller for a backwash water
filter: an STM32L431 running RT-Thread 4.0.2. A motor turns a valve from its
rest position (left limit switch) to the backwash position (right switch),
stays there for the configured time, and turns it back. Cycles are started by
hand, by a calendar schedule or by a differential-pressure switch; a 128x64
LCD and three keys are the user interface; between actions the device sleeps.

This directory holds TLA+ modules translated from the firmware's own code
(`device/`, `lcd/`) and from the parts of its packages that its behaviour rests
on (EasyFlash's environment, the button package, lkdGui's window stack,
RT-Thread's timers and semaphores), TLC configurations, and TLAPS proofs. `PROJECT.json`
maps each definition to its source lines. In the modules an operator named
after a C function is that function; an operator whose comment says *faulty
variant* is a bug the properties are known to catch and belongs to no
specification.

    tlc -config MCMoto.cfg MCMoto         # a run (see "Runs")
    tlapm MotoControlProofs.tla           # the proofs of a module

## 1. Inventory

### Components

| Component | State it keeps | Operations | Correct when |
|---|---|---|---|
| Motor control, `device/MotoControl.c` | `MotoWorkFlag`, H-bridge pins, event object `Moto_Event`, one-shot `Moto_Cycle_Timer` | `Moto_Cycle`, the 50 ms loop of `Moto_Entry`, `Moto_Cycle_Timer_Callback`, shell commands | a powered motor is supervised; the valve goes back only from the right switch; every cycle ends |
| Display power and keys, `lcd/12864.c`, `device/DeviceInit.c` | `LCD_Flag` (0 lit and operable .. 3 off), supply and backlight pins, backlight and Vcc timers, key semaphores | `OpenLcdDisplay`, `CloseLcdVcc`, key and timer callbacks | `LCD_Flag` tells the state of the pins, or is put right; the callback that lights a dark display hands on no key |
| Low power, `device/LowPower.c` | `Button_Wakeup_Flag`, low-power timer | `EnterLowPower`, wake-up interrupts | nothing stays powered; the device always sleeps again |
| TDS sensor, `device/TdsWork.c` | `data_parsing_id`, frame buffer, `TDS_Value`, `rx_sem` | receive interrupt, `data_parsing` thread, `Tds_Work` | the buffer is not overrun; a value comes from one answer, the last one |
| Schedules, `device/RTCWork.c` | two schedules: week, day, enable, count of hours in RAM and in flash | hourly alarm, `RTC_Check_Callback`, saves, `RTC_Clear` | a reminder or an automatic backwash comes once per period, also across losses of power |
| Windows, `lcd/lcd_display.c` | window stack, `FirstFlag[]`, `NowButtonId`, `NowSetting`, page numbers, `Jump_Flag`, polled flags | one function per window, `lcd_task_entry`, `JumptoMainWin` | what takes the keys is what is shown; a backwash is shown while it runs and reported when it ends |
| Window stack, lkdGui's `lkdGuiWin.c` | array of 16 window pointers | `GuiWinInit/Add/Display/DeleteTop` | bounds |
| Settings, `device/FlashWork.c`, `ef_sfud_port.c`, EasyFlash's `ef_env.c` | sectors and nodes in flash with their statuses, variable cache, `gc_request`, the environment's semaphore | `Flash_Set/Get/Factory`, `ef_set_env`, `ef_get_env`, `gc_collect`, `ef_load_env` | a variable has its old value or the new one, whatever is interrupted; the device boots; one thread at a time is inside |
| Keys, `button-v1.0.1/button.c`, callbacks in `DeviceInit.c` | state machine per key, `LongFlag` shared by all, `K2_Long_Counter/Flag` | `Button_Create`, `Button_Cycle_Process` every 10 ms | each press is answered once; no key gets stuck; a long press opens the menu once |
| Battery watcher, `device/Battery.c` | `LowVoltageFlag`, last voltage | a thread that looks every 5 s | empty and new battery are told apart |
| ADC, LEDs, WiFi and other pins, start-up | none of their own | pin writes, samples | - |
| Fonts, drawing, the rest of RT-Thread, HAL, FAL | vendored | - | used through the interfaces above |

### Interactions

* `lcd_task` calls `Moto_Cycle`, which sends `Forward` to `Moto_Thread`,
  starts the cycle timer, stops the screen timers and clears the schedules'
  counts. `Moto_Thread` and the timer callback answer through
  `lcd_jump_event`, which only window 3 reads, and start the screen timers
  again.
* Button callbacks (thread `button_task`), the hourly check (`RTC_Check`), the
  pressure interrupt and the battery watcher's thread talk to `lcd_task` through
  semaphores and plain flags that it polls.
* All timer callbacks run in RT-Thread's soft-timer thread, the highest of the
  application; `EnterLowPower` runs there as well and, on a wake-up by a key,
  rebuilds the window stack (`JumptoMainWin`) under `lcd_task`.
* `Flash_Set` blocks its caller (semaphore, flash writes), so every
  `Flash_Set` is a point where other threads come in. Five threads call it, the
  timer thread among them (`jumpd` in `Moto_Cycle_Timer_Callback`), which
  `rt_timer_start` in any thread resumes out of whatever it waits for.
* `RTCWork` and the windows rely on `Flash_Set` being atomic and durable: that
  is the module `Settings`, which `EnvStore` implements as long as one thread
  is inside, which is what `EnvLock` is about.

### What is hard here

Event bits that arrive together and are examined with `switch(e)`; flags tested
in one thread and set in another; two-step updates (flag, then pins; week, then
day, then enable) with a thread switch in between; sleeps that fall into a
cycle or a key's handling; `rt_timer_start` and `rt_timer_stop` meeting a
callback that is blocked; power loss between RAM and flash, and between any two
writes of a replacement or of garbage collection; one flag for the long presses
of all keys; state of a window that survives when the window is taken away
from under it. `PROJECT.json`
"hazards" lists each at its line with the properties that watch it.

## 2. Modules and how they correspond to the code

Eight component modules, each with an `MC` module for TLC, and one abstract
specification; each of the eight has a proof module that extends it.

### MotoControl (MCMoto, MotoControlProofs)

`Moto_Thread` is the program counter `motoPc`: the loop of `Moto_Entry` is cut
at its delays and blocking calls (50 ms loop, 200 ms settling at the right
switch, ADC sample, `jumpb`'s `Flash_Set`, reception of `Moto_Event`).
`Moto_Event` is the set of its pending bits; `SwitchEvent` acts only on a
single bit, as the C `switch` does. The cycle timer is modelled with its place
in the timer list (`Moto_Cycle_Timer`) and its `ACTIVATED` flag apart, because
`rt_soft_timer_check` clears the flag only after the callback has returned and
`rt_timer_stop` refuses a timer without it; `timerPc = "jumpd"` is the callback
blocked in `Flash_Set`. Callers of `Moto_Cycle` go through its three parts
(test, `rt_event_send`, `rt_timer_start`) and run only while `Moto_Thread` is
blocked, since they have lower priorities. `Move` is the valve: a driven valve
travels `left - mid - right` until an end stop. `EnterLowPower` is reduced to
the pins it writes. The current sample (overload) and the comparison of
hardness are nondeterministic; LEDs are left out.

### ScreenPower (MCScreen, ScreenPowerProofs)

`LCD_Flag`, the pins `LCD_EN` and `LCD_BL`, the two screen timers as one state
(`fresh`: both run, `dim`: only the Vcc timer, `off`), the low-power timer and
the processor's power mode. `OpenLcdDisplay` is two steps: `LCD_Flag` first,
pins afterwards (`LcdInit` takes milliseconds), in `button_task` (`KeyPressed`,
`Key_Sem_Release`) and in `lcd_task` (`ServeRequest`, `RequestServed`). The
timer thread may run between them. `callback` is which of the key callbacks
`button_task` runs: a press (of a held K1 again every 10 ms), a callback of a
long press of K2, which counts up to `LongCount` without looking at `LCD_Flag`
(`LongPressCounts`), or its end. Any order of them is allowed; the order in
which a key gives them is in `Button`. A key that `lcd_task` takes may be the
enter that starts a cycle (`Moto_Cycle`, with its refusal for a low battery) or
raises the flag of one. The history variable `hurried` records that the timer
thread interrupted `OpenLcdDisplay`, that the device was put to sleep in
mid-cycle or, by the hourly timer, over running screen timers, or that a screen
timer, of 30 s, ran out between two callbacks of a held key or before `lcd_task`
took a released one.

### TdsWork (MCTds, TdsWorkProofs)

The parser thread at the level of loads and stores: `data_parsing_id++` is
`LoadIndex` and `StoreByte`, the comparison with the frame length reads the
register or the memory (the compiler's choice), and `Tds_Work`, called by
higher threads, resets the index at any point. A byte is its number in the
stream of answers, so that a value shows which bytes of which answer it was
computed from. `uart_sample_get_char` is `ReadByte`, `ResetSem`, `TakeSem`.
History: `late` (a request was made before the last answer was parsed) and
`wiped` (the reset of `rx_sem` at line 44 has wiped out the release of a byte).
`HeaderLike` is the set of those data bytes of the stream that equal the header
byte 0x55. The code looks at no checksum, so that a request that cuts an answer
can make the parser begin a frame at such a byte; the theorems hold for every
`HeaderLike`, and `MCTds` takes a byte of the first answer and one of the second.

### RTCWork (MCRtc, RTCWorkProofs)

`RTC_Check_Callback` with its `Flash_Set` calls as steps of their own; the
three-part save of windows 4 and 5; `GotValue`, `RTC_Clear`, `Moto_Cycle`,
`Delta_press_work`, the polls, `Flash_Factory` variable by variable and the
reset; `PowerLoss` at any step. `flash` is the EasyFlash variables by their
index in `Key_list`. `since` is a history variable: the hours since a schedule
last raised its flag. `torn` records that a save or a factory reset met an
alarm, a check or a loss of power.

### LcdWindows (MCWin, LcdWindowsProofs)

Window n is `UserMain<n>WinFun`. A pass of `lcd_task` is `GuiWinDisplay`
(`DrawTop`, or `TakeKeys` followed by one step per key in the order in which
the window functions look at them) and the four polls. `FirstFlag` is the set
of windows whose `FirstFlag[]` is 1. `screen` (the window last drawn) and
`mark` (the setting drawn as selected) are history variables, `timerPress`
tells whose K2 is pending, and `mixed` that window 1 has taken a long press and
another key in one pass since the last wake-up by a key (known deviations). Edited values are left out, except `EnableTemp`,
whose value 2 leaves windows 4 and 5. `Moto_Cycle` and `CycleEnds` are the
motor as `lcd_task` sees it.

### EnvStore and Settings (MCEnv, EnvStoreProofs)

`Settings` is what the callers of `Flash_Set` and `Flash_Get` count on: a value
per variable, a call that replaces one of them at a single instant and returns
only afterwards, a loss of power that forgets the call but no value.

`EnvStore` is `ef_env.c` write by write. `flash[s]` is a sector: its header's
magic word, its store and dirty statuses and its nodes in the order of their
addresses. A node is its status, key, value and whether its checksum is right;
what no scan looks at again (deleted, an error, a status byte without header)
is `Dead` and only takes its place. The program counter `pc` runs through
`set_env`: `new_env`, `PreDeleteOld`, `update_sec_status`, `WritePreWrite`,
`write_env_hdr`, `WriteData`, `WriteDone`, `DeleteOld`, `DeleteDirty`,
`SetEnd`; `move_env` shares the steps in the middle (`job.then` says where to go
on), `do_gc` is `GcSector`, `GcNode`, `EraseSector`, `FormatSector`, and
`ef_load_env` is `Boot`, `CheckHeaders`, `RecoverGc`, `RecoverEnv`, `LoadEnd`.
`PowerLoss` may come between any two steps, in recovery as well, and resets the
RAM. `Init` includes devices whose first boot was cut short while it wrote the
default values. The refinement mapping takes for the value of a variable that
of its valid node or else of the node waiting to be deleted.

Abstracted: all nodes have the size of one slot; a write is atomic (a torn write
of a header or a value leaves a wrong length or checksum, which is the state
before the step that completes it); the sector cache is exact and therefore not
there (`update_sector_cache` follows each write that moves the end of a sector).

### Button (MCButton, ButtonProofs)

`Button_Cycle_Process` in the configuration of `button.h`, one action per path
through its switch, one key per step in the order of the list. The pin may read
anything at any call, so that bounces of any shape are included. `called` is the
callback of the last call, `longed` whether the press has called back
`BUTTON_LONG`, and `disturbed` is set when a key was held during
`Button_Create` or is released in the middle of another's long press: there the
shared `LongFlag` goes to the wrong key (known deviations). The counting of
`DeviceInit.c` that opens the system menu is part of the steps.

### EnvLock (MCLock, EnvLockProofs)

The semaphore `env_cache_lock` as RT-Thread implements it: value, list of
suspended threads by priority, a token handed over instead of counted when
somebody waits; and `rt_timer_start`, which takes the suspended timer thread
off the list. `resumes` counts how often it did.

## 3. Runs

| Run | Configuration | Result | Distinct states |
|---|---|---|---|
| `moto_cycle` | MCMoto.cfg | holds | 14 306 |
| `moto_any` | MCMotoAny.cfg | holds | 1 334 048 |
| `moto_back_lost` | MCMotoBackLost.cfg | violated | |
| `screen` | MCScreen.cfg | holds | 1 141 120 |
| `tds` | MCTds.cfg | holds | 739 898 |
| `rtc` | MCRtc.cfg | holds | 760 658 |
| `windows` | MCWin.cfg | holds | 13.6 million |
| `windows_live` | MCWinLive.cfg | holds | 501 976 |
| `windows_any` | MCWinAny.cfg | holds | 853 672 |
| `env_store` | MCEnv.cfg | holds | 305 866 |
| `button` | MCButton.cfg | holds | 53 192 |
| `env_lock` | MCLock.cfg | holds | 242 |

**moto_cycle** - two cycles by `lcd_task`, overloads, timeouts and a restart
during the blocked callback. `WorkingMeansDriven`: MotoWorkFlag 2 means a
powered motor. `ErrorsPerCycle`: one cycle is counted as a failure at most
twice. `BackStartsAtRight`: a late or repeated Back never moves a valve that is
elsewhere. `StopsAtEndStop`, `BackIsActedOn`,
`ScreenTimersResume`: the motor stops, the way back starts, the screen timers
run again.

**moto_any** - two callers, shell commands, sleeps in mid-cycle, no timing
assumption: a powered motor is supervised, and off while `Moto_Thread` is
blocked (`DriveSupervised`).

**moto_back_lost** - without the timing assumption `TimerMargin`, Back can be
received together with the Free of the arrival: the valve stays open.

**screen** - presses, held keys, requests, timers and sleeps at any time.
`FlagTellsDisplay` holds until the first interruption (`hurried`), and
`KeysActOnVisibleScreen` likewise: the callback that lights a dark display hands
on no key. For the presses of K0 and K2 that is the whole press; a key that is
held may act with a later callback of the same press (known deviations).
`WrongFlagIsPutRight` holds without condition and is about what happens after
an interruption: a display without supply that `LCD_Flag` does not call off has
an initialisation under way, a screen timer running that ends in `CloseLcdVcc`,
or a cycle that starts the timers again. It breaks if, say, `Moto_Cycle` stops
the timers and then refuses. `SleepsAgain` under fairness.

**tds** - three requests, at any time. `IndexInBounds`: the
buffer is not overrun. `AlignedUnlessMisled`: a value is computed from bytes 4
and 5 of one answer, unless a request has cut an answer and the byte taken for
the header is a data byte of 0x55. The configuration has such bytes, and the
misaligned value is reached (known deviations); what is shown is that nothing
else causes one.
`ValueIsFresh` until a request is `late`; `AnswerArrives` until a release is
`wiped`.

**rtc** - one schedule edited, one crash or factory reset anywhere. `NotAhead`:
no count runs ahead of the hours; `EnabledHasPeriod`, `AtMostDaily` for saves
that were not torn apart; `CountReturns`, `WakeUpEnds` under fairness.

**windows** - up to all four keys taken in one pass and handled one after the
other by the window function that took them, whatever the first of them has
opened or closed, with automatic backwashes, and calls and wake-ups between
passes and while no cycle runs: the window that takes the next keys is the one
drawn (`DrawnIsTop`), the mark is on one of its buttons (`ButtonExists`), and a
backwash that runs keeps its window (`RunningIsShown`). The first two except
what follows a pass in which window 1 has handled a long press together with
another key, where they are false (`mixed`, known deviations).

**windows_live** - reminders and automatic backwashes, two keys.
`InProgressIsTrue`, and under fairness `InProgressEnds`.

**windows_any** - battery windows, wake-ups and calls in mid-pass and
mid-cycle, two reports at once, a stack of three: `TypeOK` (the stack's limit
included) and `MainWindowStays`.

**env_store** - two variables, two values, two losses of power anywhere.
`ImplementsSettings`: every step is a step of `Settings` or leaves all values
alone. `Findable`: between calls each variable that was ever written is found,
in exactly one valid node, and the cache agrees with the flash.
`HeaderSurvives`: no boot takes the flash for a new one. `EmptyKept`: garbage
collection always has a sector to move to. `BootEnds` under fairness.

**button** - two keys, each pin free at each call. `LongFlagHasOwner` and, for
undisturbed keys, `NeverStuck`, `MenuOncePerPress`, `ReleaseAnswered`; under
fairness `MenuOpens`.

**env_lock** - the five threads that use the settings, at most two resumptions.
`TokensConserved`: value and threads inside add up to one plus the resumptions,
so that without any of them one thread at a time is inside, and each of them
lets one more in for good. `NoLostWakeup`; under fairness
`TimerThreadGetsIn`, which rests on the list's order by priority.

The `TypeOK` of the modules with proofs is part of these.

### Bounds and why they are enough

* `MinLoops` = 3 (real: the shortest backwash time, 1 s, is 20 turns of the
  50 ms loop): what matters is that the motor can start before the timer may
  expire. `MaxCycles` = 2: a second cycle meets everything the first leaves
  behind (timer, event bits, `ACTIVATED` flag). `MaxErrors` caps
  `Counter_Error` above what the accepted cycles can reach in `moto_cycle` (6
  against 4, so that the cap hides no step).
* `MaxKeys` = 1 pending press in `ScreenPower`: presses only add up in a
  semaphore there. `LongCount` = 1 of 10: the long press acts with a later
  callback than the first, which is what the properties tell apart; the
  theorems hold for every number from 1.
* `FrameLen` = 7 of 11: bytes 0, 4 and 5 and one byte after them are what the
  code tells apart; the theorems hold for every length above 5.
  `MaxRequests` = 3: one answer cut, its rest mixed with a second, a third to
  recover.
* `HoursPerDay` = 2, `DaysPerWeek` = 2, `MaxWeek` = `MaxDay` = 1: every kind of
  period (none, days, weeks, both). `MaxTime` = 7 is above the longest period
  (6), so that counts pass every comparison; `SinceCap` = 3 is above one day.
  `MaxCrashes` = 1 crash or factory reset; only the automatic schedule is
  edited, the code of the other one is the same.
* `GUIWINMANAGE_NUM` = 16 as in the source, 3 where the overflow is wanted.
  `MaxDepth`: a call opens a window only on a stack of at most 2 or 3, since
  unattended devices fill the stack (known deviations).
  `MaxPending` keys pressed but not handled: 4, all there are, in `windows`,
  where it is the point; 1 in the other two runs, which have more kinds of
  calls instead. `windows` has also been run with `MaxDepth` = 4 (19.6
  million states). `MaxTimers` = 1 because a cycle takes
  longer than the four seconds of `SemJump_Timer`.
* `SECTOR_NUM` = 2, the least EasyFlash accepts: one sector in use and one empty,
  so that each full sector is collected and every collection needs all its
  room. `Slots` = 6 is two variables, two slots of rest
  (`EF_SEC_REMAIN_THRESHOLD`) and one per interrupted boot. `CacheSize` = 1 makes
  two variables compete for the cache. `MaxLosses` = 2: the second one can fall
  into the recovery from the first.
* Two keys, of which enter is one, are what shares `LongFlag`; the debounce,
  double-click and long-press times are 2, 2 and 3 calls (real: 2, 15, 50),
  `LONG_TIME_LIMIT` = 5 lies above the long-press time by more than one, so
  that `Long_Time` is set back within a press; `K2_LONG_LIMIT` = 2 of 10. The
  proofs hold for all of them.
* `MaxResumes` = 2: with two extra tokens three threads can be inside.

### Switches: assumptions that can be dropped

`TimerMargin` (the backwash time does not end within the ~250 ms around the
arrival at the right switch), `SleepMidCycle`, `ShellCommands` in
`MotoControl`; `Anytime` (calls and wake-ups in mid-pass and mid-cycle) and
`TwoReports` in `LcdWindows`. Each is a constant so that it can be said
which property needs which assumption; the other modules record the same thing
in history variables that their properties name (`hurried`, `late`, `wiped`,
`torn`, `disturbed`).

### Fairness

* `MotoControl`: weak fairness of `Moto_Thread`, the timer thread and a powered
  valve; strong fairness of a caller inside `Moto_Cycle`, which runs again and
  again whenever `Moto_Thread` (priority 5 against 15) is in its delay.
* `ScreenPower`: weak fairness of the hourly alarm (hardware) and of the timer
  callbacks; strong fairness of `CheckFindsNone`: the check thread (priority
  10) gets to run, and a schedule, whose period is at least a day, is not due
  at every hourly check. Nothing is assumed of keys, `lcd_task` or the motor.
* `TdsWork`: the sensor sends its answer to the end, the parser thread
  (priority 25) runs while the others sleep.
* `RTCWork`: the alarm, `RTC_Check`, the low-power timer, and `lcd_task` for
  what it has begun (boot, save, factory reset).
* `LcdWindows`: `lcd_task` and the end of a cycle (shown in `MotoControl`)
  weakly; `SemJump_Timer` strongly, because pressed keys only put its release
  off.
* `EnvStore`: whoever holds the lock goes on with its call, the boot goes on;
  nothing is assumed of power, only that it is lost finitely often.
* `Button`: `button_task` calls `Button_Process` every 10 ms.
* `EnvLock`: a thread inside comes out again, since reads and writes of the flash
  end. Nothing is assumed of the threads outside.

## 4. Known deviations

One is a run with an expected violation: *Back is lost* (`moto_back_lost`,
`MotoControl.c:188`): Free and Back received together match no case; the valve
stays in backwash position.

The others were met while choosing the assumptions of the passing runs; they
are reproduced with the constants given (everything else as in the
configuration named, whose own properties are replaced by the one given).

| What happens | Source | Property, how to see it |
|---|---|---|
| Blank display: the hourly sleep does not stop the screen timers; the backlight timer then sets `LCD_Flag` to 2 ("dark with contents", `12864.c:19`) on an unpowered display, and the next key only switches the backlight on | `DeviceInit.c:134` | `TwoMeansShown`, MCScreen.cfg |
| Info opens Manual: back from the system menu the Info page has `NowButtonId` 0 | `lcd_display.c:791` | `InfoPageOpensInfo`, MCWin.cfg with `Calls = {}` |
| Window 27 is not drawn again: `memset(FirstFlag,0,27)` misses the last flag | `lcd_display.c:577` | `DrawnIsTop`, MCWin.cfg with `Keys = {"K2"}`, `Calls = {"new"}` |
| A sleep on the way back stops the motor but leaves `MotoWorkFlag` 2: every later cycle is refused | `LowPower.c:94` | `WorkingMeansDriven`, MCMoto.cfg with `SleepMidCycle = TRUE` |
| The hourly sleep of a lit display leaves the backlight pin on | `12864.c:237` | `Quiet /\ LCD_Flag = 3 => LCD_BL = 0`, MCScreen.cfg |
| A byte between a failed read and the reset of `rx_sem` waits until another byte comes | `TdsWork.c:44` | `got < sent ~> got = sent`, MCTds.cfg |
| A check or power loss inside a save sees an enabled schedule with a zero period and raises its flag every hour | `lcd_display.c:1376` | `EnabledHasPeriod` without `torn = 0`, MCRtc.cfg |
| A wake-up while editing a schedule leaves `NowSetting`: the keys change another setting than the one marked | `lcd_display.c:1093` | `MarkIsSetting`, MCWin.cfg with `Calls = {}` |
| A battery window over a finished backwash: when it closes, window 3 says "In progress" and cannot be left | `lcd_display.c:983` | `InProgressIsTrue`, MCWin.cfg with `Keys = {"K2"}`, `Calls = {"empty"}`, `MaxDepth = 3` |
| Unattended, reminders and automatic backwashes fill the stack of 16; `GuiWinAdd` refuses, window 3 is drawn anew as in progress | `lkdGuiWin.c:49` | `InProgressIsTrue`, MCWinLive.cfg with `Keys = {}`, `MaxDepth = 16` |
| `JUMP_STALLING` and `JUMP_NOMOTO` received together match no case | `lcd_display.c:994` | `InProgressEnds`, MCWinLive.cfg with `Calls = {}`, `TwoReports = TRUE` |
| A reminder raised in the pass that starts a manual backwash covers it | `lcd_display.c:502` | `ReminderWaits`, MCWin.cfg with `Keys = {"K2"}`, `Calls = {"reminder"}` |
| Window 1 takes a long press and another key in one pass: the system menu is drawn and window 1 goes on with the other key. K0 moves the mark, which is now the menu's, beyond the menu's buttons, from where it can leave `tButton[5]`; K2 clears the screen although the menu counts as drawn | `lcd_display.c:796` | `ButtonExists`, `DrawnIsTop` without `mixed = 0`, MCWin.cfg |
| A key held on a dark display lights it and acts in the same press: K1 with its next callback, a long press of K2, which does not look at `LCD_Flag`, after ten of them | `DeviceInit.c:88`, `244` | no property of one module: `Button` says which callbacks come in one press (`BUTTON_DOWM`, then `BUTTON_LONG` at every call), `Key_Sem_Release` what each does |
| A request while an answer comes in and a data byte of 0x55: the frame begins in the middle of an answer, and the value is computed from bytes of two | `TdsWork.c:148` | `TDS_Value # <<>> => TDS_Value[1] % FrameLen = 4`, MCTds.cfg |
| The K2 of `SemJump_Timer` confirms "Backwash Now" for a user who was faster than it | `lcd_display.c:970` | `UserStartsBackwash`, MCWin.cfg with `Keys = {"K2"}`, `Calls = {}` |
| A timer thread resumed out of the environment's semaphore by `rt_timer_start` is inside together with its holder, and the semaphore admits two from then on | `timer.c:405` | `Cardinality(Inside) <= 1`, MCLock.cfg |
| Three losses of power: a boot marks only the first of two unfinished nodes (`return true`), and a variable waiting to be recovered behind it is not found afterwards, or comes back with an older value while it is set again, against EasyFlash's promise of the last value after a loss of power (`docs/zh/design.md:89`) | `ef_env.c:1729` | `Findable`, `ImplementsSettings`, MCEnv.cfg with `MaxLosses = 3`, `Slots = 7`; theorem `OrderlyEnough` says what it takes |
| A key released during another's long press takes `LongFlag`: its own click is lost and the held key stays in `BUTTON_UP` for good | `button.c:283` | `NeverStuck` without `disturbed = 0`, MCButton.cfg |
| A key held at start-up is out of phase: its release counts as a press, and the next press is dead | `button.c:65` | the same |

Met and not expressed as properties: `GotValue` tests `Setting_Backwashtime`,
not yet read, where it means `Setting_Hardness` (`lcd_display.c:102`);
`Flash_Get` and `Flash_Set` pass the address of the pointer in `Key_list`
instead of the name (`FlashWork.c:78`, `91`), so that the keys in flash are
pointer bytes and never those of `default_env`; `Flash_Get` writes through the
NULL it has just tested for; an automatic backwash clears the reminder's count
as well (`RTC_Clear` in `Moto_Cycle`). A loss of power between the status
DELETED and the dirty flag, if it repeats, leaves a sector that is never
collected, and garbage collection formats a sector even if a node of it could
not be moved (`ef_env.c:1238`). A first boot that loses power while it writes
the defaults leaves the other variables missing for good (`ef_env.c:1751`). The
second of two clicks within 150 ms is a `BUTTON_DOUBLE`, for which no callback is
attached, and does not set `Long_Time` back (`button.c:304`): it is lost, and the
next press is a long one a little earlier.

## 5. Proofs

TLAPS proves, for every value of the constants within the named assumptions
(`MotoConstants`, `TdsConstants`, `RtcConstants`, `ScreenConstants`,
`ButtonConstants`, `LockConstants`, `WindowConstants`, `EnvConstants`,
`NoneIsNoCall`). A theorem that needs
more says so in an `ASSUME`; each of these is one of the switches of section 3 or
leaves out the cause of one of the known deviations:

* **MotoControlProofs** - `TypeCorrect`; `Supervised`: `DriveSupervised` is
  inductive as it stands, one case per action, for any callers, shell commands
  and sleeps. `BackFromRight`: with no shell commands
  and no sleep in mid-cycle the way back starts only at the right switch. It
  rests on `BackIsPending`, where a valve can be while a Back bit is pending:
  without it the reception of Back knows nothing about the position. The
  invariant of that proof is `TypeOK`, `DriveSupervised` and `PendingBack`
  together. `WorkingIsDriven`: MotoWorkFlag 2 means a powered motor, without
  sleeps in mid-cycle. `FailuresPerCycle`: `ErrorsPerCycle` for any callers and
  sleeps, with no shell command but `moto_stop`. It is a counting argument
  (`Credits`): an accepted cycle brings two credits; one goes with the Forward
  bit to the drive and is spent by an overload, the other goes to the timer and
  is spent by its callback, or goes with the Back bit to the drive on the way
  back. A Forward from the shell would drive the motor without a credit.
* **TdsWorkProofs** - `BufferNotOverrun`: `data_parsing` writes inside
  `data[]` whatever the frame length and wherever `Tds_Work` interrupts it.
  `IndexInBounds` is not inductive; `FrameInv` adds `FullIndexIsSeen`: between
  two bytes the index is below the frame length because the comparison sees a
  full one in whichever copy it reads. `TdsTypeCorrect`,
  `FullIndexAlwaysSeen` are its other parts. `ValuesAligned` (for every
  `HeaderLike`) and `ValuesFresh`: the invariant `BytesInv` follows the bytes through
  the parser. The bytes of a frame follow one another in the stream, wherever
  the index was reset (`Consecutive`), a value is four bytes behind a header
  (`ValueBehindHeader`), and until a request is `late` the place in the frame is
  the place in the last answer (`InStep`, `ValueOfLast`).
* **RTCWorkProofs** - `CountsNeverAhead`: neither the count in RAM nor the one
  in flash exceeds the hours since the flag was last raised, with torn saves and
  losses of power at any step. `NotAhead` carries what makes it inductive: the
  value about to be stored, and that both counts are zero by the time the flag
  is raised. `RtcTypeCorrect`. Lemmas on `Flash_Set` (`FlashSetType`,
  `FlashSetOther`, `IdsDistinct`) keep the eight variables apart.
  `EnabledSchedulesHavePeriods` and `FlagsAtMostDaily`: until a save is torn
  apart, a schedule that is enabled in RAM, in flash, or in a save, boot or
  factory reset under way has a period (`SettingsInv`), and a period is at
  least a day (`DayIsShortest`); with `NotAhead` a due schedule has waited for a
  day (`WaitedADay`).
* **ScreenPowerProofs** - `TypeCorrect`; `WrongFlagPutRight`:
  `WrongFlagIsPutRight` is inductive as it stands, whatever the timer thread
  interrupts. `FlagIsTrue`: `FlagTellsDisplay` speaks of quiet moments only, so
  that the induction needs `FlagAndPins`, which says what the pins are while
  `OpenLcdDisplay` is between the flag and the pins, and that the display is lit
  while a key is at work (`KeyAtWork`: counted as a long press, or waiting for
  `lcd_task`). `KeysFindScreenLit` follows from it for each step, because a
  long press acts only after at least one callback that has lit the display.
* **ButtonProofs** - for every number of keys, every order of the list and all
  times: `TypeCorrect`, `FlagHasOwner`, `KeysNeverStuck`, `MenuOnce`,
  `ReleasesAnswered`. `NeverStuck` carries that a long press has its flag and that state and level agree, which
  makes it inductive together with `LongFlagHasOwner`: a release that finds
  `LongFlag` set is then the release of the only key in a long press.
  `ReleaseAnswered` is an action property; `EventTells` is what its step needs:
  an undisturbed key that is down has called back `BUTTON_LONG` exactly if its
  event is LONG.
* **LcdWindowsProofs** - lemmas on `GuiWinAdd` and `GuiWinDeleteTop` over all
  stacks of at most `GUIWINMANAGE_NUM` windows carry these invariants:
  - `TypeCorrect` and `MainWindowAtBottom`, without assumptions: the stack is
    never empty and its bottom is the main window, any keys in a pass, calls and
    wake-ups in mid-pass included (`Types`).
  - `MarkOnButton`, without assumptions: between passes only the top window, or
    window 27, has its `FirstFlag` (`FlagOfTop`), and the mark is on one of that
    window's buttons (`Marks`). Within a pass (`InPass`) it depends on the keys
    still to be handled: once a key has opened another window those left must
    be ones that cannot move its mark, which the order of the tests in the
    window functions ensures everywhere but in window 1 with a long press.
  - `KeysGoToWhatIsShown`, with no `"new"` among the calls, which would open
    window 27: what has its flag was drawn last (`Shown`).
  - `InProgressHolds`, under `OrderlyCalls` (one key in a pass, calls between
    passes, wake-ups only while no cycle runs, one report per cycle, reminders
    and automatic backwashes only) and `MaxDepth` below the stack's limit. With
    one key in a pass (`OneKey`) the invariants above come without their
    exception (`OrderlyInv`). `Backwash` relates the motor, `lcd_jump_event`,
    `Jump_Flag`, window 3 and the polled flags: why no second backwash starts
    over a running one, why a report is read by the window it is for, and why a
    reminder finds room.
  - `RunningStaysShown`, under `OrderlyCalls`, without reminders and with room
    for five windows: the stack is a path down the menu, at most four deep, and
    window 3 on it (`MenuPath`). A reminder in the wrong pass covers window 3
    (known deviations), and a sleep in mid-cycle that a key ends takes it off
    the stack (`JumptoMainWin`, `LowPower.c:133`): neither is in the theorem.
* **EnvLockProofs** - `Tokens` and `Wakeups`, for every set of threads and all
  priorities. The invariant adds that the list holds exactly the suspended
  threads, each once; lemmas on `InsertAt`, `RemoveAt`, `Tail` and on the
  cardinality of `Inside` carry the steps.
* **EnvStoreProofs** - for all sets of variables and values, all sizes of sector
  and cache, any threshold and losses of power at any write: `TypeCorrect`,
  `HeaderAlwaysValid` (`HeaderSurvives`), `SpareSectorKept` (`EmptyKept`),
  `OnlyGarbageErased` (no node that is valid or would be recovered is erased) and
  `RoomToMove` (`alloc_env` does not fail in `move_env` while garbage is
  collected), `CacheTrusted` (between calls an address in the cache is that of a
  valid node of its variable) and `VariablesKept` (`NeverForgotten`, an action
  property: no step takes the last node of a variable away), `RoomForEveryCall`
  (`ef_set_env` never returns `EF_ENV_FULL`). `CacheTrusted` and `VariablesKept`
  are what remains of `Findable` and `ImplementsSettings` for any number of
  losses; both are proved in full where losses of power do not pile up:
  - `EveryVariableFound` (`Findable`) and `SetIsAtomic` (the refinement of
    `Settings`) for `MaxLosses <= 2`, wherever the two fall;
  - `UndisturbedEnough`: both for any number of losses, none during a boot;
  - `OrderlyEnough`: both for any number of losses, none in a call that finds a
    node left unfinished by an earlier one (`Orderly`). The known deviation
    with three losses is a behaviour that violates this, so that no bound above
    two can do without a condition.
  Assumed is `TwoSectors`: two sectors, as configured (`ef_cfg.h:95`), with room
  for every variable, one node per loss of power and two more. The firmware's 19
  variables leave room for several dozen losses; the bound counts all losses of
  a behaviour, although a collection removes what they left.
  The invariant `StoreInv` has one phase per state of the pair of sectors
  (`AtRest`: one in use, one formatted; `Moving`: one marked GC, the other
  formatted or receiving; `Moved`: one erased), and what makes them follow each
  other is a count. `Excess`: there are no more nodes to be kept than variables
  with a valid one, plus one per loss of power, plus one while a replacement is
  under way (`Debt`). Hence what is left to be moved and what was moved fit
  into one sector (`Moving`), the move finds room (`MoveHasRoom`,
  `AllocMoving`), every node before `gc.i` is gone (`Progress`) and nothing is
  left when the sector is erased. `Something` (a node to be kept exists) is why
  the receiving sector counts as in use by then. `Source`, `Destination`,
  `Cached` and `CachedOnly` say what the job under way and the cache point to;
  the cache is needed because `set_env` trusts it for the node it prepares for
  deletion. One lemma per action (`Step...`), over lemmas on the five kinds of
  write (`NeutralWrite`, `PreDeleteWrite`, `FinishWrite`, `KillWrite`,
  `AppendWrite`) and their effect on the counts.

  `StoreInv` counts nodes; that each variable has its own needs a second
  invariant, `Tidy`, on where they are. A variable has one valid node (`Alone`)
  and at most one that is replaced (`OneOld`), in front of the new one in their
  sector (`OldFirst`), because `do_gc` moves nodes in the order of addresses
  and must not prepare a second one for deletion. While the store is up the only
  node that is replaced is that of the job (`Finished`): the boot has recovered
  all others. That is true because the scan of the boot ends at the first
  unfinished node, and none that waits to be recovered lies behind it
  (`InOrder`); a loss of power in a call keeps this unless another unfinished
  node is still about, which is `Orderly`. `Fresh` and `Carried` say that the
  node being written has no valid rival and carries the value of the request or
  of its origin. `Settled` shows that `Orderly` holds at every loss that
  interrupts no boot, since a completed boot leaves nothing unfinished, and
  `Twice` that two losses cannot violate it. Each `Tidy...` lemma also says what
  its step does to the nodes (`Keeps`, `Written`, `Outdated`, `Removed`), from
  which `StepValues` reads off the effect on the values: only the write of
  ENV_WRITE in a call changes one, and it is the `Commit` of `Settings`.
  `Committed` (the value is in place from there on) gives its `Return`. The
  refinement needs one fact about constants, `NoneIsNoCall`: the mark of no call
  is not a call. TLC has checked `Tidy` together with `Findable` and the
  refinement under `Orderly` with three losses, and `Settled` without
  interrupted boots, before they were proved.

Only model-checked: all liveness properties (`ENABLED` and fairness are outside
TLAPS).

## 6. What is not modelled

* Drawing, LEDs, counters of backwashes, the password, the edited values other
  than the schedules, GuiWinDraw. Windows 22 and 24, which nothing opens.
* Key semaphores in `LcdWindows` are 0 or 1, since a second press of a key is
  handled in the pass after the first.
* `GuiWinInit` followed by `GuiWinAdd` is one step, although another thread
  could see the empty stack in between. `GuiWinDeleteTop` is one step too, the
  test of `pWin` (`lkdGuiWin.c:78`) and its decrement (81) together, although
  `JumptoMainWin` of the timer thread may come between them. At the build's
  optimisation (-O1, `.cproject:23`) `pWin` is loaded once for both; the late
  store then leaves `pWin` above the rebuilt stack and windows of before the
  wake-up under it, which stays within the array. `MainWindowStays` rests on
  that.
* EasyFlash: nodes of different sizes, the sector cache, `ef_del_env`,
  `ef_print_env` and automatic updates (the firmware uses none of these three),
  two threads inside `ef_env.c` at once (after `EnvLock`'s deviation nothing holds
  of its static variables), and the flash supply that `EnterLowPower` cuts during
  a write while the RAM lives on.
* The button package's other trigger modes and `Button_Delete`.
* `EnterLowPower` appears in three modules with the effect it has on each; the
  interrupt that sets `Button_Wakeup_Flag` just before it is cleared
  (`LowPower.c:126`) is not. Nor is `Set_Hardness_Temp`, 16 bits without an upper
  limit (`lcd_display.c:2739`).
* The battery watcher's voltages (`Battery.c:35-75`, a thread of its own): the
  refusal of a cycle for a low voltage may happen at any call in `MotoControl`,
  `ScreenPower` and `LcdWindows`, and in the latter two the requests for the
  battery windows come at any time, which includes everything
  `BatteryWatcherCallback` does.
* ADC, WiFi, start-up, fonts and drawing, and the vendored code that the firmware
  only calls (HAL, CMSIS, most of RT-Thread, file systems, FAL, drivers): by far
  most of the repository's lines, without logic of this program.

## 7. Plan

In the order of importance; the modules above were steps 1 to 8.

9. *Backwash*: `MotoControl` composed with window 3 of `LcdWindows` (shared
   `lcd_jump_event`, `Jump_Flag`), and an abstract specification of a cycle
   (idle - opening - washing - closing - reported) that the composition refines.
10. *Battery*: the watcher over quantised voltages, with `LowVoltageFlag`.
11. The editors of windows 16, 17 and 21 with 16-bit values.

Theorems next: the same of `EnvStore` for more than two sectors, where the spare
sector is chosen among several. `EmptyKept` shows that the room `TwoSectors`
asks for is needed: with two variables, two losses and four slots
it is false (`RemainThreshold = 0`).

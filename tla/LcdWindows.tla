----------------------------- MODULE LcdWindows -----------------------------
(***************************************************************************)
(* The windows of lcd/lcd_display.c on the window stack of lkdGuiWin.c:    *)
(* what the three keys do in each window, which buttons a window marks,    *)
(* and the windows that lcd_task, the motor and a wake-up open or close    *)
(* behind the user's back.                                                 *)
(*                                                                         *)
(* Window n is UserMain<n>WinFun; nothing opens windows 22 and 24.  The    *)
(* settings a window edits are left out, except where they decide what a   *)
(* key does.  FirstFlag is the set of windows whose FirstFlag[] is 1, that *)
(* is, that are drawn and take keys; a window function whose flag is 0     *)
(* draws its window and sets it.                                           *)
(***************************************************************************)
EXTENDS Integers, Sequences, FiniteSets

CONSTANTS
    GUIWINMANAGE_NUM,  \* the size of winStack
    Keys,              \* the keys that are used
    Calls,             \* the flags that lcd_task polls and that are raised
    MaxPending,        \* bound: keys that wait for the next pass, at a time
    MaxTimers,         \* bound: SemJump timers running at a time
    MaxDepth,          \* bound: the deepest stack on which a call opens a window
    Anytime,           \* may wake-ups and calls come in mid-pass and mid-cycle?
    TwoReports         \* may a cycle report two events at once?

ASSUME WindowConstants ==
    /\ GUIWINMANAGE_NUM \in Nat /\ GUIWINMANAGE_NUM >= 1
    /\ Keys \subseteq {"K2_Long", "K0", "K1", "K2"}
    /\ Calls \subseteq {"reminder", "automatic", "empty", "new"}
    /\ MaxPending \in Nat /\ MaxTimers \in Nat /\ MaxDepth \in Nat
    /\ Anytime \in BOOLEAN
    /\ TwoReports \in BOOLEAN

Windows == (1 .. 27) \ {22, 24}

\* lkdButton tButton[5]
TButtons == 5

\* What the motor reports at the end of a cycle.
Reports == {"TDS", "STALLING", "FINISH", "NOMOTO"}

\* The order of the polls in lcd_task_entry.
AfterPoll ==
    [reminder |-> "automatic", automatic |-> "empty", empty |-> "new", new |-> "display"]

VARIABLES
    winStack, FirstFlag, NowButtonId, NowSetting, Win1PageID, Win14PageID,
    Jump_Flag,       \* 0 while a cycle has not reported its end
    EnableTemp,      \* Reminder_Enable_Temp or Automatic_Enable_Temp; 2: exit
    sems,            \* the key semaphores that are not 0
    timerPress,      \* history: K2_Sem was released by SemJump_Timer, not by the key
    lcd_jump_event,
    flags,           \* JumptoReminderFlag, JumptoAutomaticFlag, JumpToBattery*Flag
    SemJump_Timer,   \* SemJump timers that run
    cycle,           \* a backwash is running (see MotoControl)
    pc,              \* lcd_task: "display", "keys", or the flag polled next
    win, got,        \* the window function being run (1 once it is done), the keys left to it
    screen,          \* history: the window last drawn, 0 after GuiClearScreen
    mark,            \* history: the setting shown as selected in windows 4 and 5
    mixed            \* history: window 1 has taken a long press and another key at once

gui == <<winStack, FirstFlag, screen>>
cursor == <<NowButtonId, NowSetting, EnableTemp, mark>>
pages == <<Win1PageID, Win14PageID>>
events == <<lcd_jump_event, flags, SemJump_Timer, cycle>>
pass == <<pc, win, got>>
vars == <<gui, cursor, pages, Jump_Flag, sems, timerPress, events, pass, mixed>>

TypeOK ==
    /\ winStack \in Seq(Windows)
    /\ Len(winStack) \in 1 .. GUIWINMANAGE_NUM
    /\ FirstFlag \subseteq Windows
    /\ NowButtonId \in Nat
    /\ NowSetting \in 0 .. 2
    /\ Win1PageID \in 0 .. 2
    /\ Win14PageID \in 0 .. 5
    /\ Jump_Flag \in {0, 1}
    /\ EnableTemp \in 0 .. 2
    /\ sems \subseteq {"K2_Long", "K0", "K1", "K2"}
    /\ timerPress \in {0, 1}
    /\ lcd_jump_event \subseteq Reports \cup {"EXIT"}
    /\ flags \subseteq {"reminder", "automatic", "empty", "new"}
    /\ SemJump_Timer \in 0 .. MaxTimers
    /\ cycle \in {"no", "running"}
    /\ pc \in {"display", "keys", "reminder", "automatic", "empty", "new"}
    /\ win \in Windows
    /\ got \subseteq {"K2_Long", "K0", "K1", "K2"}
    /\ screen \in Windows \cup {0}
    /\ mark \in 0 .. 2
    /\ mixed \in {0, 1}

Init ==
    /\ winStack = <<1>> /\ FirstFlag = {} /\ screen = 0
    /\ NowButtonId = 0 /\ NowSetting = 0 /\ EnableTemp = 0 /\ mark = 0
    /\ Win1PageID = 0 /\ Win14PageID = 0
    /\ Jump_Flag = 1
    /\ sems = {} /\ timerPress = 0
    /\ lcd_jump_event = {} /\ flags = {} /\ SemJump_Timer = 0 /\ cycle = "no"
    /\ pc = "display" /\ win = 1 /\ got = {} /\ mixed = 0

----------------------------------------------------------------------------
(* The window stack.                                                       *)

Top(stack) == stack[Len(stack)]

\* Faulty variant: the limit is not tested.
GuiWinAddUnchecked(stack, w) == Append(stack, w)

GuiWinAdd(stack, w) ==
    IF Len(stack) >= GUIWINMANAGE_NUM THEN stack ELSE Append(stack, w)

\* Faulty variant: the last window is deleted as well.
GuiWinDeleteTopAll(stack) == SubSeq(stack, 1, Len(stack) - 1)

GuiWinDeleteTop(stack) ==
    IF Len(stack) <= 1 THEN stack ELSE SubSeq(stack, 1, Len(stack) - 1)

----------------------------------------------------------------------------
(* Drawing.  Most windows mark their first button, windows that have none  *)
(* leave NowButtonId as it is, and so does the second page of window 1.    *)

FirstButton(w) ==
    CASE w = 1 -> IF Win1PageID = 1 THEN NowButtonId ELSE IF Win1PageID = 2 THEN 3 ELSE 0
      [] w \in {2, 7, 8, 16, 17, 19, 20} -> 0
      [] w \in 9 .. 12 -> 1
      [] w = 14 -> IF Win14PageID < 3 THEN 0 ELSE 2
      [] OTHER -> NowButtonId

\* GuiWinDisplay of a top window whose flag is 0.
Draw(w, flagged) ==
    /\ FirstFlag' = flagged \cup {w}
    /\ screen' = w
    /\ NowButtonId' = FirstButton(w)
    /\ Jump_Flag' = IF w = 3 THEN 0 ELSE Jump_Flag
    /\ \/ w \in {4, 5} /\ EnableTemp' \in {0, 1} /\ mark' = 0
       \/ w \notin {4, 5} /\ UNCHANGED <<EnableTemp, mark>>

\* GuiClearScreen only: the top window draws itself in the next pass.
DrawLater(flagged) ==
    /\ FirstFlag' = flagged
    /\ screen' = 0
    /\ UNCHANGED <<NowButtonId, Jump_Flag, EnableTemp, mark>>

\* The windows that call GuiWinDisplay as they close.
DrawsBelow == {4, 5, 6, 7, 13, 15, 16, 17, 18, 19}

Close(w) ==
    /\ winStack' = GuiWinDeleteTop(winStack)
    /\ IF w \in DrawsBelow
       THEN Draw(Top(winStack'), FirstFlag \ {w})
       ELSE DrawLater(FirstFlag \ {w})

Open(w, v) ==
    /\ winStack' = GuiWinAdd(winStack, v)
    /\ DrawLater(FirstFlag \ {w})

\* GuiWinInit; GuiWinAdd(&userMain1Win)
Home(w) ==
    /\ winStack' = <<1>>
    /\ DrawLater(FirstFlag \ {w})

----------------------------------------------------------------------------
(* Moto_Cycle as the windows see it: the cycle starts or runs already, or  *)
(* the battery is too low and window 3 has to go.                          *)

Moto_Cycle(raised) ==
    \/ /\ cycle' = "running"
       /\ flags' = raised
       /\ UNCHANGED lcd_jump_event
    \/ /\ "empty" \in Calls
       /\ lcd_jump_event' = lcd_jump_event \cup {"EXIT"}
       /\ flags' = raised \cup {"empty"}
       /\ UNCHANGED cycle

----------------------------------------------------------------------------
(* The keys up (K0) and down (K1).                                         *)

\* Where the mark goes in the windows with plain buttons.
Moved(w, k, b) ==
    CASE w \in {2, 19} /\ b \in {0, 1} -> 1 - b
      [] w \in {16, 17} /\ b \in {1, 2} -> 3 - b
      [] w \in {7, 8} -> IF k = "K0" THEN (b + 3) % 4 ELSE (b + 1) % 4
      [] w = 20 -> IF k = "K0" THEN (b + 1) % 3 ELSE (b + 2) % 3
      [] w \in 9 .. 12 /\ k = "K1" -> IF b = 2 THEN 1 ELSE b + 1
      [] OTHER -> b

MoveMark(k) ==
    /\ win \notin {1, 4, 5, 14, 25}
    /\ NowButtonId' = Moved(win, k, NowButtonId)
    /\ UNCHANGED <<gui, NowSetting, EnableTemp, mark, pages, Jump_Flag>>

\* Turn a page of window win (its flag is cleared, it draws itself in the
\* next pass) or move the mark on the page.
TurnPage(b) ==
    /\ FirstFlag' = FirstFlag \ {win}
    /\ NowButtonId' = b
    /\ UNCHANGED <<winStack, screen>>

MarkOnPage(b) ==
    /\ NowButtonId' = b
    /\ UNCHANGED <<gui, pages>>

MainPages(k) ==
    /\ win = 1
    /\ \/ k = "K0" /\ NowButtonId = 0 /\ Win1PageID' = 1 /\ TurnPage(4)
       \/ k = "K0" /\ NowButtonId = 4 /\ Win1PageID' = 2 /\ TurnPage(3)
       \/ k = "K1" /\ NowButtonId = 3 /\ Win1PageID' = 1 /\ TurnPage(4)
       \/ k = "K1" /\ NowButtonId = 4 /\ Win1PageID' = 0 /\ TurnPage(5)
       \/ k = "K0" /\ NowButtonId \notin {0, 4} /\ MarkOnPage(NowButtonId - 1)
       \/ k = "K1" /\ NowButtonId \notin {3, 4} /\ MarkOnPage(NowButtonId + 1)
    /\ UNCHANGED <<Win14PageID, NowSetting, EnableTemp, mark, Jump_Flag>>

\* The pages of window 14: 0 to 2 with the mark on top, 3 to 5 the same
\* pages with the mark at the bottom.
LastButton == 3

\* Faulty variant: the page turns one press late.
AtPageEndLate == NowButtonId > LastButton + 1

AtPageEnd == NowButtonId = LastButton

PageAbove == 3 + ((Win14PageID + 2) % 3)
PageBelow == (Win14PageID + 1) % 3

SystemPages(k) ==
    /\ win = 14
    /\ \/ k = "K0" /\ NowButtonId = 0 /\ Win14PageID' = PageAbove /\ TurnPage(0)
       \/ k = "K1" /\ AtPageEnd /\ Win14PageID' = PageBelow /\ TurnPage(LastButton)
       \/ k = "K0" /\ NowButtonId # 0 /\ MarkOnPage(NowButtonId - 1)
       \/ k = "K1" /\ ~AtPageEnd /\ MarkOnPage(NowButtonId + 1)
    /\ UNCHANGED <<Win1PageID, NowSetting, EnableTemp, mark, Jump_Flag>>

\* Windows 4 and 5: weeks and days are left out, see RTCWork.
ChangeSetting(k) ==
    /\ win \in {4, 5}
    /\ EnableTemp' = IF NowSetting # 2 THEN EnableTemp
                     ELSE IF k = "K0" THEN (EnableTemp + 2) % 3
                     ELSE (EnableTemp + 1) % 3
    /\ UNCHANGED <<gui, NowButtonId, NowSetting, mark, pages, Jump_Flag>>

\* Window 25, "No": home, and window 1 is drawn at once.
NoBackwash(k) ==
    /\ win = 25
    /\ IF k = "K0"
       THEN winStack' = <<1>> /\ Draw(1, FirstFlag \ {25})
       ELSE UNCHANGED <<gui, NowButtonId, EnableTemp, mark, Jump_Flag>>
    /\ UNCHANGED <<NowSetting, pages>>

UpDown(k) ==
    /\ \/ MoveMark(k) \/ MainPages(k) \/ SystemPages(k)
       \/ ChangeSetting(k) \/ NoBackwash(k)
    /\ UNCHANGED <<lcd_jump_event, flags, cycle>>

----------------------------------------------------------------------------
(* The key enter (K2), window by window, and its long form.                *)

NoEvents == UNCHANGED <<lcd_jump_event, flags, cycle>>

\* The windows that a button opens.
Opens ==
    [b \in 0 .. 4 |-> <<2, 4, 5, 6, 7>>[b + 1]]

Enter1 ==
    /\ win = 1
    /\ Win1PageID' = 0
    /\ winStack' = IF NowButtonId \in DOMAIN Opens
                   THEN GuiWinAdd(winStack, Opens[NowButtonId]) ELSE winStack
    /\ DrawLater(FirstFlag \ {1})
    /\ UNCHANGED <<NowSetting, Win14PageID>> /\ NoEvents

Enter2 ==
    /\ win = 2
    /\ \/ NowButtonId = 0 /\ Moto_Cycle(flags) /\ Open(2, 3)
       \/ NowButtonId # 0 /\ Close(2) /\ NoEvents
    /\ UNCHANGED <<NowSetting, pages>>

\* Faulty variant: window 3 can always be left.
MayLeaveAlways == TRUE

\* The screen of a backwash is only left once its end has been reported.
MayLeave == Jump_Flag = 1

Enter3 ==
    /\ win = 3
    /\ IF MayLeave THEN Home(3) ELSE UNCHANGED <<gui, NowButtonId, EnableTemp, mark, Jump_Flag>>
    /\ UNCHANGED <<NowSetting, pages>> /\ NoEvents

NextSetting ==
    /\ NowSetting' = NowSetting + 1 /\ mark' = NowSetting + 1
    /\ UNCHANGED <<gui, NowButtonId, EnableTemp, Jump_Flag>>

\* The last setting is entered: all three are saved.
SaveSettings ==
    /\ NowSetting' = 0
    /\ winStack' = GuiWinDeleteTop(winStack)
    /\ DrawLater(FirstFlag \ {win})

Enter45 ==
    /\ win \in {4, 5}
    /\ \/ EnableTemp = 2 /\ NowSetting' = 0 /\ Close(win)
       \/ EnableTemp # 2 /\ NowSetting < 2 /\ NextSetting
       \/ EnableTemp # 2 /\ NowSetting = 2 /\ SaveSettings
    /\ UNCHANGED pages /\ NoEvents

\* The lists of windows 7 and 8; their last entry leads back.
EnterList ==
    /\ win \in {7, 8}
    /\ \/ win = 7 /\ NowButtonId < 3 /\ Open(7, <<8, 12, 13>>[NowButtonId + 1])
       \/ win = 8 /\ NowButtonId < 3 /\ Open(8, <<9, 10, 11>>[NowButtonId + 1])
       \/ NowButtonId >= 3 /\ Close(win)
    /\ UNCHANGED <<NowSetting, pages>> /\ NoEvents

\* What the button b opens on each page of window 14; 0: nothing.
SystemList(page, b) ==
    CASE page % 3 = 0 -> <<15, 16, 17>>[b + 1]
      [] page % 3 = 1 -> <<18, 19, 20>>[b + 1]
      [] OTHER -> IF b = 2 THEN 21 ELSE 0

Enter14 ==
    /\ win = 14
    /\ winStack' = IF NowButtonId = 3 THEN GuiWinDeleteTop(winStack)
                   ELSE IF NowButtonId < 3 /\ SystemList(Win14PageID, NowButtonId) # 0
                   THEN GuiWinAdd(winStack, SystemList(Win14PageID, NowButtonId))
                   ELSE winStack
    /\ Win14PageID' = 0 /\ NowButtonId' = 0
    /\ FirstFlag' = FirstFlag \ {14} /\ screen' = 0
    /\ UNCHANGED <<NowSetting, EnableTemp, mark, Win1PageID, Jump_Flag>> /\ NoEvents

\* Windows 16 and 17: the first press enters the value, the second answers.
EnterValue ==
    /\ win \in {16, 17}
    /\ \/ /\ NowButtonId = 0 /\ NowButtonId' = 1
          /\ UNCHANGED <<gui, EnableTemp, mark, Jump_Flag>>
       \/ NowButtonId \in {1, 2} /\ Close(win)
    /\ UNCHANGED <<NowSetting, pages>> /\ NoEvents

\* The windows that K2 only closes (19: "Exit", its other button resets).
EnterCloses ==
    /\ \/ win \in {6, 13, 15, 18, 20, 26, 27} \cup (9 .. 12)
       \/ win = 19 /\ NowButtonId = 1
    /\ Close(win)
    /\ UNCHANGED <<NowSetting, pages>> /\ NoEvents

\* The password, right or wrong.
Enter21 ==
    /\ win = 21
    /\ Open(21, 23) \/ Close(21)
    /\ UNCHANGED <<NowSetting, pages>> /\ NoEvents

Enter23 ==
    /\ win = 23
    /\ winStack' = GuiWinDeleteTop(GuiWinDeleteTop(winStack))
    /\ DrawLater(FirstFlag \ {23})
    /\ UNCHANGED <<NowSetting, pages>> /\ NoEvents

\* Window 25, "Yes": JumptoAutomatic
Enter25 ==
    /\ win = 25
    /\ flags' = flags \cup {"automatic"}
    /\ UNCHANGED <<gui, cursor, pages, Jump_Flag, lcd_jump_event, cycle>>

Enter ==
    \/ Enter1 \/ Enter2 \/ Enter3 \/ Enter45 \/ EnterList \/ Enter14
    \/ EnterValue \/ EnterCloses \/ Enter21 \/ Enter23 \/ Enter25

\* Only window 1 knows the long press: it opens and draws the system menu.
EnterLong ==
    /\ IF win = 1
       THEN /\ winStack' = GuiWinAdd(winStack, 14)
            /\ Draw(Top(winStack'), FirstFlag \ {1})
       ELSE UNCHANGED <<gui, NowButtonId, EnableTemp, mark, Jump_Flag>>
    /\ UNCHANGED <<NowSetting, pages>> /\ NoEvents

----------------------------------------------------------------------------
(* A pass of lcd_task: GuiWinDisplay, then the polls.                      *)

DrawTop ==
    /\ pc = "display"
    /\ Top(winStack) \notin FirstFlag
    /\ Draw(Top(winStack), FirstFlag)
    /\ pc' = "reminder"
    /\ UNCHANGED <<winStack, NowSetting, pages, sems, timerPress, events, win, got, mixed>>

\* Faulty variant: JUMP_STALLING does not end the screen of the backwash.
EndsBackwashNotStalling == {"TDS", "FINISH", "NOMOTO", "EXIT"}

\* rt_event_recv hands out all pending bits; the switch knows single ones.
EndsBackwash == {"TDS", "STALLING", "FINISH", "NOMOTO", "EXIT"}

\* Window 3 reads lcd_jump_event before the keys.
JumpEvent ==
    /\ lcd_jump_event' = {}
    /\ Jump_Flag' = IF \E e \in EndsBackwash : lcd_jump_event = {e}
                    THEN 1 ELSE Jump_Flag
    /\ \/ /\ lcd_jump_event = {"FINISH"}
          /\ SemJump_Timer' = SemJump_Timer + 1
          /\ UNCHANGED gui
       \/ /\ lcd_jump_event = {"EXIT"}
          /\ winStack' = <<1>> /\ FirstFlag' = FirstFlag \ {3} /\ screen' = 0
          /\ UNCHANGED SemJump_Timer
       \/ /\ lcd_jump_event \notin {{"FINISH"}, {"EXIT"}}
          /\ UNCHANGED <<gui, SemJump_Timer>>

TakeKeys ==
    /\ pc = "display"
    /\ Top(winStack) \in FirstFlag
    /\ IF Top(winStack) = 3
       THEN JumpEvent
       ELSE UNCHANGED <<gui, Jump_Flag, lcd_jump_event, SemJump_Timer>>
    /\ win' = Top(winStack)
    /\ got' = sems /\ sems' = {}
    /\ mixed' = IF Top(winStack) = 1 /\ "K2_Long" \in sems /\ sems # {"K2_Long"}
                THEN 1 ELSE mixed
    /\ pc' = IF sems = {} THEN "reminder" ELSE "keys"
    /\ UNCHANGED <<cursor, pages, timerPress, flags, cycle>>

\* The order in which a window function looks at the keys.
KeyOrder == <<"K2_Long", "K0", "K1", "K2">>

NextKey(k) ==
    \E i \in 1 .. 4 : KeyOrder[i] = k /\ \A j \in 1 .. i - 1 : KeyOrder[j] \notin got

Key(k) ==
    /\ pc = "keys"
    /\ k \in got /\ NextKey(k)
    /\ got' = got \ {k}
    /\ pc' = IF got = {k} THEN "reminder" ELSE "keys"
    /\ timerPress' = IF k = "K2" THEN 0 ELSE timerPress
    /\ UNCHANGED <<sems, SemJump_Timer, win, mixed>>

PressUpDown == \E k \in {"K0", "K1"} : Key(k) /\ UpDown(k)
PressEnter == Key("K2") /\ Enter
PressLong == Key("K2_Long") /\ EnterLong

\* Window 19: Flash_Factory; rt_hw_cpu_reset
Factory ==
    /\ pc = "keys" /\ "K2" \in got /\ NextKey("K2")
    /\ win = 19 /\ NowButtonId = 0
    /\ winStack' = <<1>> /\ FirstFlag' = {} /\ screen' = 0
    /\ NowButtonId' = 0 /\ NowSetting' = 0 /\ EnableTemp' = 0 /\ mark' = 0
    /\ Win1PageID' = 0 /\ Win14PageID' = 0
    /\ Jump_Flag' = 1
    /\ sems' = {} /\ timerPress' = 0
    /\ lcd_jump_event' = {} /\ flags' = {} /\ SemJump_Timer' = 0 /\ cycle' = "no"
    /\ pc' = "display" /\ win' = 1 /\ got' = {} /\ mixed' = 0

----------------------------------------------------------------------------
(* The polls.  memset(FirstFlag, 0, 27) leaves FirstFlag[27] as it is.     *)

\* Faulty variant: nothing is cleared.
ClearFlagsForgotten == FirstFlag

ClearFlags == FirstFlag \cap {27}

\* GuiClearScreen; GuiWinAdd; memset
Push(w) ==
    /\ winStack' = GuiWinAdd(winStack, w)
    /\ FirstFlag' = ClearFlags
    /\ screen' = 0

DrawAgain(w) ==
    /\ FirstFlag' = FirstFlag \ {w}
    /\ UNCHANGED <<winStack, screen>>

LcdtoReminder ==
    /\ IF 25 \notin FirstFlag /\ Jump_Flag = 1 THEN Push(25) ELSE DrawAgain(25)
    /\ flags' = flags \ {"reminder"}
    /\ UNCHANGED <<lcd_jump_event, cycle>>

LcdtoBackwash ==
    /\ IF 3 \notin FirstFlag THEN Push(3) ELSE DrawAgain(3)
    /\ Moto_Cycle(flags \ {"automatic"})

BatteryEmpty ==
    /\ Push(26)
    /\ flags' = flags \ {"empty"}
    /\ UNCHANGED <<lcd_jump_event, cycle>>

BatteryNew ==
    /\ Push(27)
    /\ flags' = flags \ {"new"}
    /\ UNCHANGED <<lcd_jump_event, cycle>>

Poll ==
    /\ \/ /\ pc \in {"reminder", "automatic", "empty", "new"} \ flags
          /\ UNCHANGED <<gui, lcd_jump_event, flags, cycle>>
       \/ pc = "reminder" /\ pc \in flags /\ LcdtoReminder
       \/ pc = "automatic" /\ pc \in flags /\ LcdtoBackwash
       \/ pc = "empty" /\ pc \in flags /\ BatteryEmpty
       \/ pc = "new" /\ pc \in flags /\ BatteryNew
    /\ pc' = AfterPoll[pc] /\ win' = 1
    /\ UNCHANGED <<cursor, pages, Jump_Flag, sems, timerPress, SemJump_Timer, got, mixed>>

----------------------------------------------------------------------------
(* The other threads.                                                      *)

\* A button callback.  A second press of a key whose semaphore is already 1
\* is the same as one after lcd_task has taken the first; a press during a
\* pass is the same as one right after it, when the semaphores are read again.
\* Bound: a mark that has left tButton[] is not followed any further (the code
\* writes outside of the array from there on).
KeyDown(k) ==
    /\ pc = "display"
    /\ NowButtonId <= TButtons
    /\ k \in Keys \ sems
    /\ Cardinality(sems) < MaxPending
    /\ sems' = sems \cup {k}
    /\ UNCHANGED <<gui, cursor, pages, Jump_Flag, timerPress, events, pass, mixed>>

\* Four seconds after "Finish" the timer answers in the user's place.
K2_Setjump_Sem_Release ==
    /\ SemJump_Timer > 0
    /\ "K2" \notin sems \cup got
    /\ Cardinality(sems \cup got) < MaxPending
    /\ SemJump_Timer' = SemJump_Timer - 1
    /\ sems' = sems \cup {"K2"} /\ timerPress' = 1
    /\ UNCHANGED <<gui, cursor, pages, Jump_Flag, lcd_jump_event, flags, cycle, pass, mixed>>

\* Between two passes, and with no backwash running or to be reported.
Quiet == pc = "display" /\ cycle = "no" /\ lcd_jump_event = {}

\* RTC checks, differential pressure and battery ask for a window.
Call(c) ==
    /\ Anytime \/ Quiet
    /\ Len(winStack) <= MaxDepth
    /\ c \in Calls \ flags
    /\ flags' = flags \cup {c}
    /\ UNCHANGED <<gui, cursor, pages, Jump_Flag, sems, timerPress,
                   lcd_jump_event, SemJump_Timer, cycle, pass, mixed>>

\* The motor has ended its cycle, one way or another, and says so.  The
\* timer of an earlier cycle, four seconds, is over by then (MaxTimers = 1),
\* and so is the pass that draws window 3.
CycleEnds ==
    /\ cycle = "running"
    /\ Anytime \/ Jump_Flag = 0
    /\ SemJump_Timer < MaxTimers
    /\ cycle' = "no"
    /\ \/ \E e \in Reports : lcd_jump_event' = lcd_jump_event \cup {e}
       \/ TwoReports /\ lcd_jump_event' = lcd_jump_event \cup {"STALLING", "NOMOTO"}
    /\ UNCHANGED <<gui, cursor, pages, Jump_Flag, sems, timerPress, flags,
                   SemJump_Timer, pass, mixed>>

\* EnterLowPower, after a key has woken the device.  The display timers that
\* lead there stand still during a cycle; the hourly one does not (Anytime).
JumptoMainWin ==
    /\ Anytime \/ Quiet
    /\ winStack' = <<1>> /\ FirstFlag' = ClearFlags /\ screen' = 0
    /\ UNCHANGED <<cursor, pages, Jump_Flag, sems, timerPress, events, pass, mixed>>

lcd_task == DrawTop \/ TakeKeys \/ PressUpDown \/ PressEnter \/ PressLong \/ Factory \/ Poll

Next ==
    \/ lcd_task
    \/ \E k \in Keys : KeyDown(k)
    \/ K2_Setjump_Sem_Release
    \/ \E c \in Calls : Call(c)
    \/ CycleEnds
    \/ JumptoMainWin

Spec == Init /\ [][Next]_vars

\* lcd_task is never starved for good, a cycle ends (see MotoControl), and a
\* timer fires: keys that are pressed meanwhile do not put it off for ever.
FairSpec ==
    /\ Spec
    /\ WF_vars(lcd_task) /\ WF_vars(CycleEnds) /\ SF_vars(K2_Setjump_Sem_Release)

----------------------------------------------------------------------------
(* Properties.                                                             *)

\* A window that takes keys is the one on the screen: lcd_display.c draws a
\* window whenever it becomes the top one, and only then lets it take keys,
\* whichever keys it has handled in one pass.  The one exception is in the
\* formula: window 1 handles a long press, which opens and draws the system
\* menu, and goes on with another key (README, known deviations).
DrawnIsTop ==
    mixed = 0 /\ pc = "display" /\ Top(winStack) \in FirstFlag => screen = Top(winStack)

\* The main window stays at the bottom of the stack, where every way back
\* leads: also when JumptoMainWin replaces the stack under a window function
\* that goes on to close its window.
MainWindowStays == winStack # <<>> /\ winStack[1] = 1

\* The last button of each window whose keys use tButton[NowButtonId]; the
\* others take NowButtonId over.
LastButtonOf(w) ==
    CASE w = 1 -> TButtons - 1
      [] w \in {7, 8, 14} -> 3
      [] w \in {16, 17, 20} \cup (9 .. 12) -> 2
      [] w \in {2, 19} -> 1
      [] OTHER -> TButtons

\* The mark, one variable for all windows, is on a button of the window that
\* takes keys, however many keys a pass has handled and whatever window they
\* have opened, closed or left.  Same exception as in DrawnIsTop: there the
\* mark of window 1 is moved after the menu has been drawn, and may leave
\* tButton[] (README, known deviations).
ButtonExists ==
    mixed = 0 /\ pc = "display" /\ Top(winStack) \in FirstFlag
        => NowButtonId <= LastButtonOf(Top(winStack))

\* While the screen says that the backwash is in progress and cannot be
\* left, it is, or its end is still to be read.
InProgressIsTrue ==
    pc = "display" /\ screen = 3 /\ 3 \in FirstFlag /\ Jump_Flag = 0
        => cycle = "running" \/ lcd_jump_event # {}

\* A running backwash has its window on the stack, where every way back leads
\* to it, unless a key wakes the device from a sleep in mid-cycle (see
\* JumptoMainWin and Anytime).
RunningIsShown ==
    cycle = "running" => \E i \in DOMAIN winStack : winStack[i] = 3

\* The screen of a backwash does not stay: its end is reported there unless
\* another window comes up before.
InProgressEnds ==
    (screen = 3 /\ Jump_Flag = 0) ~> (screen # 3 \/ Jump_Flag = 1)

----------------------------------------------------------------------------
(* Properties that the code was meant to have and has not; the README says *)
(* under which constants TLC shows it.                                     *)

\* On the page of window 1 that shows Info alone, enter opens Info: the page
\* and the button, two variables, go together across the system menu, the
\* battery windows and wake-ups.
InfoPageOpensInfo ==
    pc = "display" /\ screen = 1 /\ 1 \in FirstFlag /\ Win1PageID = 1
        => NowButtonId = 4

\* The setting that the keys change in windows 4 and 5 is the one marked.
MarkIsSetting ==
    pc = "display" /\ screen \in {4, 5} /\ screen \in FirstFlag
        => mark = NowSetting

\* The reminder does not come up over a running backwash.
ReminderWaits ==
    screen = 25 => cycle = "no"

\* Only the user starts a manual backwash: the K2 that SemJump_Timer gives
\* in the user's place never confirms "Backwash Now".
UserStartsBackwash ==
    [][win = 2 /\ NowButtonId = 0 /\ timerPress = 1 => ~PressEnter]_vars
=============================================================================

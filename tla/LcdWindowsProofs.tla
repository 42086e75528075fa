-------------------------- MODULE LcdWindowsProofs --------------------------
(***************************************************************************)
(* Proofs about LcdWindows.  First what holds whatever keys, calls and     *)
(* bounds there are: types, and that the stack is never empty and its      *)
(* bottom is the main window.  Then, for any number of keys in a pass:     *)
(* only the window on top takes keys, its mark stays on a button, and it   *)
(* is what the screen shows.  Last, for keys that come one in a pass and   *)
(* calls and wake-ups that wait for the end of a backwash: where window 3  *)
(* can be on the stack, and what it says of the motor.                     *)
(***************************************************************************)
EXTENDS LcdWindows, FiniteSetTheorems, TLAPS

KeyNames == {"K2_Long", "K0", "K1", "K2"}

Polled == {"reminder", "automatic", "empty", "new"}

----------------------------------------------------------------------------
(* The window stack.                                                       *)

\* The stacks that GuiWinInit, GuiWinAdd and GuiWinDeleteTop build of the
\* windows W.
Stacks(W) ==
    {s \in Seq(W) : Len(s) \in 1 .. GUIWINMANAGE_NUM /\ s[1] = 1}

\* The windows that keys open; the others come from the polls of lcd_task.
KeyWindows == Windows \ {25, 26, 27}

\* GuiWinInit and GuiWinAdd(&userMain1Win) give a stack with window 1 on top.
LEMMA HomeStack ==
  ASSUME NEW W, 1 \in W
  PROVE  <<1>> \in Stacks(W) /\ Top(<<1>>) = 1
  BY WindowConstants DEF Stacks, Top

\* The top of a stack is a window.
LEMMA TopWindow ==
  ASSUME NEW W, NEW s \in Stacks(W)
  PROVE  Top(s) \in W
  BY DEF Stacks, Top

\* GuiWinAdd leaves the bottom alone, and what is on top afterwards is the
\* new window or, when the stack is full, what was there.
LEMMA AddStack ==
  ASSUME NEW W, NEW s \in Stacks(W), NEW w \in W
  PROVE  /\ GuiWinAdd(s, w) \in Stacks(W)
         /\ Top(GuiWinAdd(s, w)) = IF Len(s) >= GUIWINMANAGE_NUM THEN Top(s) ELSE w
<1>1. CASE Len(s) >= GUIWINMANAGE_NUM
  BY <1>1 DEF GuiWinAdd
<1>2. CASE ~(Len(s) >= GUIWINMANAGE_NUM)
  <2>1. /\ s \in Seq(W) /\ Len(s) \in Nat /\ Len(s) >= 1 /\ s[1] = 1
        /\ GUIWINMANAGE_NUM \in Nat
    BY WindowConstants DEF Stacks
  <2>2. GuiWinAdd(s, w) = Append(s, w)
    BY <1>2 DEF GuiWinAdd
  <2>3. /\ Append(s, w) \in Seq(W) /\ Len(Append(s, w)) = Len(s) + 1
        /\ Append(s, w)[1] = s[1] /\ Append(s, w)[Len(s) + 1] = w
    BY <2>1
  <2>4. Len(s) + 1 \in 1 .. GUIWINMANAGE_NUM
    BY <1>2, <2>1
  <2> QED  BY <1>2, <2>1, <2>2, <2>3, <2>4 DEF Stacks, Top
<1> QED  BY <1>1, <1>2

\* GuiWinDeleteTop never deletes the window at the bottom.
LEMMA DeleteStack ==
  ASSUME NEW W, NEW s \in Stacks(W)
  PROVE  /\ GuiWinDeleteTop(s) \in Stacks(W)
         /\ Len(GuiWinDeleteTop(s)) = IF Len(s) <= 1 THEN Len(s) ELSE Len(s) - 1
         /\ \A i \in 1 .. Len(GuiWinDeleteTop(s)) : GuiWinDeleteTop(s)[i] = s[i]
<1>1. CASE Len(s) <= 1
  BY <1>1 DEF GuiWinDeleteTop
<1>2. CASE ~(Len(s) <= 1)
  <2>1. /\ s \in Seq(W) /\ Len(s) \in Nat /\ Len(s) >= 2 /\ s[1] = 1
        /\ GUIWINMANAGE_NUM \in Nat /\ Len(s) <= GUIWINMANAGE_NUM
    BY <1>2, WindowConstants DEF Stacks
  <2>2. GuiWinDeleteTop(s) = SubSeq(s, 1, Len(s) - 1)
    BY <1>2 DEF GuiWinDeleteTop
  <2> DEFINE t == SubSeq(s, 1, Len(s) - 1)
  <2>3. /\ t \in Seq(W) /\ Len(t) = Len(s) - 1
        /\ \A i \in 1 .. Len(s) - 1 : t[i] = s[i]
    BY <2>1
  <2>4. t[1] = 1 /\ Len(s) - 1 \in 1 .. GUIWINMANAGE_NUM
    BY <2>1, <2>3
  <2> HIDE DEF t
  <2>5. t \in Stacks(W)
    BY <2>3, <2>4 DEF Stacks
  <2> QED  BY <1>2, <2>2, <2>3, <2>5 DEF t
<1> QED  BY <1>1, <1>2
----------------------------------------------------------------------------
(* What a key does to the stack, the flags and the screen.                 *)

GuiType ==
    /\ winStack \in Stacks(Windows)
    /\ FirstFlag \subseteq Windows
    /\ screen \in Windows \cup {0}

CursorType ==
    /\ NowButtonId \in Nat
    /\ NowSetting \in 0 .. 2
    /\ EnableTemp \in 0 .. 2
    /\ mark \in 0 .. 2
    /\ Win1PageID \in 0 .. 2
    /\ Win14PageID \in 0 .. 5
    /\ Jump_Flag \in {0, 1}

\* The body of a window function for one of the keys it has taken.
KeyBody == (\E k \in {"K0", "K1"} : UpDown(k)) \/ Enter \/ EnterLong

\* A key never opens one of the windows of the polls: whatever set W of
\* windows the stack is made of, it stays so.
LEMMA KeyStack ==
  ASSUME NEW W, KeyWindows \subseteq W, winStack \in Stacks(W), CursorType, KeyBody
  PROVE  winStack' \in Stacks(W)
<1>1. 1 \in W /\ <<1>> \in Stacks(W)
  BY HomeStack DEF KeyWindows, Windows
<1>2. GuiWinDeleteTop(winStack) \in Stacks(W)
  BY DeleteStack
<1>3. \A w \in KeyWindows : GuiWinAdd(winStack, w) \in Stacks(W)
  BY AddStack
<1>4. ASSUME NEW k \in {"K0", "K1"}, UpDown(k)
      PROVE  winStack' \in Stacks(W)
  BY <1>1, <1>4 DEF UpDown, MoveMark, MainPages, SystemPages, ChangeSetting, NoBackwash,
     TurnPage, MarkOnPage, gui
<1>5. CASE Enter
  <2>1. CASE Enter1
    <3>1. NowButtonId \in DOMAIN Opens => Opens[NowButtonId] \in {2, 4, 5, 6, 7}
      BY DEF Opens
    <3> QED  BY <1>3, <2>1, <3>1 DEF Enter1, KeyWindows, Windows
  <2>2. CASE Enter2
    BY <1>2, <1>3, <2>2 DEF Enter2, Open, Close, KeyWindows, Windows
  <2>3. CASE Enter3
    BY <1>1, <2>3 DEF Enter3, Home, gui
  <2>4. CASE Enter45
    BY <1>2, <2>4 DEF Enter45, Close, NextSetting, SaveSettings, gui
  <2>5. CASE EnterList
    <3>1. NowButtonId < 3 => NowButtonId \in {0, 1, 2}
      BY DEF CursorType
    <3>2. NowButtonId < 3 => /\ <<8, 12, 13>>[NowButtonId + 1] \in KeyWindows
                             /\ <<9, 10, 11>>[NowButtonId + 1] \in KeyWindows
      BY <3>1 DEF KeyWindows, Windows
    <3> QED  BY <1>2, <1>3, <2>5, <3>2 DEF EnterList, Open, Close
  <2>6. CASE Enter14
    <3>1. NowButtonId < 3 => NowButtonId \in {0, 1, 2}
      BY DEF CursorType
    <3>2. NowButtonId < 3 => SystemList(Win14PageID, NowButtonId) \in KeyWindows \cup {0}
      BY <3>1 DEF KeyWindows, Windows, SystemList
    <3> QED  BY <1>2, <1>3, <2>6, <3>2 DEF Enter14
  <2>7. CASE EnterValue \/ EnterCloses
    BY <1>2, <2>7 DEF EnterValue, EnterCloses, Close, gui
  <2>8. CASE Enter21
    BY <1>2, <1>3, <2>8 DEF Enter21, Open, Close, KeyWindows, Windows
  <2>9. CASE Enter23
    BY <1>2, DeleteStack, <2>9 DEF Enter23
  <2>10. CASE Enter25
    BY <2>10 DEF Enter25, gui
  <2> QED  BY <1>5, <2>1, <2>2, <2>3, <2>4, <2>5, <2>6, <2>7, <2>8, <2>9, <2>10 DEF Enter
<1>6. CASE EnterLong
  BY <1>3, <1>6 DEF EnterLong, KeyWindows, Windows, gui
<1> QED  BY <1>4, <1>5, <1>6 DEF KeyBody

\* The three ways in which a key leaves the screen: as it is, cleared for a
\* window that is drawn in the next pass, or with the window on top drawn.
Stays == UNCHANGED <<winStack, screen>> /\ FirstFlag' \in {FirstFlag, FirstFlag \ {win}}
Cleared == screen' = 0 /\ FirstFlag' = FirstFlag \ {win}
Drawn == screen' = Top(winStack') /\ FirstFlag' = (FirstFlag \ {win}) \cup {Top(winStack')}

LEMMA KeyScreen ==
  ASSUME winStack' \in Stacks(Windows), KeyBody
  PROVE  Stays \/ Cleared \/ Drawn
<1>1. ASSUME NEW k \in {"K0", "K1"}, UpDown(k)
      PROVE  Stays \/ Cleared \/ Drawn
  <2>1. MoveMark(k) \/ MainPages(k) \/ SystemPages(k) \/ ChangeSetting(k) => Stays
    BY DEF MoveMark, MainPages, SystemPages, ChangeSetting, TurnPage, MarkOnPage, gui, Stays
  <2>2. CASE NoBackwash(k) /\ k = "K0"
    <3>1. Top(winStack') = 1
      BY <2>2, HomeStack DEF NoBackwash
    <3> QED  BY <2>2, <3>1 DEF NoBackwash, Draw, Drawn
  <2>3. CASE NoBackwash(k) /\ k # "K0"
    BY <2>3 DEF NoBackwash, gui, Stays
  <2> QED  BY <1>1, <2>1, <2>2, <2>3 DEF UpDown
<1>2. CASE Enter
  <2>1. ASSUME Close(win) PROVE Cleared \/ Drawn
    BY <2>1 DEF Close, Draw, DrawLater, Cleared, Drawn
  <2>2. Enter1 \/ Enter23 \/ Enter14 => Cleared
    BY DEF Enter1, Enter23, Enter14, DrawLater, Cleared
  <2>3. CASE Enter2
    BY <2>1, <2>3 DEF Enter2, Open, DrawLater, Cleared
  <2>4. CASE Enter3
    BY <2>4 DEF Enter3, Home, DrawLater, gui, Stays, Cleared
  <2>5. CASE Enter45
    BY <2>1, <2>5 DEF Enter45, NextSetting, SaveSettings, DrawLater, gui, Stays, Cleared
  <2>6. CASE EnterList
    BY <2>1, <2>6 DEF EnterList, Open, DrawLater, Cleared
  <2>7. CASE EnterValue \/ EnterCloses \/ Enter25
    BY <2>1, <2>7 DEF EnterValue, EnterCloses, Enter25, gui, Stays
  <2>8. CASE Enter21
    BY <2>1, <2>8 DEF Enter21, Open, DrawLater, Cleared
  <2> QED  BY <1>2, <2>2, <2>3, <2>4, <2>5, <2>6, <2>7, <2>8 DEF Enter
<1>3. CASE EnterLong
  BY <1>3 DEF EnterLong, Draw, gui, Stays, Drawn
<1> QED  BY <1>1, <1>2, <1>3 DEF KeyBody
----------------------------------------------------------------------------
(* Types, for every value of the constants.  NowButtonId alone needs more  *)
(* than its type to stay within the buttons: see Marks below.              *)

EventType ==
    /\ lcd_jump_event \subseteq Reports \cup {"EXIT"}
    /\ flags \subseteq Polled
    /\ SemJump_Timer \in 0 .. MaxTimers
    /\ cycle \in {"no", "running"}

\* JUMP_FINISH is only reported while there is a timer for it.
TimerForFinish == "FINISH" \in lcd_jump_event => SemJump_Timer < MaxTimers

PassType ==
    /\ sems \subseteq KeyNames
    /\ timerPress \in {0, 1}
    /\ pc \in {"display", "keys"} \cup Polled
    /\ win \in Windows
    /\ got \subseteq KeyNames
    /\ mixed \in {0, 1}

Types == GuiType /\ CursorType /\ EventType /\ TimerForFinish /\ PassType

\* Drawing a window leaves every variable it sets within its type.
LEMMA DrawTypes ==
  ASSUME CursorType, NEW w \in Windows, NEW F \in SUBSET Windows, Draw(w, F)
  PROVE  /\ FirstFlag' \subseteq Windows /\ screen' \in Windows
         /\ NowButtonId' \in Nat /\ Jump_Flag' \in {0, 1}
         /\ EnableTemp' \in 0 .. 2 /\ mark' \in 0 .. 2
<1>1. FirstButton(w) \in Nat
  BY DEF FirstButton, CursorType
<1> QED  BY <1>1 DEF Draw, CursorType

\* A key leaves the screen and the cursor within their types.
LEMMA KeyTypes ==
  ASSUME GuiType, CursorType, win \in Windows, KeyBody
  PROVE  GuiType' /\ CursorType'
<1>1. winStack' \in Stacks(Windows)
  BY KeyStack DEF GuiType, KeyWindows
<1>2. Top(winStack') \in Windows
  BY <1>1, TopWindow
<1>3. GuiType'
  BY <1>1, <1>2, KeyScreen DEF GuiType, Stays, Cleared, Drawn
<1> SUFFICES CursorType'
  BY <1>3
<1>4. ASSUME NEW w, Draw(Top(winStack'), FirstFlag \ {w})
      PROVE  /\ NowButtonId' \in Nat /\ Jump_Flag' \in {0, 1}
             /\ EnableTemp' \in 0 .. 2 /\ mark' \in 0 .. 2
  <2>1. FirstFlag \ {w} \in SUBSET Windows
    BY DEF GuiType
  <2> QED  BY <1>2, <1>4, <2>1, DrawTypes
<1>5. ASSUME NEW w, Close(w)
      PROVE  /\ NowButtonId' \in Nat /\ Jump_Flag' \in {0, 1}
             /\ EnableTemp' \in 0 .. 2 /\ mark' \in 0 .. 2
  BY <1>4, <1>5 DEF Close, DrawLater, CursorType
<1>6. ASSUME NEW k \in {"K0", "K1"}, UpDown(k)
      PROVE  CursorType'
  <2>1. CASE MoveMark(k)
    <3>1. Moved(win, k, NowButtonId) \in Nat
      BY DEF Moved, CursorType
    <3> QED  BY <2>1, <3>1 DEF MoveMark, pages, CursorType
  <2>2. CASE MainPages(k)
    <3>1. NowButtonId' \in Nat
      BY <2>2 DEF MainPages, TurnPage, MarkOnPage, CursorType
    <3>2. Win1PageID' \in 0 .. 2
      BY <2>2 DEF MainPages, MarkOnPage, pages, CursorType
    <3> QED  BY <2>2, <3>1, <3>2 DEF MainPages, CursorType
  <2>3. CASE SystemPages(k)
    <3>1. NowButtonId' \in Nat
      BY <2>3 DEF SystemPages, TurnPage, MarkOnPage, LastButton, CursorType
    <3>2. PageAbove \in 0 .. 5 /\ PageBelow \in 0 .. 5
      BY DEF PageAbove, PageBelow, CursorType
    <3>3. Win14PageID' \in 0 .. 5
      BY <2>3, <3>2 DEF SystemPages, MarkOnPage, pages, CursorType
    <3> QED  BY <2>3, <3>1, <3>3 DEF SystemPages, CursorType
  <2>4. CASE ChangeSetting(k)
    BY <2>4 DEF ChangeSetting, pages, CursorType
  <2>5. CASE NoBackwash(k)
    <3>1. k = "K0" => Draw(Top(winStack'), FirstFlag \ {25})
      BY <2>5, HomeStack DEF NoBackwash
    <3> QED  BY <1>4, <2>5, <3>1 DEF NoBackwash, pages, CursorType
  <2> QED  BY <1>6, <2>1, <2>2, <2>3, <2>4, <2>5 DEF UpDown
<1>7. CASE Enter
  <2>1. CASE Enter1 \/ Enter3 \/ Enter23
    BY <2>1 DEF Enter1, Enter3, Enter23, Home, DrawLater, pages, CursorType
  <2>2. CASE Enter2 \/ EnterList \/ EnterCloses \/ Enter21
    BY <1>5, <2>2 DEF Enter2, EnterList, EnterCloses, Enter21, Open, DrawLater, pages, CursorType
  <2>3. CASE Enter45
    BY <1>5, <2>3 DEF Enter45, NextSetting, SaveSettings, DrawLater, pages, CursorType
  <2>4. CASE Enter14
    BY <2>4 DEF Enter14, CursorType
  <2>5. CASE EnterValue
    BY <1>5, <2>5 DEF EnterValue, pages, CursorType
  <2>6. CASE Enter25
    BY <2>6 DEF Enter25, cursor, pages, CursorType
  <2> QED  BY <1>7, <2>1, <2>2, <2>3, <2>4, <2>5, <2>6 DEF Enter
<1>8. CASE EnterLong
  BY <1>4, <1>8 DEF EnterLong, pages, CursorType
<1> QED  BY <1>6, <1>7, <1>8 DEF KeyBody

\* Moto_Cycle, from a key or from a poll, and the other keys leave the
\* events within their types, and JUMP_FINISH alone.
LEMMA KeyEvents ==
  ASSUME EventType, KeyBody
  PROVE  /\ lcd_jump_event' \in {lcd_jump_event, lcd_jump_event \cup {"EXIT"}}
         /\ "empty" \notin Calls => lcd_jump_event' = lcd_jump_event
         /\ flags' \subseteq flags \cup {"automatic"} \cup (Calls \cap {"empty"})
         /\ cycle' \in {"no", "running"}
<1>1. ASSUME NEW k \in {"K0", "K1"}, UpDown(k)
      PROVE  UNCHANGED <<lcd_jump_event, flags, cycle>>
  BY <1>1 DEF UpDown
<1>2. CASE Enter2 \/ Enter25
  BY <1>2 DEF Enter2, Enter25, Moto_Cycle, NoEvents, EventType
<1>3. Enter => Enter2 \/ Enter25 \/ NoEvents
  BY DEF Enter, Enter1, Enter3, Enter45, EnterList, Enter14, EnterValue, EnterCloses,
         Enter21, Enter23
<1>4. EnterLong => NoEvents
  BY DEF EnterLong
<1> QED  BY <1>1, <1>2, <1>3, <1>4 DEF KeyBody, NoEvents, EventType

\* What the three actions for a key do to the pass.
LEMMA KeyPass ==
  ASSUME PressUpDown \/ PressEnter \/ PressLong
  PROVE  /\ KeyBody
         /\ pc = "keys"
         /\ \E k \in got : got' = got \ {k} /\ (pc' = IF got = {k} THEN "reminder" ELSE "keys")
         /\ timerPress' \in {0, timerPress}
         /\ UNCHANGED <<sems, SemJump_Timer, win, mixed>>
  BY DEF PressUpDown, PressEnter, PressLong, Key, KeyBody

\* Types is inductive.
LEMMA TypesStep ==
  ASSUME Types, [Next]_vars
  PROVE  Types'
<1> USE DEF KeyNames, Polled
<1>1. Top(winStack) \in Windows
  BY TopWindow DEF Types, GuiType
<1>2. <<1>> \in Stacks(Windows)
  BY HomeStack DEF Windows
<1>3. CASE DrawTop
  <2>1. /\ FirstFlag' \subseteq Windows /\ screen' \in Windows
        /\ NowButtonId' \in Nat /\ Jump_Flag' \in {0, 1}
        /\ EnableTemp' \in 0 .. 2 /\ mark' \in 0 .. 2
    BY <1>1, <1>3, DrawTypes DEF DrawTop, Types, GuiType
  <2>2. GuiType' /\ CursorType'
    BY <1>3, <2>1 DEF DrawTop, pages, Types, GuiType, CursorType
  <2> QED  BY <1>3, <2>2 DEF DrawTop, events, Types, EventType, TimerForFinish, PassType
<1>4. CASE TakeKeys
  <2>1. GuiType'
    BY <1>2, <1>4 DEF TakeKeys, JumpEvent, gui, Types, GuiType
  <2>2. CursorType'
    BY <1>4 DEF TakeKeys, JumpEvent, cursor, pages, Types, CursorType
  <2>3. SemJump_Timer' \in 0 .. MaxTimers
    BY <1>4, WindowConstants DEF TakeKeys, JumpEvent, Types, EventType, TimerForFinish
  <2>4. lcd_jump_event' \in {{}, lcd_jump_event}
    BY <1>4 DEF TakeKeys, JumpEvent
  <2>5. EventType' /\ TimerForFinish'
    BY <1>4, <2>3, <2>4 DEF TakeKeys, JumpEvent, Types, EventType, TimerForFinish
  <2>6. PassType'
    BY <1>1, <1>4 DEF TakeKeys, Types, PassType
  <2> QED  BY <2>1, <2>2, <2>5, <2>6 DEF Types
<1>5. CASE PressUpDown \/ PressEnter \/ PressLong
  <2>1. /\ KeyBody
        /\ \E k \in got : got' = got \ {k} /\ (pc' = IF got = {k} THEN "reminder" ELSE "keys")
        /\ timerPress' \in {0, timerPress}
        /\ UNCHANGED <<sems, SemJump_Timer, win, mixed>>
    BY <1>5, KeyPass
  <2>2. GuiType' /\ CursorType'
    BY <2>1, KeyTypes DEF Types, PassType
  <2>3. EventType' /\ TimerForFinish'
    BY <2>1, KeyEvents DEF Types, EventType, TimerForFinish
  <2>4. PassType'
    BY <2>1 DEF Types, PassType
  <2> QED  BY <2>2, <2>3, <2>4 DEF Types
<1>6. CASE Factory
  <2>1. GuiType' /\ CursorType'
    BY <1>2, <1>6 DEF Factory, GuiType, CursorType
  <2> QED  BY <1>6, <2>1, WindowConstants
           DEF Factory, Types, EventType, TimerForFinish, PassType, Windows
<1>7. CASE Poll
  <2>1. GuiType'
    <3>1. \A w \in {25, 3, 26, 27} : GuiWinAdd(winStack, w) \in Stacks(Windows)
      BY AddStack DEF Types, GuiType, Windows
    <3> QED
      BY <1>7, <3>1 DEF Poll, LcdtoReminder, LcdtoBackwash, BatteryEmpty, BatteryNew, Push,
         DrawAgain, ClearFlags, gui, Types, GuiType
  <2>2. /\ lcd_jump_event' \in {lcd_jump_event, lcd_jump_event \cup {"EXIT"}}
        /\ flags' \subseteq Polled
        /\ cycle' \in {"no", "running"}
    BY <1>7 DEF Poll, LcdtoReminder, LcdtoBackwash, BatteryEmpty, BatteryNew, Moto_Cycle,
       Types, EventType
  <2>3. CursorType' /\ PassType' /\ UNCHANGED SemJump_Timer
    BY <1>7 DEF Windows, Poll, LcdtoReminder, LcdtoBackwash, BatteryEmpty, BatteryNew, AfterPoll,
       cursor, pages, Types, CursorType, PassType
  <2> QED  BY <2>1, <2>2, <2>3 DEF Types, EventType, TimerForFinish
<1>8. ASSUME NEW k \in Keys, KeyDown(k) PROVE Types'
  BY <1>8, WindowConstants DEF KeyDown, gui, cursor, pages, events, pass, Types, GuiType, CursorType,
     EventType, TimerForFinish, PassType
<1>9. CASE K2_Setjump_Sem_Release
  <2>1. GuiType' /\ CursorType' /\ PassType'
    BY <1>9 DEF K2_Setjump_Sem_Release, gui, cursor, pages, pass, Types, GuiType, CursorType, PassType
  <2>2. EventType' /\ TimerForFinish'
    BY <1>9, WindowConstants DEF K2_Setjump_Sem_Release, Types, EventType, TimerForFinish
  <2> QED  BY <2>1, <2>2 DEF Types
<1>10. ASSUME NEW c \in Calls, Call(c) PROVE Types'
  BY <1>10, WindowConstants DEF Call, gui, cursor, pages, pass, Types, GuiType, CursorType,
     EventType, TimerForFinish, PassType
<1>11. CASE CycleEnds
  <2>1. GuiType' /\ CursorType' /\ PassType'
    BY <1>11 DEF CycleEnds, gui, cursor, pages, pass, Types, GuiType, CursorType, PassType
  <2>2. EventType' /\ TimerForFinish'
    BY <1>11 DEF CycleEnds, Reports, Types, EventType, TimerForFinish
  <2> QED  BY <2>1, <2>2 DEF Types
<1>12. CASE JumptoMainWin
  <2>1. GuiType' /\ CursorType'
    BY <1>2, <1>12 DEF JumptoMainWin, ClearFlags, cursor, pages, Types, GuiType, CursorType
  <2> QED  BY <1>12, <2>1 DEF JumptoMainWin, events, pass, Types, EventType, TimerForFinish, PassType
<1>13. CASE UNCHANGED vars
  BY <1>13 DEF vars, gui, cursor, pages, events, pass, Types, GuiType, CursorType, EventType,
     TimerForFinish, PassType
<1> QED
  BY <1>3, <1>4, <1>5, <1>6, <1>7, <1>8, <1>9, <1>10, <1>11, <1>12, <1>13 DEF Next, lcd_task

LEMMA TypesInit == Init => Types
<1>1. <<1>> \in Stacks(Windows) /\ 1 \in Windows
  BY HomeStack DEF Windows
<1> QED  BY <1>1, WindowConstants DEF Init, Types, GuiType, CursorType, EventType, TimerForFinish,
            PassType, KeyNames, Polled

LEMMA TypesAlways == Spec => []Types
  BY TypesInit, TypesStep, PTL DEF Spec

\* Every variable keeps its type, whatever keys, calls and wake-ups come in
\* whatever order; that NowButtonId is a button is another matter (see below).
THEOREM TypeCorrect == Spec => []TypeOK
<1>1. Types => TypeOK
  BY DEF Types, GuiType, Stacks, CursorType, EventType, PassType, KeyNames, Polled, TypeOK
<1> QED  BY <1>1, TypesAlways, PTL

\* The main window stays at the bottom of the stack, whatever keys, calls
\* and wake-ups come in whatever order: GuiWinDeleteTop never takes it, and
\* whoever rebuilds the stack starts with it.
THEOREM MainWindowAtBottom == Spec => []MainWindowStays
<1>1. Types => MainWindowStays
  BY DEF Types, GuiType, Stacks, MainWindowStays
<1> QED  BY <1>1, TypesAlways, PTL
----------------------------------------------------------------------------
(* The keys of a pass.  Only the window on top takes keys (or window 27,   *)
(* whose flag memset misses), and the mark is on one of its buttons, as    *)
(* long as window 1 has not handled a long press together with another key.*)

\* A long press that opens the menu is the only key of its pass.
InPass ==
    /\ pc = "keys" <=> got # {}
    /\ pc = "keys" /\ win = 1 /\ "K2_Long" \in got => got = {"K2_Long"}

\* The flags in the window function that handles a key are those of its own
\* window, if JumptoMainWin has not cleared them meanwhile; window 25 has gone
\* home and drawn window 1 when it comes to the last two keys.
FlagOfTop ==
    /\ FirstFlag \subseteq {Top(winStack), 27}
    /\ pc = "keys" => \/ FirstFlag \subseteq {win, 27}
                      \/ win = 25 /\ "K2_Long" \notin got /\ "K0" \notin got

\* The second page of window 1 takes NowButtonId over as it finds it; the key
\* down leaves it beyond the last button, for the enter key of the same pass.
Marks ==
    /\ NowButtonId <= 5
    /\ Win1PageID = 1 => NowButtonId <= 4
    /\ \A w \in FirstFlag : NowButtonId <= LastButtonOf(w)
    /\ pc = "keys" => NowButtonId <= LastButtonOf(win) \/ (win = 1 /\ got = {"K2"})

MarkInv == Types /\ (mixed = 0 => InPass /\ FlagOfTop /\ Marks)

\* Up and down are handled after a long press, and enter after all others.
LEMMA KeyTurn ==
  ASSUME Types
  PROVE  /\ PressUpDown => \/ /\ "K0" \in got /\ "K2_Long" \notin got
                              /\ UpDown("K0") /\ got' = got \ {"K0"}
                           \/ /\ "K1" \in got /\ "K0" \notin got /\ "K2_Long" \notin got
                              /\ UpDown("K1") /\ got' = got \ {"K1"}
         /\ PressEnter => Enter /\ got = {"K2"} /\ pc' = "reminder"
         /\ PressLong => EnterLong /\ "K2_Long" \in got /\ got' = got \ {"K2_Long"}
<1> USE DEF KeyOrder
<1>1. KeyOrder[1] = "K2_Long" /\ KeyOrder[2] = "K0" /\ KeyOrder[3] = "K1" /\ KeyOrder[4] = "K2"
  OBVIOUS
<1> HIDE DEF KeyOrder
<1>2. NextKey("K0") => "K2_Long" \notin got
  BY <1>1 DEF NextKey
<1>3. NextKey("K1") => "K2_Long" \notin got /\ "K0" \notin got
  BY <1>1 DEF NextKey
<1>4. NextKey("K2") => "K2_Long" \notin got /\ "K0" \notin got /\ "K1" \notin got
  BY <1>1 DEF NextKey
<1>5. got \subseteq {"K2_Long", "K0", "K1", "K2"}
  BY DEF Types, PassType, KeyNames
<1>6. PressEnter => Enter /\ got = {"K2"} /\ pc' = "reminder"
  BY <1>4, <1>5 DEF PressEnter, Key
<1> QED  BY <1>2, <1>3, <1>6 DEF PressUpDown, PressLong, Key

\* Up and down change the screen in window 25 only.
LEMMA UpDownStays ==
  ASSUME NEW k \in {"K0", "K1"}, UpDown(k), win # 25 \/ k = "K1"
  PROVE  Stays
  BY DEF UpDown, MoveMark, MainPages, SystemPages, ChangeSetting, NoBackwash, TurnPage,
         MarkOnPage, gui, Stays

\* Window 25 hands enter on to lcd_task.
LEMMA Enter25Stays ==
  ASSUME Enter, win = 25
  PROVE  UNCHANGED <<gui, cursor, pages, Jump_Flag>>
  BY DEF Enter, Enter1, Enter2, Enter3, Enter45, EnterList, Enter14, EnterValue, EnterCloses,
         Enter21, Enter23, Enter25

LEMMA InPassStep ==
  ASSUME Types, InPass, mixed' = 0, [Next]_vars
  PROVE  InPass'
<1>1. CASE DrawTop
  BY <1>1 DEF DrawTop, InPass
<1>2. CASE TakeKeys
  BY <1>2 DEF TakeKeys, InPass
<1>3. CASE PressUpDown \/ PressEnter \/ PressLong
  <2>1. /\ \E k \in got : got' = got \ {k} /\ (pc' = IF got = {k} THEN "reminder" ELSE "keys")
        /\ pc = "keys" /\ UNCHANGED win
    BY <1>3, KeyPass
  <2> QED  BY <2>1 DEF InPass
<1>4. CASE Factory
  BY <1>4 DEF Factory, InPass
<1>5. CASE Poll
  BY <1>5 DEF Poll, AfterPoll, InPass
<1>6. (\E k \in Keys : KeyDown(k)) \/ K2_Setjump_Sem_Release \/ (\E c \in Calls : Call(c))
        \/ CycleEnds \/ JumptoMainWin \/ UNCHANGED vars => UNCHANGED pass
  BY DEF KeyDown, K2_Setjump_Sem_Release, Call, CycleEnds, JumptoMainWin, vars
<1>7. UNCHANGED pass => InPass'
  BY DEF pass, InPass
<1> QED  BY <1>1, <1>2, <1>3, <1>4, <1>5, <1>6, <1>7 DEF Next, lcd_task

LEMMA FlagOfTopStep ==
  ASSUME Types, Types', InPass, FlagOfTop, [Next]_vars
  PROVE  FlagOfTop'
<1>1. CASE DrawTop
  BY <1>1 DEF DrawTop, Draw, FlagOfTop
<1>2. CASE TakeKeys
  BY <1>2 DEF TakeKeys, JumpEvent, gui, FlagOfTop
<1>3. CASE PressUpDown \/ PressEnter \/ PressLong
  <2>1. KeyBody /\ pc = "keys" /\ UNCHANGED win
    BY <1>3, KeyPass
  <2>2. Stays \/ Cleared \/ Drawn
    BY <2>1, KeyScreen DEF Types, GuiType
  <2>3. CASE PressUpDown
    <3>1. CASE "K0" \in got /\ UpDown("K0") /\ win = 25 /\ got' = got \ {"K0"} /\ "K2_Long" \notin got
      BY <2>1, <2>2, <3>1 DEF Stays, Cleared, Drawn, FlagOfTop
    <3>2. CASE Stays /\ got' \subseteq got
      BY <2>1, <3>2 DEF Stays, FlagOfTop
    <3> QED  BY <2>3, <3>1, <3>2, KeyTurn, UpDownStays
  <2>4. CASE PressEnter
    <3>1. Enter /\ pc' = "reminder"
      BY <2>4, KeyTurn
    <3>2. CASE win = 25
      BY <2>1, <3>1, <3>2, Enter25Stays DEF gui, FlagOfTop
    <3>3. CASE win # 25
      BY <2>1, <2>2, <3>1, <3>3 DEF Stays, Cleared, Drawn, FlagOfTop
    <3> QED  BY <3>2, <3>3
  <2>5. CASE PressLong
    <3>1. EnterLong /\ "K2_Long" \in got /\ got' = got \ {"K2_Long"}
      BY <2>5, KeyTurn
    <3>2. CASE win = 1
      <4>1. pc' = "reminder"
        BY <2>1, <2>5, <3>1, <3>2 DEF InPass, PressLong, Key
      <4> QED  BY <2>1, <2>2, <3>2, <4>1 DEF Stays, Cleared, Drawn, FlagOfTop
    <3>3. CASE win # 1
      BY <2>1, <3>1, <3>3 DEF EnterLong, gui, FlagOfTop
    <3> QED  BY <3>2, <3>3
  <2> QED  BY <1>3, <2>3, <2>4, <2>5
<1>4. CASE Factory
  BY <1>4 DEF Factory, FlagOfTop
<1>5. CASE Poll
  <2>1. UNCHANGED winStack \/ FirstFlag' \subseteq {27}
    BY <1>5 DEF Poll, LcdtoReminder, LcdtoBackwash, BatteryEmpty, BatteryNew, Push,
       DrawAgain, ClearFlags, gui
  <2>2. FirstFlag' \subseteq FirstFlag
    BY <1>5 DEF Poll, LcdtoReminder, LcdtoBackwash, BatteryEmpty, BatteryNew, Push,
       DrawAgain, ClearFlags, gui
  <2>3. pc' # "keys"
    BY <1>5 DEF Poll, AfterPoll
  <2> QED  BY <2>1, <2>2, <2>3 DEF FlagOfTop
<1>6. CASE JumptoMainWin
  BY <1>6 DEF JumptoMainWin, ClearFlags, pass, FlagOfTop
<1>7. (\E k \in Keys : KeyDown(k)) \/ K2_Setjump_Sem_Release \/ (\E c \in Calls : Call(c))
        \/ CycleEnds \/ UNCHANGED vars => UNCHANGED <<gui, pass>>
  BY DEF KeyDown, K2_Setjump_Sem_Release, Call, CycleEnds, vars
<1>8. UNCHANGED <<gui, pass>> => FlagOfTop'
  BY DEF gui, pass, FlagOfTop
<1> QED  BY <1>1, <1>2, <1>3, <1>4, <1>5, <1>6, <1>7, <1>8 DEF Next, lcd_task

\* The first mark of a window is one of its buttons.
LEMMA DrawMarks ==
  ASSUME Types, Marks, NEW w \in Windows, NEW F, Draw(w, F)
  PROVE  /\ NowButtonId' <= 5 /\ NowButtonId' <= LastButtonOf(w)
         /\ Win1PageID = 1 => NowButtonId' <= 4
<1>1. NowButtonId' = FirstButton(w) /\ NowButtonId \in Nat
  BY DEF Draw, Types, CursorType
<1>2. CASE w = 1
  BY <1>1, <1>2 DEF FirstButton, LastButtonOf, TButtons, Marks
<1>3. CASE w \in {2, 7, 8, 16, 17, 19, 20} \cup (9 .. 12) \cup {14}
  BY <1>1, <1>3 DEF FirstButton, LastButtonOf, TButtons
<1>4. CASE w \notin {1, 2, 7, 8, 16, 17, 19, 20} \cup (9 .. 12) \cup {14}
  <2>1. FirstButton(w) = NowButtonId /\ LastButtonOf(w) = 5
    BY <1>4 DEF FirstButton, LastButtonOf, TButtons
  <2> QED  BY <1>1, <2>1 DEF Marks
<1> QED  BY <1>2, <1>3, <1>4

\* A key moves the mark to a button of the window that keeps its flag, or
\* draws the window on top with its first button marked.
LEMMA KeyMarks ==
  ASSUME Types, Types', Marks, KeyBody, FirstFlag \subseteq {win, 27},
         NowButtonId <= LastButtonOf(win)
  PROVE  /\ NowButtonId' <= 5
         /\ Win1PageID' = 1 => NowButtonId' <= 4
         /\ \A w \in FirstFlag' : NowButtonId' <= LastButtonOf(w)
<1> DEFINE Goal == /\ NowButtonId' <= 5
                   /\ Win1PageID' = 1 => NowButtonId' <= 4
                   /\ \A w \in FirstFlag' : NowButtonId' <= LastButtonOf(w)
<1>1. /\ NowButtonId \in Nat /\ NowButtonId <= 5 /\ NowButtonId <= LastButtonOf(win)
      /\ FirstFlag \subseteq {win, 27} /\ LastButtonOf(27) = 5 /\ win \in Windows
      /\ Win1PageID = 1 => NowButtonId <= 4
  BY DEF Types, CursorType, PassType, Marks, LastButtonOf, TButtons
\* The window is cleared and the mark stays.
<1>2. ASSUME FirstFlag' = FirstFlag \ {win}, UNCHANGED NowButtonId, Win1PageID' \in {0, Win1PageID}
      PROVE  Goal
  BY <1>1, <1>2
\* The window goes on, with the mark on one of its buttons.
<1>3. ASSUME UNCHANGED <<FirstFlag, Win1PageID>>, NowButtonId' <= LastButtonOf(win),
             NowButtonId' <= 5, Win1PageID = 1 => NowButtonId' <= 4
      PROVE  Goal
  BY <1>1, <1>3
<1>4. ASSUME Draw(Top(winStack'), FirstFlag \ {win}), UNCHANGED Win1PageID
      PROVE  Goal
  <2>1. Top(winStack') \in Windows
    BY TopWindow DEF Types, GuiType
  <2>2. /\ NowButtonId' <= 5 /\ NowButtonId' <= LastButtonOf(Top(winStack'))
        /\ Win1PageID = 1 => NowButtonId' <= 4
    BY <1>4, <2>1, DrawMarks
  <2>3. FirstFlag' \subseteq {27, Top(winStack')}
    BY <1>1, <1>4 DEF Draw
  <2> QED  BY <1>1, <1>4, <2>2, <2>3
<1>5. ASSUME Close(win), UNCHANGED Win1PageID
      PROVE  Goal
  BY <1>2, <1>4, <1>5 DEF Close, DrawLater
<1>6. ASSUME NEW v, Open(win, v), UNCHANGED Win1PageID
      PROVE  Goal
  BY <1>2, <1>6 DEF Open, DrawLater
<1>7. ASSUME NEW k \in {"K0", "K1"}, UpDown(k)
      PROVE  Goal
  <2>1. CASE MoveMark(k)
    <3>1. win # 1 /\ win # 14
      BY <2>1 DEF MoveMark
    <3>2. Moved(win, k, NowButtonId) <= LastButtonOf(win)
      <4>1. CASE win \in {2, 19} \cup {16, 17} \cup {7, 8} \cup {20} \cup (9 .. 12)
        BY <1>1, <4>1 DEF Moved, LastButtonOf, TButtons
      <4>2. CASE win \notin {2, 19} \cup {16, 17} \cup {7, 8} \cup {20} \cup (9 .. 12)
        BY <1>1, <4>2 DEF Moved
      <4> QED  BY <4>1, <4>2
    <3>3. Moved(win, k, NowButtonId) <= NowButtonId \/ Moved(win, k, NowButtonId) <= 3
      BY <1>1 DEF Moved, LastButtonOf, TButtons
    <3> QED  BY <1>1, <1>3, <2>1, <3>2, <3>3 DEF MoveMark, gui, pages, Types, CursorType
  <2>2. CASE MainPages(k)
    <3>1. LastButtonOf(1) = 4
      BY DEF LastButtonOf, TButtons
    <3>2. win = 1 /\ NowButtonId \in 0 .. 4
      BY <1>1, <2>2, <3>1 DEF MainPages
    <3>3. NowButtonId' <= 5 /\ (Win1PageID' = 1 => NowButtonId' <= 4)
      BY <1>1, <2>2, <3>2 DEF MainPages, TurnPage, MarkOnPage, pages
    <3>4. \/ FirstFlag' = FirstFlag \ {1}
          \/ FirstFlag' = FirstFlag /\ NowButtonId' <= 4
      BY <2>2, <3>2 DEF MainPages, TurnPage, MarkOnPage, gui
    <3>5. \A w \in FirstFlag' : w = 27 \/ (w = 1 /\ NowButtonId' <= 4)
      BY <1>1, <3>2, <3>4
    <3> QED  BY <1>1, <3>1, <3>3, <3>5
  <2>3. CASE SystemPages(k)
    <3>1. LastButtonOf(14) = 3
      BY DEF LastButtonOf, TButtons
    <3>2. NowButtonId' <= 3
      BY <1>1, <2>3, <3>1 DEF SystemPages, TurnPage, MarkOnPage, AtPageEnd, LastButton
    <3>3. FirstFlag' \subseteq {14, 27} /\ NowButtonId' \in Nat
      BY <1>1, <2>3 DEF SystemPages, TurnPage, MarkOnPage, gui, Types, CursorType
    <3> QED  BY <1>1, <3>1, <3>2, <3>3
  <2>4. CASE ChangeSetting(k)
    BY <1>1, <1>3, <2>4 DEF ChangeSetting, gui, pages
  <2>5. CASE NoBackwash(k) /\ k = "K0"
    BY <1>4, <2>5, HomeStack DEF NoBackwash, pages
  <2>6. CASE NoBackwash(k) /\ k # "K0"
    BY <1>1, <1>3, <2>6 DEF NoBackwash, gui, pages
  <2> QED  BY <1>7, <2>1, <2>2, <2>3, <2>4, <2>5, <2>6 DEF UpDown
<1>8. CASE Enter
  <2>1. CASE Enter1
    BY <1>2, <2>1 DEF Enter1, DrawLater
  <2>2. CASE Enter2
    BY <1>5, <1>6, <2>2 DEF Enter2, pages
  <2>3. CASE Enter3
    BY <1>1, <1>2, <1>3, <2>3 DEF Enter3, Home, DrawLater, gui, pages
  <2>4. CASE Enter45
    BY <1>1, <1>2, <1>3, <1>5, <2>4 DEF Enter45, NextSetting, SaveSettings, DrawLater, gui, pages
  <2>5. CASE EnterList
    BY <1>5, <1>6, <2>5 DEF EnterList, pages
  <2>6. CASE Enter14
    BY <1>1, <2>6 DEF Enter14
  <2>7. CASE EnterValue
    <3>1. LastButtonOf(win) = 2
      BY <2>7 DEF EnterValue, LastButtonOf, TButtons
    <3> QED  BY <1>1, <1>3, <1>5, <2>7, <3>1 DEF EnterValue, gui, pages
  <2>8. CASE EnterCloses
    BY <1>5, <2>8 DEF EnterCloses, pages
  <2>9. CASE Enter21
    BY <1>5, <1>6, <2>9 DEF Enter21, pages
  <2>10. CASE Enter23
    BY <1>2, <2>10 DEF Enter23, DrawLater, pages
  <2>11. CASE Enter25
    BY <1>1, <1>3, <2>11 DEF Enter25, gui, cursor, pages
  <2> QED  BY <1>8, <2>1, <2>2, <2>3, <2>4, <2>5, <2>6, <2>7, <2>8, <2>9, <2>10, <2>11 DEF Enter
<1>9. CASE EnterLong
  BY <1>1, <1>3, <1>4, <1>9 DEF EnterLong, gui, pages
<1> QED  BY <1>7, <1>8, <1>9 DEF KeyBody

\* Up and down keep the mark on a button of their own window, but for the key
\* down on the second page of window 1.
LEMMA UpDownMarks ==
  ASSUME Types, NEW k \in {"K0", "K1"}, UpDown(k), NowButtonId <= LastButtonOf(win),
         NowButtonId' <= 5, k = "K0" \/ win # 1
  PROVE  NowButtonId' <= LastButtonOf(win)
<1>1. NowButtonId \in Nat /\ win \in Windows
  BY DEF Types, CursorType, PassType
<1>2. CASE MoveMark(k)
  <2>1. CASE win \in {2, 19} \cup {16, 17} \cup {7, 8} \cup {20} \cup (9 .. 12)
    BY <1>1, <1>2, <2>1 DEF MoveMark, Moved, LastButtonOf, TButtons
  <2>2. CASE win \notin {2, 19} \cup {16, 17} \cup {7, 8} \cup {20} \cup (9 .. 12)
    BY <1>1, <1>2, <2>2 DEF MoveMark, Moved
  <2> QED  BY <2>1, <2>2
<1>3. CASE MainPages(k)
  <2>1. win = 1 /\ k = "K0" /\ LastButtonOf(1) = 4 /\ NowButtonId \in 0 .. 4
    BY <1>1, <1>3 DEF MainPages, LastButtonOf, TButtons
  <2> QED  BY <1>3, <2>1 DEF MainPages, TurnPage, MarkOnPage
<1>4. CASE SystemPages(k)
  <2>1. win = 14 /\ LastButtonOf(14) = 3 /\ NowButtonId \in 0 .. 3
    BY <1>1, <1>4 DEF SystemPages, LastButtonOf, TButtons
  <2> QED  BY <1>4, <2>1 DEF SystemPages, TurnPage, MarkOnPage, AtPageEnd, LastButton
<1>5. CASE ChangeSetting(k)
  BY <1>5 DEF ChangeSetting
<1>6. CASE NoBackwash(k)
  BY <1>6 DEF NoBackwash, LastButtonOf, TButtons
<1> QED  BY <1>2, <1>3, <1>4, <1>5, <1>6 DEF UpDown

LEMMA MarksStep ==
  ASSUME Types, Types', InPass, InPass', FlagOfTop, Marks, [Next]_vars
  PROVE  Marks'
<1>1. CASE DrawTop
  <2>1. Top(winStack) \in Windows
    BY TopWindow DEF Types, GuiType
  <2>2. /\ NowButtonId' <= 5 /\ NowButtonId' <= LastButtonOf(Top(winStack))
        /\ Win1PageID = 1 => NowButtonId' <= 4
    BY <1>1, <2>1, DrawMarks DEF DrawTop
  <2>3. FirstFlag' \subseteq {27, Top(winStack)} /\ pc' = "reminder" /\ UNCHANGED Win1PageID
    BY <1>1 DEF DrawTop, Draw, FlagOfTop, pages
  <2>4. LastButtonOf(27) = 5
    BY DEF LastButtonOf, TButtons
  <2> QED  BY <2>2, <2>3, <2>4 DEF Marks
<1>2. CASE TakeKeys
  <2>1. FirstFlag' \subseteq FirstFlag /\ win' \in FirstFlag /\ UNCHANGED <<NowButtonId, Win1PageID>>
    BY <1>2 DEF TakeKeys, JumpEvent, gui, cursor, pages
  <2> QED  BY <2>1 DEF Marks
<1>3. CASE PressUpDown \/ PressEnter \/ PressLong
  <2>1. KeyBody /\ pc = "keys" /\ UNCHANGED win
    BY <1>3, KeyPass
  <2>2. CASE FirstFlag \subseteq {win, 27} /\ NowButtonId <= LastButtonOf(win)
    <3>1. /\ NowButtonId' <= 5
          /\ Win1PageID' = 1 => NowButtonId' <= 4
          /\ \A w \in FirstFlag' : NowButtonId' <= LastButtonOf(w)
      BY <2>1, <2>2, KeyMarks
    <3>2. CASE PressUpDown
      <4>1. CASE "K0" \in got /\ UpDown("K0")
        <5>1. NowButtonId' <= LastButtonOf(win)
          BY <2>2, <3>1, <4>1, UpDownMarks
        <5> QED  BY <2>1, <3>1, <5>1 DEF Marks
      <4>2. CASE UpDown("K1") /\ win # 1
        <5>1. NowButtonId' <= LastButtonOf(win)
          BY <2>2, <3>1, <4>2, UpDownMarks
        <5> QED  BY <2>1, <3>1, <5>1 DEF Marks
      <4>3. CASE win = 1 /\ "K0" \notin got /\ "K2_Long" \notin got /\ got' = got \ {"K1"}
        <5>1. got' \subseteq {"K2"}
          BY <4>3 DEF Types, PassType, KeyNames
        <5>2. pc' = "keys" => got' = {"K2"}
          BY <5>1 DEF InPass
        <5> QED  BY <2>1, <3>1, <4>3, <5>2 DEF Marks
      <4> QED  BY <3>2, <4>1, <4>2, <4>3, KeyTurn
    <3>3. CASE PressEnter
      <4>1. pc' = "reminder"
        BY <3>3, KeyTurn
      <4> QED  BY <3>1, <4>1 DEF Marks
    <3>4. CASE PressLong
      <4>1. EnterLong /\ "K2_Long" \in got /\ got' = got \ {"K2_Long"}
        BY <3>4, KeyTurn
      <4>2. CASE win = 1
        <5>1. got' = {}
          BY <2>1, <4>1, <4>2 DEF InPass
        <5>2. pc' # "keys"
          BY <5>1 DEF InPass
        <5> QED  BY <3>1, <5>2 DEF Marks
      <4>3. CASE win # 1
        <5>1. UNCHANGED NowButtonId
          BY <4>1, <4>3 DEF EnterLong
        <5> QED  BY <2>1, <2>2, <3>1, <5>1 DEF Marks
      <4> QED  BY <4>2, <4>3
    <3> QED  BY <1>3, <3>2, <3>3, <3>4
  <2>3. CASE win = 1 /\ got = {"K2"}
    <3>1. PressEnter
      BY <1>3, <2>3, KeyTurn
    <3>2. Enter /\ pc' = "reminder"
      BY <3>1, KeyTurn
    <3>3. Enter1
      BY <2>3, <3>2 DEF Enter, Enter2, Enter3, Enter45, EnterList, Enter14, EnterValue,
         EnterCloses, Enter21, Enter23, Enter25
    <3>4. FirstFlag' \subseteq FirstFlag /\ UNCHANGED NowButtonId /\ Win1PageID' = 0
      BY <3>3 DEF Enter1, DrawLater
    <3> QED  BY <3>2, <3>4 DEF Marks
  <2>4. CASE win = 25 /\ "K2_Long" \notin got /\ "K0" \notin got
    <3>1. CASE PressUpDown
      <4>1. UpDown("K1")
        BY <2>4, <3>1, KeyTurn
      <4>2. UNCHANGED <<FirstFlag, NowButtonId, Win1PageID>>
        BY <2>4, <4>1 DEF UpDown, MoveMark, MainPages, SystemPages, ChangeSetting, NoBackwash,
           gui, pages
      <4>3. LastButtonOf(25) = 5
        BY DEF LastButtonOf, TButtons
      <4> QED  BY <2>1, <2>4, <4>2, <4>3 DEF Marks
    <3>2. CASE PressEnter
      <4>1. UNCHANGED <<FirstFlag, NowButtonId, Win1PageID>> /\ pc' = "reminder"
        BY <2>4, <3>2, KeyTurn, Enter25Stays DEF gui, cursor, pages
      <4> QED  BY <4>1 DEF Marks
    <3>3. ~PressLong
      BY <2>4, KeyTurn
    <3> QED  BY <1>3, <3>1, <3>2, <3>3
  <2> QED  BY <2>1, <2>2, <2>3, <2>4 DEF FlagOfTop, Marks
<1>4. CASE Factory
  BY <1>4 DEF Factory, Marks
<1>5. CASE Poll
  <2>1. FirstFlag' \subseteq FirstFlag
    BY <1>5 DEF Poll, LcdtoReminder, LcdtoBackwash, BatteryEmpty, BatteryNew, Push,
       DrawAgain, ClearFlags, gui
  <2>2. pc' # "keys" /\ UNCHANGED <<NowButtonId, Win1PageID>>
    BY <1>5 DEF Poll, AfterPoll, cursor, pages
  <2> QED  BY <2>1, <2>2 DEF Marks
<1>6. CASE JumptoMainWin
  BY <1>6 DEF JumptoMainWin, ClearFlags, cursor, pages, pass, Marks
<1>7. (\E k \in Keys : KeyDown(k)) \/ K2_Setjump_Sem_Release \/ (\E c \in Calls : Call(c))
        \/ CycleEnds \/ UNCHANGED vars => UNCHANGED <<gui, cursor, pages, pass>>
  BY DEF KeyDown, K2_Setjump_Sem_Release, Call, CycleEnds, vars
<1>8. UNCHANGED <<gui, cursor, pages, pass>> => Marks'
  BY DEF gui, cursor, pages, pass, Marks
<1> QED  BY <1>1, <1>2, <1>3, <1>4, <1>5, <1>6, <1>7, <1>8 DEF Next, lcd_task

\* Only a restart of the processor forgets that keys were mixed.
LEMMA MixedStays ==
  ASSUME Types, [Next]_vars, mixed' = 0
  PROVE  mixed = 0 \/ Factory
<1>1. DrawTop \/ Poll \/ (\E k \in Keys : KeyDown(k)) \/ K2_Setjump_Sem_Release
        \/ (\E c \in Calls : Call(c)) \/ CycleEnds \/ JumptoMainWin \/ UNCHANGED vars
        => UNCHANGED mixed
  BY DEF DrawTop, Poll, KeyDown, K2_Setjump_Sem_Release, Call, CycleEnds, JumptoMainWin, vars
<1>2. PressUpDown \/ PressEnter \/ PressLong => UNCHANGED mixed
  BY KeyPass
<1>3. TakeKeys => mixed = 0
  BY DEF TakeKeys
<1> QED  BY <1>1, <1>2, <1>3 DEF Next, lcd_task

\* The processor restarts with the main window to be drawn.
LEMMA FactoryMarks == Factory => InPass' /\ FlagOfTop' /\ Marks'
  BY DEF Factory, InPass, FlagOfTop, Marks

LEMMA MarkInvAlways == Spec => []MarkInv
<1>1. Init => MarkInv
  <2>1. Init => InPass /\ FlagOfTop /\ Marks
    BY DEF Init, InPass, FlagOfTop, Marks
  <2> QED  BY <2>1, TypesInit DEF MarkInv
<1>2. ASSUME MarkInv, [Next]_vars PROVE MarkInv'
  <2>1. Types /\ Types'
    BY <1>2, TypesStep DEF MarkInv
  <2>2. ASSUME mixed' = 0, mixed = 0 PROVE InPass' /\ FlagOfTop' /\ Marks'
    <3>1. InPass /\ FlagOfTop /\ Marks
      BY <1>2, <2>2 DEF MarkInv
    <3>2. InPass' /\ FlagOfTop'
      BY <1>2, <2>1, <2>2, <3>1, InPassStep, FlagOfTopStep
    <3> QED  BY <1>2, <2>1, <3>1, <3>2, MarksStep
  <2>3. ASSUME mixed' = 0 PROVE InPass' /\ FlagOfTop' /\ Marks'
    BY <1>2, <2>1, <2>2, <2>3, MixedStays, FactoryMarks
  <2> QED  BY <2>1, <2>3 DEF MarkInv
<1> QED  BY <1>1, <1>2, PTL DEF Spec

\* The mark is on a button of the window that takes keys, for any number of
\* keys in a pass and whatever calls, wake-ups and timers come in mid-pass,
\* although every window takes NowButtonId over from the one before: only a
\* long press that window 1 handles together with another key can move it off.
THEOREM MarkOnButton == Spec => []ButtonExists
<1>1. MarkInv => ButtonExists
  BY DEF MarkInv, Marks, ButtonExists
<1> QED  BY <1>1, MarkInvAlways, PTL
----------------------------------------------------------------------------
(* Without window 27, whose flag outlives it, a flag is set exactly while  *)
(* its window is on the screen.                                            *)

NoWindow27 ==
    /\ winStack \in Stacks(Windows \ {27})
    /\ 27 \notin FirstFlag
    /\ "new" \notin flags

Shown == FirstFlag \subseteq {screen}

DrawnInv == MarkInv /\ NoWindow27 /\ (mixed = 0 => Shown)

LEMMA NoWindow27Step ==
  ASSUME "new" \notin Calls, Types, Types', NoWindow27, [Next]_vars
  PROVE  NoWindow27'
<1> DEFINE W == Windows \ {27}
<1>1. 1 \in W /\ <<1>> \in Stacks(W) /\ KeyWindows \subseteq W
  BY HomeStack DEF KeyWindows, Windows
<1>2. Top(winStack) \in W /\ (winStack' \in Stacks(W) => Top(winStack') \in W)
  BY TopWindow DEF NoWindow27
<1> HIDE DEF W
<1>3. CASE DrawTop
  <2>1. UNCHANGED <<winStack, flags>> /\ FirstFlag' = FirstFlag \cup {Top(winStack)}
    BY <1>3 DEF DrawTop, Draw, events
  <2> QED  BY <1>2, <2>1 DEF NoWindow27, W
<1>4. CASE TakeKeys
  BY <1>1, <1>4 DEF TakeKeys, JumpEvent, gui, NoWindow27, W
<1>5. CASE PressUpDown \/ PressEnter \/ PressLong
  <2>1. KeyBody
    BY <1>5, KeyPass
  <2>2. winStack' \in Stacks(W)
    BY <1>1, <2>1, KeyStack DEF Types, NoWindow27, W
  <2>3. Stays \/ Cleared \/ Drawn
    BY <2>1, KeyScreen DEF Types, GuiType
  <2>4. 27 \notin FirstFlag'
    BY <1>2, <2>2, <2>3 DEF Stays, Cleared, Drawn, NoWindow27, W
  <2>5. "new" \notin flags'
    BY <2>1, KeyEvents DEF Types, NoWindow27
  <2> QED  BY <2>2, <2>4, <2>5 DEF NoWindow27, W
<1>6. CASE Factory
  BY <1>1, <1>6 DEF Factory, NoWindow27, W
<1>7. CASE Poll
  <2>1. \A w \in {25, 3, 26} : GuiWinAdd(winStack, w) \in Stacks(W)
    <3>1. {25, 3, 26} \subseteq W /\ winStack \in Stacks(W)
      BY DEF NoWindow27, W, Windows
    <3> QED  BY <3>1, AddStack
  <2>2. winStack' \in Stacks(W)
    BY <1>7, <2>1 DEF Poll, LcdtoReminder, LcdtoBackwash, BatteryEmpty, BatteryNew, Push,
       DrawAgain, gui, NoWindow27, W
  <2>3. 27 \notin FirstFlag' /\ "new" \notin flags'
    BY <1>7 DEF Poll, LcdtoReminder, LcdtoBackwash, BatteryEmpty, BatteryNew, Push,
       DrawAgain, ClearFlags, Moto_Cycle, gui, NoWindow27
  <2> QED  BY <2>2, <2>3 DEF NoWindow27, W
<1>8. ASSUME NEW c \in Calls, Call(c) PROVE NoWindow27'
  BY <1>8 DEF Call, gui, NoWindow27
<1>9. CASE JumptoMainWin
  BY <1>1, <1>9 DEF JumptoMainWin, ClearFlags, events, NoWindow27, W
<1>10. (\E k \in Keys : KeyDown(k)) \/ K2_Setjump_Sem_Release \/ CycleEnds \/ UNCHANGED vars
          => UNCHANGED <<gui, flags>>
  BY DEF KeyDown, K2_Setjump_Sem_Release, CycleEnds, events, vars
<1>11. UNCHANGED <<gui, flags>> => NoWindow27'
  BY DEF gui, NoWindow27
<1> QED
  BY <1>3, <1>4, <1>5, <1>6, <1>7, <1>8, <1>9, <1>10, <1>11 DEF Next, lcd_task

LEMMA ShownStep ==
  ASSUME Types, Types', InPass, FlagOfTop, NoWindow27, Shown, [Next]_vars
  PROVE  Shown'
<1>1. CASE DrawTop
  BY <1>1 DEF DrawTop, Draw, FlagOfTop, NoWindow27, Shown
<1>2. CASE TakeKeys
  BY <1>2 DEF TakeKeys, JumpEvent, gui, FlagOfTop, NoWindow27, Shown
<1>3. CASE PressUpDown \/ PressEnter \/ PressLong
  <2>1. KeyBody /\ pc = "keys"
    BY <1>3, KeyPass
  <2>2. Stays \/ Cleared \/ Drawn
    BY <2>1, KeyScreen DEF Types, GuiType
  <2>3. CASE FirstFlag \subseteq {win}
    BY <2>2, <2>3 DEF Stays, Cleared, Drawn, Shown
  <2>4. CASE win = 25 /\ "K2_Long" \notin got /\ "K0" \notin got
    <3>1. CASE PressUpDown
      BY <2>4, <3>1, KeyTurn, UpDownStays DEF Stays, Shown
    <3>2. CASE PressEnter
      BY <2>4, <3>2, KeyTurn, Enter25Stays DEF gui, Shown
    <3> QED  BY <1>3, <2>4, <3>1, <3>2, KeyTurn
  <2> QED  BY <2>1, <2>3, <2>4 DEF FlagOfTop, NoWindow27
<1>4. CASE Factory
  BY <1>4 DEF Factory, Shown
<1>5. CASE Poll
  BY <1>5 DEF Poll, LcdtoReminder, LcdtoBackwash, BatteryEmpty, BatteryNew, Push,
     DrawAgain, ClearFlags, gui, NoWindow27, Shown
<1>6. CASE JumptoMainWin
  BY <1>6 DEF JumptoMainWin, ClearFlags, NoWindow27, Shown
<1>7. (\E k \in Keys : KeyDown(k)) \/ K2_Setjump_Sem_Release \/ (\E c \in Calls : Call(c))
        \/ CycleEnds \/ UNCHANGED vars => UNCHANGED gui
  BY DEF KeyDown, K2_Setjump_Sem_Release, Call, CycleEnds, vars
<1>8. UNCHANGED gui => Shown'
  BY DEF gui, Shown
<1> QED  BY <1>1, <1>2, <1>3, <1>4, <1>5, <1>6, <1>7, <1>8 DEF Next, lcd_task

LEMMA DrawnInvAlways ==
  ASSUME "new" \notin Calls
  PROVE  Spec => []DrawnInv
<1>1. Init => NoWindow27 /\ Shown
  <2>1. <<1>> \in Stacks(Windows \ {27})
    BY HomeStack DEF Windows
  <2> QED  BY <2>1 DEF Init, NoWindow27, Shown
<1>2. ASSUME MarkInv, MarkInv', NoWindow27, mixed = 0 => Shown, [Next]_vars
      PROVE  NoWindow27' /\ (mixed = 0 => Shown)'
  <2>1. Types /\ Types' /\ NoWindow27'
    BY <1>2, NoWindow27Step DEF MarkInv
  <2>2. ASSUME mixed' = 0, mixed = 0 PROVE Shown'
    BY <1>2, <2>1, <2>2, ShownStep DEF MarkInv
  <2>3. Factory => Shown'
    BY DEF Factory, Shown
  <2> QED  BY <1>2, <2>1, <2>2, <2>3, MixedStays
<1> QED  BY <1>1, <1>2, MarkInvAlways, PTL DEF Spec, DrawnInv

\* A window that takes keys is the one on the screen, for every number and
\* order of keys in a pass, calls, wake-ups in mid-pass and depth of the
\* stack: the memsets and FirstFlag[n] = 0 never leave a flag set behind, but
\* for a long press that window 1 handles together with another key.  Window
\* 27 is left out: memset misses its flag.
THEOREM KeysGoToWhatIsShown ==
  ASSUME "new" \notin Calls
  PROVE  Spec => []DrawnIsTop
<1>1. DrawnInv => DrawnIsTop
  BY DEF DrawnInv, Shown, DrawnIsTop
<1> QED  BY <1>1, DrawnInvAlways, PTL
----------------------------------------------------------------------------
(* What a key does to the stack, in terms of the menu: window 1 opens the  *)
(* windows of level 2, and so on.                                          *)

Level(w) ==
    CASE w = 1 -> 1
      [] w \in {2, 4, 5, 6, 7, 14} -> 2
      [] w \in {9, 10, 11, 23} -> 4
      [] OTHER -> 3

\* The two windows that a key only leaves for the main window.
Overlays == {3, 25}

Leaves == winStack' = <<1>> /\ win \in Overlays /\ (win = 3 => Jump_Flag = 1)
StartsBackwash == winStack' = GuiWinAdd(winStack, 3) /\ win = 2 /\ cycle' = "running" /\ screen' = 0
OpensNext ==
    \E v \in KeyWindows \ Overlays :
        winStack' = GuiWinAdd(winStack, v) /\ win \notin Overlays /\ Level(v) = Level(win) + 1
ClosesOne == winStack' = GuiWinDeleteTop(winStack) /\ win \notin Overlays
ClosesTwo == winStack' = GuiWinDeleteTop(GuiWinDeleteTop(winStack)) /\ win = 23

LEMMA KeyMove ==
  ASSUME "empty" \notin Calls, Types, KeyBody
  PROVE  \/ UNCHANGED winStack /\ cycle' = cycle
         \/ StartsBackwash
         \/ cycle' = cycle /\ (Leaves \/ OpensNext \/ ClosesOne \/ ClosesTwo)
<1> USE DEF Overlays
<1>1. ASSUME NEW k \in {"K0", "K1"}, UpDown(k)
      PROVE  cycle' = cycle /\ (UNCHANGED winStack \/ Leaves)
  BY <1>1 DEF UpDown, MoveMark, MainPages, SystemPages, ChangeSetting, NoBackwash,
     TurnPage, MarkOnPage, gui, Leaves
<1>2. CASE Enter
  <2>1. ASSUME NEW v \in KeyWindows \ Overlays, winStack' = GuiWinAdd(winStack, v),
               win \notin Overlays, Level(v) = Level(win) + 1
        PROVE  OpensNext
    BY <2>1 DEF OpensNext
  <2>2. CASE Enter1
    <3>1. NowButtonId \in DOMAIN Opens => Opens[NowButtonId] \in {2, 4, 5, 6, 7}
      BY DEF Opens
    <3>2. {2, 4, 5, 6, 7} \subseteq KeyWindows \ Overlays
      BY DEF KeyWindows, Windows
    <3>3. \A v \in {2, 4, 5, 6, 7} : Level(v) = Level(1) + 1
      BY DEF Level
    <3> QED  BY <2>1, <2>2, <3>1, <3>2, <3>3 DEF Enter1, NoEvents
  <2>3. CASE Enter2
    BY <2>3 DEF Enter2, Moto_Cycle, Open, Close, DrawLater, NoEvents, StartsBackwash, ClosesOne
  <2>4. CASE Enter3
    BY <2>4 DEF Enter3, MayLeave, Home, gui, NoEvents, Leaves
  <2>5. CASE Enter45
    BY <2>5 DEF Enter45, Close, NextSetting, SaveSettings, gui, NoEvents, ClosesOne
  <2>6. CASE EnterList
    <3>1. NowButtonId < 3 => NowButtonId \in {0, 1, 2}
      BY DEF Types, CursorType
    <3>2. NowButtonId < 3 => /\ <<8, 12, 13>>[NowButtonId + 1] \in {8, 12, 13}
                             /\ <<9, 10, 11>>[NowButtonId + 1] \in {9, 10, 11}
      BY <3>1
    <3>3. {8, 12, 13, 9, 10, 11} \subseteq KeyWindows \ Overlays
      BY DEF KeyWindows, Windows
    <3>4. /\ \A v \in {8, 12, 13} : Level(v) = Level(7) + 1
          /\ \A v \in {9, 10, 11} : Level(v) = Level(8) + 1
      BY DEF Level
    <3> QED  BY <2>1, <2>6, <3>2, <3>3, <3>4 DEF EnterList, Open, Close, NoEvents, ClosesOne
  <2>7. CASE Enter14
    <3>1. NowButtonId < 3 => NowButtonId \in {0, 1, 2}
      BY DEF Types, CursorType
    <3>2. NowButtonId < 3 => SystemList(Win14PageID, NowButtonId) \in (15 .. 21) \cup {0}
      BY <3>1 DEF SystemList
    <3>3. (15 .. 21) \subseteq KeyWindows \ Overlays
      BY DEF KeyWindows, Windows
    <3>4. \A v \in 15 .. 21 : Level(v) = Level(14) + 1
      BY DEF Level
    <3> QED  BY <2>1, <2>7, <3>2, <3>3, <3>4 DEF Enter14, NoEvents, ClosesOne
  <2>8. CASE EnterValue \/ EnterCloses
    BY <2>8 DEF EnterValue, EnterCloses, Close, gui, NoEvents, ClosesOne
  <2>9. CASE Enter21
    <3>1. 23 \in KeyWindows \ Overlays /\ Level(23) = Level(21) + 1
      BY DEF KeyWindows, Windows, Level
    <3> QED  BY <2>1, <2>9, <3>1 DEF Enter21, Open, Close, NoEvents, ClosesOne
  <2>10. CASE Enter23
    BY <2>10 DEF Enter23, NoEvents, ClosesTwo
  <2>11. CASE Enter25
    BY <2>11 DEF Enter25, gui
  <2> QED  BY <1>2, <2>2, <2>3, <2>4, <2>5, <2>6, <2>7, <2>8, <2>9, <2>10, <2>11 DEF Enter
<1>3. CASE EnterLong
  <2>1. 14 \in KeyWindows \ Overlays /\ Level(14) = Level(1) + 1
    BY DEF KeyWindows, Windows, Level
  <2> QED  BY <1>3, <2>1 DEF EnterLong, gui, NoEvents, OpensNext
<1> QED  BY <1>1, <1>2, <1>3 DEF KeyBody

\* Only drawing window 3 sets Jump_Flag back.
LEMMA KeyJump ==
  ASSUME KeyBody
  PROVE  Jump_Flag' = Jump_Flag \/ (Top(winStack') = 3 /\ screen' = 3)
<1>1. ASSUME NEW k \in {"K0", "K1"}, UpDown(k)
      PROVE  Jump_Flag' = Jump_Flag
  BY <1>1 DEF UpDown, MoveMark, MainPages, SystemPages, ChangeSetting, NoBackwash, Draw
<1>2. ASSUME NEW w, Close(w)
      PROVE  Jump_Flag' = Jump_Flag \/ (Top(winStack') = 3 /\ screen' = 3)
  BY <1>2 DEF Close, Draw, DrawLater
<1>3. CASE Enter
  BY <1>2, <1>3 DEF Enter, Enter1, Enter2, Enter3, Enter45, EnterList, Enter14, EnterValue,
     EnterCloses, Enter21, Enter23, Enter25, Open, Home, NextSetting, SaveSettings, DrawLater
<1>4. CASE EnterLong
  BY <1>4 DEF EnterLong, Draw
<1> QED  BY <1>1, <1>3, <1>4 DEF KeyBody

\* Window 3 does nothing but be left.
LEMMA KeyOfWindow3 ==
  ASSUME win = 3, KeyBody
  PROVE  /\ UNCHANGED <<Jump_Flag, lcd_jump_event, flags, cycle>>
         /\ UNCHANGED gui \/ (Jump_Flag = 1 /\ winStack' = <<1>> /\ FirstFlag' = FirstFlag \ {3})
  BY DEF KeyBody, UpDown, MoveMark, MainPages, SystemPages, ChangeSetting, NoBackwash, Enter,
     Enter1, Enter2, Enter3, Enter45, EnterList, Enter14, EnterValue, EnterCloses, Enter21,
     Enter23, Enter25, EnterLong, MayLeave, Home, DrawLater, NoEvents
----------------------------------------------------------------------------
(* Backwashes, when the flags that lcd_task polls are raised between two   *)
(* passes and not during a backwash, and each cycle reports one event.     *)

OrderlyCalls ==
    /\ MaxPending <= 1 /\ ~Anytime /\ ~TwoReports
    /\ Calls \subseteq {"reminder", "automatic"}

\* Nothing but windows 3 and 25 lies on a window 3 or 25: closing a window
\* never uncovers one of them.
Nested(s) ==
    \A i \in 1 .. Len(s) - 1 : s[i] \in Overlays => s[i + 1] \in Overlays

KeysOfTop == pc = "keys" => win = Top(winStack) /\ win \in FirstFlag

LEMMA NestedAdd ==
  ASSUME NEW W, NEW s \in Stacks(W), NEW w \in W, Nested(s), Top(s) \notin Overlays \/ w \in Overlays
  PROVE  Nested(GuiWinAdd(s, w))
<1>1. CASE Len(s) >= GUIWINMANAGE_NUM
  BY <1>1 DEF GuiWinAdd
<1>2. CASE ~(Len(s) >= GUIWINMANAGE_NUM)
  <2>1. s \in Seq(W) /\ Len(s) \in Nat /\ GuiWinAdd(s, w) = Append(s, w)
    BY <1>2 DEF Stacks, GuiWinAdd
  <2>2. /\ Len(Append(s, w)) = Len(s) + 1 /\ Append(s, w)[Len(s) + 1] = w
        /\ \A i \in 1 .. Len(s) : Append(s, w)[i] = s[i]
    BY <2>1
  <2>3. ASSUME NEW i \in 1 .. Len(s), s[i] \in Overlays
        PROVE  Append(s, w)[i + 1] \in Overlays
    <3>1. CASE i = Len(s)
      BY <2>2, <2>3, <3>1 DEF Top
    <3>2. CASE i # Len(s)
      <4>1. i \in 1 .. Len(s) - 1 /\ i + 1 \in 1 .. Len(s)
        BY <2>1, <3>2
      <4> QED  BY <2>2, <2>3, <4>1 DEF Nested
    <3> QED  BY <3>1, <3>2
  <2> QED  BY <2>1, <2>2, <2>3 DEF Nested
<1> QED  BY <1>1, <1>2

LEMMA NestedDelete ==
  ASSUME NEW W, NEW s \in Stacks(W), Nested(s)
  PROVE  /\ Nested(GuiWinDeleteTop(s))
         /\ Top(s) \notin Overlays => Top(GuiWinDeleteTop(s)) \notin Overlays
<1> DEFINE t == GuiWinDeleteTop(s)
<1>1. /\ Len(s) \in Nat /\ Len(s) >= 1
      /\ Len(t) = IF Len(s) <= 1 THEN Len(s) ELSE Len(s) - 1
      /\ \A i \in 1 .. Len(t) : t[i] = s[i]
  BY DeleteStack DEF Stacks
<1> HIDE DEF t
<1>2. ASSUME NEW i \in 1 .. Len(t) - 1, t[i] \in Overlays
      PROVE  t[i + 1] \in Overlays
  <2>1. i \in 1 .. Len(t) /\ i + 1 \in 1 .. Len(t) /\ i \in 1 .. Len(s) - 1
    BY <1>1
  <2> QED  BY <1>1, <1>2, <2>1 DEF Nested
<1>3. ASSUME Top(s) \notin Overlays
      PROVE  Top(t) \notin Overlays
  <2>1. CASE Len(s) <= 1
    <3>1. Len(s) = 1 /\ Len(t) = 1 /\ t[1] = s[1]
      BY <1>1, <2>1
    <3> QED  BY <1>3, <3>1 DEF Top
  <2>2. CASE ~(Len(s) <= 1)
    <3>1. Len(t) = Len(s) - 1 /\ Len(t) \in 1 .. Len(t) /\ Len(t) \in 1 .. Len(s) - 1
      BY <1>1, <2>2
    <3>2. t[Len(t)] = s[Len(t)] /\ s[Len(t) + 1] \notin Overlays
      BY <1>1, <1>3, <3>1 DEF Top
    <3>3. s[Len(t)] \in Overlays => s[Len(t) + 1] \in Overlays
      BY <3>1 DEF Nested
    <3> QED  BY <3>2, <3>3 DEF Top
  <2> QED  BY <2>1, <2>2
<1> QED  BY <1>2, <1>3 DEF Nested, t

\* What is on top after a key, given what was there.
LEMMA KeyTop ==
  ASSUME "empty" \notin Calls, Types, pc = "keys", KeysOfTop, Nested(winStack), KeyBody
  PROVE  /\ Nested(winStack')
         /\ win # 3 /\ Top(winStack') = 3 => cycle' = "running" /\ screen' = 0
         /\ cycle' \in {cycle, "running"}
<1>1. winStack \in Stacks(Windows) /\ Top(winStack) = win
  BY DEF Types, GuiType, KeysOfTop
<1>2. CASE UNCHANGED winStack /\ cycle' = cycle
  BY <1>1, <1>2
<1>3. CASE cycle' = cycle /\ Leaves
  <2>1. Nested(<<1>>)
    BY DEF Nested
  <2> QED  BY <1>3, <2>1, HomeStack DEF Leaves
<1>4. CASE StartsBackwash
  <2>1. 3 \in Windows /\ 3 \in Overlays
    BY DEF Windows, Overlays
  <2> QED  BY <1>1, <1>4, <2>1, NestedAdd DEF StartsBackwash
<1>5. CASE cycle' = cycle /\ OpensNext
  <2>1. PICK v \in KeyWindows \ Overlays : winStack' = GuiWinAdd(winStack, v) /\ win \notin Overlays
    BY <1>5 DEF OpensNext
  <2>2. v \in Windows /\ v # 3
    BY DEF KeyWindows, Overlays
  <2>3. Top(winStack') \in {win, v}
    BY <1>1, <2>1, <2>2, AddStack
  <2> QED  BY <1>1, <1>5, <2>1, <2>2, <2>3, NestedAdd
<1>6. CASE cycle' = cycle /\ ClosesOne
  BY <1>1, <1>6, NestedDelete DEF ClosesOne, Overlays
<1>7. CASE cycle' = cycle /\ ClosesTwo
  <2>1. win \notin Overlays
    BY <1>7 DEF ClosesTwo, Overlays
  <2>2. /\ GuiWinDeleteTop(winStack) \in Stacks(Windows) /\ Nested(GuiWinDeleteTop(winStack))
        /\ Top(GuiWinDeleteTop(winStack)) \notin Overlays
    BY <1>1, <2>1, DeleteStack, NestedDelete
  <2> QED  BY <1>7, <2>2, NestedDelete DEF ClosesTwo, Overlays
<1> QED  BY <1>2, <1>3, <1>4, <1>5, <1>6, <1>7, KeyMove

\* A flag that is raised is polled in the same pass.
FlagsPolled ==
    /\ flags \subseteq Calls \cup {"automatic"}
    /\ pc \in {"empty", "new"} => flags = {}
    /\ pc = "automatic" => flags \subseteq {"automatic"}
    /\ pc = "display" /\ flags # {} => cycle = "no" /\ lcd_jump_event = {}

\* "In progress" is on the screen while the cycle runs, or its report waits.
InProgress ==
    Jump_Flag = 0 => /\ 3 \in FirstFlag
                     /\ flags = {}
                     /\ cycle = "running" \/ lcd_jump_event # {}

\* A report waits alone, and no other cycle starts before it is read.
OneReport ==
    lcd_jump_event # {} => /\ Jump_Flag = 0 /\ cycle = "no"
                           /\ \E e \in Reports : lcd_jump_event = {e}

\* Window 3 is on top and not drawn only for a cycle that has just started.
JustStarted ==
    Top(winStack) = 3 /\ 3 \notin FirstFlag => cycle = "running"

Finished ==
    3 \in FirstFlag /\ Jump_Flag = 1 => cycle = "no"

\* A reminder over a finished backwash finds room on the stack: refused, it
\* would have window 3 drawn again as in progress.
RoomForReminder ==
    "reminder" \in flags /\ 3 \in FirstFlag => Len(winStack) <= MaxDepth

Backwash ==
    /\ FlagsPolled /\ InProgress /\ OneReport /\ JustStarted /\ Finished /\ RoomForReminder

\* Keys come one in a pass, so none are mixed.
OneKey ==
    /\ mixed = 0
    /\ \A k, l \in sems \cup got : k = l
    /\ pc = "keys" <=> got # {}

OrderlyInv == DrawnInv /\ OneKey

\* While MaxPending is 1, a key is only pressed when none is waiting.
LEMMA NoKeyWaiting ==
  ASSUME MaxPending <= 1, NEW S \in SUBSET KeyNames, Cardinality(S) < MaxPending
  PROVE  S = {}
<1>1. IsFiniteSet(KeyNames)
  <2>1. IsFiniteSet({"K2_Long"}) /\ IsFiniteSet({"K0"}) /\ IsFiniteSet({"K1"}) /\ IsFiniteSet({"K2"})
    BY FS_Singleton
  <2>2. KeyNames = (({"K2_Long"} \cup {"K0"}) \cup {"K1"}) \cup {"K2"}
    BY DEF KeyNames
  <2> QED  BY <2>1, <2>2, FS_Union
<1>2. IsFiniteSet(S) /\ Cardinality(S) \in Nat
  BY <1>1, FS_Subset, FS_CardinalityType
<1> QED  BY <1>2, FS_EmptySet, WindowConstants

LEMMA OneKeyStep ==
  ASSUME MaxPending <= 1, Types, OneKey, [Next]_vars
  PROVE  OneKey'
<1>1. CASE DrawTop
  BY <1>1 DEF DrawTop, OneKey
<1>2. CASE TakeKeys
  BY <1>2 DEF TakeKeys, OneKey
<1>3. CASE PressUpDown \/ PressEnter \/ PressLong
  <2>1. /\ \E k \in got : got' = got \ {k} /\ (pc' = IF got = {k} THEN "reminder" ELSE "keys")
        /\ UNCHANGED <<sems, mixed>>
    BY <1>3, KeyPass
  <2> QED  BY <2>1 DEF OneKey
<1>4. CASE Factory
  BY <1>4 DEF Factory, OneKey
<1>5. CASE Poll
  BY <1>5 DEF Poll, AfterPoll, OneKey
<1>6. ASSUME NEW k \in Keys, KeyDown(k) PROVE OneKey'
  <2>1. sems = {}
    BY <1>6, NoKeyWaiting DEF KeyDown, Types, PassType
  <2>2. got = {}
    BY <1>6 DEF KeyDown, OneKey
  <2> QED  BY <1>6, <2>1, <2>2 DEF KeyDown, pass, OneKey
<1>7. CASE K2_Setjump_Sem_Release
  <2>1. sems \cup got = {}
    BY <1>7, NoKeyWaiting DEF K2_Setjump_Sem_Release, Types, PassType
  <2> QED  BY <1>7, <2>1 DEF K2_Setjump_Sem_Release, pass, OneKey
<1>8. (\E c \in Calls : Call(c)) \/ CycleEnds \/ JumptoMainWin \/ UNCHANGED vars
         => UNCHANGED <<sems, pass, mixed>>
  BY DEF Call, CycleEnds, JumptoMainWin, vars
<1>9. UNCHANGED <<sems, pass, mixed>> => OneKey'
  BY DEF pass, OneKey
<1> QED  BY <1>1, <1>2, <1>3, <1>4, <1>5, <1>6, <1>7, <1>8, <1>9 DEF Next, lcd_task

LEMMA OrderlyInvAlways ==
  ASSUME OrderlyCalls
  PROVE  Spec => []OrderlyInv
<1>1. Init => OneKey
  BY DEF Init, OneKey
<1>2. DrawnInv /\ OneKey /\ [Next]_vars => OneKey'
  BY OneKeyStep DEF DrawnInv, MarkInv, OrderlyCalls
<1>3. Spec => []DrawnInv
  BY DrawnInvAlways DEF OrderlyCalls
<1> QED  BY <1>1, <1>2, <1>3, PTL DEF Spec, OrderlyInv

\* What this says of the flags: only the top window's is set, and only while
\* that window is on the screen.
LEMMA OnlyTop ==
  ASSUME OrderlyInv
  PROVE  FirstFlag \subseteq {Top(winStack)} /\ FirstFlag \subseteq {screen}
  BY DEF OrderlyInv, OneKey, DrawnInv, MarkInv, FlagOfTop, NoWindow27, Shown

\* A key ends the pass of its window function.
LEMMA LastKey ==
  ASSUME OneKey, PressUpDown \/ PressEnter \/ PressLong
  PROVE  got' = {} /\ pc' = "reminder"
  BY KeyPass DEF OneKey

BackwashInv == OrderlyInv /\ KeysOfTop /\ Nested(winStack) /\ Backwash

LEMMA KeysOfTopStep ==
  ASSUME OrderlyCalls, OrderlyInv, KeysOfTop, OneReport, [Next]_vars
  PROVE  KeysOfTop'
<1>1. OneKey /\ Types
  BY DEF OrderlyInv, DrawnInv, MarkInv
<1>2. CASE DrawTop \/ Factory \/ Poll
  BY <1>2 DEF DrawTop, Factory, Poll, AfterPoll, KeysOfTop
<1>3. CASE TakeKeys
  <2>1. lcd_jump_event # {"EXIT"}
    BY DEF OneReport, Reports
  <2> QED  BY <1>3, <2>1 DEF TakeKeys, JumpEvent, gui, KeysOfTop
<1>4. CASE PressUpDown \/ PressEnter \/ PressLong
  BY <1>1, <1>4, LastKey DEF KeysOfTop
<1>5. CASE JumptoMainWin
  BY <1>5 DEF JumptoMainWin, Quiet, OrderlyCalls, pass, KeysOfTop
<1>6. (\E k \in Keys : KeyDown(k)) \/ K2_Setjump_Sem_Release \/ (\E c \in Calls : Call(c))
        \/ CycleEnds \/ UNCHANGED vars => UNCHANGED <<gui, pass>>
  BY DEF KeyDown, K2_Setjump_Sem_Release, Call, CycleEnds, vars
<1>7. UNCHANGED <<gui, pass>> => KeysOfTop'
  BY DEF gui, pass, KeysOfTop
<1> QED  BY <1>2, <1>3, <1>4, <1>5, <1>6, <1>7 DEF Next, lcd_task

LEMMA NestedStep ==
  ASSUME OrderlyCalls, OrderlyInv, KeysOfTop, Nested(winStack), FlagsPolled, [Next]_vars
  PROVE  Nested(winStack')
<1>1. Types /\ winStack \in Stacks(Windows)
  BY DEF OrderlyInv, DrawnInv, MarkInv, Types, GuiType
<1>2. Nested(<<1>>)
  BY DEF Nested
<1>3. CASE PressUpDown \/ PressEnter \/ PressLong
  BY <1>1, <1>3, KeyPass, KeyTop DEF OrderlyCalls
<1>4. CASE Poll
  <2>1. "empty" \notin flags /\ "new" \notin flags
    BY DEF FlagsPolled, OrderlyCalls
  <2>2. \A w \in {3, 25} : Nested(GuiWinAdd(winStack, w))
    <3>1. \A w \in {3, 25} : w \in Windows /\ w \in Overlays
      BY DEF Windows, Overlays
    <3> QED  BY <1>1, <3>1, NestedAdd
  <2> QED  BY <1>4, <2>1, <2>2 DEF Poll, LcdtoReminder, LcdtoBackwash, Push, DrawAgain, gui
<1>5. CASE DrawTop \/ TakeKeys \/ Factory \/ JumptoMainWin
  BY <1>2, <1>5 DEF DrawTop, TakeKeys, JumpEvent, Factory, JumptoMainWin, gui
<1>6. (\E k \in Keys : KeyDown(k)) \/ K2_Setjump_Sem_Release \/ (\E c \in Calls : Call(c))
        \/ CycleEnds \/ UNCHANGED vars => UNCHANGED winStack
  BY DEF KeyDown, K2_Setjump_Sem_Release, Call, CycleEnds, vars, gui
<1> QED  BY <1>3, <1>4, <1>5, <1>6 DEF Next, lcd_task

LEMMA BackwashStep ==
  ASSUME OrderlyCalls, "reminder" \in Calls => MaxDepth < GUIWINMANAGE_NUM,
         BackwashInv, OrderlyInv', [Next]_vars
  PROVE  Backwash'
<1> USE DEF Backwash
<1>1. /\ Types /\ OneKey /\ Types' /\ Backwash /\ KeysOfTop /\ Nested(winStack)
      /\ FirstFlag \subseteq {Top(winStack)}
  BY OnlyTop DEF BackwashInv, OrderlyInv, DrawnInv, MarkInv
<1>2. Jump_Flag \in {0, 1} /\ cycle \in {"no", "running"} /\ Top(<<1>>) = 1
  BY <1>1, HomeStack DEF Types, CursorType, EventType, Windows
<1>3. FirstFlag' \subseteq {Top(winStack')} /\ FirstFlag' \subseteq {screen'}
  BY DEF OrderlyInv, OneKey, DrawnInv, MarkInv, FlagOfTop, NoWindow27, Shown, Top
<1>4. CASE DrawTop
  <2>1. /\ pc = "display" /\ pc' = "reminder" /\ FirstFlag = {} /\ FirstFlag' = {Top(winStack)}
        /\ Jump_Flag' = IF Top(winStack) = 3 THEN 0 ELSE Jump_Flag
        /\ UNCHANGED <<winStack, lcd_jump_event, flags, cycle>>
    BY <1>1, <1>4 DEF DrawTop, Draw, events
  <2>2. Jump_Flag = 1 /\ lcd_jump_event = {}
    BY <1>1, <1>2, <2>1 DEF InProgress, OneReport
  <2>3. Top(winStack) = 3 => cycle = "running" /\ flags = {}
    BY <1>1, <2>1 DEF JustStarted, FlagsPolled
  <2> QED
    BY <1>1, <2>1, <2>2, <2>3
       DEF FlagsPolled, InProgress, OneReport, JustStarted, Finished, RoomForReminder
<1>5. CASE TakeKeys
  <2>1. pc = "display" /\ Top(winStack) \in FirstFlag /\ pc' \in {"reminder", "keys"}
        /\ UNCHANGED <<flags, cycle>>
    BY <1>5 DEF TakeKeys
  <2>2. CASE lcd_jump_event = {}
    <3>1. UNCHANGED <<gui, Jump_Flag, lcd_jump_event>>
      BY <1>5, <2>2 DEF TakeKeys, JumpEvent
    <3> QED
      BY <1>1, <2>1, <3>1 DEF gui, FlagsPolled, InProgress, OneReport, JustStarted, Finished,
         RoomForReminder
  <2>3. CASE lcd_jump_event # {}
    <3>1. /\ Jump_Flag = 0 /\ cycle = "no" /\ flags = {} /\ 3 \in FirstFlag
          /\ \E e \in Reports : lcd_jump_event = {e}
      BY <1>1, <2>3 DEF OneReport, InProgress
    <3>2. Top(winStack) = 3 /\ lcd_jump_event # {"EXIT"}
      BY <1>1, <3>1 DEF Reports
    <3>3. lcd_jump_event' = {} /\ Jump_Flag' = 1 /\ UNCHANGED gui
      BY <1>5, <3>1, <3>2 DEF TakeKeys, JumpEvent, EndsBackwash, Reports
    <3> QED
      BY <1>1, <2>1, <3>1, <3>3 DEF gui, FlagsPolled, InProgress, OneReport, JustStarted, Finished,
         RoomForReminder
  <2> QED  BY <2>2, <2>3
<1>6. CASE PressUpDown \/ PressEnter \/ PressLong
  <2>1. KeyBody /\ pc = "keys" /\ pc' = "reminder" /\ win = Top(winStack) /\ win \in FirstFlag
    BY <1>1, <1>6, KeyPass, LastKey DEF KeysOfTop
  <2>2. CASE win = 3
    <3>1. /\ UNCHANGED <<Jump_Flag, lcd_jump_event, flags, cycle>>
          /\ UNCHANGED gui \/ (Jump_Flag = 1 /\ winStack' = <<1>> /\ FirstFlag' = FirstFlag \ {3})
      BY <2>1, <2>2, KeyOfWindow3
    <3>2. CASE UNCHANGED gui
      BY <1>1, <2>1, <3>1, <3>2 DEF gui, FlagsPolled, InProgress, OneReport, JustStarted, Finished,
         RoomForReminder
    <3>3. CASE Jump_Flag = 1 /\ winStack' = <<1>> /\ FirstFlag' = FirstFlag \ {3}
      BY <1>1, <1>2, <2>1, <3>1, <3>3 DEF FlagsPolled, InProgress, OneReport, JustStarted, Finished,
         RoomForReminder
    <3> QED  BY <3>1, <3>2, <3>3
  <2>3. CASE win # 3
    <3>1. Jump_Flag = 1 /\ lcd_jump_event = {}
      BY <1>1, <1>2, <2>1, <2>3 DEF InProgress, OneReport
    <3>2. Top(winStack') = 3 => cycle' = "running" /\ screen' = 0
      BY <1>1, <2>1, <2>3, KeyTop DEF OrderlyCalls
    <3>3. Jump_Flag' = 1
      BY <2>1, <3>1, <3>2, KeyJump
    <3>4. lcd_jump_event' = {} /\ flags' \subseteq Calls \cup {"automatic"}
      BY <1>1, <2>1, <3>1, KeyEvents DEF OrderlyCalls, Types, FlagsPolled
    <3>5. 3 \notin FirstFlag'
      BY <1>3, <3>2
    <3> QED
      BY <2>1, <3>2, <3>3, <3>4, <3>5 DEF FlagsPolled, InProgress, OneReport, JustStarted, Finished,
         RoomForReminder
  <2> QED  BY <2>2, <2>3
<1>7. CASE Factory
  BY <1>2, <1>7 DEF Factory, FlagsPolled, InProgress, OneReport, JustStarted, Finished,
     RoomForReminder
<1>8. CASE Poll
  <2>1. /\ pc \in {"reminder", "automatic", "empty", "new"} /\ pc' = AfterPoll[pc]
        /\ UNCHANGED Jump_Flag
    BY <1>8 DEF Poll
  <2>2. CASE pc \notin flags
    <3>1. UNCHANGED <<gui, lcd_jump_event, flags, cycle>>
      BY <1>8, <2>2 DEF Poll
    <3>2. /\ pc' \in {"empty", "new", "display"} => flags = {}
          /\ pc' = "automatic" => flags \subseteq {"automatic"}
      BY <1>1, <2>1, <2>2 DEF AfterPoll, FlagsPolled, OrderlyCalls
    <3> QED
      BY <1>1, <2>1, <3>1, <3>2 DEF gui, FlagsPolled, InProgress, OneReport, JustStarted, Finished,
         RoomForReminder
  <2>3. CASE pc \in flags
    <3>1. Jump_Flag = 1 /\ lcd_jump_event = {} /\ pc \in {"reminder", "automatic"}
      BY <1>1, <1>2, <2>1, <2>3 DEF InProgress, OneReport, FlagsPolled, OrderlyCalls
    <3>2. CASE pc = "reminder"
      <4>1. LcdtoReminder /\ pc' = "automatic"
        BY <1>8, <2>3, <3>2 DEF Poll, AfterPoll
      <4>2. /\ lcd_jump_event' = {} /\ UNCHANGED <<cycle, Jump_Flag>>
            /\ flags' = flags \ {"reminder"}
        BY <2>1, <3>1, <4>1 DEF LcdtoReminder
      <4>3. CASE Push(25) /\ 25 \notin FirstFlag
        <5>1. 25 \in Windows /\ winStack \in Stacks(Windows)
          BY <1>1 DEF Windows, Types, GuiType
        <5>2. Top(winStack') = IF Len(winStack) >= GUIWINMANAGE_NUM THEN Top(winStack) ELSE 25
          BY <4>3, <5>1, AddStack DEF Push
        <5>3. Top(winStack') = 3 => cycle = "running"
          <6>1. "reminder" \in Calls
            BY <1>1, <2>3, <3>2 DEF FlagsPolled
          <6>2. 3 \in FirstFlag => Len(winStack) <= MaxDepth
            BY <1>1, <2>3, <3>2 DEF RoomForReminder
          <6>3. 3 \in FirstFlag => ~(Len(winStack) >= GUIWINMANAGE_NUM)
            BY <5>1, <6>1, <6>2, WindowConstants DEF Stacks
          <6> QED  BY <1>1, <5>2, <6>3 DEF JustStarted
        <5>4. FirstFlag' = {}
          BY <4>3 DEF Push, ClearFlags, BackwashInv, OrderlyInv, DrawnInv, NoWindow27
        <5> QED
          BY <1>1, <3>1, <4>1, <4>2, <5>3, <5>4 DEF OrderlyCalls, FlagsPolled, InProgress,
             OneReport, JustStarted, Finished, RoomForReminder
      <4>4. CASE DrawAgain(25)
        BY <1>1, <1>3, <3>1, <4>1, <4>2, <4>4 DEF DrawAgain, OrderlyCalls, FlagsPolled, InProgress,
           OneReport, JustStarted, Finished, RoomForReminder
      <4> QED  BY <3>1, <4>1, <4>3, <4>4 DEF LcdtoReminder
    <3>3. CASE pc = "automatic"
      <4>1. LcdtoBackwash /\ pc' = "empty" /\ flags \subseteq {"automatic"}
        BY <1>1, <1>8, <2>3, <3>3 DEF Poll, AfterPoll, FlagsPolled
      <4>2. cycle' = "running" /\ flags' = {} /\ lcd_jump_event' = {}
        BY <3>1, <4>1 DEF LcdtoBackwash, Moto_Cycle, OrderlyCalls
      <4>3. 3 \notin FirstFlag'
        BY <4>1 DEF LcdtoBackwash, Push, DrawAgain, ClearFlags
      <4> QED
        BY <2>1, <3>1, <4>1, <4>2, <4>3 DEF FlagsPolled, InProgress, OneReport, JustStarted,
           Finished, RoomForReminder
    <3> QED  BY <3>1, <3>2, <3>3
  <2> QED  BY <2>2, <2>3
<1>9. ASSUME NEW c \in Calls, Call(c) PROVE Backwash'
  <2>1. /\ cycle = "no" /\ lcd_jump_event = {} /\ pc = "display" /\ Len(winStack) <= MaxDepth
        /\ flags' = flags \cup {c}
        /\ UNCHANGED <<winStack, FirstFlag, Jump_Flag, lcd_jump_event, cycle, pc>>
    BY <1>9 DEF Call, Quiet, OrderlyCalls, gui, pass
  <2>2. Jump_Flag = 1
    BY <1>1, <1>2, <2>1 DEF InProgress
  <2> QED
    BY <1>1, <2>1, <2>2 DEF FlagsPolled, InProgress, OneReport, JustStarted, Finished,
       RoomForReminder
<1>10. CASE CycleEnds
  <2>1. /\ cycle = "running" /\ Jump_Flag = 0 /\ cycle' = "no"
        /\ \E e \in Reports : lcd_jump_event' = lcd_jump_event \cup {e}
        /\ UNCHANGED <<winStack, FirstFlag, Jump_Flag, flags, pc>>
    BY <1>10 DEF CycleEnds, OrderlyCalls, gui, pass
  <2>2. lcd_jump_event = {} /\ 3 \in FirstFlag /\ flags = {}
    BY <1>1, <2>1 DEF OneReport, InProgress
  <2> QED
    BY <1>1, <2>1, <2>2 DEF FlagsPolled, InProgress, OneReport, JustStarted, Finished,
       RoomForReminder
<1>11. CASE JumptoMainWin
  <2>1. /\ cycle = "no" /\ lcd_jump_event = {} /\ pc = "display"
        /\ winStack' = <<1>> /\ FirstFlag' \subseteq {27}
        /\ UNCHANGED <<Jump_Flag, flags, lcd_jump_event, cycle, pc>>
    BY <1>11 DEF JumptoMainWin, Quiet, OrderlyCalls, ClearFlags, events, pass
  <2>2. Jump_Flag = 1
    BY <1>1, <1>2, <2>1 DEF InProgress
  <2> QED
    BY <1>1, <1>2, <2>1, <2>2 DEF FlagsPolled, InProgress, OneReport, JustStarted, Finished,
       RoomForReminder
<1>12. (\E k \in Keys : KeyDown(k)) \/ K2_Setjump_Sem_Release \/ UNCHANGED vars
          => UNCHANGED <<gui, Jump_Flag, flags, lcd_jump_event, cycle, pc>>
  BY DEF KeyDown, K2_Setjump_Sem_Release, events, pass, vars
<1>13. UNCHANGED <<gui, Jump_Flag, flags, lcd_jump_event, cycle, pc>> => Backwash'
  BY <1>1 DEF gui, FlagsPolled, InProgress, OneReport, JustStarted, Finished, RoomForReminder
<1> QED
  BY <1>4, <1>5, <1>6, <1>7, <1>8, <1>9, <1>10, <1>11, <1>12, <1>13 DEF Next, lcd_task

LEMMA BackwashInvAlways ==
  ASSUME OrderlyCalls, "reminder" \in Calls => MaxDepth < GUIWINMANAGE_NUM
  PROVE  Spec => []BackwashInv
<1>1. Init => KeysOfTop /\ Nested(winStack) /\ Backwash
  BY HomeStack DEF Init, KeysOfTop, Nested, Backwash, FlagsPolled, InProgress, OneReport, JustStarted,
     Finished, RoomForReminder
<1>2. OrderlyInv /\ OrderlyInv' /\ KeysOfTop /\ Nested(winStack) /\ Backwash /\ [Next]_vars
        => KeysOfTop' /\ Nested(winStack)' /\ Backwash'
  BY KeysOfTopStep, NestedStep, BackwashStep DEF BackwashInv, Backwash
<1>3. Spec => []OrderlyInv
  BY OrderlyInvAlways
<1> QED  BY <1>1, <1>2, <1>3, PTL DEF Spec, BackwashInv

\* While the screen says that the backwash is in progress and cannot be left,
\* it is, or its end is still to be read, for every number of reminders and
\* automatic backwashes over one another, as long as reminders find room on
\* winStack.
THEOREM InProgressHolds ==
  ASSUME OrderlyCalls, MaxDepth < GUIWINMANAGE_NUM
  PROVE  Spec => []InProgressIsTrue
<1>1. BackwashInv => InProgressIsTrue
  BY DEF BackwashInv, Backwash, InProgress, InProgressIsTrue
<1> QED  BY <1>1, BackwashInvAlways, PTL
----------------------------------------------------------------------------
(* Without reminders the stack is a path down the menu, at most four       *)
(* windows deep, and on it window 3 until it is left.                      *)

Holds3(s) == \E i \in 1 .. Len(s) : s[i] = 3

Levels(s) == \A i \in 1 .. Len(s) : s[i] = 3 \/ Level(s[i]) = i

MenuPath == winStack \in Stacks(KeyWindows) /\ Levels(winStack)

RunningInv == BackwashInv /\ MenuPath /\ (cycle = "running" => Holds3(winStack))

\* There is always room for window 3, or it is there already.
LEMMA PathAdd ==
  ASSUME NEW s \in Stacks(KeyWindows), Levels(s), NEW w \in KeyWindows,
         w = 3 \/ Level(w) = Len(s) + 1, GUIWINMANAGE_NUM >= 5
  PROVE  /\ GuiWinAdd(s, w) \in Stacks(KeyWindows)
         /\ Levels(GuiWinAdd(s, w))
         /\ Holds3(s) \/ w = 3 => Holds3(GuiWinAdd(s, w))
<1>1. GuiWinAdd(s, w) \in Stacks(KeyWindows)
  BY AddStack
<1>2. s \in Seq(KeyWindows) /\ Len(s) \in Nat /\ Len(s) >= 1
  BY DEF Stacks
<1>3. CASE Len(s) >= GUIWINMANAGE_NUM
  <2>1. Holds3(s)
    <3>1. SUFFICES ASSUME s[Len(s)] # 3 PROVE FALSE
      BY <1>2 DEF Holds3
    <3>2. Level(s[Len(s)]) = Len(s)
      BY <1>2, <3>1 DEF Levels
    <3>3. Level(s[Len(s)]) \in 1 .. 4
      BY DEF Level
    <3> QED  BY <1>2, <1>3, <3>2, <3>3, WindowConstants
  <2> QED  BY <1>1, <1>3, <2>1 DEF GuiWinAdd
<1>4. CASE ~(Len(s) >= GUIWINMANAGE_NUM)
  <2>1. GuiWinAdd(s, w) = Append(s, w)
    BY <1>4 DEF GuiWinAdd
  <2>2. /\ Len(Append(s, w)) = Len(s) + 1 /\ Append(s, w)[Len(s) + 1] = w
        /\ \A i \in 1 .. Len(s) : Append(s, w)[i] = s[i]
    BY <1>2
  <2>3. \A i \in 1 .. Len(s) + 1 : i \in 1 .. Len(s) \/ i = Len(s) + 1
    BY <1>2
  <2>4. Levels(Append(s, w))
    BY <2>2, <2>3 DEF Levels
  <2>5. ASSUME Holds3(s) PROVE Holds3(Append(s, w))
    <3>1. PICK i \in 1 .. Len(s) : s[i] = 3
      BY <2>5 DEF Holds3
    <3>2. i \in 1 .. Len(s) + 1
      BY <1>2
    <3> QED  BY <2>2, <3>1, <3>2 DEF Holds3
  <2>6. ASSUME w = 3 PROVE Holds3(Append(s, w))
    <3>1. Len(s) + 1 \in 1 .. Len(s) + 1
      BY <1>2
    <3> QED  BY <2>2, <2>6, <3>1 DEF Holds3
  <2> QED  BY <1>1, <2>1, <2>4, <2>5, <2>6
<1> QED  BY <1>3, <1>4

\* Closing any other window leaves window 3 on the stack.
LEMMA PathDelete ==
  ASSUME NEW s \in Stacks(KeyWindows), Levels(s)
  PROVE  /\ GuiWinDeleteTop(s) \in Stacks(KeyWindows)
         /\ Levels(GuiWinDeleteTop(s))
         /\ Holds3(s) /\ Top(s) # 3 => Holds3(GuiWinDeleteTop(s))
<1> DEFINE t == GuiWinDeleteTop(s)
<1>1. /\ t \in Stacks(KeyWindows)
      /\ Len(t) = IF Len(s) <= 1 THEN Len(s) ELSE Len(s) - 1
      /\ \A i \in 1 .. Len(t) : t[i] = s[i]
  BY DeleteStack
<1>2. Len(s) \in Nat /\ Len(s) >= 1
  BY DEF Stacks
<1> HIDE DEF t
<1>3. \A i \in 1 .. Len(t) : i \in 1 .. Len(s)
  BY <1>1, <1>2
<1>4. Levels(t)
  BY <1>1, <1>3 DEF Levels
<1>5. ASSUME Holds3(s), Top(s) # 3 PROVE Holds3(t)
  <2>1. PICK i \in 1 .. Len(s) : s[i] = 3
    BY <1>5 DEF Holds3
  <2>2. i # Len(s)
    BY <1>5, <2>1 DEF Top
  <2>3. i \in 1 .. Len(t)
    BY <1>1, <1>2, <2>2
  <2> QED  BY <1>1, <2>1, <2>3 DEF Holds3
<1> QED  BY <1>1, <1>4, <1>5 DEF t

LEMMA RunningStep ==
  ASSUME OrderlyCalls, "reminder" \notin Calls, GUIWINMANAGE_NUM >= 5, RunningInv, [Next]_vars
  PROVE  MenuPath' /\ (cycle' = "running" => Holds3(winStack'))
<1>1. /\ Types /\ Backwash /\ KeysOfTop /\ Nested(winStack)
      /\ FirstFlag \subseteq {Top(winStack)} /\ winStack \in Stacks(KeyWindows) /\ Levels(winStack)
      /\ cycle = "running" => Holds3(winStack)
  BY OnlyTop DEF RunningInv, BackwashInv, OrderlyInv, DrawnInv, MarkInv, MenuPath
<1>2. <<1>> \in Stacks(KeyWindows) /\ Levels(<<1>>)
  <2>1. Level(1) = 1
    BY DEF Level
  <2> QED  BY <2>1, HomeStack DEF KeyWindows, Windows, Levels
<1>3. Len(winStack) \in Nat /\ Len(winStack) >= 1 /\ Top(winStack) \in KeyWindows
  BY <1>1, TopWindow DEF Stacks
<1>4. \A w \in KeyWindows : w = Top(winStack) /\ w # 3 => Level(w) = Len(winStack)
  BY <1>1, <1>3 DEF Levels, Top
<1>5. CASE PressUpDown \/ PressEnter \/ PressLong
  <2>1. KeyBody /\ pc = "keys" /\ win = Top(winStack) /\ win \in FirstFlag
    BY <1>1, <1>5, KeyPass DEF KeysOfTop
  <2>2. win # 25
    BY <1>3, <2>1 DEF KeyWindows
  <2>3. CASE UNCHANGED winStack /\ cycle' = cycle
    BY <1>1, <2>3 DEF MenuPath
  <2>4. CASE cycle' = cycle /\ Leaves
    <3>1. win = 3 /\ Jump_Flag = 1
      BY <2>2, <2>4 DEF Leaves, Overlays
    <3>2. cycle = "no"
      BY <1>1, <2>1, <3>1 DEF Backwash, Finished
    <3> QED  BY <1>2, <2>4, <3>2 DEF Leaves, MenuPath
  <2>5. CASE StartsBackwash
    <3>1. 3 \in KeyWindows
      BY DEF KeyWindows, Windows
    <3> QED  BY <1>1, <2>5, <3>1, PathAdd DEF StartsBackwash, MenuPath
  <2>6. CASE cycle' = cycle /\ OpensNext
    <3>1. PICK v \in KeyWindows \ Overlays :
              winStack' = GuiWinAdd(winStack, v) /\ win \notin Overlays /\ Level(v) = Level(win) + 1
      BY <2>6 DEF OpensNext
    <3>2. Level(v) = Len(winStack) + 1
      BY <1>3, <1>4, <2>1, <3>1 DEF Overlays
    <3> QED  BY <1>1, <2>6, <3>1, <3>2, PathAdd DEF MenuPath
  <2>7. CASE cycle' = cycle /\ ClosesOne
    BY <1>1, <2>1, <2>7, PathDelete DEF ClosesOne, Overlays, MenuPath
  <2>8. CASE cycle' = cycle /\ ClosesTwo
    <3>1. win \notin Overlays /\ win # 3
      BY <2>8 DEF ClosesTwo, Overlays
    <3> DEFINE t == GuiWinDeleteTop(winStack)
    <3>2. t \in Stacks(KeyWindows) /\ Levels(t) /\ (Holds3(winStack) => Holds3(t))
      BY <1>1, <2>1, <3>1, PathDelete
    <3>3. Top(t) # 3
      BY <1>1, <2>1, <3>1, NestedDelete DEF Overlays
    <3> HIDE DEF t
    <3>4. /\ GuiWinDeleteTop(t) \in Stacks(KeyWindows) /\ Levels(GuiWinDeleteTop(t))
          /\ Holds3(t) => Holds3(GuiWinDeleteTop(t))
      BY <3>2, <3>3, PathDelete
    <3> QED  BY <1>1, <2>8, <3>2, <3>4 DEF ClosesTwo, MenuPath, t
  <2> QED
    BY <1>1, <2>1, <2>3, <2>4, <2>5, <2>6, <2>7, <2>8, KeyMove DEF OrderlyCalls
<1>6. CASE Poll
  <2>1. flags \subseteq {"automatic"}
    BY <1>1 DEF Backwash, FlagsPolled, OrderlyCalls
  <2>2. CASE UNCHANGED <<gui, cycle>>
    BY <1>1, <2>2 DEF gui, MenuPath
  <2>3. CASE LcdtoBackwash
    <3>1. 3 \in KeyWindows
      BY DEF KeyWindows, Windows
    <3>2. CASE Push(3)
      BY <1>1, <3>1, <3>2, PathAdd DEF Push, MenuPath
    <3>3. CASE DrawAgain(3) /\ 3 \in FirstFlag
      <4>1. winStack[Len(winStack)] = 3 /\ Len(winStack) \in 1 .. Len(winStack)
        BY <1>1, <1>3, <3>3 DEF Top
      <4>2. Holds3(winStack)
        BY <4>1 DEF Holds3
      <4> QED  BY <1>1, <3>3, <4>2 DEF DrawAgain, MenuPath
    <3> QED  BY <2>3, <3>2, <3>3 DEF LcdtoBackwash
  <2> QED  BY <1>6, <2>1, <2>2, <2>3 DEF Poll
<1>7. CASE DrawTop
  BY <1>1, <1>7 DEF DrawTop, events, MenuPath
<1>8. CASE TakeKeys
  <2>1. lcd_jump_event # {"EXIT"}
    BY <1>1 DEF Backwash, OneReport, Reports
  <2> QED  BY <1>1, <1>8, <2>1 DEF TakeKeys, JumpEvent, gui, MenuPath
<1>9. CASE Factory
  BY <1>2, <1>9 DEF Factory, MenuPath
<1>10. CASE JumptoMainWin
  BY <1>2, <1>10 DEF JumptoMainWin, Quiet, OrderlyCalls, events, MenuPath
<1>11. CASE CycleEnds
  BY <1>1, <1>11 DEF CycleEnds, gui, MenuPath
<1>12. (\E k \in Keys : KeyDown(k)) \/ K2_Setjump_Sem_Release \/ (\E c \in Calls : Call(c))
         \/ UNCHANGED vars => UNCHANGED <<gui, cycle>>
  BY DEF KeyDown, K2_Setjump_Sem_Release, Call, events, vars
<1>13. UNCHANGED <<gui, cycle>> => MenuPath' /\ (cycle' = "running" => Holds3(winStack'))
  BY <1>1 DEF gui, MenuPath
<1> QED
  BY <1>5, <1>6, <1>7, <1>8, <1>9, <1>10, <1>11, <1>12, <1>13 DEF Next, lcd_task

\* A running backwash has its window on the stack, so that the user comes
\* back to it: with automatic backwashes only, whatever keys come, one in a
\* pass, and however small the stack, down to five windows (the code has
\* sixteen).  OrderlyCalls leaves out what does take window 3 off: a sleep in
\* mid-cycle that a key ends (LowPower.c, JumptoMainWin).
THEOREM RunningStaysShown ==
  ASSUME OrderlyCalls, "reminder" \notin Calls, GUIWINMANAGE_NUM >= 5
  PROVE  Spec => []RunningIsShown
<1>1. Init => MenuPath /\ (cycle = "running" => Holds3(winStack))
  <2>1. <<1>> \in Stacks(KeyWindows) /\ Level(1) = 1
    BY HomeStack DEF KeyWindows, Windows, Level
  <2> QED  BY <2>1 DEF Init, MenuPath, Levels
<1>2. BackwashInv /\ MenuPath /\ (cycle = "running" => Holds3(winStack)) /\ [Next]_vars
        => MenuPath' /\ (cycle = "running" => Holds3(winStack))'
  BY RunningStep DEF RunningInv
<1>3. BackwashInv /\ MenuPath /\ (cycle = "running" => Holds3(winStack)) => RunningIsShown
  BY DEF MenuPath, Stacks, Holds3, RunningIsShown
<1>4. Spec => []BackwashInv
  BY BackwashInvAlways
<1> QED  BY <1>1, <1>2, <1>3, <1>4, PTL DEF Spec
=============================================================================

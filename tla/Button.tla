------------------------------- MODULE Button -------------------------------
(***************************************************************************)
(* The keys: Button_Cycle_Process of packages/button-v1.0.1, which         *)
(* button_task calls for one key after the other every 10 ms, and the      *)
(* callbacks of device/DeviceInit.c for a long press of the enter key.     *)
(*                                                                         *)
(* A step is one call of Button_Cycle_Process.  What the pin reads is free *)
(* at every call, so that bouncing contacts are included.  LongFlag is one *)
(* variable for all keys.  BUTTON_LONG_CYCLE is 1 and is left out: every   *)
(* cycle of a long press calls back.  The other callbacks and what they do *)
(* to the screen are in module ScreenPower.                                *)
(***************************************************************************)
EXTENDS Integers

CONSTANTS
    Keys,
    KeyNum,                \* number of keys
    List,                  \* the keys in the order of Head_Button's list
    Enter,                 \* Key2
    BUTTON_DEBOUNCE_TIME,
    BUTTON_DOUBLE_TIME,
    BUTTON_LONG_TIME,
    LONG_TIME_LIMIT,       \* 0xFF, where Long_Time is set back
    K2_LONG_LIMIT          \* calls after which the enter key's long press counts

ASSUME ButtonConstants ==
    /\ KeyNum \in Nat \ {0}
    /\ List \in [1 .. KeyNum -> Keys]
    /\ Enter \in Keys
    /\ BUTTON_DEBOUNCE_TIME \in Nat \ {0}
    /\ BUTTON_DOUBLE_TIME \in Nat \ {0}
    /\ BUTTON_LONG_TIME \in Nat \ {0}
    /\ LONG_TIME_LIMIT \in Nat /\ LONG_TIME_LIMIT > BUTTON_LONG_TIME
    /\ K2_LONG_LIMIT \in Nat

Pressed == 0        \* Button_Trigger_Level
Released == 1
Levels == {Pressed, Released}

VARIABLES
    Button_State, Button_Last_State, Button_Trigger_Event, Button_Last_Level,
    Debounce_Time, Timer_Count, Long_Time,    \* struct button of each key
    LongFlag,
    K2_Long_Flag,
    K2_Long_Counter,
    turn,              \* whose call in Button_Process is next
    called,            \* history: the callback of the last call, or "none"
    longed,            \* history: has this press called back BUTTON_LONG?
    disturbed          \* history: was a key held during Button_Create, or
                       \* released in the middle of another's long press?

k2 == <<K2_Long_Flag, K2_Long_Counter>>
vars == <<Button_State, Button_Last_State, Button_Trigger_Event, Button_Last_Level,
          Debounce_Time, Timer_Count, Long_Time, LongFlag, k2, turn, called, longed,
          disturbed>>

TypeOK ==
    /\ Button_State \in [Keys -> {"NONE", "DOWM", "UP", "DOUBLE"}]
    /\ Button_Last_State \in [Keys -> {"NONE", "DOUBLE", "LONG"}]
    /\ Button_Trigger_Event \in [Keys -> {"NONE", "DOWM", "DOUBLE", "LONG"}]
    /\ Button_Last_Level \in [Keys -> Levels]
    /\ Debounce_Time \in [Keys -> 0 .. BUTTON_DEBOUNCE_TIME - 1]
    /\ Timer_Count \in [Keys -> 0 .. BUTTON_DOUBLE_TIME]
    /\ \A k \in Keys : Button_State[k] = "DOUBLE" => Timer_Count[k] < BUTTON_DOUBLE_TIME
    /\ Long_Time \in [Keys -> 0 .. LONG_TIME_LIMIT - 1]
    /\ LongFlag \in 0 .. 1
    /\ K2_Long_Flag \in 0 .. 1
    /\ K2_Long_Counter \in 0 .. K2_LONG_LIMIT
    /\ turn \in 1 .. KeyNum
    /\ called \in {"none", "DOWM", "DOUBLE", "LONG", "LONG_FREE"}
    /\ longed \in [Keys -> 0 .. 1]
    /\ disturbed \in 0 .. 1

\* Button_Create: the level the pin has at this moment is the last level.
Init ==
    /\ Button_State = [k \in Keys |-> "NONE"]
    /\ Button_Last_State = [k \in Keys |-> "NONE"]
    /\ Button_Trigger_Event = [k \in Keys |-> "NONE"]
    /\ Button_Last_Level \in [Keys -> Levels]
    /\ Debounce_Time = [k \in Keys |-> 0]
    /\ Timer_Count = [k \in Keys |-> 0]
    /\ Long_Time = [k \in Keys |-> 0]
    /\ LongFlag = 0
    /\ K2_Long_Flag = 0
    /\ K2_Long_Counter = 0
    /\ turn = 1
    /\ called = "none"
    /\ longed = [k \in Keys |-> 0]
    /\ disturbed = IF \A k \in Keys : Button_Last_Level[k] = Released THEN 0 ELSE 1
----------------------------------------------------------------------------
(* The beginning of Button_Cycle_Process: the level is filtered and the    *)
(* state follows it.                                                       *)

Key == List[turn]

\* Debounce_Time is not set back when the old level is read again.
Changes(level) ==
    level # Button_Last_Level[Key] /\ Debounce_Time[Key] + 1 >= BUTTON_DEBOUNCE_TIME

\* Faulty variant: a press within the time for a double click is a release.
NextStateWithoutDouble(state) == IF state = "NONE" THEN "DOWM" ELSE "UP"

NextState(state) == IF state \in {"NONE", "DOUBLE"} THEN "DOWM" ELSE "UP"

\* State and level as the switch finds them.
State(level) == IF Changes(level) THEN NextState(Button_State[Key]) ELSE Button_State[Key]
Level(level) == IF Changes(level) THEN level ELSE Button_Last_Level[Key]

LongPressed(k) == Button_State[k] = "DOWM" /\ Button_Trigger_Event[k] = "LONG"

\* What every call does: the filter, the histories, the turn of the next key.
Call(level, event) ==
    /\ Button_Last_Level' = [Button_Last_Level EXCEPT ![Key] = Level(level)]
    /\ Debounce_Time' = [Debounce_Time EXCEPT ![Key] =
          IF Changes(level) THEN 0
          ELSE IF level # Button_Last_Level[Key] THEN @ + 1 ELSE @]
    /\ turn' = (turn % KeyNum) + 1
    /\ called' = event
    /\ longed' = [longed EXCEPT ![Key] =
          IF event = "LONG" THEN 1 ELSE IF Changes(level) THEN 0 ELSE @]
    /\ disturbed' = IF /\ Changes(level) /\ Button_Last_Level[Key] = Pressed
                       /\ \E other \in Keys \ {Key} : LongPressed(other)
                    THEN 1 ELSE disturbed

SetState(state) == Button_State' = [Button_State EXCEPT ![Key] = state]
SetLast(state) == Button_Last_State' = [Button_Last_State EXCEPT ![Key] = state]
SetEvent(event) == Button_Trigger_Event' = [Button_Trigger_Event EXCEPT ![Key] = event]
SetTimer(t) == Timer_Count' = [Timer_Count EXCEPT ![Key] = t]
SetLong(t) == Long_Time' = [Long_Time EXCEPT ![Key] = t]
----------------------------------------------------------------------------
(* The callbacks of the enter key.                                         *)

K2_Long_Sem_Release ==
    IF K2_Long_Flag = 1
    THEN UNCHANGED k2
    ELSE IF K2_Long_Counter + 1 > K2_LONG_LIMIT
    THEN K2_Long_Flag' = 1 /\ K2_Long_Counter' = 0      \* rt_sem_release(K2_Long_Sem)
    ELSE K2_Long_Counter' = K2_Long_Counter + 1 /\ UNCHANGED K2_Long_Flag

\* Faulty variant: only the counter is set back.
K2_Long_Free_ReleaseKeepsFlag == UNCHANGED K2_Long_Flag /\ K2_Long_Counter' = 0

K2_Long_Free_Release == K2_Long_Flag' = 0 /\ K2_Long_Counter' = 0
----------------------------------------------------------------------------
(* The switch over the state.                                              *)

\* Held, but not yet for BUTTON_LONG_TIME calls.
HoldShort(level) ==
    /\ State(level) = "DOWM" /\ Level(level) = Pressed
    /\ Long_Time[Key] + 1 < BUTTON_LONG_TIME
    /\ SetState("DOWM") /\ SetEvent("DOWM") /\ SetLong(Long_Time[Key] + 1)
    /\ Call(level, "none")
    /\ UNCHANGED <<Button_Last_State, Timer_Count, LongFlag, k2>>

\* Long_Time is an unsigned byte and is set back before it overflows.
NextLong == IF Long_Time[Key] + 1 = LONG_TIME_LIMIT THEN BUTTON_LONG_TIME ELSE Long_Time[Key] + 1

\* Faulty variant: a long press of a key without a callback for its end does
\* not set the flag.
HoldLongEnterOnly(level) ==
    /\ State(level) = "DOWM" /\ Level(level) = Pressed
    /\ Long_Time[Key] + 1 >= BUTTON_LONG_TIME
    /\ SetState("DOWM") /\ SetEvent("LONG") /\ SetLong(NextLong)
    /\ IF Key = Enter THEN LongFlag' = 1 /\ K2_Long_Sem_Release
       ELSE UNCHANGED <<LongFlag, k2>>
    /\ Call(level, "LONG")
    /\ UNCHANGED <<Button_Last_State, Timer_Count>>

\* Faulty variant: BUTTON_LONG calls back once per press.
HoldLongOnce(level) ==
    /\ State(level) = "DOWM" /\ Level(level) = Pressed
    /\ Long_Time[Key] + 1 >= BUTTON_LONG_TIME
    /\ SetState("DOWM") /\ SetEvent("LONG") /\ SetLong(NextLong)
    /\ LongFlag' = 1
    /\ IF Key = Enter /\ longed[Key] = 0 THEN K2_Long_Sem_Release ELSE UNCHANGED k2
    /\ Call(level, "LONG")
    /\ UNCHANGED <<Button_Last_State, Timer_Count>>

\* A long press: BUTTON_LONG at every call.
HoldLong(level) ==
    /\ State(level) = "DOWM" /\ Level(level) = Pressed
    /\ Long_Time[Key] + 1 >= BUTTON_LONG_TIME
    /\ SetState("DOWM") /\ SetEvent("LONG") /\ SetLong(NextLong)
    /\ LongFlag' = 1
    /\ IF Key = Enter THEN K2_Long_Sem_Release ELSE UNCHANGED k2
    /\ Call(level, "LONG")
    /\ UNCHANGED <<Button_Last_State, Timer_Count>>

\* Faulty variant: the flag outlives the long press.
LongFreeKeepsFlag(level) ==
    /\ State(level) = "UP" /\ LongFlag = 1
    /\ SetState("NONE") /\ SetLast("LONG") /\ SetLong(0)
    /\ IF Key = Enter THEN K2_Long_Free_Release ELSE UNCHANGED k2
    /\ Call(level, "LONG_FREE")
    /\ UNCHANGED <<Button_Trigger_Event, Timer_Count, LongFlag>>

\* The end of a long press, of this key or of another one.
LongFree(level) ==
    /\ State(level) = "UP" /\ LongFlag = 1
    /\ LongFlag' = 0
    /\ SetState("NONE") /\ SetLast("LONG") /\ SetLong(0)
    /\ IF Key = Enter THEN K2_Long_Free_Release ELSE UNCHANGED k2
    /\ Call(level, "LONG_FREE")
    /\ UNCHANGED <<Button_Trigger_Event, Timer_Count>>

IsDouble == Timer_Count[Key] <= BUTTON_DOUBLE_TIME /\ Button_Last_State[Key] = "DOUBLE"

\* The second click of two; no key of this device has a callback for it, and
\* Long_Time is not set back.
DoubleClick(level) ==
    /\ State(level) = "UP" /\ LongFlag = 0
    /\ Button_Trigger_Event[Key] = "DOWM" /\ IsDouble
    /\ SetState("NONE") /\ SetLast("NONE") /\ SetEvent("DOUBLE")
    /\ Call(level, "DOUBLE")
    /\ UNCHANGED <<Timer_Count, Long_Time, LongFlag, k2>>

Click(level) ==
    /\ State(level) = "UP" /\ LongFlag = 0
    /\ Button_Trigger_Event[Key] = "DOWM" /\ ~IsDouble
    /\ SetState("DOUBLE") /\ SetLast("DOUBLE") /\ SetTimer(0) /\ SetLong(0)
    /\ Call(level, "DOWM")
    /\ UNCHANGED <<Button_Trigger_Event, LongFlag, k2>>

\* After a click: the time in which a second one makes a double click.
AwaitDouble(level) ==
    LET over == Timer_Count[Key] + 1 >= BUTTON_DOUBLE_TIME IN
    /\ State(level) = "DOUBLE"
    /\ SetTimer(Timer_Count[Key] + 1)
    /\ SetState(IF over THEN "NONE" ELSE "DOUBLE")
    /\ SetLast(IF over THEN "NONE" ELSE Button_Last_State[Key])
    /\ Call(level, "none")
    /\ UNCHANGED <<Button_Trigger_Event, Long_Time, LongFlag, k2>>

\* A key held during Button_Create is down, by its state, when it is up ...
DownReleased(level) == State(level) = "DOWM" /\ Level(level) = Released
\* ... and up after something else than a press there is no way out.
NoWayOut(level) == State(level) = "UP" /\ LongFlag = 0 /\ Button_Trigger_Event[Key] # "DOWM"

\* Nothing but the filter.
Rest(level) ==
    /\ \/ State(level) = "NONE"
       \/ DownReleased(level)
       \/ NoWayOut(level)
    /\ SetState(State(level))
    /\ Call(level, "none")
    /\ UNCHANGED <<Button_Last_State, Button_Trigger_Event, Timer_Count, Long_Time,
                   LongFlag, k2>>

Button_Cycle_Process(level) ==
    \/ HoldShort(level) \/ HoldLong(level)
    \/ LongFree(level) \/ DoubleClick(level) \/ Click(level)
    \/ AwaitDouble(level) \/ Rest(level)

Next == \E level \in Levels : Button_Cycle_Process(level)

\* button_task has the highest priority but one and never waits for long.
Spec == Init /\ [][Next]_vars /\ WF_vars(Next)
----------------------------------------------------------------------------
(* Properties.                                                             *)

\* LongFlag is only set while some key is in a long press: a flag that were
\* left over would turn the next click of any key into the end of a long press.
LongFlagHasOwner == LongFlag = 1 => \E k \in Keys : LongPressed(k)

\* If nothing disturbed it, a key is down exactly if its state says so, no
\* key is left in BUTTON_UP, where it would be dead, and the flag is there
\* for the long press that will need it.
NeverStuck ==
    disturbed = 0 => \A k \in Keys :
        /\ Button_State[k] # "UP"
        /\ Button_State[k] = "DOWM" <=> Button_Last_Level[k] = Pressed
        /\ LongPressed(k) => LongFlag = 1

\* The semaphore that opens the menu is released once per press: the flag is
\* set only while the enter key is held, and is no more when it is let go.
MenuOncePerPress == disturbed = 0 /\ K2_Long_Flag = 1 => LongPressed(Enter)

\* The release of a key has one outcome: the end of the long press if the
\* press called back BUTTON_LONG, otherwise a click or a double click.
ReleaseAnswered ==
    [][\A k \in Keys :
          disturbed' = 0 /\ Button_Last_Level[k] = Pressed /\ Button_Last_Level'[k] = Released
          => called' \in IF longed[k] = 1 THEN {"LONG_FREE"} ELSE {"DOWM", "DOUBLE"}]_vars

\* Whoever holds the enter key long enough gets the menu.
MenuOpens ==
    (disturbed = 0 /\ Button_Last_Level[Enter] = Pressed)
        ~> (disturbed = 1 \/ Button_Last_Level[Enter] = Released \/ K2_Long_Flag = 1)
=============================================================================

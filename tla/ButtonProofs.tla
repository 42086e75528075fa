---------------------------- MODULE ButtonProofs ----------------------------
(***************************************************************************)
(* Proofs about Button, for any number of keys and any times.              *)
(***************************************************************************)
EXTENDS Button, TLAPS

\* The key that set LongFlag is still held, by level and by state.
Holder(k) == LongPressed(k) /\ Button_Last_Level[k] = Pressed
FlagHeld == LongFlag = 1 => \E k \in Keys : Holder(k)

\* Long_Time stays over the limit until the key is let go.
LongCounted == \A k \in Keys : Holder(k) => Long_Time[k] >= BUTTON_LONG_TIME

\* If nothing disturbed it, a key that is down has an event to answer.
DownHasEvent ==
    disturbed = 0 => \A k \in Keys :
        Button_State[k] = "DOWM" => Button_Trigger_Event[k] \in {"DOWM", "LONG"}

IInv ==
    /\ FlagHeld
    /\ LongCounted
    /\ DownHasEvent
    /\ NeverStuck
    /\ MenuOncePerPress

\* The filter changes level and state together; it never enters BUTTON_DOUBLE.
LEMMA FilterFacts ==
    ASSUME TypeOK, NEW level \in Levels
    PROVE  /\ Key \in Keys
           /\ State(level) \in {"NONE", "DOWM", "UP", "DOUBLE"}
           /\ Level(level) \in Levels
           /\ State(level) = "DOUBLE" => Button_State[Key] = "DOUBLE"
           /\ ~Changes(level) => State(level) = Button_State[Key]
                                 /\ Level(level) = Button_Last_Level[Key]
           /\ Changes(level) => State(level) = NextState(Button_State[Key])
                                /\ Level(level) = level /\ level # Button_Last_Level[Key]
<1>1. Key \in Keys
  BY ButtonConstants DEF ButtonConstants, TypeOK, Key
<1>2. Button_State[Key] \in {"NONE", "DOWM", "UP", "DOUBLE"} /\ Button_Last_Level[Key] \in Levels
  BY <1>1 DEF TypeOK
<1> QED BY <1>1, <1>2 DEF State, Level, Changes, NextState

\* Type correctness of a call, by what the actions assign.
LEMMA CallType ==
    ASSUME TypeOK, NEW level \in Levels,
           NEW e \in {"none", "DOWM", "DOUBLE", "LONG", "LONG_FREE"}, Call(level, e)
    PROVE  /\ Button_Last_Level' \in [Keys -> Levels]
           /\ Debounce_Time' \in [Keys -> 0 .. BUTTON_DEBOUNCE_TIME - 1]
           /\ turn' \in 1 .. KeyNum
           /\ called' \in {"none", "DOWM", "DOUBLE", "LONG", "LONG_FREE"}
           /\ longed' \in [Keys -> 0 .. 1]
           /\ disturbed' \in 0 .. 1
<1> USE ButtonConstants DEF ButtonConstants
<1>1. Key \in Keys /\ Level(level) \in Levels
  BY FilterFacts
<1>2. Button_Last_Level' \in [Keys -> Levels]
  BY <1>1 DEF TypeOK, Call
<1>3. Debounce_Time' \in [Keys -> 0 .. BUTTON_DEBOUNCE_TIME - 1]
  <2>1. Debounce_Time[Key] \in 0 .. BUTTON_DEBOUNCE_TIME - 1
    BY <1>1 DEF TypeOK
  <2> DEFINE d == IF Changes(level) THEN 0
                  ELSE IF level # Button_Last_Level[Key] THEN Debounce_Time[Key] + 1
                  ELSE Debounce_Time[Key]
  <2>2. d \in 0 .. BUTTON_DEBOUNCE_TIME - 1
    BY <2>1 DEF Changes
  <2>3. Debounce_Time' = [Debounce_Time EXCEPT ![Key] = d]
    BY DEF Call
  <2> HIDE DEF d
  <2> QED BY <1>1, <2>2, <2>3 DEF TypeOK
<1>4. turn' \in 1 .. KeyNum
  BY DEF TypeOK, Call
<1>5. longed' \in [Keys -> 0 .. 1]
  BY <1>1 DEF TypeOK, Call
<1>6. called' = e /\ disturbed' \in 0 .. 1
  BY DEF TypeOK, Call
<1> QED BY <1>2, <1>3, <1>4, <1>5, <1>6

\* The fields of a button and the flags, as their types say.
FieldsOK ==
    /\ Button_State \in [Keys -> {"NONE", "DOWM", "UP", "DOUBLE"}]
    /\ Button_Last_State \in [Keys -> {"NONE", "DOUBLE", "LONG"}]
    /\ Button_Trigger_Event \in [Keys -> {"NONE", "DOWM", "DOUBLE", "LONG"}]
    /\ Timer_Count \in [Keys -> 0 .. BUTTON_DOUBLE_TIME]
    /\ \A k \in Keys : Button_State[k] = "DOUBLE" => Timer_Count[k] < BUTTON_DOUBLE_TIME
    /\ Long_Time \in [Keys -> 0 .. LONG_TIME_LIMIT - 1]
    /\ LongFlag \in 0 .. 1
    /\ K2_Long_Flag \in 0 .. 1
    /\ K2_Long_Counter \in 0 .. K2_LONG_LIMIT

LEMMA TypeStep == TypeOK /\ [Next]_vars => TypeOK'
<1> SUFFICES ASSUME TypeOK, [Next]_vars PROVE TypeOK'
  OBVIOUS
<1> USE ButtonConstants DEF ButtonConstants
<1>1. CASE UNCHANGED vars
  BY <1>1 DEF TypeOK, vars, k2
<1>2. ASSUME NEW level \in Levels, Button_Cycle_Process(level) PROVE TypeOK'
  <2>1. Key \in Keys /\ (State(level) = "DOUBLE" => Button_State[Key] = "DOUBLE")
        /\ State(level) \in {"NONE", "DOWM", "UP", "DOUBLE"}
    BY FilterFacts
  <2>2. Long_Time[Key] \in 0 .. LONG_TIME_LIMIT - 1 /\ Timer_Count[Key] \in 0 .. BUTTON_DOUBLE_TIME
        /\ Button_Last_State[Key] \in {"NONE", "DOUBLE", "LONG"}
    BY <2>1 DEF TypeOK
  <2>3. FieldsOK
    BY DEF TypeOK, FieldsOK
  <2>4. /\ K2_Long_Sem_Release => K2_Long_Flag' \in 0 .. 1 /\ K2_Long_Counter' \in 0 .. K2_LONG_LIMIT
        /\ K2_Long_Free_Release => K2_Long_Flag' \in 0 .. 1 /\ K2_Long_Counter' \in 0 .. K2_LONG_LIMIT
        /\ UNCHANGED k2 => K2_Long_Flag' \in 0 .. 1 /\ K2_Long_Counter' \in 0 .. K2_LONG_LIMIT
    <3>1. K2_Long_Flag \in 0 .. 1 /\ K2_Long_Counter \in 0 .. K2_LONG_LIMIT /\ K2_LONG_LIMIT \in Nat
      BY DEF TypeOK
    <3>2. K2_Long_Counter + 1 \in Nat
          /\ (~(K2_Long_Counter + 1 > K2_LONG_LIMIT) => K2_Long_Counter + 1 \in 0 .. K2_LONG_LIMIT)
          /\ 0 \in 0 .. K2_LONG_LIMIT /\ 0 \in 0 .. 1 /\ 1 \in 0 .. 1
      BY <3>1
    <3>3. UNCHANGED k2 => K2_Long_Flag' \in 0 .. 1 /\ K2_Long_Counter' \in 0 .. K2_LONG_LIMIT
      BY <3>1 DEF k2
    <3>4. K2_Long_Free_Release => K2_Long_Flag' \in 0 .. 1 /\ K2_Long_Counter' \in 0 .. K2_LONG_LIMIT
      BY <3>2 DEF K2_Long_Free_Release
    <3>5. K2_Long_Sem_Release => K2_Long_Flag' \in 0 .. 1 /\ K2_Long_Counter' \in 0 .. K2_LONG_LIMIT
      BY <3>1, <3>2, <3>3 DEF K2_Long_Sem_Release
    <3> QED BY <3>3, <3>4, <3>5
  <2>5. FieldsOK' /\ \E e \in {"none", "DOWM", "DOUBLE", "LONG", "LONG_FREE"} : Call(level, e)
    <3>1. CASE HoldShort(level)
      <4>1. Long_Time[Key] + 1 \in 0 .. LONG_TIME_LIMIT - 1
        BY <3>1, <2>2 DEF HoldShort
      <4> QED BY <4>1, <3>1, <2>1, <2>3, <2>4 DEF HoldShort, FieldsOK, SetState, SetEvent, SetLong
    <3>2. CASE HoldLong(level)
      <4>1. NextLong \in 0 .. LONG_TIME_LIMIT - 1
        BY <2>2 DEF NextLong
      <4>2. K2_Long_Flag' \in 0 .. 1 /\ K2_Long_Counter' \in 0 .. K2_LONG_LIMIT
        BY <3>2, <2>4 DEF HoldLong
      <4>3. /\ Button_State' = [Button_State EXCEPT ![Key] = "DOWM"]
            /\ Button_Trigger_Event' = [Button_Trigger_Event EXCEPT ![Key] = "LONG"]
            /\ Long_Time' = [Long_Time EXCEPT ![Key] = NextLong]
            /\ LongFlag' = 1 /\ UNCHANGED <<Button_Last_State, Timer_Count>>
            /\ Call(level, "LONG")
        BY <3>2 DEF HoldLong, SetState, SetEvent, SetLong
      <4> QED BY <4>1, <4>2, <4>3, <2>1, <2>3 DEF FieldsOK
    <3>3. CASE LongFree(level)
      BY <3>3, <2>1, <2>3, <2>4 DEF LongFree, FieldsOK, SetState, SetLast, SetLong
    <3>4. CASE DoubleClick(level)
      BY <3>4, <2>1, <2>3, <2>4 DEF DoubleClick, FieldsOK, SetState, SetLast, SetEvent
    <3>5. CASE Click(level)
      BY <3>5, <2>1, <2>3, <2>4 DEF Click, FieldsOK, SetState, SetLast, SetTimer, SetLong
    <3>6. CASE AwaitDouble(level)
      <4>1. Timer_Count[Key] + 1 \in 0 .. BUTTON_DOUBLE_TIME
        BY <3>6, <2>1, <2>2, <2>3 DEF AwaitDouble, FieldsOK
      <4> DEFINE over == Timer_Count[Key] + 1 >= BUTTON_DOUBLE_TIME
                 s == IF over THEN "NONE" ELSE "DOUBLE"
                 l == IF over THEN "NONE" ELSE Button_Last_State[Key]
      <4>2. /\ Timer_Count' = [Timer_Count EXCEPT ![Key] = Timer_Count[Key] + 1]
            /\ Button_State' = [Button_State EXCEPT ![Key] = s]
            /\ Button_Last_State' = [Button_Last_State EXCEPT ![Key] = l]
            /\ UNCHANGED <<Button_Trigger_Event, Long_Time, LongFlag>>
            /\ UNCHANGED k2 /\ Call(level, "none")
        BY <3>6 DEF AwaitDouble, SetState, SetLast, SetTimer
      <4>3. /\ s \in {"NONE", "DOUBLE"} /\ l \in {"NONE", "DOUBLE", "LONG"}
            /\ s = "DOUBLE" => Timer_Count[Key] + 1 < BUTTON_DOUBLE_TIME
        BY <2>2, <4>1
      <4>4. K2_Long_Flag' \in 0 .. 1 /\ K2_Long_Counter' \in 0 .. K2_LONG_LIMIT
        BY <4>2, <2>4
      <4> HIDE DEF s, l
      <4>5. /\ Timer_Count' \in [Keys -> 0 .. BUTTON_DOUBLE_TIME]
            /\ Button_State' \in [Keys -> {"NONE", "DOWM", "UP", "DOUBLE"}]
            /\ Button_Last_State' \in [Keys -> {"NONE", "DOUBLE", "LONG"}]
        BY <4>1, <4>2, <4>3, <2>1, <2>3 DEF FieldsOK
      <4>6. \A k \in Keys : Button_State'[k] = "DOUBLE" => Timer_Count'[k] < BUTTON_DOUBLE_TIME
        BY <4>2, <4>3, <2>1, <2>3 DEF FieldsOK
      <4> QED BY <4>2, <4>4, <4>5, <4>6, <2>3 DEF FieldsOK
    <3>7. CASE Rest(level)
      BY <3>7, <2>1, <2>3, <2>4 DEF Rest, FieldsOK, SetState
    <3> QED BY <1>2, <3>1, <3>2, <3>3, <3>4, <3>5, <3>6, <3>7 DEF Button_Cycle_Process
  <2>6. PICK e \in {"none", "DOWM", "DOUBLE", "LONG", "LONG_FREE"} : Call(level, e)
    BY <2>5
  <2>7. /\ Button_Last_Level' \in [Keys -> Levels]
        /\ Debounce_Time' \in [Keys -> 0 .. BUTTON_DEBOUNCE_TIME - 1]
        /\ turn' \in 1 .. KeyNum
        /\ called' \in {"none", "DOWM", "DOUBLE", "LONG", "LONG_FREE"}
        /\ longed' \in [Keys -> 0 .. 1]
        /\ disturbed' \in 0 .. 1
    BY <2>6, CallType
  <2> QED BY <2>5, <2>7 DEF TypeOK, FieldsOK
<1> QED BY <1>1, <1>2 DEF Next

\* A call leaves the other keys alone and gives this one the filtered level.
LEMMA OthersSame ==
    ASSUME TypeOK, NEW level \in Levels, Button_Cycle_Process(level)
    PROVE  /\ \A k \in Keys \ {Key} :
                 /\ Button_State'[k] = Button_State[k]
                 /\ Button_Trigger_Event'[k] = Button_Trigger_Event[k]
                 /\ Button_Last_Level'[k] = Button_Last_Level[k]
                 /\ Long_Time'[k] = Long_Time[k]
           /\ Button_Last_Level'[Key] = Level(level)
           /\ disturbed' = 0 =>
                 /\ disturbed = 0
                 /\ Changes(level) /\ Button_Last_Level[Key] = Pressed =>
                       \A k \in Keys \ {Key} : ~LongPressed(k)
<1>1. Key \in Keys
  BY FilterFacts
<1>2. \E e : Call(level, e)
  BY DEF Button_Cycle_Process, HoldShort, HoldLong, LongFree, DoubleClick, Click, AwaitDouble, Rest
<1>3. /\ \A k \in Keys \ {Key} : Button_Last_Level'[k] = Button_Last_Level[k]
      /\ Button_Last_Level'[Key] = Level(level)
  BY <1>1, <1>2 DEF Call, TypeOK
<1>4. disturbed' = 0 =>
         /\ disturbed = 0
         /\ Changes(level) /\ Button_Last_Level[Key] = Pressed =>
               \A k \in Keys \ {Key} : ~LongPressed(k)
  BY <1>2 DEF Call
<1>5. \A k \in Keys \ {Key} : Button_State'[k] = Button_State[k]
  <2>1. \E v : SetState(v)
    BY DEF Button_Cycle_Process, HoldShort, HoldLong, LongFree, DoubleClick, Click, AwaitDouble, Rest
  <2> QED BY <2>1 DEF SetState, TypeOK
<1>6. \A k \in Keys \ {Key} : Button_Trigger_Event'[k] = Button_Trigger_Event[k]
  <2>1. (\E v : SetEvent(v)) \/ UNCHANGED Button_Trigger_Event
    BY DEF Button_Cycle_Process, HoldShort, HoldLong, LongFree, DoubleClick, Click, AwaitDouble, Rest
  <2> QED BY <2>1 DEF SetEvent, TypeOK
<1>7. \A k \in Keys \ {Key} : Long_Time'[k] = Long_Time[k]
  <2>1. (\E v : SetLong(v)) \/ UNCHANGED Long_Time
    BY DEF Button_Cycle_Process, HoldShort, HoldLong, LongFree, DoubleClick, Click, AwaitDouble, Rest
  <2> QED BY <2>1 DEF SetLong, TypeOK
<1> QED BY <1>3, <1>4, <1>5, <1>6, <1>7

\* How this key's call ends, and what it does to the flag.
LEMMA KeyOutcome ==
    ASSUME TypeOK, NEW level \in Levels, Button_Cycle_Process(level)
    PROVE  \/ /\ State(level) = "DOWM" /\ Level(level) = Pressed
              /\ Long_Time[Key] + 1 < BUTTON_LONG_TIME
              /\ Button_State'[Key] = "DOWM" /\ Button_Trigger_Event'[Key] = "DOWM"
              /\ LongFlag' = LongFlag /\ K2_Long_Flag' = K2_Long_Flag
           \/ /\ State(level) = "DOWM" /\ Level(level) = Pressed
              /\ Button_State'[Key] = "DOWM" /\ Button_Trigger_Event'[Key] = "LONG"
              /\ Long_Time'[Key] >= BUTTON_LONG_TIME
              /\ LongFlag' = 1 /\ (Key # Enter => K2_Long_Flag' = K2_Long_Flag)
           \/ /\ State(level) = "UP" /\ LongFlag = 1
              /\ Button_State'[Key] = "NONE"
              /\ LongFlag' = 0
              /\ K2_Long_Flag' = IF Key = Enter THEN 0 ELSE K2_Long_Flag
           \/ /\ State(level) = "UP" /\ LongFlag = 0 /\ Button_Trigger_Event[Key] = "DOWM"
              /\ Button_State'[Key] \in {"NONE", "DOUBLE"}
              /\ LongFlag' = LongFlag /\ K2_Long_Flag' = K2_Long_Flag
           \/ /\ State(level) = "DOUBLE"
              /\ Button_State'[Key] \in {"NONE", "DOUBLE"}
              /\ LongFlag' = LongFlag /\ K2_Long_Flag' = K2_Long_Flag
           \/ /\ \/ State(level) = "NONE"
                 \/ State(level) = "DOWM" /\ Level(level) = Released
                 \/ State(level) = "UP" /\ LongFlag = 0 /\ Button_Trigger_Event[Key] # "DOWM"
              /\ Button_State'[Key] = State(level)
              /\ LongFlag' = LongFlag /\ K2_Long_Flag' = K2_Long_Flag
<1>1. Key \in Keys
  BY FilterFacts
<1>2. \A v : SetState(v) => Button_State'[Key] = v
  BY <1>1 DEF SetState, TypeOK
<1>3. \A v : SetEvent(v) => Button_Trigger_Event'[Key] = v
  BY <1>1 DEF SetEvent, TypeOK
<1>4. CASE HoldShort(level)
  BY <1>4, <1>2, <1>3 DEF HoldShort, k2
<1>5. CASE HoldLong(level)
  <2>1. Long_Time'[Key] = NextLong
    BY <1>5, <1>1 DEF HoldLong, SetLong, TypeOK
  <2>2. NextLong >= BUTTON_LONG_TIME
    BY <1>5, ButtonConstants DEF HoldLong, NextLong, ButtonConstants
  <2>3. Key # Enter => K2_Long_Flag' = K2_Long_Flag
    BY <1>5 DEF HoldLong, k2
  <2> QED BY <2>1, <2>2, <2>3, <1>5, <1>2, <1>3 DEF HoldLong
<1>6. CASE LongFree(level)
  <2>1. K2_Long_Flag' = IF Key = Enter THEN 0 ELSE K2_Long_Flag
    BY <1>6 DEF LongFree, K2_Long_Free_Release, k2
  <2> QED BY <2>1, <1>6, <1>2 DEF LongFree
<1>7. CASE DoubleClick(level)
  BY <1>7, <1>2 DEF DoubleClick, k2
<1>8. CASE Click(level)
  BY <1>8, <1>2 DEF Click, k2
<1>9. CASE AwaitDouble(level)
  BY <1>9, <1>2 DEF AwaitDouble, k2
<1>10. CASE Rest(level)
  BY <1>10, <1>2 DEF Rest, k2, DownReleased, NoWayOut
<1> QED BY <1>4, <1>5, <1>6, <1>7, <1>8, <1>9, <1>10 DEF Button_Cycle_Process

LEMMA IInvStep == TypeOK /\ IInv /\ [Next]_vars => IInv'
<1> SUFFICES ASSUME TypeOK, IInv, [Next]_vars PROVE IInv'
  OBVIOUS
<1>1. CASE UNCHANGED vars
  BY <1>1 DEF IInv, FlagHeld, LongCounted, DownHasEvent, NeverStuck, MenuOncePerPress,
              Holder, LongPressed, vars, k2
<1>2. ASSUME NEW level \in Levels, Button_Cycle_Process(level) PROVE IInv'
  <2>1. TypeOK'
    BY <1>2, TypeStep DEF Next
  <2>2. Key \in Keys /\ Enter \in Keys /\ Pressed # Released /\ level \in {Pressed, Released}
        /\ Button_State[Key] \in {"NONE", "DOWM", "UP", "DOUBLE"}
        /\ Button_Last_Level[Key] \in {Pressed, Released}
        /\ Long_Time[Key] \in Nat /\ BUTTON_LONG_TIME \in Nat
        /\ LongFlag \in {0, 1} /\ K2_Long_Flag \in {0, 1}
    <3>1. Key \in Keys
      BY FilterFacts
    <3>2. Enter \in Keys /\ BUTTON_LONG_TIME \in Nat
      BY ButtonConstants DEF ButtonConstants
    <3>3. Pressed # Released /\ level \in {Pressed, Released}
      BY DEF Levels, Pressed, Released
    <3>4. /\ Button_State[Key] \in {"NONE", "DOWM", "UP", "DOUBLE"}
          /\ Button_Last_Level[Key] \in {Pressed, Released}
      BY <3>1 DEF TypeOK, Levels
    <3>5. Long_Time[Key] \in Nat
      BY <3>1, ButtonConstants DEF ButtonConstants, TypeOK
    <3>6. LongFlag \in {0, 1} /\ K2_Long_Flag \in {0, 1}
      BY DEF TypeOK
    <3> QED BY <3>1, <3>2, <3>3, <3>4, <3>5, <3>6
  \* The states the switch can find, from the one before the filter.
  <2>3. /\ State(level) = "NONE" => ~Changes(level) /\ Button_State[Key] = "NONE"
        /\ State(level) = "DOUBLE" => ~Changes(level) /\ Button_State[Key] = "DOUBLE"
        /\ State(level) = "UP" => Button_State[Key] \in {"DOWM", "UP"}
        /\ State(level) = "UP" /\ Button_State[Key] = "DOWM" => Changes(level)
        /\ State(level) = "DOWM" /\ Changes(level) => Button_State[Key] \in {"NONE", "DOUBLE"}
        /\ State(level) = "DOWM" /\ ~Changes(level) => Button_State[Key] = "DOWM"
        /\ ~Changes(level) => Level(level) = Button_Last_Level[Key]
        /\ Changes(level) => Level(level) = level /\ level # Button_Last_Level[Key]
    BY <2>2, FilterFacts DEF NextState
  <2> DEFINE Same(k) == /\ Button_State'[k] = Button_State[k]
                        /\ Button_Trigger_Event'[k] = Button_Trigger_Event[k]
                        /\ Button_Last_Level'[k] = Button_Last_Level[k]
                        /\ Long_Time'[k] = Long_Time[k]
  <2>4. /\ \A k \in Keys \ {Key} : Same(k)
        /\ Button_Last_Level'[Key] = Level(level)
        /\ disturbed' = 0 =>
              /\ disturbed = 0
              /\ Changes(level) /\ Button_Last_Level[Key] = Pressed =>
                    \A k \in Keys \ {Key} : ~LongPressed(k)
    BY <1>2, OthersSame
  \* A call that finds a key in the middle of its long press goes on with it
  \* or takes the flag.
  <2>5. Holder(Key) => \/ /\ Button_State'[Key] = "DOWM" /\ Button_Trigger_Event'[Key] = "LONG"
                          /\ Level(level) = Pressed /\ LongFlag' = 1
                       \/ State(level) = "UP" /\ LongFlag' = 0
    <3> SUFFICES ASSUME Holder(Key)
                 PROVE  \/ /\ Button_State'[Key] = "DOWM" /\ Button_Trigger_Event'[Key] = "LONG"
                           /\ Level(level) = Pressed /\ LongFlag' = 1
                        \/ State(level) = "UP" /\ LongFlag' = 0
      OBVIOUS
    <3>1. /\ Button_State[Key] = "DOWM" /\ Button_Trigger_Event[Key] = "LONG"
          /\ Button_Last_Level[Key] = Pressed /\ Long_Time[Key] >= BUTTON_LONG_TIME
      BY <2>2 DEF Holder, LongPressed, IInv, LongCounted
    <3> QED BY <3>1, <2>2, <2>3, <1>2, KeyOutcome
  <2>6. FlagHeld'
    <3> SUFFICES ASSUME LongFlag' = 1 PROVE (\E k \in Keys : Holder(k))'
      BY DEF FlagHeld
    <3>1. CASE Button_State'[Key] = "DOWM" /\ Button_Trigger_Event'[Key] = "LONG"
               /\ Level(level) = Pressed
      BY <3>1, <2>2, <2>4 DEF Holder, LongPressed
    <3>2. CASE LongFlag = 1
      <4>1. PICK k \in Keys : Holder(k)
        BY <3>2 DEF IInv, FlagHeld
      <4>2. CASE k = Key
        BY <4>1, <4>2, <2>5, <3>1
      <4>3. CASE k # Key
        BY <4>1, <4>3, <2>4 DEF Holder, LongPressed
      <4> QED BY <4>2, <4>3
    <3> QED BY <3>1, <3>2, <2>2, <1>2, KeyOutcome
  <2>7. LongCounted'
    <3> SUFFICES ASSUME NEW k \in Keys, Holder(k)' PROVE (Long_Time[k] >= BUTTON_LONG_TIME)'
      BY DEF LongCounted
    <3>1. CASE k # Key
      BY <3>1, <2>4 DEF Holder, LongPressed, IInv, LongCounted
    <3>2. CASE k = Key
      <4>1. Button_State'[Key] = "DOWM" /\ Button_Trigger_Event'[Key] = "LONG" /\ Level(level) = Pressed
        BY <3>2, <2>4 DEF Holder, LongPressed
      <4> QED BY <4>1, <3>2, <2>2, <1>2, KeyOutcome
    <3> QED BY <3>1, <3>2
  \* Without disturbance the switch never finds this key where it gets stuck.
  <2>8. disturbed' = 0 =>
           /\ State(level) = "DOWM" => Level(level) = Pressed
           /\ State(level) = "UP" =>
                 /\ Level(level) = Released
                 /\ \A k \in Keys \ {Key} : ~LongPressed(k)
                 /\ LongFlag = 0 => Button_Trigger_Event[Key] = "DOWM"
           /\ State(level) \in {"NONE", "DOUBLE"} => Level(level) # Pressed
    <3> SUFFICES ASSUME disturbed' = 0
                 PROVE  /\ State(level) = "DOWM" => Level(level) = Pressed
                        /\ State(level) = "UP" =>
                              /\ Level(level) = Released
                              /\ \A k \in Keys \ {Key} : ~LongPressed(k)
                              /\ LongFlag = 0 => Button_Trigger_Event[Key] = "DOWM"
                        /\ State(level) \in {"NONE", "DOUBLE"} => Level(level) # Pressed
      OBVIOUS
    <3>1. /\ Button_State[Key] # "UP"
          /\ Button_State[Key] = "DOWM" <=> Button_Last_Level[Key] = Pressed
          /\ LongPressed(Key) => LongFlag = 1
          /\ Button_State[Key] = "DOWM" => Button_Trigger_Event[Key] \in {"DOWM", "LONG"}
      BY <2>2, <2>4 DEF IInv, NeverStuck, DownHasEvent
    <3>2. State(level) = "DOWM" => Level(level) = Pressed
      BY <3>1, <2>2, <2>3
    <3>3. State(level) = "UP" => Changes(level) /\ Button_State[Key] = "DOWM"
                                 /\ Level(level) = Released
      BY <3>1, <2>2, <2>3
    <3>4. State(level) \in {"NONE", "DOUBLE"} => Level(level) # Pressed
      BY <3>1, <2>2, <2>3
    <3> QED BY <3>1, <3>2, <3>3, <3>4, <2>2, <2>4 DEF LongPressed
  <2>9. NeverStuck'
    <3> SUFFICES ASSUME disturbed' = 0, NEW k \in Keys
                 PROVE  /\ Button_State'[k] # "UP"
                        /\ Button_State'[k] = "DOWM" <=> Button_Last_Level'[k] = Pressed
                        /\ LongPressed(k)' => LongFlag' = 1
      BY DEF NeverStuck
    <3>1. CASE k # Key
      <4>1. /\ Button_State[k] # "UP"
            /\ Button_State[k] = "DOWM" <=> Button_Last_Level[k] = Pressed
            /\ LongPressed(k) => LongFlag = 1
        BY <2>4 DEF IInv, NeverStuck
      <4>2. LongPressed(k)' <=> LongPressed(k)
        BY <3>1, <2>4 DEF LongPressed
      <4>3. LongPressed(k) => LongFlag' = 1
        BY <4>1, <3>1, <2>8, <2>2, <1>2, KeyOutcome
      <4> QED BY <4>1, <4>2, <4>3, <3>1, <2>4
    <3>2. CASE k = Key
      <4>1. /\ Button_State'[Key] # "UP"
            /\ Button_State'[Key] = "DOWM" <=> Level(level) = Pressed
            /\ Button_State'[Key] = "DOWM" /\ Button_Trigger_Event'[Key] = "LONG" => LongFlag' = 1
        BY <2>8, <2>2, <1>2, KeyOutcome
      <4> QED BY <4>1, <3>2, <2>4 DEF LongPressed
    <3> QED BY <3>1, <3>2
  <2>10. DownHasEvent'
    <3> SUFFICES ASSUME disturbed' = 0, NEW k \in Keys, Button_State'[k] = "DOWM"
                 PROVE  Button_Trigger_Event'[k] \in {"DOWM", "LONG"}
      BY DEF DownHasEvent
    <3>1. CASE k # Key
      BY <3>1, <2>4 DEF IInv, DownHasEvent
    <3>2. CASE k = Key
      BY <3>2, <2>8, <2>2, <1>2, KeyOutcome
    <3> QED BY <3>1, <3>2
  <2>11. MenuOncePerPress'
    <3> SUFFICES ASSUME disturbed' = 0, K2_Long_Flag' = 1 PROVE LongPressed(Enter)'
      BY DEF MenuOncePerPress
    <3>1. CASE Key # Enter
      <4>1. K2_Long_Flag = 1
        BY <3>1, <1>2, KeyOutcome
      <4> QED BY <4>1, <3>1, <2>2, <2>4 DEF IInv, MenuOncePerPress, LongPressed
    <3>2. CASE Key = Enter
      <4>1. K2_Long_Flag = 1 => Holder(Key) /\ LongFlag = 1
        BY <3>2, <2>2, <2>4 DEF IInv, MenuOncePerPress, NeverStuck, Holder, LongPressed
      <4>2. CASE K2_Long_Flag = 1
        <5>1. State(level) = "UP" => K2_Long_Flag' = 0
          BY <4>1, <4>2, <3>2, <2>2, <1>2, KeyOutcome
        <5> QED BY <5>1, <4>1, <4>2, <3>2, <2>5 DEF LongPressed
      <4>3. CASE K2_Long_Flag = 0
        <5>1. Button_State'[Key] = "DOWM" /\ Button_Trigger_Event'[Key] = "LONG"
          BY <4>3, <3>2, <1>2, KeyOutcome
        <5> QED BY <5>1, <3>2 DEF LongPressed
      <4> QED BY <4>2, <4>3, <2>2
    <3> QED BY <3>1, <3>2
  <2> QED BY <2>6, <2>7, <2>9, <2>10, <2>11 DEF IInv
<1> QED BY <1>1, <1>2 DEF Next

LEMMA InitOK == Init => TypeOK /\ IInv
<1> USE ButtonConstants DEF ButtonConstants
<1>1. Init => TypeOK
  BY DEF Init, TypeOK, Levels
<1>2. Init => IInv
  BY DEF Init, IInv, FlagHeld, LongCounted, DownHasEvent, NeverStuck, MenuOncePerPress,
         Holder, LongPressed, Pressed, Released
<1> QED BY <1>1, <1>2

\* Every variable keeps its type; Long_Time and Timer_Count stay in bounds.
THEOREM TypeCorrect == Spec => []TypeOK
<1>1. Init => TypeOK
  BY InitOK
<1> QED BY <1>1, TypeStep, PTL DEF Spec

\* LongFlag never outlives the long press that set it (button.c:261, 285),
\* whatever keys are pressed together.
THEOREM FlagHasOwner == Spec => []LongFlagHasOwner
<1>1. IInv => LongFlagHasOwner
  BY DEF IInv, FlagHeld, Holder, LongFlagHasOwner
<1> QED BY <1>1, InitOK, TypeStep, IInvStep, PTL DEF Spec

\* No key is left in BUTTON_UP, or out of step with its level, unless it was
\* held during Button_Create or let go in another one's long press.
THEOREM KeysNeverStuck == Spec => []NeverStuck
<1>1. IInv => NeverStuck
  BY DEF IInv
<1> QED BY <1>1, InitOK, TypeStep, IInvStep, PTL DEF Spec

\* The menu's semaphore is released once per press of the enter key.
THEOREM MenuOnce == Spec => []MenuOncePerPress
<1>1. IInv => MenuOncePerPress
  BY DEF IInv
<1> QED BY <1>1, InitOK, TypeStep, IInvStep, PTL DEF Spec

\* Without disturbance, the event of a key that is down says whether its
\* press has called back BUTTON_LONG.
EventTells ==
    disturbed = 0 => \A k \in Keys :
        Button_State[k] = "DOWM" => (longed[k] = 1 <=> Button_Trigger_Event[k] = "LONG")

\* What a call does to the history of its own key's press.
LEMMA LongedFacts ==
    ASSUME TypeOK, NEW level \in Levels, NEW event, Call(level, event)
    PROVE  /\ \A k \in Keys \ {Key} : longed'[k] = longed[k]
           /\ event = "LONG" => longed'[Key] = 1
           /\ event # "LONG" => longed'[Key] = IF Changes(level) THEN 0 ELSE longed[Key]
  BY FilterFacts DEF Call, TypeOK

LEMMA EventTellsStep == TypeOK /\ IInv /\ EventTells /\ [Next]_vars => EventTells'
<1> SUFFICES ASSUME TypeOK, IInv, EventTells, [Next]_vars PROVE EventTells'
  OBVIOUS
<1>1. CASE UNCHANGED vars
  BY <1>1 DEF EventTells, vars
<1>2. ASSUME NEW level \in Levels, Button_Cycle_Process(level) PROVE EventTells'
  <2> SUFFICES ASSUME disturbed' = 0, NEW k \in Keys, Button_State'[k] = "DOWM"
               PROVE  longed'[k] = 1 <=> Button_Trigger_Event'[k] = "LONG"
    BY DEF EventTells
  <2>1. disturbed = 0 /\ Key \in Keys
    BY <1>2, OthersSame, FilterFacts
  <2>2. CASE k # Key
    <3>1. longed'[k] = longed[k]
      <4>1. PICK e : Call(level, e)
        BY <1>2 DEF Button_Cycle_Process, HoldShort, HoldLong, LongFree, DoubleClick, Click,
                    AwaitDouble, Rest
      <4> QED BY <4>1, <2>2, LongedFacts
    <3> QED BY <3>1, <2>1, <2>2, <1>2, OthersSame DEF EventTells
  <2>3. CASE k = Key
    <3>1. \A v : (SetState(v) => Button_State'[Key] = v) /\ (SetEvent(v) => Button_Trigger_Event'[Key] = v)
      BY <2>1 DEF SetState, SetEvent, TypeOK
    <3>2. CASE HoldLong(level)
      BY <3>1, <3>2, <2>3, LongedFacts DEF HoldLong
    <3>3. CASE HoldShort(level)
      <4>1. Button_Trigger_Event'[Key] = "DOWM" /\ Call(level, "none")
        BY <3>1, <3>3 DEF HoldShort
      <4>2. CASE Changes(level)
        BY <4>1, <4>2, <2>3, LongedFacts
      <4>3. CASE ~Changes(level)
        <5>1. Button_State[Key] = "DOWM" /\ Button_Last_Level[Key] = Pressed
          BY <3>3, <4>3, FilterFacts DEF HoldShort
        <5>2. Button_Trigger_Event[Key] # "LONG"
          <6>1. SUFFICES ASSUME Button_Trigger_Event[Key] = "LONG" PROVE FALSE
            OBVIOUS
          <6>2. Long_Time[Key] >= BUTTON_LONG_TIME
            BY <5>1, <6>1, <2>1 DEF IInv, LongCounted, Holder, LongPressed
          <6>3. Long_Time[Key] \in Nat /\ Long_Time[Key] + 1 < BUTTON_LONG_TIME
            BY <3>3, <2>1, ButtonConstants DEF HoldShort, TypeOK, ButtonConstants
          <6> QED BY <6>2, <6>3, ButtonConstants DEF ButtonConstants
        <5>3. longed[Key] # 1
          BY <5>1, <5>2, <2>1 DEF EventTells
        <5> QED BY <4>1, <4>3, <5>3, <2>3, LongedFacts
      <4> QED BY <4>2, <4>3
    <3>4. CASE Rest(level)
      \* It would have to be down by its state and up by its level.
      <4>1. Button_State'[Key] = State(level) /\ State(level) = "DOWM"
        BY <3>1, <3>4, <2>3 DEF Rest
      <4>2. Level(level) = Released
        BY <3>4, <4>1 DEF Rest, DownReleased, NoWayOut
      <4>3. NeverStuck'
        BY <1>2, IInvStep DEF IInv, Next
      <4>4. Button_Last_Level'[Key] = Released
        BY <4>2, <1>2, OthersSame
      <4> QED BY <4>1, <4>3, <4>4, <2>1 DEF NeverStuck, Pressed, Released
    <3>5. CASE LongFree(level) \/ DoubleClick(level) \/ Click(level) \/ AwaitDouble(level)
      <4>1. Button_State'[Key] # "DOWM"
        BY <3>1, <3>5 DEF LongFree, DoubleClick, Click, AwaitDouble
      <4> QED BY <4>1, <2>3
    <3> QED BY <3>2, <3>3, <3>4, <3>5, <1>2 DEF Button_Cycle_Process
  <2> QED BY <2>2, <2>3
<1> QED BY <1>1, <1>2 DEF Next

\* The release of a key has one outcome (button.c:280 to 324): the end of the
\* long press if this press called back BUTTON_LONG, otherwise a click or a
\* double click, although LongFlag is one flag for all keys.
THEOREM ReleasesAnswered == Spec => ReleaseAnswered
<1> DEFINE Answered(k) ==
        disturbed' = 0 /\ Button_Last_Level[k] = Pressed /\ Button_Last_Level'[k] = Released
        => called' \in IF longed[k] = 1 THEN {"LONG_FREE"} ELSE {"DOWM", "DOUBLE"}
<1>1. Init => EventTells
  BY DEF Init, EventTells
<1>2. TypeOK /\ IInv /\ EventTells /\ [Next]_vars => [\A k \in Keys : Answered(k)]_vars
  <2> SUFFICES ASSUME TypeOK, IInv, EventTells, NEW level \in Levels, Button_Cycle_Process(level),
                      NEW k \in Keys, disturbed' = 0, Button_Last_Level[k] = Pressed,
                      Button_Last_Level'[k] = Released
               PROVE  called' \in IF longed[k] = 1 THEN {"LONG_FREE"} ELSE {"DOWM", "DOUBLE"}
    BY DEF Next
  <2>1. Pressed # Released
    BY DEF Pressed, Released
  <2>2. k = Key /\ Level(level) = Released /\ disturbed = 0
    BY <2>1, OthersSame
  <2>3. Changes(level) /\ State(level) = NextState(Button_State[Key])
    BY <2>1, <2>2, FilterFacts
  <2>4. Button_State[Key] = "DOWM" /\ (LongPressed(Key) => LongFlag = 1)
    BY <2>2 DEF IInv, NeverStuck
  <2>5. State(level) = "UP"
    BY <2>3, <2>4 DEF NextState
  <2>6. \A other \in Keys \ {Key} : ~LongPressed(other)
    BY <2>2, <2>3, OthersSame
  <2>7. LongFlag = 1 <=> Button_Trigger_Event[Key] = "LONG"
    BY <2>2, <2>4, <2>6 DEF IInv, FlagHeld, Holder, LongPressed
  <2>8. Button_Trigger_Event[Key] \in {"DOWM", "LONG"} /\ LongFlag \in {0, 1}
    BY <2>2, <2>4 DEF IInv, DownHasEvent, TypeOK
  <2>9. longed[Key] = 1 <=> Button_Trigger_Event[Key] = "LONG"
    BY <2>2, <2>4 DEF EventTells
  <2>10. CASE longed[Key] = 1
    <3>1. LongFree(level)
      BY <2>5, <2>7, <2>9, <2>10 DEF Button_Cycle_Process, HoldShort, HoldLong, DoubleClick, Click,
         AwaitDouble, Rest, DownReleased, NoWayOut
    <3> QED BY <3>1, <2>2, <2>10 DEF LongFree, Call
  <2>11. CASE longed[Key] # 1
    <3>1. DoubleClick(level) \/ Click(level)
      BY <2>5, <2>7, <2>8, <2>9, <2>11 DEF Button_Cycle_Process, HoldShort, HoldLong, LongFree,
         AwaitDouble, Rest, DownReleased, NoWayOut
    <3> QED BY <3>1, <2>2, <2>11 DEF DoubleClick, Click, Call
  <2> QED BY <2>10, <2>11
<1> QED BY <1>1, <1>2, InitOK, TypeStep, IInvStep, EventTellsStep, PTL DEF Spec, ReleaseAnswered
=============================================================================

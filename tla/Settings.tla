------------------------------ MODULE Settings ------------------------------
(***************************************************************************)
(* What Flash_Set and Flash_Get promise their callers: a set of variables  *)
(* that survive a loss of power, each set at a single instant.  RTCWork    *)
(* relies on it; EnvStore is shown to implement it.                        *)
(***************************************************************************)
CONSTANTS
    Keys,       \* the names of the variables
    Values,     \* what they are set to
    Nothing     \* no call is in progress; the variable was never set

VARIABLES
    value,      \* the stored value of each variable
    request,    \* the call of ef_set_env in progress: [key, val], or Nothing
    up          \* 1 while the store answers, 0 from a loss of power to the end of the boot

vars == <<value, request, up>>

Requests == [key : Keys, val : Values]

Init ==
    /\ value \in [Keys -> Values \cup {Nothing}]
    /\ request = Nothing
    /\ up = 1

Call(r) ==
    /\ up = 1 /\ request = Nothing
    /\ request' = r
    /\ UNCHANGED <<value, up>>

\* The new value replaces the old one.
Commit ==
    /\ up = 1 /\ request # Nothing
    /\ value' = [value EXCEPT ![request.key] = request.val]
    /\ UNCHANGED <<request, up>>

\* The call returns only when the variable has the new value.
Return ==
    /\ up = 1 /\ request # Nothing
    /\ value[request.key] = request.val
    /\ request' = Nothing
    /\ UNCHANGED <<value, up>>

\* Power is lost; a call in progress is forgotten, its value is there or not.
Lose ==
    /\ request' = Nothing
    /\ up' = 0
    /\ UNCHANGED value

Recover ==
    /\ up = 0
    /\ up' = 1
    /\ UNCHANGED <<value, request>>

Next == (\E r \in Requests : Call(r)) \/ Commit \/ Return \/ Lose \/ Recover

Spec == Init /\ [][Next]_vars
=============================================================================

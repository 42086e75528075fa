------------------------------ MODULE EnvLock -------------------------------
(***************************************************************************)
(* The lock of the environment (ef_port_env_lock, ef_port_env_unlock): a   *)
(* semaphore of RT-Thread with one token, taken by the threads that call   *)
(* Flash_Get and Flash_Set.  One of them is the timer thread, in which the *)
(* callbacks of all soft timers run; rt_timer_start resumes that thread if *)
(* it finds it suspended, whatever it is suspended on.                     *)
(*                                                                         *)
(* A step is a section with interrupts disabled.  EnvStore assumes that    *)
(* one thread at a time is inside.                                         *)
(***************************************************************************)
EXTENDS Integers, FiniteSets, SequencesExt

CONSTANTS
    Threads,
    timer_thread,
    Priority,     \* current_priority of each thread, the least is the highest
    MaxResumes    \* bound: resumptions of the waiting timer thread

ASSUME LockConstants ==
    /\ IsFiniteSet(Threads)
    /\ timer_thread \in Threads
    /\ Priority \in [Threads -> Nat]
    /\ MaxResumes \in Nat

VARIABLES
    value,           \* of env_cache_lock
    suspend_thread,  \* the list of threads suspended in rt_sem_take
    at,              \* where each thread is: outside, suspended, inside
    resumes          \* history: resumptions of the timer thread from the list

vars == <<value, suspend_thread, at, resumes>>

TypeOK ==
    /\ value \in Nat
    /\ suspend_thread \in Seq(Threads)
    /\ at \in [Threads -> {"outside", "suspended", "inside"}]
    /\ resumes \in 0 .. MaxResumes

Inside == {t \in Threads : at[t] = "inside"}

\* rt_sem_init(&env_cache_lock, "env lock", 1, RT_IPC_FLAG_PRIO)
Init ==
    /\ value = 1
    /\ suspend_thread = <<>>
    /\ at = [t \in Threads |-> "outside"]
    /\ resumes = 0

\* rt_sem_take(..., RT_WAITING_FOREVER): the token is there ...
Take(t) ==
    /\ at[t] = "outside"
    /\ value > 0
    /\ value' = value - 1
    /\ at' = [at EXCEPT ![t] = "inside"]
    /\ UNCHANGED <<suspend_thread, resumes>>

\* Faulty variant: a thread goes behind the threads of lower priority.
PositionReversed(t, i) ==
    /\ \A j \in 1 .. i - 1 : Priority[suspend_thread[j]] > Priority[t]
    /\ i <= Len(suspend_thread) => Priority[t] >= Priority[suspend_thread[i]]

\* The place of t in the list: before the first thread of lower priority.
Position(t, i) ==
    /\ \A j \in 1 .. i - 1 : Priority[suspend_thread[j]] <= Priority[t]
    /\ i <= Len(suspend_thread) => Priority[t] < Priority[suspend_thread[i]]

\* ... or the thread is suspended.
Suspend(t) ==
    /\ at[t] = "outside"
    /\ value = 0
    /\ \E i \in 1 .. Len(suspend_thread) + 1 :
          /\ Position(t, i)
          /\ suspend_thread' = InsertAt(suspend_thread, i, t)
    /\ at' = [at EXCEPT ![t] = "suspended"]
    /\ UNCHANGED <<value, resumes>>

rt_sem_take(t) == Take(t) \/ Suspend(t)

\* Faulty variant: the token is handed over and counted as well.
HandOverCounted(t) ==
    /\ at[t] = "inside"
    /\ suspend_thread # <<>>
    /\ at' = [at EXCEPT ![t] = "outside", ![Head(suspend_thread)] = "inside"]
    /\ suspend_thread' = Tail(suspend_thread)
    /\ value' = value + 1
    /\ UNCHANGED resumes

\* rt_sem_release: the token goes to the first suspended thread ...
HandOver(t) ==
    /\ at[t] = "inside"
    /\ suspend_thread # <<>>
    /\ at' = [at EXCEPT ![t] = "outside", ![Head(suspend_thread)] = "inside"]
    /\ suspend_thread' = Tail(suspend_thread)
    /\ UNCHANGED <<value, resumes>>

\* Faulty variant: the token is put back although threads wait for it.
PutBackAlways(t) ==
    /\ at[t] = "inside"
    /\ value' = value + 1
    /\ at' = [at EXCEPT ![t] = "outside"]
    /\ UNCHANGED <<suspend_thread, resumes>>

\* ... or back into the semaphore.
PutBack(t) ==
    /\ at[t] = "inside"
    /\ suspend_thread = <<>>
    /\ value' = value + 1
    /\ at' = [at EXCEPT ![t] = "outside"]
    /\ UNCHANGED <<suspend_thread, resumes>>

rt_sem_release(t) == PutBack(t) \/ HandOver(t)

\* Any thread starts a soft timer, a key restarts the timers of the screen:
\* the timer thread leaves the list it is on, thread->error is still RT_EOK,
\* and rt_sem_take returns as if the token had been handed over.
rt_timer_start ==
    /\ resumes < MaxResumes
    /\ \E i \in 1 .. Len(suspend_thread) :
          /\ suspend_thread[i] = timer_thread
          /\ suspend_thread' = RemoveAt(suspend_thread, i)
    /\ at' = [at EXCEPT ![timer_thread] = "inside"]
    /\ resumes' = resumes + 1
    /\ UNCHANGED value

Next ==
    \/ \E t \in Threads : rt_sem_take(t) \/ rt_sem_release(t)
    \/ rt_timer_start

\* Whoever is inside comes out: reading and writing the flash has an end.
Spec == Init /\ [][Next]_vars /\ \A t \in Threads : WF_vars(rt_sem_release(t))
----------------------------------------------------------------------------
(* Properties.                                                             *)

\* Each resumption by rt_timer_start makes one token more, for good: from then
\* on two threads may be inside at any time, not only the two of that moment;
\* without one, EnvStore's assumption holds: at most one thread is inside.
TokensConserved == value + Cardinality(Inside) = 1 + resumes

\* Nobody waits for a token that is there, or that nobody is to bring back.
NoLostWakeup == suspend_thread # <<>> => value = 0 /\ Inside # {}

\* The timer thread, first of all by priority, is not kept waiting for ever by
\* the others, whose calls may follow each other without a pause.
TimerThreadGetsIn == at[timer_thread] = "suspended" ~> at[timer_thread] = "inside"
=============================================================================

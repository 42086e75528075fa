---------------------------- MODULE EnvLockProofs ----------------------------
(***************************************************************************)
(* For any threads with any priorities: rt_timer_start is the only source  *)
(* of extra tokens of the environment's lock, and nobody waits in vain.    *)
(***************************************************************************)
EXTENDS EnvLock, FiniteSetTheorems, TLAPS

\* The suspended threads are the threads of the list, each of them once.
Listed == \A i \in 1 .. Len(suspend_thread) : at[suspend_thread[i]] = "suspended"
Once == \A i, j \in 1 .. Len(suspend_thread) :
            suspend_thread[i] = suspend_thread[j] => i = j

Inv == TypeOK /\ Listed /\ Once /\ TokensConserved /\ NoLostWakeup

\* What rt_ipc_list_suspend makes of the list.
LEMMA Inserted ==
    ASSUME NEW s \in Seq(Threads), NEW t \in Threads, NEW i \in 1 .. Len(s) + 1
    PROVE  /\ InsertAt(s, i, t) \in Seq(Threads)
           /\ Len(InsertAt(s, i, t)) = Len(s) + 1
           /\ \A j \in 1 .. Len(s) + 1 : InsertAt(s, i, t)[j] =
                 IF j < i THEN s[j] ELSE IF j = i THEN t ELSE s[j - 1]
<1> DEFINE before == SubSeq(s, 1, i - 1)
           after == SubSeq(s, i, Len(s))
<1>1. /\ before \in Seq(Threads) /\ Len(before) = i - 1
      /\ \A j \in 1 .. i - 1 : before[j] = s[j]
  OBVIOUS
<1>2. /\ after \in Seq(Threads) /\ Len(after) = Len(s) - i + 1
      /\ \A j \in 1 .. Len(s) - i + 1 : after[j] = s[i + j - 1]
  OBVIOUS
<1>3. InsertAt(s, i, t) = before \o <<t>> \o after
  BY DEF InsertAt
<1> HIDE DEF before, after
<1> QED
  BY <1>1, <1>2, <1>3

\* What rt_thread_resume makes of it.
LEMMA Removed ==
    ASSUME NEW s \in Seq(Threads), NEW i \in 1 .. Len(s)
    PROVE  /\ RemoveAt(s, i) \in Seq(Threads)
           /\ Len(RemoveAt(s, i)) = Len(s) - 1
           /\ \A j \in 1 .. Len(s) - 1 :
                 RemoveAt(s, i)[j] = IF j < i THEN s[j] ELSE s[j + 1]
<1> DEFINE before == SubSeq(s, 1, i - 1)
           after == SubSeq(s, i + 1, Len(s))
<1>1. /\ before \in Seq(Threads) /\ Len(before) = i - 1
      /\ \A j \in 1 .. i - 1 : before[j] = s[j]
  OBVIOUS
<1>2. /\ after \in Seq(Threads) /\ Len(after) = Len(s) - i
      /\ \A j \in 1 .. Len(s) - i : after[j] = s[i + j]
  OBVIOUS
<1>3. RemoveAt(s, i) = before \o after
  BY DEF RemoveAt
<1> HIDE DEF before, after
<1>4. before \o after \in Seq(Threads) /\ Len(before \o after) = Len(s) - 1
  BY <1>1, <1>2
<1>5. ASSUME NEW j \in 1 .. Len(s) - 1
      PROVE  (before \o after)[j] = IF j < i THEN s[j] ELSE s[j + 1]
  <2>1. CASE j < i
    BY <1>1, <1>2, <2>1
  <2>2. CASE j >= i
    <3>1. (before \o after)[j] = after[j - i + 1]
      BY <1>1, <1>2, <2>2
    <3>2. j - i + 1 \in 1 .. Len(s) - i
      BY <2>2
    <3>3. after[j - i + 1] = s[j + 1]
      BY <1>2, <3>2
    <3> QED
      BY <2>2, <3>1, <3>3
  <2>3. j < i \/ j >= i
    OBVIOUS
  <2> QED
    BY <2>1, <2>2, <2>3, Zenon
<1> QED
  BY <1>3, <1>4, <1>5

\* The threads inside are finitely many, and counted one by one.
LEMMA InsideFinite == LockConstants => IsFiniteSet(Inside)
BY FS_Subset DEF LockConstants, Inside

\* A thread that enters adds one.
LEMMA Enter ==
    ASSUME LockConstants, at \in [Threads -> {"outside", "suspended", "inside"}],
           NEW t \in Threads, at[t] # "inside", at' = [at EXCEPT ![t] = "inside"]
    PROVE  Cardinality(Inside') = Cardinality(Inside) + 1
<1>1. Inside' = Inside \cup {t} /\ t \notin Inside
  BY DEF Inside
<1> QED
  BY <1>1, InsideFinite, FS_AddElement

\* A thread that leaves takes one away.
LEMMA Leave ==
    ASSUME LockConstants, at \in [Threads -> {"outside", "suspended", "inside"}],
           NEW t \in Threads, at[t] = "inside", at' = [at EXCEPT ![t] = "outside"]
    PROVE  Cardinality(Inside') = Cardinality(Inside) - 1
<1>1. Inside' = Inside \ {t} /\ t \in Inside
  BY DEF Inside
<1> QED
  BY <1>1, InsideFinite, FS_RemoveElement

\* A token that changes hands leaves as many inside.
LEMMA Exchange ==
    ASSUME LockConstants, at \in [Threads -> {"outside", "suspended", "inside"}],
           NEW t \in Threads, at[t] = "inside", NEW u \in Threads, at[u] = "suspended",
           at' = [at EXCEPT ![t] = "outside", ![u] = "inside"]
    PROVE  Cardinality(Inside') = Cardinality(Inside)
<1>1. Inside' = (Inside \ {t}) \cup {u} /\ t \in Inside /\ u \notin Inside
  BY DEF Inside
<1>2. IsFiniteSet(Inside \ {t}) /\ Cardinality(Inside \ {t}) = Cardinality(Inside) - 1
  BY <1>1, InsideFinite, FS_RemoveElement
<1>3. Cardinality((Inside \ {t}) \cup {u}) = Cardinality(Inside \ {t}) + 1
  BY <1>1, <1>2, FS_AddElement
<1>4. Cardinality(Inside) \in Nat
  BY InsideFinite, FS_CardinalityType
<1> QED
  BY <1>1, <1>2, <1>3, <1>4

LEMMA Initially == Init => Inv
<1> SUFFICES ASSUME Init PROVE Inv
  OBVIOUS
<1>1. Inside = {} /\ Cardinality(Inside) = 0
  BY FS_EmptySet DEF Init, Inside
<1> QED
  BY <1>1, LockConstants
  DEF Init, Inv, TypeOK, Listed, Once, TokensConserved, NoLostWakeup, LockConstants

LEMMA StepTakes ==
    ASSUME Inv, NEW t \in Threads, Take(t)
    PROVE  Inv'
<1> USE LockConstants DEF LockConstants, Inv, TypeOK, Take
<1>1. Cardinality(Inside') = Cardinality(Inside) + 1 /\ Cardinality(Inside) \in Nat
  BY Enter, InsideFinite, FS_CardinalityType
<1>2. TypeOK'
  OBVIOUS
<1>3. suspend_thread' = <<>>
  BY DEF NoLostWakeup
<1>4. TokensConserved'
  BY <1>1 DEF TokensConserved
<1> QED
  BY <1>2, <1>3, <1>4 DEF Listed, Once, NoLostWakeup

LEMMA StepSuspends ==
    ASSUME Inv, NEW t \in Threads, Suspend(t)
    PROVE  Inv'
<1>1. PICK i \in 1 .. Len(suspend_thread) + 1 :
        suspend_thread' = InsertAt(suspend_thread, i, t)
  BY DEF Suspend
<1>2. /\ suspend_thread' \in Seq(Threads)
      /\ Len(suspend_thread') = Len(suspend_thread) + 1
      /\ \A j \in 1 .. Len(suspend_thread) + 1 : suspend_thread'[j] =
           IF j < i THEN suspend_thread[j] ELSE IF j = i THEN t ELSE suspend_thread[j - 1]
  <2>1. suspend_thread \in Seq(Threads)
    BY DEF Inv, TypeOK
  <2> DEFINE new == InsertAt(suspend_thread, i, t)
  <2>2. /\ new \in Seq(Threads)
        /\ Len(new) = Len(suspend_thread) + 1
        /\ \A j \in 1 .. Len(suspend_thread) + 1 : new[j] =
             IF j < i THEN suspend_thread[j] ELSE IF j = i THEN t ELSE suspend_thread[j - 1]
    BY <2>1, Inserted, ZenonT(60)
  <2>3. suspend_thread' = new
    BY <1>1
  <2> HIDE DEF new
  <2> QED
    BY <2>2, <2>3
<1>range. Len(suspend_thread) \in Nat /\ i \in Nat /\ i >= 1 /\ i <= Len(suspend_thread) + 1
  BY DEF Inv, TypeOK
<1> USE LockConstants DEF LockConstants, Inv
<1>3. \A j \in 1 .. Len(suspend_thread) : suspend_thread[j] # t
  BY DEF Suspend, Listed
<1>4. Inside' = Inside
  BY DEF Inside, Suspend, TypeOK
<1>5. Inside # {}
  <2>1. Cardinality(Inside) # 0
    BY DEF TokensConserved, Suspend, TypeOK
  <2> QED
    BY <2>1, InsideFinite, FS_EmptySet
<1>6. TypeOK'
  BY <1>2 DEF TypeOK, Suspend
<1>7. Listed'
  <2> SUFFICES ASSUME NEW j \in 1 .. Len(suspend_thread')
               PROVE  at'[suspend_thread'[j]] = "suspended"
    BY DEF Listed
  <2>4. \A n \in 1 .. Len(suspend_thread) : at'[suspend_thread[n]] = "suspended"
    BY <1>3 DEF Listed, Suspend, TypeOK
  <2>5. at'[t] = "suspended"
    BY DEF Suspend, TypeOK
  <2>6. j \in Int /\ 1 <= j /\ j <= Len(suspend_thread) + 1
    BY <1>2, <1>range
  <2>1. CASE j < i
    <3>1. j \in 1 .. Len(suspend_thread) /\ suspend_thread'[j] = suspend_thread[j]
      BY <1>2, <1>range, <2>1, <2>6
    <3> QED
      BY <3>1, <2>4
  <2>2. CASE j = i
    <3>1. suspend_thread'[j] = t
      BY <1>2, <1>range, <2>2
    <3> QED
      BY <3>1, <2>5
  <2>3. CASE j > i
    <3>1. j - 1 \in 1 .. Len(suspend_thread) /\ suspend_thread'[j] = suspend_thread[j - 1]
      BY <1>2, <1>range, <2>3, <2>6
    <3> QED
      BY <3>1, <2>4
  <2> QED
    BY <1>range, <2>1, <2>2, <2>3, <2>6
<1>8. Once'
  <2> SUFFICES ASSUME NEW j \in 1 .. Len(suspend_thread'),
                      NEW k \in 1 .. Len(suspend_thread'),
                      suspend_thread'[j] = suspend_thread'[k]
               PROVE  j = k
    BY DEF Once
  <2> DEFINE Old(n) == IF n < i THEN n ELSE n - 1
  <2>1. ASSUME NEW n \in 1 .. Len(suspend_thread')
        PROVE  \/ n = i /\ suspend_thread'[n] = t
               \/ /\ n # i /\ Old(n) \in 1 .. Len(suspend_thread)
                  /\ suspend_thread'[n] = suspend_thread[Old(n)]
    <3>1. n \in 1 .. Len(suspend_thread) + 1
      BY <1>2
    <3>2. CASE n = i
      BY <1>2, <3>1, <3>2
    <3>3. CASE n < i
      BY <1>2, <1>range, <3>1, <3>3
    <3>4. CASE n > i
      BY <1>2, <1>range, <3>1, <3>4
    <3> QED
      BY <1>range, <3>1, <3>2, <3>3, <3>4
  <2>2. j = i <=> k = i
    BY <1>3, <2>1
  <2>3. CASE j # i
    <3>1. Old(j) = Old(k)
      <4> HIDE DEF Old
      <4> QED
        BY <2>1, <2>2, <2>3 DEF Once
    <3> QED
      <4>1. j \in Nat /\ k \in Nat
        BY <1>2, <1>range
      <4> QED
        BY <1>range, <2>2, <2>3, <3>1, <4>1
  <2> QED
    BY <2>2, <2>3
<1>9. TokensConserved' /\ NoLostWakeup'
  BY <1>4, <1>5 DEF TokensConserved, NoLostWakeup, Suspend
<1> QED
  BY <1>6, <1>7, <1>8, <1>9

LEMMA StepHandsOver ==
    ASSUME Inv, NEW t \in Threads, HandOver(t)
    PROVE  Inv'
<1> USE LockConstants DEF LockConstants, Inv
<1> DEFINE next == Head(suspend_thread)
<1>1. next \in Threads /\ next = suspend_thread[1] /\ at[next] = "suspended"
  BY DEF HandOver, TypeOK, Listed
<1>2. /\ suspend_thread' \in Seq(Threads)
      /\ Len(suspend_thread') = Len(suspend_thread) - 1
      /\ \A j \in 1 .. Len(suspend_thread) - 1 : suspend_thread'[j] = suspend_thread[j + 1]
  BY DEF HandOver, TypeOK
<1>3. Cardinality(Inside') = Cardinality(Inside)
  BY <1>1, Exchange DEF HandOver, TypeOK
<1>4. next \in Inside'
  BY <1>1 DEF Inside, HandOver, TypeOK
<1>5. TypeOK'
  BY <1>1, <1>2 DEF TypeOK, HandOver
<1>6. \A j \in 1 .. Len(suspend_thread') :
         suspend_thread'[j] # next /\ suspend_thread'[j] # t
  BY <1>1, <1>2 DEF Once, Listed, HandOver, TypeOK
<1>7. Listed'
  BY <1>1, <1>2, <1>6 DEF Listed, HandOver, TypeOK
<1>8. Once'
  <2> SUFFICES ASSUME NEW j \in 1 .. Len(suspend_thread'),
                      NEW k \in 1 .. Len(suspend_thread'),
                      suspend_thread'[j] = suspend_thread'[k]
               PROVE  j = k
    BY DEF Once
  <2>1. ASSUME NEW n \in 1 .. Len(suspend_thread')
        PROVE  n + 1 \in 1 .. Len(suspend_thread) /\ suspend_thread'[n] = suspend_thread[n + 1]
    BY <1>2 DEF TypeOK
  <2>2. j + 1 = k + 1
    BY <2>1 DEF Once
  <2> QED
    BY <1>2, <2>2 DEF TypeOK
<1>9. TokensConserved' /\ NoLostWakeup'
  BY <1>3, <1>4 DEF TokensConserved, NoLostWakeup, HandOver
<1> QED
  BY <1>5, <1>7, <1>8, <1>9

LEMMA StepPutsBack ==
    ASSUME Inv, NEW t \in Threads, PutBack(t)
    PROVE  Inv'
<1> USE LockConstants DEF LockConstants, Inv, TypeOK, PutBack
<1>1. Cardinality(Inside') = Cardinality(Inside) - 1 /\ Cardinality(Inside) \in Nat
  BY Leave, InsideFinite, FS_CardinalityType
<1>2. TypeOK'
  OBVIOUS
<1>3. TokensConserved'
  BY <1>1 DEF TokensConserved
<1> QED
  BY <1>2, <1>3 DEF Listed, Once, NoLostWakeup

LEMMA StepResumes == Inv /\ rt_timer_start => Inv'
<1> SUFFICES ASSUME Inv, rt_timer_start PROVE Inv'
  OBVIOUS
<1> USE LockConstants DEF LockConstants, Inv
<1>1. PICK i \in 1 .. Len(suspend_thread) :
        /\ suspend_thread[i] = timer_thread
        /\ suspend_thread' = RemoveAt(suspend_thread, i)
  BY DEF rt_timer_start
<1>2. /\ suspend_thread' \in Seq(Threads)
      /\ Len(suspend_thread') = Len(suspend_thread) - 1
      /\ \A j \in 1 .. Len(suspend_thread) - 1 : suspend_thread'[j] =
           IF j < i THEN suspend_thread[j] ELSE suspend_thread[j + 1]
  BY <1>1, Removed DEF TypeOK
<1>3. at[timer_thread] = "suspended" /\ suspend_thread # <<>>
  BY <1>1 DEF Listed, TypeOK
<1>4. Cardinality(Inside') = Cardinality(Inside) + 1 /\ Cardinality(Inside) \in Nat
  BY <1>3, Enter, InsideFinite, FS_CardinalityType DEF rt_timer_start, TypeOK
<1>5. timer_thread \in Inside'
  BY DEF Inside, rt_timer_start, TypeOK
<1>6. TypeOK'
  BY <1>2 DEF TypeOK, rt_timer_start
<1> DEFINE Old(n) == IF n < i THEN n ELSE n + 1
<1>7. ASSUME NEW n \in 1 .. Len(suspend_thread')
      PROVE  /\ Old(n) \in 1 .. Len(suspend_thread) /\ Old(n) # i
             /\ suspend_thread'[n] = suspend_thread[Old(n)]
  <2>1. Len(suspend_thread) \in Nat /\ n \in 1 .. Len(suspend_thread) - 1
    BY <1>2 DEF TypeOK
  <2>2. Old(n) \in 1 .. Len(suspend_thread) /\ Old(n) # i
    BY <2>1
  <2>3. suspend_thread'[n] = suspend_thread[Old(n)]
    BY <1>2, <2>1, Zenon
  <2> QED
    BY <2>2, <2>3
<1>8. Listed'
  <2> SUFFICES ASSUME NEW n \in 1 .. Len(suspend_thread')
               PROVE  at'[suspend_thread'[n]] = "suspended"
    BY DEF Listed
  <2> HIDE DEF Old
  <2>1. suspend_thread'[n] # timer_thread /\ at[suspend_thread'[n]] = "suspended"
    BY <1>1, <1>7 DEF Once, Listed
  <2>2. suspend_thread'[n] \in Threads
    BY <1>2
  <2> QED
    BY <2>1, <2>2 DEF rt_timer_start, TypeOK
<1>9. Once'
  <2> SUFFICES ASSUME NEW j \in 1 .. Len(suspend_thread'),
                      NEW k \in 1 .. Len(suspend_thread'),
                      suspend_thread'[j] = suspend_thread'[k]
               PROVE  j = k
    BY DEF Once
  <2>1. Old(j) = Old(k)
    <3> HIDE DEF Old
    <3> QED
      BY <1>7 DEF Once
  <2>2. j \in Int /\ k \in Int /\ i \in Int
    BY <1>2 DEF TypeOK
  <2> QED
    BY <2>1, <2>2, <1>7
<1>10. TokensConserved' /\ NoLostWakeup'
  BY <1>3, <1>4, <1>5 DEF TokensConserved, NoLostWakeup, rt_timer_start, TypeOK
<1> QED
  BY <1>6, <1>8, <1>9, <1>10

LEMMA Stutter == Inv /\ UNCHANGED vars => Inv'
BY DEF Inv, vars, TypeOK, Listed, Once, TokensConserved, NoLostWakeup, Inside

\* Each resumption of the waiting timer thread by rt_timer_start makes exactly
\* one token more, whatever the threads and their priorities, and nothing else
\* makes or loses one; without one, at most one thread is inside EasyFlash.
THEOREM Tokens == Spec => []TokensConserved
<1>1. Init => Inv
  BY Initially
<1>2. Inv /\ [Next]_vars => Inv'
  BY StepTakes, StepSuspends, StepHandsOver, StepPutsBack, StepResumes, Stutter
  DEF Next, rt_sem_take, rt_sem_release
<1>3. Inv => TokensConserved
  BY DEF Inv
<1> QED
  BY <1>1, <1>2, <1>3, PTL DEF Spec

\* No thread waits in rt_sem_take for a token that is free or that no thread
\* inside is to bring back, whatever was resumed in between.
THEOREM Wakeups == Spec => []NoLostWakeup
<1>1. Init => Inv
  BY Initially
<1>2. Inv /\ [Next]_vars => Inv'
  BY StepTakes, StepSuspends, StepHandsOver, StepPutsBack, StepResumes, Stutter
  DEF Next, rt_sem_take, rt_sem_release
<1>3. Inv => NoLostWakeup
  BY DEF Inv
<1> QED
  BY <1>1, <1>2, <1>3, PTL DEF Spec
=============================================================================

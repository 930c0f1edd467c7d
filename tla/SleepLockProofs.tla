------------------------- MODULE SleepLockProofs -------------------------
(***************************************************************************)
(* The sleeping locks are safe for every number of threads and objects:    *)
(* LockInv of SleepLock is inductive, one lemma per action, and gives the  *)
(* type invariant, mutual exclusion and the accuracy of Mutex::owner.      *)
(***************************************************************************)
EXTENDS SleepLock, FiniteSetTheorems, TLAPS

\* Each step of a lock operation preserves LockInv; the first conjuncts of
\* a lemma are the ones its action does not disturb.
LEMMA LockStep ==
    ASSUME LockInv, NEW t \in Threads, NEW m \in Mutexes, Lock(t, m)
    PROVE  LockInv'
<1> USE LockAssumption DEF LockInv, TypeOK, Objects, States, HasToken, PCs, Idle, Try,
    Block, Enter, Held, Pop, Grant, Wake, Free
<1>1. /\ TypeOK'
      /\ SectionIsMutex'
      /\ HandoffWaits'
      /\ ParkedWaits'
      /\ ParkedOnce'
      /\ PoppedWaits'
      /\ PoppedGone'
      /\ PoppedOnce'
      /\ OwnerTracksGuard'
    BY DEF Lock, At, Goto, SectionIsMutex, HandoffWaits, ParkedWaits, ParkedOnce,
      PoppedWaits, PoppedGone, PoppedOnce, OwnerTracksGuard
<1>2. TokenLocks'
    BY DEF Lock, At, Goto, TokenLocks, HandoffWaits
<1>3. TokenUnique'
    BY DEF Lock, At, Goto, TokenUnique, HandoffWaits
<1> QED BY <1>1, <1>2, <1>3

LEMMA AcquireStep ==
    ASSUME LockInv, NEW t \in Threads, NEW s \in Sems, Acquire(t, s)
    PROVE  LockInv'
<1> USE LockAssumption DEF LockInv, TypeOK, Objects, States, HasToken, PCs, Idle, Try,
    Block, Enter, Held, Pop, Grant, Wake, Free
<1>1. /\ TypeOK'
      /\ SectionIsMutex'
      /\ HandoffWaits'
      /\ ParkedWaits'
      /\ ParkedOnce'
      /\ PoppedWaits'
      /\ PoppedGone'
      /\ PoppedOnce'
      /\ OwnerTracksGuard'
    BY DEF Acquire, At, Goto, SectionIsMutex, HandoffWaits, ParkedWaits, ParkedOnce,
      PoppedWaits, PoppedGone, PoppedOnce, OwnerTracksGuard
<1>2. TokenLocks'
    BY DEF Acquire, At, Goto, TokenLocks, HandoffWaits
<1>3. TokenUnique'
    BY DEF Acquire, At, Goto, TokenUnique, HandoffWaits
<1> QED BY <1>1, <1>2, <1>3

LEMMA EnterCSStep ==
    ASSUME LockInv, NEW t \in Threads, EnterCS(t)
    PROVE  LockInv'
<1> USE LockAssumption DEF LockInv, TypeOK, Objects, States, HasToken, PCs, Idle, Try,
    Block, Enter, Held, Pop, Grant, Wake, Free
<1>1. /\ TypeOK'
      /\ SectionIsMutex'
      /\ TokenLocks'
      /\ TokenUnique'
      /\ HandoffWaits'
      /\ ParkedWaits'
      /\ ParkedOnce'
      /\ PoppedWaits'
      /\ PoppedGone'
      /\ PoppedOnce'
    BY DEF EnterCS, At, Goto, SectionIsMutex, TokenLocks, TokenUnique, HandoffWaits,
      ParkedWaits, ParkedOnce, PoppedWaits, PoppedGone, PoppedOnce
<1>2. OwnerTracksGuard'
    BY DEF EnterCS, At, Goto, OwnerTracksGuard, TokenUnique, SectionIsMutex
<1> QED BY <1>1, <1>2

LEMMA UnlockStep ==
    ASSUME LockInv, NEW t \in Threads, Unlock(t)
    PROVE  LockInv'
<1> USE LockAssumption DEF LockInv, TypeOK, Objects, States, HasToken, PCs, Idle, Try,
    Block, Enter, Held, Pop, Grant, Wake, Free
<1>1. /\ TypeOK'
      /\ SectionIsMutex'
      /\ TokenLocks'
      /\ TokenUnique'
      /\ HandoffWaits'
      /\ ParkedWaits'
      /\ ParkedOnce'
      /\ PoppedWaits'
      /\ PoppedGone'
      /\ PoppedOnce'
    BY DEF Unlock, At, Goto, SectionIsMutex, TokenLocks, TokenUnique, HandoffWaits,
      ParkedWaits, ParkedOnce, PoppedWaits, PoppedGone, PoppedOnce
<1>2. OwnerTracksGuard'
    BY DEF Unlock, At, Goto, OwnerTracksGuard, TokenUnique, SectionIsMutex
<1> QED BY <1>1, <1>2

LEMMA ReleaseStep ==
    ASSUME LockInv, NEW t \in Threads, NEW s \in Sems, Release(t, s)
    PROVE  LockInv'
<1> USE LockAssumption DEF LockInv, TypeOK, Objects, States, HasToken, PCs, Idle, Try,
    Block, Enter, Held, Pop, Grant, Wake, Free
<1>1. /\ TypeOK'
      /\ SectionIsMutex'
      /\ HandoffWaits'
      /\ ParkedWaits'
      /\ ParkedOnce'
      /\ PoppedWaits'
      /\ PoppedGone'
      /\ PoppedOnce'
      /\ OwnerTracksGuard'
    BY DEF Release, At, Goto, SectionIsMutex, HandoffWaits, ParkedWaits, ParkedOnce,
      PoppedWaits, PoppedGone, PoppedOnce, OwnerTracksGuard
<1>2. TokenLocks'
    BY DEF Release, At, Goto, TokenLocks, HandoffWaits
<1>3. TokenUnique'
    BY DEF Release, At, Goto, TokenUnique, HandoffWaits
<1> QED BY <1>1, <1>2, <1>3

LEMMA GrantHandoffStep ==
    ASSUME LockInv, NEW t \in Threads, GrantHandoff(t)
    PROVE  LockInv'
<1> USE LockAssumption DEF LockInv, TypeOK, Objects, States, HasToken, PCs, Idle, Try,
    Block, Enter, Held, Pop, Grant, Wake, Free
<1>1. /\ TypeOK'
      /\ SectionIsMutex'
      /\ ParkedOnce'
    BY DEF GrantHandoff, At, Goto, SectionIsMutex, ParkedOnce
<1>2. TokenLocks'
    BY DEF GrantHandoff, At, Goto, TokenLocks, PoppedWaits, HandoffWaits
<1>3. TokenUnique'
    BY DEF GrantHandoff, At, Goto, TokenUnique, PoppedWaits, HandoffWaits
<1>4. HandoffWaits'
    BY DEF GrantHandoff, At, Goto, HandoffWaits, PoppedWaits
<1>5. ParkedWaits'
    BY DEF GrantHandoff, At, Goto, ParkedWaits, PoppedGone
<1>6. PoppedWaits'
    BY DEF GrantHandoff, At, Goto, PoppedWaits, PoppedOnce
<1>7. PoppedGone'
    BY DEF GrantHandoff, At, Goto, PoppedGone
<1>8. PoppedOnce'
    BY DEF GrantHandoff, At, Goto, PoppedOnce
<1>9. OwnerTracksGuard'
    BY DEF GrantHandoff, At, Goto, OwnerTracksGuard
<1> QED BY <1>1, <1>2, <1>3, <1>4, <1>5, <1>6, <1>7, <1>8, <1>9

LEMMA WakeNextStep ==
    ASSUME LockInv, NEW t \in Threads, WakeNext(t)
    PROVE  LockInv'
<1> USE LockAssumption DEF LockInv, TypeOK, Objects, States, HasToken, PCs, Idle, Try,
    Block, Enter, Held, Pop, Grant, Wake, Free
<1>1. /\ TypeOK'
      /\ SectionIsMutex'
      /\ TokenLocks'
      /\ TokenUnique'
      /\ HandoffWaits'
      /\ ParkedOnce'
      /\ PoppedGone'
      /\ PoppedOnce'
      /\ OwnerTracksGuard'
    BY DEF WakeNext, At, Goto, SectionIsMutex, TokenLocks, TokenUnique, HandoffWaits,
      ParkedOnce, PoppedGone, PoppedOnce, OwnerTracksGuard
<1>2. ParkedWaits'
    BY DEF WakeNext, At, Goto, ParkedWaits, PoppedGone
<1>3. PoppedWaits'
    BY DEF WakeNext, At, Goto, PoppedWaits, PoppedOnce
<1> QED BY <1>1, <1>2, <1>3

LEMMA FreeItStep ==
    ASSUME LockInv, NEW t \in Threads, FreeIt(t)
    PROVE  LockInv'
<1> USE LockAssumption DEF LockInv, TypeOK, Objects, States, HasToken, PCs, Idle, Try,
    Block, Enter, Held, Pop, Grant, Wake, Free
<1>1. /\ TypeOK'
      /\ SectionIsMutex'
      /\ TokenUnique'
      /\ HandoffWaits'
      /\ ParkedWaits'
      /\ ParkedOnce'
      /\ PoppedWaits'
      /\ PoppedGone'
      /\ PoppedOnce'
      /\ OwnerTracksGuard'
    BY DEF FreeIt, At, Goto, SectionIsMutex, TokenUnique, HandoffWaits, ParkedWaits,
      ParkedOnce, PoppedWaits, PoppedGone, PoppedOnce, OwnerTracksGuard
<1>2. TokenLocks'
    BY DEF FreeIt, At, Goto, TokenLocks, TokenUnique, HandoffWaits
<1> QED BY <1>1, <1>2

LEMMA KillStep ==
    ASSUME LockInv, NEW t \in Threads, Kill(t)
    PROVE  LockInv'
<1> USE LockAssumption DEF LockInv, TypeOK, Objects, States, HasToken, PCs, Idle, Try,
    Block, Enter, Held, Pop, Grant, Wake, Free
<1>1. /\ TypeOK'
      /\ SectionIsMutex'
      /\ TokenLocks'
      /\ TokenUnique'
      /\ HandoffWaits'
      /\ ParkedWaits'
      /\ ParkedOnce'
      /\ PoppedGone'
      /\ PoppedOnce'
      /\ OwnerTracksGuard'
    BY DEF Kill, At, Goto, SectionIsMutex, TokenLocks, TokenUnique, HandoffWaits,
      ParkedWaits, ParkedOnce, PoppedGone, PoppedOnce, OwnerTracksGuard
<1>2. PoppedWaits'
    BY DEF Kill, At, Goto, PoppedWaits
<1> QED BY <1>1, <1>2

\* Taking the lock, from either check of wait_until's condition: by the
\* hand-off (the claim was already t's) or from the free object.
LEMMA TakeItStep ==
    ASSUME LockInv, NEW t \in Threads, state[t] = "Runnable",
           pc[t] \in {Try, Block}, Cond(t), TakeIt(t)
    PROVE  LockInv'
<1> USE LockAssumption DEF LockInv, TypeOK, Objects, States, HasToken, PCs, Idle, Try,
    Block, Enter, Held, Pop, Grant, Wake, Free
<1>a. Available(obj[t]) \/ handoff[t]
    BY DEF Cond
<1>1. TypeOK'
    BY <1>a DEF TakeIt, Goto, Available
<1>2. SectionIsMutex' /\ HandoffWaits' /\ ParkedWaits' /\ ParkedOnce' /\ OwnerTracksGuard'
    BY DEF TakeIt, Goto, SectionIsMutex, HandoffWaits, ParkedWaits, ParkedOnce,
      OwnerTracksGuard
<1>3. TokenLocks'
    BY DEF TakeIt, Goto, TokenLocks, HandoffWaits
<1>4. TokenUnique'
  <2>1. CASE handoff[t]
      BY <2>1 DEF TakeIt, Goto, TokenUnique, HandoffWaits
  <2>2. CASE ~handoff[t] /\ obj[t] \in Mutexes
    <3>1. ~locked[obj[t]]
        BY <2>2, <1>a DEF Available
    <3>2. \A u \in Threads : obj[u] = obj[t] => ~HasToken(u, obj[u])
        BY <3>1, <2>2 DEF TokenLocks
    <3> QED BY <3>2, <2>2 DEF TakeIt, Goto, TokenUnique, HandoffWaits
  <2>3. CASE ~handoff[t] /\ obj[t] \notin Mutexes
      BY <2>3 DEF TakeIt, Goto, TokenUnique, HandoffWaits
  <2> QED BY <2>1, <2>2, <2>3
<1>5. PoppedWaits' /\ PoppedGone' /\ PoppedOnce'
    BY DEF TakeIt, Goto, PoppedWaits, PoppedGone, PoppedOnce
<1> QED BY <1>1, <1>2, <1>3, <1>4, <1>5

LEMMA TryNowStep ==
    ASSUME LockInv, NEW t \in Threads, TryNow(t)
    PROVE  LockInv'
<1>1. CASE Cond(t) /\ TakeIt(t)
    BY <1>1, TakeItStep DEF TryNow, At
<1>2. CASE ~Cond(t)
  <2> USE LockAssumption DEF LockInv, TypeOK, Objects, States, HasToken, PCs, Idle, Try,
      Block, Enter, Held, Pop, Grant, Wake, Free
  <2>a. /\ ~handoff[t] /\ pc[t] = Try /\ state[t] = "Runnable"
        /\ pc' = [pc EXCEPT ![t] = Block]
        /\ UNCHANGED <<state, obj, popped, handoff, locked, owner, permits, queue,
                       acquired, released, panicked>>
      BY <1>2 DEF TryNow, At, Goto, Cond
  <2>1. /\ TypeOK' /\ SectionIsMutex' /\ TokenLocks' /\ TokenUnique' /\ HandoffWaits'
        /\ OwnerTracksGuard'
      BY <2>a DEF SectionIsMutex, TokenLocks, TokenUnique, HandoffWaits, OwnerTracksGuard
  <2>2. ParkedWaits' /\ ParkedOnce'
      BY <2>a DEF ParkedWaits, ParkedOnce
  <2>3. PoppedWaits' /\ PoppedGone' /\ PoppedOnce'
      BY <2>a DEF PoppedWaits, PoppedGone, PoppedOnce
  <2> QED BY <2>1, <2>2, <2>3
<1> QED BY <1>1, <1>2 DEF TryNow

LEMMA BlockCurrentStep ==
    ASSUME LockInv, NEW t \in Threads, BlockCurrent(t)
    PROVE  LockInv'
<1>1. CASE Cond(t) /\ TakeIt(t)
    BY <1>1, TakeItStep DEF BlockCurrent, At
<1>2. CASE ~Cond(t)
  <2> USE <1>2, LockAssumption DEF LockInv, TypeOK, Objects, States, HasToken, PCs, Idle,
      Try, Block, Enter, Held, Pop, Grant, Wake, Free
  <2>a. /\ pc[t] = Block /\ ~handoff[t] /\ state[t] = "Runnable"
        /\ state' = [state EXCEPT ![t] = "Blocked"]
        /\ pc' = [pc EXCEPT ![t] = Try]
        /\ queue' = [queue EXCEPT ![obj[t]] = Append(queue[obj[t]], t)]
        /\ UNCHANGED <<obj, popped, handoff, locked, owner, permits, acquired, released,
                       panicked>>
      BY DEF BlockCurrent, At, Goto, Cond
  <2>b. \A o \in Objects : \A i \in 1 .. Len(queue'[o]) :
            \/ i \in 1 .. Len(queue[o]) /\ queue'[o][i] = queue[o][i]
            \/ o = obj[t] /\ i = Len(queue[o]) + 1 /\ queue'[o][i] = t
      BY <2>a
  <2>1. TypeOK'
      BY <2>a
  <2>2. SectionIsMutex' /\ TokenLocks' /\ TokenUnique' /\ HandoffWaits' /\ OwnerTracksGuard'
      BY <2>a DEF SectionIsMutex, TokenLocks, TokenUnique, HandoffWaits, OwnerTracksGuard
  <2>3. ParkedWaits'
      BY <2>a, <2>b DEF ParkedWaits
  <2>4. ParkedOnce'
      BY <2>a, <2>b DEF ParkedOnce, ParkedWaits
  <2>5. PoppedWaits' /\ PoppedOnce'
      BY <2>a DEF PoppedWaits, PoppedOnce
  <2>6. PoppedGone'
      BY <2>a, <2>b DEF PoppedGone, PoppedWaits
  <2> QED BY <2>1, <2>2, <2>3, <2>4, <2>5, <2>6
<1> QED BY <1>1, <1>2 DEF BlockCurrent

\* pop leaves a suffix of the queue behind, without the waiter it returned.
LEMMA PopWaiterStep ==
    ASSUME LockInv, NEW t \in Threads, PopWaiter(t)
    PROVE  LockInv'
<1> USE LockAssumption DEF LockInv, TypeOK, Objects, States, HasToken, PCs, Idle, Try,
    Block, Enter, Held, Pop, Grant, Wake, Free
<1>a. /\ pc[t] = Pop
      /\ UNCHANGED <<state, obj, handoff, locked, owner, permits, acquired, released,
                     panicked>>
    BY DEF PopWaiter, At
<1>1. CASE /\ queue' = [queue EXCEPT ![obj[t]] = <<>>]
           /\ pc' = [pc EXCEPT ![t] = Free]
           /\ popped' = popped
    BY <1>1, <1>a DEF SectionIsMutex, TokenLocks, TokenUnique, HandoffWaits,
           ParkedWaits, ParkedOnce, PoppedWaits, PoppedGone, PoppedOnce, OwnerTracksGuard
<1>2. ASSUME NEW k \in 1 .. Len(queue[obj[t]]),
             popped' = [popped EXCEPT ![t] = queue[obj[t]][k]],
             queue' = [queue EXCEPT ![obj[t]] = SubSeq(queue[obj[t]], k + 1,
             Len(queue[obj[t]]))],
             pc' = [pc EXCEPT ![t] = Grant]
      PROVE  LockInv'
  <2> DEFINE w == queue[obj[t]][k]
  <2>b. w \in Threads /\ obj[w] = obj[t] /\ pc[w] = Try /\ state[w] # "Runnable" /\ ~handoff[w]
      BY DEF ParkedWaits
  <2>c. \A i \in 1 .. Len(queue'[obj[t]]) :
            i + k \in (k + 1) .. Len(queue[obj[t]]) /\ queue'[obj[t]][i] = queue[obj[t]][i + k]
      BY <1>2
  <2>d. \A o \in Objects : o # obj[t] => queue'[o] = queue[o]
      BY <1>2
  <2>e. obj[t] \in Objects /\ Len(queue[obj[t]]) \in Nat /\ Len(queue'[obj[t]]) \in Nat
      BY <1>2
  <2>1. TypeOK'
    <3>1. SubSeq(queue[obj[t]], k + 1, Len(queue[obj[t]])) \in Seq(Threads)
        BY <2>e
    <3>2. queue' \in [Objects -> Seq(Threads)]
        BY <1>2, <3>1
    <3> QED BY <1>2, <1>a, <2>b, <3>2
  <2>2. SectionIsMutex' /\ TokenLocks' /\ TokenUnique' /\ HandoffWaits' /\ OwnerTracksGuard'
      BY <1>2, <1>a DEF SectionIsMutex, TokenLocks, TokenUnique, HandoffWaits,
        OwnerTracksGuard
  <2>3. ParkedWaits'
    <3> SUFFICES ASSUME NEW o \in Objects, NEW i \in 1 .. Len(queue'[o])
                 PROVE  /\ obj[queue'[o][i]] = o
                        /\ pc'[queue'[o][i]] = Try
                        /\ state[queue'[o][i]] # "Runnable"
                        /\ ~handoff[queue'[o][i]]
        BY <1>a DEF ParkedWaits
    <3>1. PICK j \in 1 .. Len(queue[o]) : queue'[o][i] = queue[o][j]
      <4>1. CASE o = obj[t]
        <5>1. i + k \in 1 .. Len(queue[o]) /\ queue'[o][i] = queue[o][i + k]
            BY <4>1, <2>c, <2>e
        <5> QED BY <5>1
      <4>2. CASE o # obj[t]
          BY <4>2, <2>d
      <4> QED BY <4>1, <4>2
    <3>2. /\ queue[o][j] \in Threads
          /\ obj[queue[o][j]] = o /\ pc[queue[o][j]] = Try
          /\ state[queue[o][j]] # "Runnable" /\ ~handoff[queue[o][j]]
        BY DEF ParkedWaits
    <3>3. queue[o][j] # t
        BY <3>2, <1>a
    <3> QED BY <3>1, <3>2, <3>3, <1>2
  <2>4. ParkedOnce'
    <3> SUFFICES ASSUME NEW o \in Objects, NEW i \in 1 .. Len(queue'[o]),
                        NEW j \in 1 .. Len(queue'[o]), queue'[o][i] = queue'[o][j]
                 PROVE  i = j
        BY DEF ParkedOnce
    <3>1. CASE o = obj[t]
      <4>1. /\ i + k \in 1 .. Len(queue[o]) /\ queue'[o][i] = queue[o][i + k]
            /\ j + k \in 1 .. Len(queue[o]) /\ queue'[o][j] = queue[o][j + k]
          BY <3>1, <2>c, <2>e
      <4>2. i + k = j + k
          BY <4>1 DEF ParkedOnce
      <4> QED BY <4>2, <2>e
    <3>2. CASE o # obj[t]
        BY <3>2, <2>d DEF ParkedOnce
    <3> QED BY <3>1, <3>2
  <2>5. PoppedWaits'
      BY <1>2, <1>a, <2>b DEF PoppedWaits
  <2>6. PoppedGone'
      BY <1>2, <1>a, <2>b, <2>c, <2>d, SMTT(60) DEF PoppedGone, ParkedOnce, ParkedWaits
  <2>7. PoppedOnce'
      BY <1>2, <1>a DEF PoppedOnce, PoppedGone
  <2> QED BY <2>1, <2>2, <2>3, <2>4, <2>5, <2>6, <2>7
<1> QED BY <1>1, <1>2 DEF PopWaiter, LiveAt, Goto

----------------------------------------------------------------------------
LEMMA InitLockInv == Init => LockInv
<1> USE LockAssumption DEF PCs, Idle, Try, Block, Enter, Held, Pop, Grant, Wake, Free
<1> SUFFICES ASSUME Init PROVE LockInv
    OBVIOUS
<1>1. TypeOK
  <2>1. queue \in [Objects -> Seq(Threads)]
      BY DEF Init
  <2>2. obj \in [Threads -> Objects] /\ popped \in [Threads -> Threads]
      BY DEF Init
  <2> QED BY <2>1, <2>2 DEF Init, TypeOK, States
<1>2. \A o \in Objects : 1 .. Len(queue[o]) = {}
    BY DEF Init, Objects
<1>3. SectionIsMutex /\ TokenLocks /\ TokenUnique /\ HandoffWaits /\ OwnerTracksGuard
    BY DEF Init, HasToken, SectionIsMutex, TokenLocks, TokenUnique, HandoffWaits,
      OwnerTracksGuard
<1>4. ParkedWaits /\ ParkedOnce
    BY <1>2 DEF ParkedWaits, ParkedOnce
<1>5. PoppedWaits /\ PoppedGone /\ PoppedOnce
    BY DEF Init, PoppedWaits, PoppedGone, PoppedOnce
<1> QED BY <1>1, <1>3, <1>4, <1>5 DEF LockInv

LEMMA NextLockInv == LockInv /\ [Next]_vars => LockInv'
<1> SUFFICES ASSUME LockInv, [Next]_vars PROVE LockInv'
    OBVIOUS
<1>1. CASE UNCHANGED vars
    BY <1>1 DEF LockInv, vars, TypeOK, HasToken, SectionIsMutex, TokenLocks, TokenUnique,
      HandoffWaits,
           ParkedWaits, ParkedOnce, PoppedWaits, PoppedGone, PoppedOnce, OwnerTracksGuard
<1>2. ASSUME NEW t \in Threads, Progress(t) PROVE LockInv'
    BY <1>2, TryNowStep, BlockCurrentStep, EnterCSStep, UnlockStep, PopWaiterStep,
       GrantHandoffStep, WakeNextStep, FreeItStep DEF Progress
<1>3. ASSUME NEW t \in Threads, NEW m \in Mutexes, Lock(t, m) PROVE LockInv'
    BY <1>3, LockStep
<1>4. ASSUME NEW t \in Threads, NEW s \in Sems, Acquire(t, s) \/ Release(t,
    s) PROVE LockInv'
    BY <1>4, AcquireStep, ReleaseStep
<1>5. ASSUME NEW t \in Threads, Kill(t) PROVE LockInv'
    BY <1>5, KillStep
<1> QED BY <1>1, <1>2, <1>3, <1>4, <1>5 DEF Next

\* The strengthened invariant holds in every reachable state.
THEOREM LockInvariant == Spec => []LockInv
<1>1. Init => LockInv
    BY InitLockInv
<1>2. LockInv /\ [Next]_vars => LockInv'
    BY NextLockInv
<1> QED BY <1>1, <1>2, PTL DEF Spec

\* The fields of every thread, mutex, semaphore and wait queue keep their
\* types in every reachable state.
THEOREM TypeCorrect == Spec => []TypeOK
<1>1. LockInv => TypeOK
    BY DEF LockInv
<1> QED BY <1>1, LockInvariant, PTL

\* At most one thread has the guard of a Mutex, for any number of threads,
\* mutexes and semaphores, whoever is preempted or killed wherever: lock and
\* the direct hand-off of unlock (mutex.rs) exclude each other.
THEOREM MutexExcludes == Spec => []MutualExclusion
<1>1. LockInv => MutualExclusion
    BY DEF LockInv, MutualExclusion, SectionIsMutex, TokenUnique, HasToken, TypeOK, PCs,
      Idle, Try, Block, Enter, Held, Pop, Grant, Wake, Free
<1> QED BY <1>1, LockInvariant, PTL

\* Mutex::owner is accurate, so the re-entry assertion of lock never fires
\* for a caller that does not hold the mutex.
THEOREM OwnerAccurate == Spec => []OwnerTracksGuard
<1>1. LockInv => OwnerTracksGuard
    BY DEF LockInv
<1> QED BY <1>1, LockInvariant, PTL

----------------------------------------------------------------------------
(***************************************************************************)
(* The claims are counted: a locked mutex has exactly one, a blocked       *)
(* thread has exactly one waker, and no permit is created or lost.         *)
(***************************************************************************)

\* Steps that leave every claim and every count where it was.
Quiet(t) ==
    \/ \E m \in Mutexes : Lock(t, m)
    \/ \E s \in Sems : Acquire(t, s)
    \/ EnterCS(t) \/ Unlock(t) \/ PopWaiter(t) \/ WakeNext(t) \/ Kill(t)
    \/ (TryNow(t) \/ BlockCurrent(t)) /\ ~Cond(t)

LEMMA QuietClaims ==
    ASSUME LockInv, NEW t \in Threads, Quiet(t)
    PROVE  /\ \A o \in Objects : Tokens(o)' = Tokens(o)
           /\ UNCHANGED <<locked, permits, acquired, released>>
<1> USE DEF At, Goto, PCs, Idle, Try, Block, Enter, Held, Pop, Grant, Wake, Free
<1>1. TypeOK /\ HandoffWaits
  BY DEF LockInv
<1>2. SUFFICES /\ \A u \in Threads, o \in Objects : HasToken(u, o)' <=> HasToken(u, o)
               /\ UNCHANGED <<locked, permits, acquired, released>>
  <2>1. \A o \in Objects : Tokens(o)' = {u \in Threads : HasToken(u, o)'}
    BY DEF Tokens
  <2> QED BY <2>1 DEF Tokens
<1>3. CASE \E m \in Mutexes : Lock(t, m)
  <2>1. PICK m \in Mutexes : Lock(t, m)
    BY <1>3
  <2> QED BY <1>1, <2>1 DEF Lock, TypeOK, HandoffWaits, HasToken
<1>4. CASE \E s \in Sems : Acquire(t, s)
  <2>1. PICK s \in Sems : Acquire(t, s)
    BY <1>4
  <2> QED BY <1>1, <2>1 DEF Acquire, TypeOK, HandoffWaits, HasToken
<1>5. CASE EnterCS(t) \/ Unlock(t)
  BY <1>1, <1>5 DEF EnterCS, Unlock, TypeOK, HasToken
<1>6. CASE PopWaiter(t)
  <2>1. /\ pc[t] = Pop /\ \E to \in {Free, Grant} : pc' = [pc EXCEPT ![t] = to]
        /\ UNCHANGED <<obj, handoff, locked, permits, acquired, released>>
    BY <1>6 DEF PopWaiter
  <2> QED BY <1>1, <2>1 DEF TypeOK, HasToken
<1>7. CASE WakeNext(t) \/ Kill(t)
  BY <1>1, <1>7 DEF WakeNext, Kill, TypeOK, HasToken
<1>8. CASE (TryNow(t) \/ BlockCurrent(t)) /\ ~Cond(t)
  <2>1. /\ pc[t] \in {Try, Block} /\ ~handoff[t] /\ \E to \in {Try, Block} : pc' = [pc EXCEPT ![t] = to]
        /\ UNCHANGED <<obj, handoff, locked, permits, acquired, released>>
    BY <1>8 DEF TryNow, BlockCurrent, Cond
  <2> QED BY <1>1, <2>1 DEF TypeOK, HasToken
<1> QED BY <1>3, <1>4, <1>5, <1>6, <1>7, <1>8 DEF Quiet

\* release makes a claim on the semaphore out of the call.
LEMMA ReleaseClaims ==
    ASSUME LockInv, NEW t \in Threads, NEW s \in Sems, Release(t, s)
    PROVE  /\ t \notin Tokens(s) /\ Tokens(s)' = Tokens(s) \cup {t}
           /\ \A o \in Objects \ {s} : Tokens(o)' = Tokens(o)
           /\ released' = [released EXCEPT ![s] = @ + 1]
           /\ UNCHANGED <<locked, permits, acquired>>
<1> USE DEF Release, At, Goto, PCs, Idle, Try, Block, Enter, Held, Pop, Grant, Wake, Free
<1>1. TypeOK /\ HandoffWaits /\ s \in Objects
  BY DEF LockInv, Objects
<1>2. \A u \in Threads, o \in Objects : HasToken(u, o)' <=> HasToken(u, o) \/ (u = t /\ o = s)
  BY <1>1 DEF TypeOK, HandoffWaits, HasToken
<1>3. ~HasToken(t, s)
  BY <1>1 DEF HandoffWaits, HasToken
<1>4. \A o \in Objects : Tokens(o)' = {u \in Threads : HasToken(u, o)'}
  BY DEF Tokens
<1> QED BY <1>1, <1>2, <1>3, <1>4 DEF Tokens

\* A claim taken from a free object, or a hand-off received: of a mutex it
\* is kept, of a semaphore it is used up.
LEMMA TakeClaims ==
    ASSUME LockInv, NEW t \in Threads, TryNow(t) \/ BlockCurrent(t), Cond(t)
    PROVE  LET o == obj[t] IN
           /\ \A x \in Objects : Tokens(x)' = IF x # o THEN Tokens(x)
                                           ELSE IF x \in Mutexes THEN Tokens(x) \cup {t}
                                           ELSE Tokens(x) \ {t}
           /\ t \in Tokens(o) <=> handoff[t]
           /\ locked' = IF o \in Mutexes /\ ~handoff[t] THEN [locked EXCEPT ![o] = TRUE] ELSE locked
           /\ permits' = IF o \in Sems /\ ~handoff[t] THEN [permits EXCEPT ![o] = permits[o] - 1] ELSE permits
           /\ acquired' = IF o \in Sems THEN [acquired EXCEPT ![o] = acquired[o] + 1] ELSE acquired
           /\ o \in Sems /\ ~handoff[t] => permits[o] > 0
           /\ UNCHANGED released
<1> USE DEF PCs, Idle, Try, Block, Enter, Held, Pop, Grant, Wake, Free
<1> DEFINE o == obj[t]
<1>1. TypeOK /\ HandoffWaits /\ o \in Objects
  BY DEF LockInv, TypeOK
<1>2. TakeIt(t) /\ pc[t] \in {Try, Block}
  BY DEF TryNow, BlockCurrent, At
<1>3. /\ handoff' = [handoff EXCEPT ![t] = FALSE] /\ obj' = obj
      /\ pc' = [pc EXCEPT ![t] = IF o \in Mutexes THEN Enter ELSE Idle]
  BY <1>2 DEF TakeIt, Goto
<1>4. \A u \in Threads \ {t}, x \in Objects : HasToken(u, x)' <=> HasToken(u, x)
  BY <1>1, <1>3 DEF TypeOK, HasToken
<1>5. \A x \in Objects : /\ HasToken(t, x)' <=> (x = o /\ o \in Mutexes)
                         /\ HasToken(t, x) <=> (x = o /\ handoff[t])
  BY <1>1, <1>2, <1>3 DEF TypeOK, HasToken
<1>6. \A x \in Objects : Tokens(x)' = {u \in Threads : HasToken(u, x)'}
  BY DEF Tokens
<1>7. /\ \A x \in Objects : Tokens(x)' = IF x # o THEN Tokens(x)
                                      ELSE IF x \in Mutexes THEN Tokens(x) \cup {t}
                                      ELSE Tokens(x) \ {t}
      /\ t \in Tokens(o) <=> handoff[t]
  <2> HIDE DEF o
  <2> QED BY <1>1, <1>4, <1>5, <1>6 DEF Tokens
<1>8. o \in Sems /\ ~handoff[t] => permits[o] > 0
  BY LockAssumption DEF Cond, Available
<1>9. /\ locked' = IF o \in Mutexes /\ ~handoff[t] THEN [locked EXCEPT ![o] = TRUE] ELSE locked
      /\ permits' = IF o \in Sems /\ ~handoff[t] THEN [permits EXCEPT ![o] = permits[o] - 1] ELSE permits
      /\ acquired' = IF o \in Sems THEN [acquired EXCEPT ![o] = acquired[o] + 1] ELSE acquired
      /\ UNCHANGED released
  BY <1>2 DEF TakeIt
<1> QED BY <1>7, <1>8, <1>9

\* The claim passes from the thread that gives the object back to the waiter
\* it popped.
LEMMA GrantClaims ==
    ASSUME LockInv, NEW t \in Threads, GrantHandoff(t)
    PROVE  /\ \A x \in Objects : Tokens(x)' = IF x # obj[t] THEN Tokens(x)
                                           ELSE (Tokens(x) \ {t}) \cup {popped[t]}
           /\ t \in Tokens(obj[t]) /\ popped[t] \in Threads \ Tokens(obj[t])
           /\ UNCHANGED <<locked, permits, acquired, released>>
<1> USE DEF GrantHandoff, At, Goto, PCs, Idle, Try, Block, Enter, Held, Pop, Grant, Wake, Free
<1> DEFINE o == obj[t]
           w == popped[t]
<1>1. TypeOK /\ HandoffWaits /\ o \in Objects /\ w \in Threads
  BY DEF LockInv, TypeOK
<1>2. pc[w] = Try /\ obj[w] = o /\ ~handoff[w] /\ w # t
  BY <1>1 DEF LockInv, PoppedWaits
<1>3. /\ handoff' = [handoff EXCEPT ![w] = TRUE] /\ obj' = obj
      /\ pc' = [pc EXCEPT ![t] = Wake] /\ pc[t] = Grant
  OBVIOUS
<1>4. \A u \in Threads, x \in Objects : u # t /\ u # w => (HasToken(u, x)' <=> HasToken(u, x))
  BY <1>1, <1>3 DEF TypeOK, HasToken
<1>5. \A x \in Objects : /\ ~HasToken(t, x)' /\ (HasToken(t, x) <=> x = o)
                         /\ ~HasToken(w, x) /\ (HasToken(w, x)' <=> x = o)
  BY <1>1, <1>2, <1>3 DEF TypeOK, HasToken, HandoffWaits
<1>6. \A x \in Objects : Tokens(x)' = {u \in Threads : HasToken(u, x)'}
  BY DEF Tokens
<1> QED BY <1>1, <1>2, <1>4, <1>5, <1>6 DEF Tokens

\* Nobody waits: the claim ends and the object is free again.
LEMMA FreeClaims ==
    ASSUME LockInv, NEW t \in Threads, FreeIt(t)
    PROVE  LET o == obj[t] IN
           /\ t \in Tokens(o)
           /\ \A x \in Objects : Tokens(x)' = IF x # o THEN Tokens(x) ELSE Tokens(x) \ {t}
           /\ locked' = IF o \in Mutexes THEN [locked EXCEPT ![o] = FALSE] ELSE locked
           /\ permits' = IF o \in Sems THEN [permits EXCEPT ![o] = permits[o] + 1] ELSE permits
           /\ UNCHANGED <<acquired, released>>
<1> USE DEF FreeIt, At, Goto, PCs, Idle, Try, Block, Enter, Held, Pop, Grant, Wake, Free
<1> DEFINE o == obj[t]
<1>1. TypeOK /\ HandoffWaits /\ o \in Objects
  BY DEF LockInv, TypeOK
<1>2. obj' = obj /\ handoff' = handoff /\ pc' = [pc EXCEPT ![t] = Idle] /\ pc[t] = Free
  OBVIOUS
<1>3. \A u \in Threads \ {t}, x \in Objects : HasToken(u, x)' <=> HasToken(u, x)
  BY <1>1, <1>2 DEF TypeOK, HasToken
<1>4. \A x \in Objects : ~HasToken(t, x)' /\ (HasToken(t, x) <=> x = o)
  BY <1>1, <1>2 DEF TypeOK, HasToken, HandoffWaits
<1>5. \A x \in Objects : Tokens(x)' = {u \in Threads : HasToken(u, x)'}
  BY DEF Tokens
<1>6. /\ t \in Tokens(o)
      /\ \A x \in Objects : Tokens(x)' = IF x # o THEN Tokens(x) ELSE Tokens(x) \ {t}
  BY <1>1, <1>3, <1>4, <1>5 DEF Tokens
<1> QED BY <1>6

\* Every step is one of these.
LEMMA ClaimCases ==
    ASSUME Next
    PROVE  \E t \in Threads :
              \/ Quiet(t)
              \/ \E s \in Sems : Release(t, s)
              \/ (TryNow(t) \/ BlockCurrent(t)) /\ Cond(t)
              \/ GrantHandoff(t)
              \/ FreeIt(t)
  BY DEF Next, Progress, Quiet

LEMMA LockedStep ==
    ASSUME LockInv, LockedIsClaimed, Next
    PROVE  LockedIsClaimed'
<1>1. PICK t \in Threads : \/ Quiet(t)
                           \/ \E s \in Sems : Release(t, s)
                           \/ (TryNow(t) \/ BlockCurrent(t)) /\ Cond(t)
                           \/ GrantHandoff(t)
                           \/ FreeIt(t)
  BY ClaimCases
<1>2. /\ \A m \in Mutexes : m \in Objects /\ m \notin Sems
      /\ locked \in [Mutexes -> BOOLEAN] /\ obj[t] \in Objects
  BY LockAssumption DEF LockInv, TypeOK, Objects
<1>3. \A m \in Mutexes : locked[m] => Tokens(m) # {}
  BY DEF LockedIsClaimed, Tokens
<1>4. SUFFICES \A m \in Mutexes : locked'[m] => Tokens(m)' # {}
  <2>1. \A m \in Mutexes : Tokens(m)' = {u \in Threads : HasToken(u, m)'}
    BY DEF Tokens
  <2> QED BY <2>1 DEF LockedIsClaimed
<1>5. CASE Quiet(t)
  BY <1>2, <1>3, <1>5, QuietClaims
<1>6. CASE \E s \in Sems : Release(t, s)
  <2>1. PICK s \in Sems : Release(t, s)
    BY <1>6
  <2>2. locked' = locked /\ \A m \in Mutexes : Tokens(m)' = Tokens(m)
    BY <1>2, <2>1, ReleaseClaims
  <2> QED BY <1>3, <2>2
<1>7. CASE (TryNow(t) \/ BlockCurrent(t)) /\ Cond(t)
  <2>1. /\ \A x \in Objects : Tokens(x)' = IF x # obj[t] THEN Tokens(x)
                                        ELSE IF x \in Mutexes THEN Tokens(x) \cup {t}
                                        ELSE Tokens(x) \ {t}
        /\ locked' = IF obj[t] \in Mutexes /\ ~handoff[t] THEN [locked EXCEPT ![obj[t]] = TRUE] ELSE locked
    BY <1>7, TakeClaims
  <2> QED BY <1>2, <1>3, <2>1
<1>8. CASE GrantHandoff(t)
  <2>1. /\ \A x \in Objects : Tokens(x)' = IF x # obj[t] THEN Tokens(x)
                                        ELSE (Tokens(x) \ {t}) \cup {popped[t]}
        /\ locked' = locked
    BY <1>8, GrantClaims
  <2> QED BY <1>2, <1>3, <2>1
<1>9. CASE FreeIt(t)
  <2>1. /\ \A x \in Objects : Tokens(x)' = IF x # obj[t] THEN Tokens(x) ELSE Tokens(x) \ {t}
        /\ locked' = IF obj[t] \in Mutexes THEN [locked EXCEPT ![obj[t]] = FALSE] ELSE locked
    BY <1>9, FreeClaims
  <2> QED BY <1>2, <1>3, <2>1
<1> QED BY <1>1, <1>5, <1>6, <1>7, <1>8, <1>9


LEMMA CountStep ==
    ASSUME LockInv, ClaimsAreCounted, Next
    PROVE  ClaimsAreCounted'
<1>1. PICK t \in Threads : \/ Quiet(t)
                           \/ \E s \in Sems : Release(t, s)
                           \/ (TryNow(t) \/ BlockCurrent(t)) /\ Cond(t)
                           \/ GrantHandoff(t)
                           \/ FreeIt(t)
  BY ClaimCases
<1>2. /\ permits \in [Sems -> Nat] /\ acquired \in [Sems -> Nat] /\ released \in [Sems -> Nat]
      /\ \A s \in Sems : s \in Objects /\ s \notin Mutexes
      /\ InitPermits \in Nat /\ obj[t] \in Objects
  BY LockAssumption DEF LockInv, TypeOK, Objects
<1>3. SUFFICES ASSUME NEW s \in Sems
               PROVE  /\ IsFiniteSet(Tokens(s)')
                      /\ permits'[s] + acquired'[s] + Cardinality(Tokens(s)') = InitPermits + released'[s]
  BY DEF ClaimsAreCounted, PermitConservation
<1>4. /\ IsFiniteSet(Tokens(s)) /\ Cardinality(Tokens(s)) \in Nat
      /\ permits[s] + acquired[s] + Cardinality(Tokens(s)) = InitPermits + released[s]
  BY FS_CardinalityType DEF ClaimsAreCounted, PermitConservation
<1>5. CASE Quiet(t)
  BY <1>2, <1>4, <1>5, QuietClaims
<1>6. CASE \E x \in Sems : Release(t, x)
  <2>1. PICK x \in Sems : Release(t, x)
    BY <1>6
  <2>2. CASE x = s
    <3>1. t \notin Tokens(s) /\ Tokens(s)' = Tokens(s) \cup {t} /\ released'[s] = released[s] + 1
          /\ permits'[s] = permits[s] /\ acquired'[s] = acquired[s]
      BY <1>2, <2>1, <2>2, ReleaseClaims
    <3>2. IsFiniteSet(Tokens(s)') /\ Cardinality(Tokens(s)') = Cardinality(Tokens(s)) + 1
      BY <1>4, <3>1, FS_AddElement
    <3> QED BY <1>2, <1>4, <3>1, <3>2
  <2>3. CASE x # s
    <3>1. Tokens(s)' = Tokens(s) /\ released'[s] = released[s]
          /\ permits'[s] = permits[s] /\ acquired'[s] = acquired[s]
      BY <1>2, <2>1, <2>3, ReleaseClaims
    <3> QED BY <1>4, <3>1
  <2> QED BY <2>2, <2>3
<1>7. CASE (TryNow(t) \/ BlockCurrent(t)) /\ Cond(t)
  <2>1. /\ Tokens(s)' = IF s # obj[t] THEN Tokens(s) ELSE Tokens(s) \ {t}
        /\ s = obj[t] => (t \in Tokens(s) <=> handoff[t])
        /\ permits'[s] = IF s = obj[t] /\ ~handoff[t] THEN permits[s] - 1 ELSE permits[s]
        /\ acquired'[s] = IF s = obj[t] THEN acquired[s] + 1 ELSE acquired[s]
        /\ released' = released
    BY <1>2, <1>7, TakeClaims
  <2>2. CASE s # obj[t]
    BY <1>4, <2>1, <2>2
  <2>3. CASE s = obj[t] /\ handoff[t]
    <3>1. IsFiniteSet(Tokens(s)') /\ Cardinality(Tokens(s)') = Cardinality(Tokens(s)) - 1
      BY <1>4, <2>1, <2>3, FS_RemoveElement
    <3> QED BY <1>2, <1>4, <2>1, <2>3, <3>1
  <2>4. CASE s = obj[t] /\ ~handoff[t]
    <3>1. Tokens(s)' = Tokens(s)
      BY <2>1, <2>4
    <3> QED BY <1>2, <1>4, <2>1, <2>4, <3>1
  <2> QED BY <2>2, <2>3, <2>4
<1>8. CASE GrantHandoff(t)
  <2>1. /\ Tokens(s)' = IF s # obj[t] THEN Tokens(s) ELSE (Tokens(s) \ {t}) \cup {popped[t]}
        /\ s = obj[t] => t \in Tokens(s) /\ popped[t] \notin Tokens(s)
        /\ UNCHANGED <<permits, acquired, released>>
    BY <1>2, <1>8, GrantClaims
  <2>2. CASE s # obj[t]
    BY <1>4, <2>1, <2>2
  <2>3. CASE s = obj[t]
    <3>1. IsFiniteSet(Tokens(s) \ {t}) /\ Cardinality(Tokens(s) \ {t}) = Cardinality(Tokens(s)) - 1
      BY <1>4, <2>1, <2>3, FS_RemoveElement
    <3>2. IsFiniteSet(Tokens(s)') /\ Cardinality(Tokens(s)') = Cardinality(Tokens(s) \ {t}) + 1
      <4>1. Tokens(s)' = (Tokens(s) \ {t}) \cup {popped[t]} /\ popped[t] \notin Tokens(s) \ {t}
        BY <2>1, <2>3
      <4> QED BY <3>1, <4>1, FS_AddElement
    <3> QED BY <1>2, <1>4, <2>1, <3>1, <3>2
  <2> QED BY <2>2, <2>3
<1>9. CASE FreeIt(t)
  <2>1. /\ Tokens(s)' = IF s # obj[t] THEN Tokens(s) ELSE Tokens(s) \ {t}
        /\ s = obj[t] => t \in Tokens(s)
        /\ permits'[s] = IF s = obj[t] THEN permits[s] + 1 ELSE permits[s]
        /\ UNCHANGED <<acquired, released>>
    BY <1>2, <1>9, FreeClaims
  <2>2. CASE s # obj[t]
    BY <1>4, <2>1, <2>2
  <2>3. CASE s = obj[t]
    <3>1. IsFiniteSet(Tokens(s)') /\ Cardinality(Tokens(s)') = Cardinality(Tokens(s)) - 1
      BY <1>4, <2>1, <2>3, FS_RemoveElement
    <3> QED BY <1>2, <1>4, <2>1, <2>3, <3>1
  <2> QED BY <2>2, <2>3
<1> QED BY <1>1, <1>5, <1>6, <1>7, <1>8, <1>9

\* A blocked thread stays findable: block_current puts it in the queue, pop
\* discards only exited threads, and whoever popped it keeps it until wake.
LEMMA FoundStep ==
    ASSUME LockInv, BlockedIsFound, Next
    PROVE  BlockedIsFound'
<1> USE DEF At, Goto, PCs, Idle, Try, Block, Enter, Held, Pop, Grant, Wake, Free
<1>1. PICK t \in Threads : \/ Progress(t)
                           \/ \E m \in Mutexes : Lock(t, m)
                           \/ \E s \in Sems : Acquire(t, s) \/ Release(t, s)
                           \/ Kill(t)
  BY DEF Next
<1>2. TypeOK /\ PoppedOnce /\ \A o \in Objects : queue[o] \in Seq(Threads)
  BY DEF LockInv, TypeOK
<1>3. CASE \/ \E m \in Mutexes : Lock(t, m)
           \/ \E s \in Sems : Acquire(t, s) \/ Release(t, s)
  <2>1. /\ state[t] = "Runnable" /\ pc[t] = Idle /\ \A u \in Threads \ {t} : obj'[u] = obj[u]
        /\ \A u \in Threads \ {t} : pc'[u] = pc[u]
        /\ UNCHANGED <<state, queue, popped>>
    BY <1>2, <1>3 DEF Lock, Acquire, Release, TypeOK
  <2> QED BY <2>1 DEF BlockedIsFound
<1>4. CASE Kill(t)
  BY <1>2, <1>4 DEF Kill, BlockedIsFound, TypeOK
<1>5. CASE (BlockCurrent(t) /\ Cond(t)) \/ TryNow(t) \/ EnterCS(t) \/ Unlock(t) \/ FreeIt(t)
  <2>1. /\ pc[t] \in {Try, Block, Enter, Held, Free} /\ obj' = obj
        /\ \A u \in Threads \ {t} : pc'[u] = pc[u]
        /\ UNCHANGED <<state, queue, popped>>
    BY <1>2, <1>5 DEF TryNow, BlockCurrent, TakeIt, EnterCS, Unlock, FreeIt, TypeOK
  <2> QED BY <2>1 DEF BlockedIsFound
<1>6. CASE BlockCurrent(t) /\ ~Cond(t)
  <2> DEFINE o == obj[t]
             q == Append(queue[o], t)
  <2>1. /\ pc[t] = Block /\ UNCHANGED <<obj, popped>> /\ o \in Objects
        /\ state' = [state EXCEPT ![t] = "Blocked"]
        /\ queue' = [queue EXCEPT ![o] = q]
        /\ \A u \in Threads \ {t} : pc'[u] = pc[u]
    BY <1>2, <1>6 DEF BlockCurrent, TypeOK
  <2>2. /\ Len(q) = Len(queue[o]) + 1 /\ q[Len(q)] = t
        /\ \A i \in 1 .. Len(queue[o]) : i \in 1 .. Len(q) /\ q[i] = queue[o][i]
    BY <1>2, <2>1
  <2>3. Len(q) \in 1 .. Len(q)
    BY <1>2, <2>1, <2>2
  <2> HIDE DEF q
  <2>4. \A x \in Objects : queue'[x] = IF x = o THEN q ELSE queue[x]
    BY <1>2, <2>1 DEF TypeOK
  <2> SUFFICES ASSUME NEW u \in Threads, state'[u] = "Blocked"
               PROVE  \/ \E i \in 1 .. Len(queue'[obj[u]]) : queue'[obj[u]][i] = u
                      \/ \E v \in Threads : pc'[v] \in {Grant, Wake} /\ popped[v] = u
    BY <2>1 DEF BlockedIsFound
  <2>5. obj[u] \in Objects
    BY <1>2 DEF TypeOK
  <2>6. CASE u = t
    BY <2>2, <2>3, <2>4, <2>5, <2>6
  <2>7. CASE u # t
    <3>1. state[u] = "Blocked"
      BY <1>2, <2>1, <2>7 DEF TypeOK
    <3>2. CASE \E i \in 1 .. Len(queue[obj[u]]) : queue[obj[u]][i] = u
      BY <2>2, <2>4, <2>5, <3>2
    <3>3. CASE \E v \in Threads : pc[v] \in {Grant, Wake} /\ popped[v] = u
      BY <2>1, <3>3
    <3> QED BY <3>1, <3>2, <3>3 DEF BlockedIsFound
  <2> QED BY <2>6, <2>7
<1>7. CASE PopWaiter(t)
  <2> DEFINE o == obj[t]
  <2>1. /\ pc[t] = Pop /\ UNCHANGED <<obj, state>> /\ o \in Objects
        /\ \A u \in Threads \ {t} : pc'[u] = pc[u] /\ popped'[u] = popped[u]
        /\ \A x \in Objects \ {o} : queue'[x] = queue[x]
    BY <1>2, <1>7 DEF PopWaiter, TypeOK
  <2> SUFFICES ASSUME NEW u \in Threads, state[u] = "Blocked"
               PROVE  \/ \E i \in 1 .. Len(queue'[obj[u]]) : queue'[obj[u]][i] = u
                      \/ \E v \in Threads : pc'[v] \in {Grant, Wake} /\ popped'[v] = u
    BY <2>1 DEF BlockedIsFound
  <2>2. obj[u] \in Objects
    BY <1>2 DEF TypeOK
  <2>3. CASE \E v \in Threads : pc[v] \in {Grant, Wake} /\ popped[v] = u
    BY <2>1, <2>3
  <2>4. CASE obj[u] # o
    BY <2>1, <2>2, <2>3, <2>4 DEF BlockedIsFound
  <2>5. CASE obj[u] = o /\ \E i \in 1 .. Len(queue[o]) : queue[o][i] = u
    <3>1. PICK i \in 1 .. Len(queue[o]) : queue[o][i] = u
      BY <2>5
    <3>2. i \in LiveAt(o)
      BY <3>1 DEF LiveAt
    <3>3. PICK k \in LiveAt(o) : /\ \A j \in LiveAt(o) : k <= j
                                 /\ popped' = [popped EXCEPT ![t] = queue[o][k]]
                                 /\ queue' = [queue EXCEPT ![o] = SubSeq(queue[o], k + 1, Len(queue[o]))]
                                 /\ pc' = [pc EXCEPT ![t] = Grant]
      BY <1>7, <3>2 DEF PopWaiter
    <3>4. k \in 1 .. Len(queue[o]) /\ k <= i /\ Len(queue[o]) \in Nat
      BY <1>2, <2>1, <3>2, <3>3 DEF LiveAt
    <3>5. CASE k = i
      BY <1>2, <3>1, <3>3, <3>5 DEF TypeOK
    <3>6. CASE k < i
      <4>1. queue'[o] = SubSeq(queue[o], k + 1, Len(queue[o]))
        <5>1. queue \in [Objects -> Seq(Threads)]
          BY <1>2 DEF TypeOK
        <5> QED BY <2>1, <3>3, <5>1
      <4>2. /\ Len(queue'[o]) = Len(queue[o]) - k
            /\ \A j \in 1 .. Len(queue[o]) - k : queue'[o][j] = queue[o][j + k]
        <5> DEFINE q == queue[o]
        <5>1. q \in Seq(Threads) /\ k \in 1 .. Len(q) /\ Len(q) \in Nat
          BY <1>2, <2>1, <3>4
        <5> HIDE DEF q
        <5>2. /\ Len(SubSeq(q, k + 1, Len(q))) = Len(q) - k
              /\ \A j \in 1 .. Len(q) - k : SubSeq(q, k + 1, Len(q))[j] = q[j + k]
          BY <5>1
        <5> QED BY <4>1, <5>2 DEF q
      <4>3. i - k \in 1 .. Len(queue'[o]) /\ queue'[o][i - k] = u
        BY <3>1, <3>4, <3>6, <4>2
      <4> QED BY <2>5, <4>3
    <3> QED BY <3>4, <3>5, <3>6
  <2> QED BY <2>3, <2>4, <2>5 DEF BlockedIsFound
<1>8. CASE GrantHandoff(t)
  <2>1. pc[t] = Grant /\ pc' = [pc EXCEPT ![t] = Wake] /\ UNCHANGED <<state, obj, queue, popped>>
    BY <1>8 DEF GrantHandoff
  <2>2. \A v \in Threads : pc[v] \in {Grant, Wake} => pc'[v] \in {Grant, Wake}
    BY <1>2, <2>1 DEF TypeOK
  <2> QED BY <2>1, <2>2 DEF BlockedIsFound
<1>9. CASE WakeNext(t)
  <2>1. /\ \A u \in Threads \ {t} : pc'[u] = pc[u]
        /\ UNCHANGED <<obj, queue, popped>>
        /\ \A u \in Threads : state'[u] = "Blocked" => state[u] = "Blocked" /\ u # popped[t]
    BY <1>2, <1>9 DEF WakeNext, TypeOK, States
  <2> QED BY <2>1 DEF BlockedIsFound
<1> QED BY <1>1, <1>3, <1>4, <1>5, <1>6, <1>7, <1>8, <1>9 DEF Progress, BlockCurrent


LEMMA InitClaims == Init => ClaimInv
<1> SUFFICES ASSUME Init PROVE ClaimInv
  OBVIOUS
<1>1. LockInv
  BY InitLockInv
<1>2. \A t \in Threads, o \in Objects : ~HasToken(t, o)
  BY DEF Init, HasToken, Idle, Enter, Held, Pop, Grant, Free
<1>3. \A s \in Sems : Tokens(s) = {}
  BY <1>2 DEF Tokens, Objects
<1>4. ClaimsAreCounted
  <2>1. IsFiniteSet({}) /\ Cardinality({}) = 0
    BY FS_EmptySet
  <2>2. \A s \in Sems : permits[s] = InitPermits /\ acquired[s] = 0 /\ released[s] = 0
    BY DEF Init
  <2>3. ASSUME NEW s \in Sems
        PROVE  /\ IsFiniteSet(Tokens(s))
               /\ permits[s] + acquired[s] + Cardinality(Tokens(s)) = InitPermits + released[s]
    <3>1. Cardinality(Tokens(s)) = 0 /\ IsFiniteSet(Tokens(s))
      BY <1>3, <2>1
    <3> QED BY <2>2, <3>1, LockAssumption
  <2> QED BY <2>3 DEF ClaimsAreCounted, PermitConservation
<1>5. LockedIsClaimed /\ BlockedIsFound
  BY DEF Init, LockedIsClaimed, BlockedIsFound
<1> QED BY <1>1, <1>4, <1>5 DEF ClaimInv

LEMMA NextClaims == ClaimInv /\ [Next]_vars => ClaimInv'
<1> SUFFICES ASSUME ClaimInv, [Next]_vars PROVE ClaimInv'
  OBVIOUS
<1>1. LockInv'
  BY NextLockInv DEF ClaimInv
<1>2. CASE Next
  BY <1>1, <1>2, LockedStep, CountStep, FoundStep DEF ClaimInv
<1>3. CASE UNCHANGED vars
  BY <1>1, <1>3 DEF ClaimInv, vars, LockedIsClaimed, BlockedIsFound, ClaimsAreCounted, PermitConservation,
     Tokens, HasToken
<1> QED BY <1>2, <1>3

\* The claims are as counted in every reachable state.
THEOREM ClaimInvariant == Spec => []ClaimInv
<1> QED BY InitClaims, NextClaims, PTL DEF Spec

\* Mutex::locked is true exactly while one thread has the claim on the
\* mutex: the hand-off of unlock (mutex.rs) neither duplicates nor drops it,
\* for any threads, wherever they are preempted or killed.
THEOREM ClaimsAreUnique == Spec => []OneTokenPerLock
<1>1. ASSUME ClaimInv PROVE OneTokenPerLock
  <2> SUFFICES ASSUME NEW m \in Mutexes
               PROVE  Cardinality(Tokens(m)) = IF locked[m] THEN 1 ELSE 0
    BY DEF OneTokenPerLock
  <2>1. /\ \A t \in Tokens(m) : t \in Threads /\ obj[t] = m /\ HasToken(t, m)
        /\ locked[m] => Tokens(m) # {}
    BY <1>1 DEF ClaimInv, LockedIsClaimed, Tokens, HasToken
  <2>2. /\ \A t \in Tokens(m) : locked[m]
        /\ \A t, u \in Tokens(m) : t = u
    BY <1>1, <2>1 DEF ClaimInv, LockInv, TokenLocks, TokenUnique
  <2>3. CASE locked[m]
    <3>1. PICK t : t \in Tokens(m)
      BY <2>1, <2>3
    <3>2. Tokens(m) = {t}
      BY <2>2, <3>1
    <3> QED BY <2>3, <3>2, FS_Singleton
  <2>4. CASE ~locked[m]
    <3>1. Tokens(m) = {}
      BY <2>2, <2>4
    <3> QED BY <2>4, <3>1, FS_EmptySet
  <2> QED BY <2>3, <2>4
<1> QED BY <1>1, ClaimInvariant, PTL

\* No permit of a Semaphore is created or lost: free, acquired and handed
\* over add up to the initial permits and the releases.
THEOREM PermitsAreConserved == Spec => []PermitConservation
<1>1. ClaimInv => PermitConservation
  BY DEF ClaimInv, ClaimsAreCounted
<1> QED BY <1>1, ClaimInvariant, PTL

\* A thread blocked by wait_until is in the queue of its object once or in
\* the hands of one waker, never both and never neither; only parked
\* threads are in a queue, and none of them has been granted anything yet.
THEOREM BlockedAreReachable == Spec => []WaitersReachable
<1>1. ASSUME ClaimInv PROVE WaitersReachable
  <2>1. /\ TypeOK /\ ParkedWaits /\ ParkedOnce /\ PoppedGone /\ PoppedOnce /\ BlockedIsFound
        /\ \A o \in Objects : Len(queue[o]) \in Nat
    BY <1>1 DEF ClaimInv, LockInv, TypeOK
  <2>2. ASSUME NEW t \in Threads, state[t] = "Blocked"
        PROVE  Cardinality({i \in 1 .. Len(queue[obj[t]]) : queue[obj[t]][i] = t})
                 + Cardinality(PoppedBy(t)) = 1
    <3> DEFINE P == {i \in 1 .. Len(queue[obj[t]]) : queue[obj[t]][i] = t}
    <3>1. obj[t] \in Objects
      BY <2>1 DEF TypeOK
    <3>2. CASE \E u \in Threads : pc[u] \in {Grant, Wake} /\ popped[u] = t
      <4>1. PICK u \in Threads : pc[u] \in {Grant, Wake} /\ popped[u] = t
        BY <3>2
      <4>2. P = {}
        BY <2>1, <3>1, <4>1 DEF PoppedGone
      <4>3. PoppedBy(t) = {u}
        BY <2>1, <4>1 DEF PoppedBy, PoppedOnce
      <4>4. Cardinality(P) = 0 /\ Cardinality(PoppedBy(t)) = 1
        BY <4>2, <4>3, FS_EmptySet, FS_Singleton
      <4> QED BY <4>4
    <3>3. CASE ~\E u \in Threads : pc[u] \in {Grant, Wake} /\ popped[u] = t
      <4>1. PICK i \in 1 .. Len(queue[obj[t]]) : queue[obj[t]][i] = t
        BY <2>1, <2>2, <3>3 DEF BlockedIsFound
      <4>2. P = {i}
        BY <2>1, <3>1, <4>1 DEF ParkedOnce
      <4>3. PoppedBy(t) = {}
        BY <3>3 DEF PoppedBy
      <4>4. Cardinality(P) = 1 /\ Cardinality(PoppedBy(t)) = 0
        BY <4>2, <4>3, FS_EmptySet, FS_Singleton
      <4> QED BY <4>4
    <3> QED BY <3>2, <3>3
  <2> QED BY <2>1, <2>2 DEF WaitersReachable, ParkedWaits
<1> QED BY <1>1, ClaimInvariant, PTL
=============================================================================

----------------------------- MODULE SleepLock -----------------------------
(***************************************************************************)
(* The sleeping locks of OtterOS (kernel/src/sched/mutex.rs): Mutex and    *)
(* Semaphore with direct hand-off, built on WaitQueue                      *)
(* (kernel/src/sched/waitqueue.rs).                                        *)
(*                                                                         *)
(* Threads run with interrupts enabled, so the timer may preempt a lock    *)
(* operation between any two of its atomic steps; one action below is one  *)
(* such step.  Steps the code runs with interrupts off (block_current with *)
(* its callback, WaitQueue::pop, wake) are single actions.  Which runnable *)
(* thread moves next is the scheduler's business (module Sched): here any  *)
(* of them may.  A thread may be killed (sched::force_exit) wherever it    *)
(* was preempted; whatever it held then stays as it was.                   *)
(***************************************************************************)
EXTENDS Naturals, Sequences, FiniteSets

CONSTANTS
    Threads,      \* the threads that use the locks
    Killable,     \* those of them that force_exit may end
    Mutexes,      \* the sched::Mutex objects
    Sems,         \* the sched::Semaphore objects
    InitPermits,  \* Semaphore::new(InitPermits)
    MaxReleases,  \* bound: how often release is called on one semaphore
    NoOwner       \* NO_OWNER, the "nobody holds it" owner value

Objects == Mutexes \cup Sems

ASSUME LockAssumption ==
    /\ Killable \subseteq Threads
    /\ Mutexes \cap Sems = {}
    /\ InitPermits \in Nat
    /\ MaxReleases \in Nat
    /\ NoOwner \notin Threads

VARIABLES
    state,     \* Thread::state: Runnable stands for Ready or Running
    pc,        \* where in a lock operation the thread is
    obj,       \* the object that operation is on
    popped,    \* the waiter unlock/release popped and has not yet woken
    handoff,   \* Thread::handoff
    locked,    \* Mutex::locked
    owner,     \* Mutex::owner
    permits,   \* Semaphore::permits
    queue,     \* WaitQueue::waiters of each object
    acquired,  \* history: completed acquires of each semaphore
    released,  \* history: release calls on each semaphore
    panicked   \* the re-entry assertion of Mutex::lock failed

vars == <<state, pc, obj, popped, handoff, locked, owner, permits, queue,
          acquired, released, panicked>>

\* What a thread is about to do; "held" is inside the critical section.
Idle    == "idle"
Try     == "try"      \* wait_until: evaluate cond()
Block   == "block"    \* wait_until: call block_current
Enter   == "enter"    \* lock: store the owner and build the guard
Held    == "held"     \* the MutexGuard is alive
Pop     == "pop"      \* unlock/release: pop a waiter
Grant   == "grant"    \* ... grant it the hand-off
Wake    == "wake"     \* ... and wake it
Free    == "free"     \* ... or really release the object
PCs     == {Idle, Try, Block, Enter, Held, Pop, Grant, Wake, Free}

States == {"Runnable", "Blocked", "Exited"}

\* One type invariant: what every field of the objects and threads holds.
TypeOK ==
    /\ state \in [Threads -> States]
    /\ pc \in [Threads -> PCs]
    /\ obj \in [Threads -> Objects]
    /\ popped \in [Threads -> Threads]
    /\ handoff \in [Threads -> BOOLEAN]
    /\ locked \in [Mutexes -> BOOLEAN]
    /\ owner \in [Mutexes -> Threads \cup {NoOwner}]
    /\ permits \in [Sems -> Nat]
    /\ queue \in [Objects -> Seq(Threads)]
    /\ acquired \in [Sems -> Nat]
    /\ released \in [Sems -> Nat]
    /\ panicked \in BOOLEAN

\* Mutex::new, Semaphore::new and WaitQueue::new; no thread is in an
\* operation (obj and popped are meaningless until one starts).
Init ==
    /\ state = [t \in Threads |-> "Runnable"]
    /\ pc = [t \in Threads |-> Idle]
    /\ \E o \in Objects : obj = [t \in Threads |-> o]
    /\ popped = [t \in Threads |-> t]
    /\ handoff = [t \in Threads |-> FALSE]
    /\ locked = [m \in Mutexes |-> FALSE]
    /\ owner = [m \in Mutexes |-> NoOwner]
    /\ permits = [s \in Sems |-> InitPermits]
    /\ queue = [o \in Objects |-> <<>>]
    /\ acquired = [s \in Sems |-> 0]
    /\ released = [s \in Sems |-> 0]
    /\ panicked = FALSE

At(t, where) == state[t] = "Runnable" /\ pc[t] = where /\ ~panicked

Goto(t, where) == pc' = [pc EXCEPT ![t] = where]

----------------------------------------------------------------------------
\* Taking a lock.

\* Mutex::lock up to the first evaluation of the condition: the re-entry
\* assertion reads the owner.  A caller asks for a mutex it does not hold.
Lock(t, m) ==
    /\ At(t, Idle)
    /\ obj' = [obj EXCEPT ![t] = m]
    /\ Goto(t, Try)
    /\ panicked' = (owner[m] = t)
    /\ UNCHANGED <<state, popped, handoff, locked, owner, permits, queue,
                   acquired, released>>

\* Semaphore::acquire up to the first evaluation of the condition.
Acquire(t, s) ==
    /\ At(t, Idle)
    /\ obj' = [obj EXCEPT ![t] = s]
    /\ Goto(t, Try)
    /\ UNCHANGED <<state, popped, handoff, locked, owner, permits, queue,
                   acquired, released, panicked>>

\* Mutant: the permits are decremented without checked_sub.
AvailableUnchecked(o) == o \in Sems \/ (o \in Mutexes /\ ~locked[o])

\* Whether the object's own state lets a caller in: the compare_exchange of
\* lock, the checked_sub of acquire.
Available(o) ==
    \/ o \in Mutexes /\ ~locked[o]
    \/ o \in Sems /\ permits[o] > 0

\* The closure given to wait_until: a pending hand-off wins over the object.
Cond(t) == handoff[t] \/ Available(obj[t])

\* Mutant: lock reads `locked` but does not set it.
TakeItUnset(t) ==
    LET o == obj[t] IN
    /\ handoff' = [handoff EXCEPT ![t] = FALSE]
    /\ permits' = IF ~handoff[t] /\ o \in Sems
                  THEN [permits EXCEPT ![o] = permits[o] - 1] ELSE permits
    /\ acquired' = IF o \in Sems
                   THEN [acquired EXCEPT ![o] = acquired[o] + 1] ELSE acquired
    /\ Goto(t, IF o \in Mutexes THEN Enter ELSE Idle)
    /\ UNCHANGED <<state, obj, popped, locked, owner, queue, released, panicked>>

\* The effect of that closure returning true, and of wait_until returning.
TakeIt(t) ==
    LET o == obj[t] IN
    /\ handoff' = [handoff EXCEPT ![t] = FALSE]
    /\ locked' = IF ~handoff[t] /\ o \in Mutexes
                 THEN [locked EXCEPT ![o] = TRUE] ELSE locked
    /\ permits' = IF ~handoff[t] /\ o \in Sems
                  THEN [permits EXCEPT ![o] = permits[o] - 1] ELSE permits
    /\ acquired' = IF o \in Sems
                   THEN [acquired EXCEPT ![o] = acquired[o] + 1] ELSE acquired
    /\ Goto(t, IF o \in Mutexes THEN Enter ELSE Idle)
    /\ UNCHANGED <<state, obj, popped, owner, queue, released, panicked>>

\* wait_until, the check at the top of its loop.  take_handoff and the
\* exchange are one step: only a parked thread is ever granted a hand-off.
TryNow(t) ==
    /\ At(t, Try)
    /\ \/ Cond(t) /\ TakeIt(t)
       \/ /\ ~Cond(t)
          /\ Goto(t, Block)
          /\ UNCHANGED <<state, obj, popped, handoff, locked, owner, permits,
                         queue, acquired, released, panicked>>

\* block_current with wait_until's callback, interrupts off throughout: the
\* condition is checked again, and only if it still fails does the thread
\* join the waiters and block.  It resumes at the top of the loop.
BlockCurrent(t) ==
    /\ At(t, Block)
    /\ \/ Cond(t) /\ TakeIt(t)
       \/ /\ ~Cond(t)
          /\ queue' = [queue EXCEPT ![obj[t]] = Append(@, t)]
          /\ state' = [state EXCEPT ![t] = "Blocked"]
          /\ Goto(t, Try)
          /\ UNCHANGED <<obj, popped, handoff, locked, owner, permits,
                         acquired, released, panicked>>

\* The rest of Mutex::lock: the owner is stored, the guard is returned.
EnterCS(t) ==
    /\ At(t, Enter)
    /\ owner' = [owner EXCEPT ![obj[t]] = t]
    /\ Goto(t, Held)
    /\ UNCHANGED <<state, obj, popped, handoff, locked, permits, queue,
                   acquired, released, panicked>>

----------------------------------------------------------------------------
\* Giving it back.

\* Mutant: the owner is left in place.
UnlockKeepsOwner(t) ==
    /\ At(t, Held)
    /\ Goto(t, Pop)
    /\ UNCHANGED <<state, obj, popped, handoff, locked, owner, permits, queue,
                   acquired, released, panicked>>

\* Mutex::unlock, from MutexGuard::drop: the owner is cleared first.
Unlock(t) ==
    /\ At(t, Held)
    /\ owner' = [owner EXCEPT ![obj[t]] = NoOwner]
    /\ Goto(t, Pop)
    /\ UNCHANGED <<state, obj, popped, handoff, locked, permits, queue,
                   acquired, released, panicked>>

\* Semaphore::release is called; any thread may (it need not have acquired).
Release(t, s) ==
    /\ At(t, Idle)
    /\ released[s] < MaxReleases
    /\ released' = [released EXCEPT ![s] = @ + 1]
    /\ obj' = [obj EXCEPT ![t] = s]
    /\ Goto(t, Pop)
    /\ UNCHANGED <<state, popped, handoff, locked, owner, permits, queue,
                   acquired, panicked>>

\* The places in an object's queue whose thread has not exited.
LiveAt(o) == {i \in 1 .. Len(queue[o]) : state[queue[o][i]] # "Exited"}

\* Mutant: the waiter is only looked at, not removed.
PopWaiterPeeks(t) ==
    LET o == obj[t] IN
    /\ At(t, Pop)
    /\ \/ /\ LiveAt(o) = {}
          /\ Goto(t, Free)
          /\ UNCHANGED popped
       \/ \E i \in LiveAt(o) :
          /\ \A j \in LiveAt(o) : i <= j
          /\ popped' = [popped EXCEPT ![t] = queue[o][i]]
          /\ Goto(t, Grant)
    /\ UNCHANGED <<state, obj, handoff, locked, owner, permits, queue, acquired,
                   released, panicked>>

\* WaitQueue::pop: the longest-waiting live thread; the exited ones in front
\* of it are discarded.  None if there is no live one.
PopWaiter(t) ==
    LET o == obj[t] IN
    /\ At(t, Pop)
    /\ \/ /\ LiveAt(o) = {}
          /\ queue' = [queue EXCEPT ![o] = <<>>]
          /\ Goto(t, Free)
          /\ UNCHANGED popped
       \/ \E i \in LiveAt(o) :
          /\ \A j \in LiveAt(o) : i <= j
          /\ popped' = [popped EXCEPT ![t] = queue[o][i]]
          /\ queue' = [queue EXCEPT ![o] = SubSeq(@, i + 1, Len(@))]
          /\ Goto(t, Grant)
    /\ UNCHANGED <<state, obj, handoff, locked, owner, permits, acquired,
                   released, panicked>>

\* Mutants: the object is handed over and released as well.
GrantAndUnlock(t) ==
    /\ At(t, Grant)
    /\ handoff' = [handoff EXCEPT ![popped[t]] = TRUE]
    /\ locked' = [m \in Mutexes |-> locked[m] /\ m # obj[t]]
    /\ Goto(t, Wake)
    /\ UNCHANGED <<state, obj, popped, owner, permits, queue,
                   acquired, released, panicked>>

GrantAndCount(t) ==
    /\ At(t, Grant)
    /\ handoff' = [handoff EXCEPT ![popped[t]] = TRUE]
    /\ permits' = [s \in Sems |-> IF s = obj[t] THEN permits[s] + 1 ELSE permits[s]]
    /\ Goto(t, Wake)
    /\ UNCHANGED <<state, obj, popped, locked, owner, queue,
                   acquired, released, panicked>>

\* next.grant_handoff()
GrantHandoff(t) ==
    /\ At(t, Grant)
    /\ handoff' = [handoff EXCEPT ![popped[t]] = TRUE]
    /\ Goto(t, Wake)
    /\ UNCHANGED <<state, obj, popped, locked, owner, permits, queue,
                   acquired, released, panicked>>

\* Mutant: the waiter is granted the object and never woken.
WakeNobody(t) ==
    /\ At(t, Wake)
    /\ Goto(t, Idle)
    /\ UNCHANGED <<state, obj, popped, handoff, locked, owner, permits, queue,
                   acquired, released, panicked>>

\* wake(next): only a Blocked thread becomes ready again.
WakeNext(t) ==
    /\ At(t, Wake)
    /\ state' = IF state[popped[t]] = "Blocked"
                THEN [state EXCEPT ![popped[t]] = "Runnable"] ELSE state
    /\ Goto(t, Idle)
    /\ UNCHANGED <<obj, popped, handoff, locked, owner, permits, queue,
                   acquired, released, panicked>>

\* The None branch: locked becomes false, or one permit is returned.
FreeIt(t) ==
    LET o == obj[t] IN
    /\ At(t, Free)
    /\ locked' = IF o \in Mutexes THEN [locked EXCEPT ![o] = FALSE] ELSE locked
    /\ permits' = IF o \in Sems
                  THEN [permits EXCEPT ![o] = permits[o] + 1] ELSE permits
    /\ Goto(t, Idle)
    /\ UNCHANGED <<state, obj, popped, handoff, owner, queue, acquired,
                   released, panicked>>

----------------------------------------------------------------------------
\* sched::force_exit as the locks see it: from now on the thread never runs.
Kill(t) ==
    /\ t \in Killable
    /\ state[t] # "Exited"
    /\ ~panicked
    /\ state' = [state EXCEPT ![t] = "Exited"]
    /\ UNCHANGED <<pc, obj, popped, handoff, locked, owner, permits, queue,
                   acquired, released, panicked>>

\* The steps inside an operation once it has started, and leaving the
\* critical section: what a thread that is given the CPU will do.
Progress(t) ==
    \/ TryNow(t)
    \/ BlockCurrent(t)
    \/ EnterCS(t)
    \/ Unlock(t)
    \/ PopWaiter(t)
    \/ GrantHandoff(t)
    \/ WakeNext(t)
    \/ FreeIt(t)

Next ==
    \E t \in Threads :
        \/ Progress(t)
        \/ \E m \in Mutexes : Lock(t, m)
        \/ \E s \in Sems : Acquire(t, s) \/ Release(t, s)
        \/ Kill(t)

Spec == Init /\ [][Next]_vars

\* Every runnable thread is eventually given the CPU (round robin, Sched).
FairSpec == Spec /\ \A t \in Threads : WF_vars(Progress(t))

----------------------------------------------------------------------------
(***************************************************************************)
(* Properties.                                                             *)
(***************************************************************************)

\* t has a claim on the exclusive right to o: it is entering, holding or
\* giving it back, or a hand-off of it is on its way to t.
HasToken(t, o) ==
    /\ obj[t] = o
    /\ pc[t] \in {Enter, Held, Pop, Grant, Free} \/ handoff[t]

Tokens(o) == {t \in Threads : HasToken(t, o)}

\* Two threads never have the guard of one mutex at the same time (the
\* SAFETY comments of MutexGuard::deref rest on exactly this), whatever is
\* preempted or killed between the steps of lock and unlock.
MutualExclusion ==
    \A t, u \in Threads :
        (pc[t] = Held /\ pc[u] = Held /\ obj[t] = obj[u]) => t = u

\* locked is true exactly while one thread has the claim on the mutex: the
\* direct hand-off of unlock neither duplicates the claim (a caller that is
\* not blocked cannot barge in) nor drops it.
OneTokenPerLock ==
    \A m \in Mutexes :
        Cardinality(Tokens(m)) = IF locked[m] THEN 1 ELSE 0

\* Mutex::owner names a thread exactly while that thread has the guard, so
\* the re-entry assertion of lock fires for a real re-entry and never for a
\* thread that was handed the mutex or gave it back.
OwnerTracksGuard ==
    /\ ~panicked
    /\ \A m \in Mutexes, t \in Threads :
           owner[m] = t <=> pc[t] = Held /\ obj[t] = m

\* Permits are neither created nor lost: what is free, what was acquired and
\* what is being handed over add up to what was there and was released.
PermitConservation ==
    \A s \in Sems :
        permits[s] + acquired[s] + Cardinality(Tokens(s))
            = InitPermits + released[s]

\* The thread somebody has popped from a queue and has yet to wake.
PoppedBy(t) == {u \in Threads : pc[u] \in {Grant, Wake} /\ popped[u] = t}

\* A blocked thread is always exactly where one waker will find it: once in
\* the queue of the object it waits for, or in the hands of one thread that
\* popped it; and only threads that are blocked (or were killed while
\* blocked) are in a queue, so pop never hands the lock to a running thread.
WaitersReachable ==
    /\ \A t \in Threads : state[t] = "Blocked" =>
           Cardinality({i \in 1 .. Len(queue[obj[t]]) : queue[obj[t]][i] = t})
             + Cardinality(PoppedBy(t)) = 1
    /\ \A o \in Objects : \A i \in 1 .. Len(queue[o]) :
           /\ state[queue[o][i]] # "Runnable"
           /\ obj[queue[o][i]] = o
           /\ ~handoff[queue[o][i]]

\* A hand-off reaches its target: a waiter that was granted the object does
\* get it, although the granting thread may be preempted between granting
\* and waking.  (Kills are excepted: a granter killed there wakes nobody.)
HandoffDelivered ==
    \A t \in Threads :
        handoff[t] ~> (~handoff[t] \/ \E u \in Threads : state[u] = "Exited")

\* Documented by wait_until ("Lost-wakeup-safe"; no waker can find a thread
\* "already blocked and never told"): no live thread stays parked on an
\* object that is free while nobody is in the middle of releasing it.
NoLostWakeup ==
    \A o \in Objects :
        (LiveAt(o) # {} /\ Available(o)) =>
            \E t \in Threads : /\ state[t] # "Exited"
                               /\ obj[t] = o
                               /\ pc[t] \in {Pop, Grant, Wake, Free}

----------------------------------------------------------------------------
(***************************************************************************)
(* The inductive invariant behind MutualExclusion and OwnerTracksGuard     *)
(* (proved in SleepLockProofs).                                            *)
(***************************************************************************)

\* Only a mutex has a critical section.
SectionIsMutex == \A t \in Threads : pc[t] \in {Enter, Held} => obj[t] \in Mutexes

\* A claim on a mutex implies that it is locked, and there is one claim.
TokenLocks == \A t \in Threads : obj[t] \in Mutexes /\ HasToken(t, obj[t]) => locked[obj[t]]
TokenUnique ==
    \A t, u \in Threads :
        (obj[t] \in Mutexes /\ obj[t] = obj[u] /\ HasToken(t, obj[t]) /\ HasToken(u, obj[u]))
            => t = u

\* A hand-off is pending only while its target waits.
HandoffWaits == \A t \in Threads : handoff[t] => pc[t] = Try

\* A parked thread waits for the object in whose queue it is, once.
ParkedWaits ==
    \A o \in Objects : \A i \in 1 .. Len(queue[o]) :
        /\ obj[queue[o][i]] = o
        /\ pc[queue[o][i]] = Try
        /\ state[queue[o][i]] # "Runnable"
        /\ ~handoff[queue[o][i]]
ParkedOnce ==
    \A o \in Objects : \A i, j \in 1 .. Len(queue[o]) :
        queue[o][i] = queue[o][j] => i = j

\* A popped thread has left every queue, does not run, and waits for the
\* object being released; two releasers never hold the same waiter.
PoppedWaits ==
    \A u \in Threads : pc[u] \in {Grant, Wake} =>
        /\ pc[popped[u]] = Try
        /\ state[popped[u]] # "Runnable"
        /\ pc[u] = Grant => obj[popped[u]] = obj[u] /\ ~handoff[popped[u]]
        /\ pc[u] = Wake => handoff[popped[u]]
PoppedGone ==
    \A u \in Threads : pc[u] \in {Grant, Wake} =>
        \A o \in Objects : \A i \in 1 .. Len(queue[o]) : queue[o][i] # popped[u]
PoppedOnce ==
    \A u, v \in Threads :
        (pc[u] \in {Grant, Wake} /\ pc[v] \in {Grant, Wake} /\ popped[u] = popped[v])
            => u = v

LockInv ==
    /\ TypeOK
    /\ SectionIsMutex
    /\ TokenLocks
    /\ TokenUnique
    /\ HandoffWaits
    /\ ParkedWaits
    /\ ParkedOnce
    /\ PoppedWaits
    /\ PoppedGone
    /\ PoppedOnce
    /\ OwnerTracksGuard

\* What the other invariants need besides: a locked mutex has a claimant, a
\* blocked thread is in a queue or in somebody's hands, and the claims on a
\* semaphore can be counted.
LockedIsClaimed == \A m \in Mutexes : locked[m] => \E t \in Threads : HasToken(t, m)
BlockedIsFound ==
    \A t \in Threads : state[t] = "Blocked" =>
        \/ \E i \in 1 .. Len(queue[obj[t]]) : queue[obj[t]][i] = t
        \/ \E u \in Threads : pc[u] \in {Grant, Wake} /\ popped[u] = t
ClaimsAreCounted == PermitConservation /\ \A s \in Sems : IsFiniteSet(Tokens(s))

ClaimInv == LockInv /\ LockedIsClaimed /\ BlockedIsFound /\ ClaimsAreCounted
=============================================================================

------------------------------- MODULE Sched -------------------------------
(***************************************************************************)
(* The thread scheduler of OtterOS: kernel/src/sched (mod.rs, runqueue.rs, *)
(* sleep.rs, thread.rs, context.rs, idle.rs), the timer tick and the IRQ   *)
(* exit path that drive it (time.rs, arch/x86_64/irq.rs), the kernel-stack *)
(* slots it reaps (mm/kstack.rs) and the blocking keyboard reader          *)
(* (drivers/ps2/keyboard.rs), which stands for every device wait.          *)
(*                                                                         *)
(* One core: only thread `current` executes.  An interrupt may arrive      *)
(* between any two actions; an action is a stretch of code that runs with  *)
(* interrupts off, or one atomic step of code that runs with them on.      *)
(* NEED_RESCHED is set and consumed inside one interrupt, so it is a local *)
(* of the interrupt actions.  Thread structures are never freed here: ids  *)
(* are never reused, so an Arc<Thread> is the id.                          *)
(***************************************************************************)
EXTENDS Naturals, Sequences, FiniteSets, Queues

CONSTANTS
    MaxId,           \* bound: thread ids are 0 .. MaxId
    Ops,             \* the operations the threads of this instance use
    Killers,         \* the threads that may call force_exit
    Codes,           \* exit codes
    MaxSleep,        \* bound: the longest sleep, in ticks
    TimesliceTicks,  \* TIMESLICE_TICKS
    MaxThreads,      \* MAX_THREADS, the capacity of the ready queue
    MaxRetired,      \* MAX_RETIRED
    NumSlots         \* NUM_SLOTS, the kernel stacks that fit

Main   == 0          \* the boot thread
IdleId == 1          \* the idle thread
Ids    == 0 .. MaxId
None   == MaxId + 1  \* no thread, no slot
Slots  == 0 .. NumSlots - 1
NoSlot == NumSlots

ASSUME SchedAssumption ==
    /\ MaxId \in Nat /\ MaxId >= 1
    /\ Killers \subseteq Ids \ {IdleId}
    /\ MaxSleep \in Nat
    /\ TimesliceTicks \in Nat \ {0}
    /\ MaxThreads \in Nat \ {0}
    /\ MaxRetired \in Nat \ {0}
    /\ NumSlots \in Nat /\ NumSlots >= 2
    /\ 0 \in Codes

VARIABLES
    state,      \* Thread::state; "New" before the thread is spawned
    code,       \* Thread::exit_code
    stack,      \* Thread::stack, as a slot index
    current,    \* Scheduler::current
    ready,      \* Scheduler::ready
    sleeping,   \* Scheduler::sleeping (its threads)
    left,       \* ticks until the entry's wake_at
    toReap,     \* Scheduler::to_reap
    all,        \* Scheduler::all (its ids)
    retired,    \* Scheduler::retired
    nextId,     \* Scheduler::next_id
    slice,      \* TIMESLICE_REMAINING
    joinq,      \* JOIN_WAITQUEUE
    readq,      \* READ_QUEUE
    key,        \* the keyboard ring holds a byte
    freeSlots,  \* SlotAllocator::free
    nextFresh,  \* SlotAllocator::next_fresh
    mapped,     \* the slots whose stack pages are mapped
    slotsBy,    \* the thread that holds the SLOTS spin lock
    pc,         \* where in an operation a thread is
    arg,        \* the join target, kill victim or claimed slot
    popped,     \* the waiter wake_all has popped and not yet woken
    panicked,   \* an assertion of the kernel failed
    hung        \* the core spins forever with interrupts off

kvars == <<freeSlots, nextFresh, mapped, slotsBy>>
svars == <<state, current, ready, toReap, all, retired, slice>>
tvars == <<code, stack, pc, arg, popped>>
wvars == <<sleeping, left, joinq, readq, key>>
vars == <<svars, tvars, wvars, kvars, nextId, panicked, hung>>

\* The machine still runs.
Up == ~panicked /\ ~hung

States == {"New", "Ready", "Running", "Blocked", "Sleeping", "Exited"}
PCs == {"run", "lock", "map", "register", "sleep", "join", "joinblock", "read",
        "readblock", "exit", "pop", "wake", "unmap", "release", "unlock", "retire"}

TypeOK ==
    /\ state \in [Ids -> States]
    /\ code \in [Ids -> Codes]
    /\ stack \in [Ids -> Slots \cup {NoSlot}]
    /\ current \in Ids
    /\ ready \in Seq(Ids) /\ (Up => Len(ready) <= MaxThreads)
    /\ sleeping \subseteq Ids
    /\ left \in [Ids -> 0 .. MaxSleep]
    /\ toReap \in Seq(Ids)
    /\ all \subseteq Ids
    /\ retired \in Seq([id : Ids, code : Codes]) /\ Len(retired) <= MaxRetired
    /\ nextId \in 2 .. MaxId + 1
    /\ slice \in 1 .. TimesliceTicks
    /\ joinq \in Seq(Ids) /\ readq \in Seq(Ids)
    /\ key \in BOOLEAN
    /\ freeSlots \in Seq(Slots) /\ nextFresh \in 0 .. NumSlots
    /\ mapped \subseteq Slots
    /\ slotsBy \in Ids \cup {None}
    /\ pc \in [Ids -> PCs]
    /\ arg \in [Ids -> Ids \cup Slots \cup {None}]
    /\ popped \in [Ids -> Ids \cup {None}]
    /\ panicked \in BOOLEAN /\ hung \in BOOLEAN

\* sched::init: the boot context becomes thread 0 on the boot stack, idle is
\* built on the next one and kept out of the ready queue.
Init ==
    /\ state = [t \in Ids |-> IF t = Main THEN "Running"
                              ELSE IF t = IdleId THEN "Ready" ELSE "New"]
    /\ code = [t \in Ids |-> 0]
    /\ stack = [t \in Ids |-> IF t \in {Main, IdleId} THEN t ELSE NoSlot]
    /\ current = Main
    /\ ready = <<>> /\ toReap = <<>> /\ retired = <<>>
    /\ sleeping = {} /\ left = [t \in Ids |-> 0]
    /\ all = {Main, IdleId} /\ nextId = 2
    /\ slice = TimesliceTicks
    /\ joinq = <<>> /\ readq = <<>> /\ key = FALSE
    /\ freeSlots = <<>> /\ nextFresh = 2 /\ mapped = {0, 1} /\ slotsBy = None
    /\ pc = [t \in Ids |-> "run"]
    /\ arg = [t \in Ids |-> None] /\ popped = [t \in Ids |-> None]
    /\ panicked = FALSE /\ hung = FALSE

----------------------------------------------------------------------------
\* The ready queue, wake-ups and the context switch.

\* Thread t executes and is at `where`.
At(t, where) == Up /\ current = t /\ pc[t] = where

Goto(t, where) == pc' = [pc EXCEPT ![t] = where]

\* RunQueue::push_back panics at the reserved capacity.
Overflows(rq) == Len(rq) > MaxThreads

\* The threads of a sequence that have not exited, in order.
Live(st, q) == Kept(q, {t \in Ids : st[t] # "Exited"})

\* Threads that wake() moves back to the ready queue.
SetReady(st, q) ==
    [t \in Ids |-> IF In(t, q) /\ st[t] \in {"Blocked", "Sleeping"} THEN "Ready" ELSE st[t]]

\* Mutant: the code is not the thread's.
RetiredNoCode(r, ts) ==
    LET longer == r \o [i \in 1 .. Len(ts) |-> [id |-> ts[i], code |-> 0]]
        over == IF Len(longer) > MaxRetired THEN Len(longer) - MaxRetired ELSE 0
    IN SubSeq(longer, over + 1, Len(longer))

\* The kernel stack pages and the slot go back; the thread moves from `all`
\* to the bounded record of exit codes (kstack::free and retire of each).
Retired(r, ts) ==
    LET longer == r \o [i \in 1 .. Len(ts) |-> [id |-> ts[i], code |-> code[ts[i]]]]
        over == IF Len(longer) > MaxRetired THEN Len(longer) - MaxRetired ELSE 0
    IN SubSeq(longer, over + 1, Len(longer))

\* The pick-next loop: where the first thread of q is that has not exited.
FirstLive(q, st) ==
    LET dead(i) == i <= Len(q) /\ st[q[i]] = "Exited"
    IN  CHOOSE i \in 1 .. Len(q) + 1 : ~dead(i) /\ \A j \in 1 .. i - 1 : dead(j)

\* schedule(), entered with thread states st and ready queue rq: free the
\* stacks an earlier call queued, put the outgoing thread where it belongs,
\* and dispatch the first ready thread that has not been killed, or idle.
\* The lock of the slot allocator is a plain spin lock: if a preempted
\* thread holds it, the reaping loop spins with interrupts off.
Schedule(st, rq, ts) ==
    LET prev == current
        back == prev # IdleId /\ st[prev] = "Running"
        rq1  == IF back THEN Append(rq, prev) ELSE rq
        st1  == IF back THEN [st EXCEPT ![prev] = "Ready"] ELSE st
        k    == FirstLive(rq1, st)
        next == IF k > Len(rq1) THEN IdleId ELSE rq1[k]
    IN \/ /\ toReap # <<>> /\ slotsBy # None
          /\ hung' = TRUE
          /\ UNCHANGED <<svars, kvars, panicked>>
       \/ /\ toReap = <<>> \/ slotsBy = None
          /\ Overflows(rq1)
          /\ panicked' = TRUE
          /\ UNCHANGED <<svars, kvars, hung>>
       \/ /\ toReap = <<>> \/ slotsBy = None
          /\ ~Overflows(rq1)
          /\ ready' = SubSeq(rq1, k + 1, Len(rq1))
          /\ toReap' = (IF prev # IdleId /\ st[prev] = "Exited" THEN <<prev>> ELSE <<>>)
                       \o SubSeq(rq1, 1, k - 1)
          /\ state' = [st1 EXCEPT ![next] = "Running"]
          /\ current' = next
          /\ all' = all \ {toReap[i] : i \in 1 .. Len(toReap)}
          /\ retired' = Retired(retired, toReap)
          /\ mapped' = mapped \ {stack[toReap[i]] : i \in 1 .. Len(toReap)}
          /\ freeSlots' = freeSlots \o [i \in 1 .. Len(toReap) |-> stack[toReap[i]]]
          /\ slice' = IF next = prev THEN ts ELSE TimesliceTicks
          /\ UNCHANGED <<nextFresh, slotsBy, panicked, hung>>

\* yield_now
Yield(t) ==
    /\ "yield" \in Ops /\ At(t, "run") /\ t # IdleId
    /\ Schedule(state, ready, slice)
    /\ UNCHANGED <<tvars, wvars, nextId>>

----------------------------------------------------------------------------
\* Interrupts.  Each is the handler, the EOI and preempt_if_needed, with
\* interrupts off.

\* on_timer_tick: this tick is the last of the timeslice.
SliceOver == slice <= 1

\* Mutant: a wake-up from idle waits for the end of the timeslice.
NeverPreemptsIdle(woke) == woke /\ FALSE

\* wake: a reschedule is due when idle was running and somebody woke.
PreemptsIdle(woke) == woke /\ current = IdleId

\* Every arrangement of a set of threads in a queue.
Orders(S) == {q \in [1 .. Cardinality(S) -> S] : Distinct(q) /\ \A x \in S : In(x, q)}

\* on_tick: sleepers that are due become ready (swap_remove fixes no order
\* worth keeping: any), then the timeslice counts down.  A reschedule is due
\* at its end, or when idle was interrupted and somebody woke.
TimerTick ==
    LET left1  == [t \in Ids |-> IF left[t] = 0 THEN 0 ELSE left[t] - 1]
        due    == {t \in sleeping : left1[t] = 0}
        woken  == {t \in due : state[t] = "Sleeping"}
        expiry == SliceOver
        ts     == IF expiry THEN TimesliceTicks ELSE slice - 1
    IN /\ Up
       /\ left' = left1
       /\ sleeping' = sleeping \ due
       /\ \E q \in Orders(woken) :
          LET st == SetReady(state, q)
              rq == ready \o q
          IN IF expiry \/ PreemptsIdle(woken # {})
             THEN Schedule(st, rq, ts)
             ELSE /\ state' = st /\ ready' = rq /\ slice' = ts
                  /\ panicked' = Overflows(rq)
                  /\ UNCHANGED <<current, toReap, all, retired, kvars, hung>>
       /\ UNCHANGED <<tvars, joinq, readq, key, nextId>>

\* IRQ1: push_scancode fills the ring and wakes the longest-waiting reader.
KeyboardIrq ==
    LET waiting == Live(state, readq)
        w  == IF waiting = <<>> THEN <<>> ELSE <<Head(waiting)>>
        st == SetReady(state, w)
        rq == ready \o Kept(w, {t \in Ids : state[t] = "Blocked"})
    IN /\ "read" \in Ops /\ Up
       /\ key' = TRUE
       /\ readq' = IF waiting = <<>> THEN <<>> ELSE Behind(Head(waiting), readq)
       /\ IF PreemptsIdle(w # <<>>)
          THEN Schedule(st, rq, slice)
          ELSE /\ state' = st /\ ready' = rq /\ panicked' = Overflows(rq)
               /\ UNCHANGED <<current, toReap, all, retired, slice, kvars, hung>>
       /\ UNCHANGED <<tvars, sleeping, left, joinq, nextId>>

----------------------------------------------------------------------------
\* Spawning.

\* A new thread enters `all` and the ready queue on the given stack slot;
\* clash says that mapping its stack already failed.
Register(slot, clash) ==
    /\ nextId' = nextId + 1
    /\ state' = [state EXCEPT ![nextId] = "Ready"]
    /\ stack' = [stack EXCEPT ![nextId] = slot]
    /\ all' = all \cup {nextId}
    /\ ready' = Append(ready, nextId)
    /\ panicked' = (clash \/ Overflows(ready'))

\* Mutant: the slot is read off the free list and left on it.
ClaimKeeps ==
    /\ UNCHANGED freeSlots
    /\ nextFresh' = IF freeSlots # <<>> THEN nextFresh ELSE nextFresh + 1

\* SlotAllocator::claim: the most recently freed slot, or a fresh one.
CanClaim == freeSlots # <<>> \/ nextFresh < NumSlots
Claimed == IF freeSlots # <<>> THEN freeSlots[Len(freeSlots)] ELSE nextFresh
Claim ==
    /\ freeSlots' = IF freeSlots # <<>> THEN SubSeq(freeSlots, 1, Len(freeSlots) - 1) ELSE <<>>
    /\ nextFresh' = IF freeSlots # <<>> THEN nextFresh ELSE nextFresh + 1

\* Bound: ids left for new threads, counting the spawns under way.
CanSpawn == nextId + Cardinality({u \in Ids : pc[u] \in {"lock", "map", "register"}}) <= MaxId

\* sched::spawn takes the slot lock with interrupts on ...
SpawnLock(t) ==
    /\ "spawn" \in Ops /\ At(t, "run") /\ t # IdleId
    /\ CanSpawn
    /\ slotsBy = None
    /\ slotsBy' = t
    /\ Goto(t, "lock")
    /\ UNCHANGED <<svars, code, stack, arg, popped, wvars, freeSlots, nextFresh, mapped,
                   nextId, panicked, hung>>

\* ... claims a slot and drops the lock ...
SpawnClaim(t) ==
    /\ At(t, "lock")
    /\ \/ /\ CanClaim /\ Claim
          /\ arg' = [arg EXCEPT ![t] = Claimed]
          /\ slotsBy' = None
          /\ Goto(t, "map")
          /\ UNCHANGED panicked
       \/ ~CanClaim /\ panicked' = TRUE /\ UNCHANGED <<freeSlots, nextFresh, slotsBy, pc, arg>>
    /\ UNCHANGED <<svars, code, stack, popped, wvars, mapped, nextId, hung>>

\* ... maps its pages (map_4k refuses a page that is mapped) ...
SpawnMap(t) ==
    /\ At(t, "map")
    /\ mapped' = mapped \cup {arg[t]}
    /\ panicked' = (arg[t] \in mapped)
    /\ Goto(t, "register")
    /\ UNCHANGED <<svars, code, stack, arg, popped, wvars, freeSlots, nextFresh, slotsBy,
                   nextId, hung>>

\* ... and registers the thread under the scheduler lock.
SpawnRegister(t) ==
    /\ At(t, "register")
    /\ Register(arg[t], FALSE)
    /\ Goto(t, "run")
    /\ arg' = [arg EXCEPT ![t] = None]
    /\ UNCHANGED <<code, current, toReap, retired, slice, popped, wvars, kvars, hung>>

\* spawn_user, whole: proc::spawn and spawn_payload call it with interrupts
\* off.  If a preempted thread holds the slot lock, it spins for ever.
SpawnUser(t) ==
    /\ "spawn_user" \in Ops /\ At(t, "run") /\ t # IdleId
    /\ CanSpawn
    /\ \/ /\ slotsBy # None
          /\ hung' = TRUE
          /\ UNCHANGED <<state, stack, all, ready, nextId, freeSlots, nextFresh, mapped, panicked>>
       \/ /\ slotsBy = None /\ CanClaim
          /\ Claim
          /\ mapped' = mapped \cup {Claimed}
          /\ Register(Claimed, Claimed \in mapped)
          /\ UNCHANGED hung
       \/ /\ slotsBy = None /\ ~CanClaim
          /\ panicked' = TRUE
          /\ UNCHANGED <<state, stack, all, ready, nextId, freeSlots, nextFresh, mapped, hung>>
    /\ UNCHANGED <<code, pc, arg, popped, current, toReap, retired, slice, wvars, slotsBy>>

----------------------------------------------------------------------------
\* Sleeping, joining, reading the keyboard.

\* sleep_ms computes wake_at with interrupts still on ...
SleepStart(t) ==
    /\ "sleep" \in Ops /\ At(t, "run") /\ t # IdleId
    /\ \E n \in 0 .. MaxSleep : left' = [left EXCEPT ![t] = n]
    /\ Goto(t, "sleep")
    /\ UNCHANGED <<svars, code, stack, arg, popped, sleeping, joinq, readq, key, kvars, nextId,
                   panicked, hung>>

\* Mutant: the thread sleeps without an entry in the sleep list.
SleepBlockUnlisted(t) ==
    /\ At(t, "sleep")
    /\ Goto(t, "run")
    /\ Schedule([state EXCEPT ![t] = "Sleeping"], ready, slice)
    /\ UNCHANGED <<code, stack, arg, popped, sleeping, left, joinq, readq, key, nextId>>

\* ... and parks the thread in the sleep list.
SleepBlock(t) ==
    /\ At(t, "sleep")
    /\ sleeping' = sleeping \cup {t}
    /\ Goto(t, "run")
    /\ Schedule([state EXCEPT ![t] = "Sleeping"], ready, slice)
    /\ UNCHANGED <<code, stack, arg, popped, left, joinq, readq, key, nextId>>

\* join: a retired thread's code is at hand; an id that is neither live nor
\* in the record panics; otherwise wait_until starts.  (A join of oneself
\* never returns: see Wait in module Proc.)
Join(t, u) ==
    /\ "join" \in Ops /\ At(t, "run") /\ t # IdleId
    /\ u # t /\ u # IdleId /\ u < nextId
    /\ \/ u \in all /\ Goto(t, "join") /\ arg' = [arg EXCEPT ![t] = u] /\ UNCHANGED panicked
       \/ /\ u \notin all
          /\ panicked' = ~\E i \in 1 .. Len(retired) : retired[i].id = u
          /\ UNCHANGED <<pc, arg>>
    /\ UNCHANGED <<svars, code, stack, popped, wvars, kvars, nextId, hung>>

\* wait_until's first check: the target's state, read from its Arc.
JoinCheck(t) ==
    /\ At(t, "join")
    /\ \/ state[arg[t]] = "Exited" /\ Goto(t, "run") /\ arg' = [arg EXCEPT ![t] = None]
       \/ state[arg[t]] # "Exited" /\ Goto(t, "joinblock") /\ UNCHANGED arg
    /\ UNCHANGED <<svars, code, stack, popped, wvars, kvars, nextId, panicked, hung>>

\* Mutant: the target is not looked at again before blocking.
JoinBlockBlind(t) ==
    /\ At(t, "joinblock")
    /\ Goto(t, "join") /\ joinq' = Append(joinq, t)
    /\ Schedule([state EXCEPT ![t] = "Blocked"], ready, slice)
    /\ UNCHANGED <<code, stack, arg, popped, sleeping, left, readq, key, nextId>>

\* block_current: check again with interrupts off, else queue up and block.
JoinBlock(t) ==
    /\ At(t, "joinblock")
    /\ \/ /\ state[arg[t]] = "Exited"
          /\ Goto(t, "run") /\ arg' = [arg EXCEPT ![t] = None]
          /\ UNCHANGED <<svars, joinq, kvars, panicked, hung>>
       \/ /\ state[arg[t]] # "Exited"
          /\ Goto(t, "join") /\ joinq' = Append(joinq, t)
          /\ Schedule([state EXCEPT ![t] = "Blocked"], ready, slice)
          /\ UNCHANGED arg
    /\ UNCHANGED <<code, stack, popped, sleeping, left, readq, key, nextId>>

\* read_char_blocking: take a byte if there is one, else wait for the ring.
ReadKey(t) ==
    /\ "read" \in Ops /\ t # IdleId
    /\ At(t, "run") \/ At(t, "read")
    /\ key' = FALSE
    /\ Goto(t, IF key THEN "run" ELSE "readblock")
    /\ UNCHANGED <<svars, code, stack, arg, popped, sleeping, left, joinq, readq, kvars, nextId,
                   panicked, hung>>

ReadBlock(t) ==
    /\ At(t, "readblock")
    /\ Goto(t, "read")
    /\ \/ key /\ UNCHANGED <<svars, readq, kvars, panicked, hung>>
       \/ /\ ~key
          /\ readq' = Append(readq, t)
          /\ Schedule([state EXCEPT ![t] = "Blocked"], ready, slice)
    /\ UNCHANGED <<code, stack, arg, popped, sleeping, left, joinq, key, nextId>>

----------------------------------------------------------------------------
\* Ending a thread.

\* The trampoline stores what the entry function returned ...
ExitCode(t) ==
    /\ "exit" \in Ops /\ At(t, "run") /\ t \notin {Main, IdleId}
    /\ \E c \in Codes : code' = [code EXCEPT ![t] = c]
    /\ Goto(t, "exit")
    /\ UNCHANGED <<svars, stack, arg, popped, wvars, kvars, nextId, panicked, hung>>

\* ... and exit_current marks the thread, wakes every joiner and leaves.
ExitCurrent(t) ==
    LET st == [state EXCEPT ![t] = "Exited"]
        w  == Live(st, joinq)
    IN /\ At(t, "exit")
       /\ joinq' = <<>>
       /\ Schedule(SetReady(st, w), ready \o w, slice)
       /\ UNCHANGED <<tvars, sleeping, left, readq, key, nextId>>

\* Mutants: a sleeping victim is left to nobody; an exited one is ended anew.
ReapNowBlocked(v) == state[v] = "Blocked"

MarkExitedAgain(v) ==
    /\ \E c \in Codes : code' = [code EXCEPT ![v] = c]
    /\ state' = [state EXCEPT ![v] = "Exited"]
    /\ sleeping' = IF state[v] = "Sleeping" THEN sleeping \ {v} ELSE sleeping

\* reap_now of force_exit: nobody else will come across the victim.
ReapNow(v) == state[v] \in {"Blocked", "Sleeping"}

\* An exited thread keeps its code; any other ends with the killer's, and
\* leaves the sleep list.
MarkExited(v) ==
    IF state[v] = "Exited" THEN UNCHANGED <<state, code, sleeping>>
    ELSE /\ \E c \in Codes : code' = [code EXCEPT ![v] = c]
         /\ state' = [state EXCEPT ![v] = "Exited"]
         /\ sleeping' = IF state[v] = "Sleeping" THEN sleeping \ {v} ELSE sleeping

\* force_exit, under the scheduler lock: an id that is not in `all` has
\* nothing left to do.  A blocked or sleeping victim is reaped by this call,
\* after the joiners are woken; one in the ready queue is left to schedule().
ForceExit(t, v) ==
    /\ "kill" \in Ops /\ t \in Killers /\ At(t, "run")
    /\ v \in all /\ v \notin {t, Main, IdleId}
    /\ MarkExited(v)
    /\ arg' = [arg EXCEPT ![t] = IF ReapNow(v) THEN v ELSE None]
    /\ Goto(t, "pop")
    /\ UNCHANGED <<stack, current, ready, toReap, all, retired, slice, popped, left, joinq,
                   readq, key, kvars, nextId, panicked, hung>>

\* JOIN_WAITQUEUE.wake_all with interrupts on: pop one live joiner ...
KillPop(t) ==
    LET w == Live(state, joinq)
    IN /\ At(t, "pop")
       /\ IF w = <<>>
          THEN /\ joinq' = <<>>
               /\ Goto(t, IF arg[t] = None THEN "run" ELSE "unmap")
               /\ UNCHANGED popped
          ELSE /\ popped' = [popped EXCEPT ![t] = Head(w)]
               /\ joinq' = Behind(Head(w), joinq)
               /\ Goto(t, "wake")
       /\ UNCHANGED <<svars, code, stack, arg, sleeping, left, readq, key, kvars, nextId,
                      panicked, hung>>

\* ... wake it, and look for the next.
KillWake(t) ==
    LET w == popped[t]
    IN /\ At(t, "wake")
       /\ popped' = [popped EXCEPT ![t] = None]
       /\ Goto(t, "pop")
       /\ state' = SetReady(state, <<w>>)
       /\ ready' = IF state[w] = "Blocked" THEN Append(ready, w) ELSE ready
       /\ panicked' = Overflows(ready')
       /\ UNCHANGED <<code, stack, current, toReap, all, retired, slice, arg, wvars, kvars, nextId,
                      hung>>

\* Mutant: the stack pages stay mapped.
KillUnmapNothing(t) ==
    /\ At(t, "unmap")
    /\ Goto(t, "release")
    /\ UNCHANGED <<svars, code, stack, arg, popped, wvars, kvars, nextId, panicked, hung>>

\* kstack::free of the victim's stack with interrupts on: unmap its pages,
KillUnmap(t) ==
    /\ At(t, "unmap")
    /\ mapped' = mapped \ {stack[arg[t]]}
    /\ Goto(t, "release")
    /\ UNCHANGED <<svars, code, stack, arg, popped, wvars, freeSlots, nextFresh, slotsBy, nextId,
                   panicked, hung>>

\* take the slot lock,
KillLock(t) ==
    /\ At(t, "release")
    /\ slotsBy = None
    /\ slotsBy' = t
    /\ Goto(t, "unlock")
    /\ UNCHANGED <<svars, code, stack, arg, popped, wvars, freeSlots, nextFresh, mapped, nextId,
                   panicked, hung>>

\* give the slot back and drop the lock;
KillRelease(t) ==
    /\ At(t, "unlock")
    /\ freeSlots' = Append(freeSlots, stack[arg[t]])
    /\ slotsBy' = None
    /\ Goto(t, "retire")
    /\ UNCHANGED <<svars, code, stack, arg, popped, wvars, nextFresh, mapped, nextId,
                   panicked, hung>>

\* then retire the victim under the scheduler lock.
KillRetire(t) ==
    /\ At(t, "retire")
    /\ all' = all \ {arg[t]}
    /\ retired' = Retired(retired, <<arg[t]>>)
    /\ arg' = [arg EXCEPT ![t] = None]
    /\ Goto(t, "run")
    /\ UNCHANGED <<state, current, ready, toReap, slice, code, stack, popped, wvars, kvars, nextId,
                   panicked, hung>>

----------------------------------------------------------------------------
\* What the running thread does once it has started an operation.
Continue(t) ==
    \/ SpawnClaim(t) \/ SpawnMap(t) \/ SpawnRegister(t)
    \/ SleepBlock(t)
    \/ JoinCheck(t) \/ JoinBlock(t)
    \/ ReadBlock(t)
    \/ pc[t] = "read" /\ ReadKey(t)
    \/ ExitCurrent(t)
    \/ KillPop(t) \/ KillWake(t) \/ KillUnmap(t) \/ KillLock(t) \/ KillRelease(t) \/ KillRetire(t)

\* What it may start.
Start(t) ==
    \/ Yield(t)
    \/ SpawnLock(t) \/ SpawnUser(t)
    \/ SleepStart(t)
    \/ \E u \in Ids : Join(t, u) \/ ForceExit(t, u)
    \/ pc[t] = "run" /\ ReadKey(t)
    \/ ExitCode(t)

Next ==
    \/ TimerTick
    \/ KeyboardIrq
    \/ \E t \in Ids : Continue(t) \/ Start(t)

Spec == Init /\ [][Next]_vars

\* The timer keeps ticking, and a thread that is dispatched again and again
\* in the middle of an operation gets on with it (a timeslice is far longer
\* than a step); nobody is obliged to start one.
FairSpec ==
    /\ Spec
    /\ WF_vars(TimerTick)
    /\ \A t \in Ids : SF_vars(Continue(t))

----------------------------------------------------------------------------
(***************************************************************************)
(* Properties.                                                             *)
(***************************************************************************)

Holders(t, where, f) == Cardinality({u \in Ids : pc[u] \in where /\ f[u] = t})

Killing == {"pop", "wake", "unmap", "release", "unlock", "retire"}

\* No thread is lost and none is in two places: each is exactly where its
\* state says, however ticks, wake-ups, exits and kills interleave.  An
\* exited thread that is still registered has exactly one reaper: the next
\* schedule(), the pick-next loop, or the force_exit call that killed it.
EveryThreadIsSomewhere ==
    Up => \A t \in Ids \ {IdleId} :
        /\ state[t] = "Running" <=> current = t
        /\ state[t] = "Ready" => Occurs(t, ready) = 1
        /\ state[t] \notin {"Ready", "Exited"} => Occurs(t, ready) = 0
        /\ t \in sleeping <=> state[t] = "Sleeping"
        /\ state[t] = "Blocked" =>
               Occurs(t, joinq) + Occurs(t, readq) + Holders(t, {"wake"}, popped) = 1
        /\ state[t] = "Exited" /\ t \in all =>
               Occurs(t, toReap) + Occurs(t, ready) + Holders(t, Killing, arg) = 1
        /\ state[t] # "New" /\ t \notin all => Occurs(t, ready) + Occurs(t, toReap) = 0

\* The registered threads whose stack was not given back yet.
OnStack == all \ {arg[u] : u \in {u \in Ids : pc[u] = "retire"}}

\* Whoever still owns stack slot s: one of those, a spawn that has claimed it,
\* or the free list.
Owners(s) ==
    Cardinality({t \in OnStack : stack[t] = s})
      + Holders(s, {"map", "register"}, arg)
      + Occurs(s, freeSlots)

\* Every kernel stack slot ever handed out has exactly one owner, so no slot
\* leaks and no two threads share one; the stack of a thread that can still
\* run is mapped, and a slot on the free list is not.
StacksAreSafe ==
    /\ \A s \in Slots : Owners(s) = IF s < nextFresh THEN 1 ELSE 0
    /\ \A t \in Ids : state[t] \notin {"New", "Exited"} => stack[t] \in mapped
    /\ \A i \in 1 .. Len(freeSlots) : freeSlots[i] \notin mapped

\* What join returns from the record of retired threads is the code the
\* thread ended with, and each retired thread is recorded once.
RetiredCodesTrue ==
    \A i \in 1 .. Len(retired) :
        /\ state[retired[i].id] = "Exited"
        /\ retired[i].code = code[retired[i].id]
        /\ retired[i].id \notin all
        /\ \A j \in 1 .. Len(retired) : retired[j].id = retired[i].id => i = j

\* An exited thread never comes back, whatever wakes it later, and its exit
\* code is final: a second kill, or a kill after the exit, changes nothing.
ExitIsFinal ==
    [][\A t \in Ids : state[t] = "Exited" =>
           state'[t] = "Exited" /\ code'[t] = code[t]]_vars

\* The CPU idles only when nothing can run: the wake-up of a thread while
\* idle is current switches to it in the same interrupt.
IdleOnlyIfNothingReady ==
    (Up /\ current = IdleId) =>
        \A i \in 1 .. Len(ready) : state[ready[i]] = "Exited"

\* With the capacities of the instance, no assertion of the scheduler or of
\* the stack allocator ever fails (a full ready queue, a mapped page found
\* where a fresh stack goes, a join of an unknown thread, a Ready current).
NoPanic == ~panicked

\* Round robin: a thread that is ready, or sleeps, runs again.
EventuallyRuns ==
    \A t \in Ids \ {IdleId} :
        state[t] \in {"Ready", "Sleeping"} ~> state[t] \in {"Running", "Exited"}

\* A join whose target has exited returns: no exit is missed between the
\* check and the blocking of the joiner.
JoinReturns ==
    \A t \in Ids \ {IdleId} :
        (pc[t] \in {"join", "joinblock"} /\ state[arg[t]] = "Exited") ~> pc[t] = "run"

\* Documented at SlotAllocator (kstack.rs): the plain spin lock "adds no new
\* deadlock risk".
NoSelfDeadlock == ~hung
=============================================================================

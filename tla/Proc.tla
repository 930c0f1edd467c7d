-------------------------------- MODULE Proc --------------------------------
(***************************************************************************)
(* Processes of OtterOS: the registry and lifecycle of kernel/src/proc     *)
(* (mod.rs, process.rs, fault.rs), the system calls that drive it          *)
(* (syscall/table.rs), the tear-down of an address space                   *)
(* (mm/vmm/teardown.rs) and the physical frames behind it (mm/pmm.rs).     *)
(*                                                                         *)
(* A process has one thread, named here by its pid; thread 0 is a kernel   *)
(* thread.  System calls run with interrupts on, so a thread may be        *)
(* preempted between any two actions and killed wherever it was preempted; *)
(* what runs with interrupts off (creation, faults) is one action.  That a *)
(* preempted thread runs again, and that a joiner is woken, is shown in    *)
(* module Sched.                                                           *)
(*                                                                         *)
(* An AddressSpace is the number of its PML4 frame and what it maps is     *)
(* stored in that frame: whoever still has the number of a frame that was  *)
(* freed reads what its new owner wrote.  The page-table frames below the  *)
(* PML4 are counted with the pages they map.                               *)
(***************************************************************************)
EXTENDS Naturals, FiniteSets

CONSTANTS
    MaxPid,       \* bound: pids are 1 .. MaxPid
    Frames,       \* the usable physical frames
    ImageFrames,  \* how many of them a loaded image and its first stack take
    Codes,        \* what a process may pass to exit
    KilledCode,   \* KILLED_EXIT_CODE
    FaultCode,    \* FAULT_EXIT_CODE
    NoCode,       \* no exit code yet
    NoFrame,      \* no frame
    Exclusive     \* callers never wait for and kill one process concurrently

Main    == 0
Pids    == 1 .. MaxPid
Threads == 0 .. MaxPid
AllCodes == Codes \cup {KilledCode, FaultCode}

ASSUME ProcAssumption ==
    /\ MaxPid \in Nat
    /\ ImageFrames \in Nat
    /\ NoFrame \notin Frames
    /\ NoCode \notin AllCodes
    /\ Exclusive \in BOOLEAN
    /\ IsFiniteSet(Frames)

VARIABLES
    tstate,       \* the thread: "New", "Live" or "Exited"
    code,         \* Thread::exit_code
    processes,    \* Registry::processes (its pids)
    threadToPid,  \* Registry::thread_to_pid (its threads)
    nextPid,      \* Registry::next_pid
    exiting,      \* Process::exiting
    pml4,         \* AddressSpace::pml4 of each process
    table,        \* the user half stored in a PML4 frame: the frames it maps
    free,         \* the frames the PMM has marked free
    pc,           \* where in a system call a thread is
    target,       \* the process that call is about
    frame,        \* the frame a thread has just allocated, unmapped or freed
    result,       \* the code sched::join returned to a waiter
    returned,     \* history: the codes that wait calls returned for a process
    destroyed,    \* history: the processes whose PML4 frame was freed
    cut,          \* history: a thread was killed inside a system call
    panicked      \* which assertion of the kernel failed

pvars == <<processes, threadToPid, nextPid>>
mvars == <<pml4, table, free>>
hvars == <<returned, destroyed, cut>>
vars == <<tstate, code, pvars, exiting, mvars, pc, target, frame, result, hvars, panicked>>

PCs == {"run", "create", "map", "unmap", "walk", "clear", "code", "leave",
        "mark", "claim", "join", "collect", "destroy"}

TypeOK ==
    /\ tstate \in [Threads -> {"New", "Live", "Exited"}]
    /\ code \in [Threads -> AllCodes \cup {NoCode}]
    /\ processes \subseteq Pids /\ threadToPid \subseteq Pids
    /\ nextPid \in 1 .. MaxPid + 1
    /\ exiting \in [Pids -> BOOLEAN]
    /\ pml4 \in [Pids -> Frames \cup {NoFrame}]
    /\ table \in [Frames -> SUBSET Frames]
    /\ free \subseteq Frames
    /\ pc \in [Threads -> PCs]
    /\ target \in [Threads -> Threads]
    /\ frame \in [Threads -> Frames \cup {NoFrame}]
    /\ result \in [Threads -> AllCodes \cup {NoCode}]
    /\ returned \in [Pids -> SUBSET (AllCodes \cup {NoCode})]
    /\ destroyed \subseteq Pids
    /\ cut \in BOOLEAN
    /\ panicked \in {"no", "oom", "double free"}

\* After boot: one kernel thread, no process, every frame free.
Init ==
    /\ tstate = [t \in Threads |-> IF t = Main THEN "Live" ELSE "New"]
    /\ code = [t \in Threads |-> NoCode]
    /\ processes = {} /\ threadToPid = {} /\ nextPid = 1
    /\ exiting = [p \in Pids |-> FALSE]
    /\ pml4 = [p \in Pids |-> NoFrame]
    /\ table = [f \in Frames |-> {}]
    /\ free = Frames
    /\ pc = [t \in Threads |-> "run"]
    /\ target = [t \in Threads |-> Main]
    /\ frame = [t \in Threads |-> NoFrame]
    /\ result = [t \in Threads |-> NoCode]
    /\ returned = [p \in Pids |-> {}]
    /\ destroyed = {} /\ cut = FALSE
    /\ panicked = "no"

At(t, where) == tstate[t] = "Live" /\ pc[t] = where /\ panicked = "no"

Goto(t, where) == pc' = [pc EXCEPT ![t] = where]

\* pmm::free_frame: freeing a frame that is free is a kernel panic.
FreeFrame(f) ==
    /\ free' = free \cup {f}
    /\ panicked' = IF f \in free THEN "double free" ELSE "no"

----------------------------------------------------------------------------
\* Creating a process.

\* proc::spawn takes the next pid under the registry lock ...
Spawn(t) ==
    /\ At(t, "run")
    /\ nextPid <= MaxPid
    /\ target' = [target EXCEPT ![t] = nextPid]
    /\ nextPid' = nextPid + 1
    /\ Goto(t, "create")
    /\ UNCHANGED <<tstate, code, processes, threadToPid, exiting, mvars, frame, result, hvars,
                   panicked>>

\* ... and with interrupts off builds the address space, its thread and the
\* registry entries.
SpawnCreate(t) ==
    LET p == target[t] IN
    /\ At(t, "create")
    /\ Goto(t, "run")
    /\ \E f \in free : \E image \in SUBSET (free \ {f}) :
          /\ Cardinality(image) = ImageFrames
          /\ pml4' = [pml4 EXCEPT ![p] = f]
          /\ table' = [table EXCEPT ![f] = image]
          /\ free' = free \ (image \cup {f})
    /\ tstate' = [tstate EXCEPT ![p] = "Live"]
    /\ processes' = processes \cup {p}
    /\ threadToPid' = threadToPid \cup {p}
    /\ UNCHANGED <<code, nextPid, exiting, target, frame, result, hvars, panicked>>

\* Mutant: destroy_unused forgets the PML4 frame.
SpawnFailLeaks(t) ==
    /\ At(t, "create")
    /\ Goto(t, "run")
    /\ \E f \in free : free' = free \ {f}
    /\ UNCHANGED <<tstate, code, pvars, exiting, pml4, table, target, frame, result, hvars,
                   panicked>>

\* A file that cannot be loaded, or no memory for it: destroy_unused gives
\* every frame back.  Without a frame for the PML4 new_user panics.
SpawnFail(t) ==
    /\ At(t, "create")
    /\ Goto(t, "run")
    /\ panicked' = IF free = {} THEN "oom" ELSE "no"
    /\ UNCHANGED <<tstate, code, pvars, exiting, mvars, target, frame, result, hvars>>

----------------------------------------------------------------------------
\* Memory of a running process.

\* map_anon: allocate a zeroed frame (ENOMEM when there is none) ...
MapAnon(t) ==
    /\ At(t, "run") /\ t # Main
    /\ \E f \in free :
          /\ free' = free \ {f}
          /\ table' = [table EXCEPT ![f] = {}]
          /\ frame' = [frame EXCEPT ![t] = f]
    /\ Goto(t, "map")
    /\ UNCHANGED <<tstate, code, pvars, exiting, pml4, target, result, hvars, panicked>>

\* ... and map it.
MapPage(t) ==
    /\ At(t, "map")
    /\ table' = [table EXCEPT ![pml4[t]] = @ \cup {frame[t]}]
    /\ frame' = [frame EXCEPT ![t] = NoFrame]
    /\ Goto(t, "run")
    /\ UNCHANGED <<tstate, code, pvars, exiting, pml4, free, target, result, hvars, panicked>>

\* unmap: clear the entry of a mapped page ...
Unmap(t) ==
    /\ At(t, "run") /\ t # Main
    /\ \E f \in table[pml4[t]] :
          /\ table' = [table EXCEPT ![pml4[t]] = @ \ {f}]
          /\ frame' = [frame EXCEPT ![t] = f]
    /\ Goto(t, "unmap")
    /\ UNCHANGED <<tstate, code, pvars, exiting, pml4, free, target, result, hvars, panicked>>

\* ... and free the frame it held.
UnmapFree(t) ==
    /\ At(t, "unmap")
    /\ FreeFrame(frame[t])
    /\ frame' = [frame EXCEPT ![t] = NoFrame]
    /\ Goto(t, "run")
    /\ UNCHANGED <<tstate, code, pvars, exiting, pml4, table, target, result, hvars>>

\* A page fault below the stack, resolved by try_grow_stack; the trap gate
\* leaves interrupts off.
GrowStack(t) ==
    /\ At(t, "run") /\ t # Main
    /\ \E f \in free :
          /\ free' = free \ {f}
          /\ table' = [table EXCEPT ![f] = {}, ![pml4[t]] = @ \cup {f}]
    /\ UNCHANGED <<tstate, code, pvars, exiting, pml4, pc, target, frame, result, hvars, panicked>>

----------------------------------------------------------------------------
\* Ending a process.

\* Mutant: everybody wins.
BeginExitAlways(p) == exiting[p] \in BOOLEAN

\* begin_exit: the compare_exchange that exactly one caller wins.
BeginExit(p) == ~exiting[p]

\* exit_current_process, from exit or a kill of the caller's own pid.
Exit(t) ==
    /\ At(t, "run") /\ t # Main
    /\ target' = [target EXCEPT ![t] = t]
    /\ exiting' = [exiting EXCEPT ![t] = TRUE]
    /\ Goto(t, IF BeginExit(t) THEN "walk" ELSE "code")
    /\ UNCHANGED <<tstate, code, pvars, mvars, frame, result, hvars, panicked>>

\* free_user_space: the next present entry's frame is freed ...
Walk(t) ==
    LET p == target[t] IN
    /\ At(t, "walk")
    /\ \/ \E f \in table[pml4[p]] :
             /\ FreeFrame(f)
             /\ frame' = [frame EXCEPT ![t] = f]
             /\ Goto(t, "clear")
       \/ /\ table[pml4[p]] = {}
          /\ Goto(t, IF p = t THEN "code" ELSE "run")
          /\ UNCHANGED <<free, frame, panicked>>
    /\ UNCHANGED <<tstate, code, pvars, exiting, pml4, table, target, result, hvars>>

\* ... and only then is the entry cleared.
WalkClear(t) ==
    LET p == target[t] IN
    /\ At(t, "clear")
    /\ table' = [table EXCEPT ![pml4[p]] = @ \ {frame[t]}]
    /\ frame' = [frame EXCEPT ![t] = NoFrame]
    /\ Goto(t, "walk")
    /\ UNCHANGED <<tstate, code, pvars, exiting, pml4, free, target, result, hvars, panicked>>

\* What a process may end itself with: exit's argument, or the code of a
\* kill of its own pid.
ExitCodes == Codes \cup {KilledCode}

\* Mutant: exit_current_process returns to its caller.
ExitCodeReturns(t) ==
    /\ At(t, "code")
    /\ \E c \in ExitCodes : code' = [code EXCEPT ![t] = c]
    /\ Goto(t, "run")
    /\ UNCHANGED <<tstate, pvars, exiting, mvars, target, frame, result, hvars, panicked>>

\* The exit code is stored, and the thread leaves (sched::exit_current).
ExitCode(t) ==
    /\ At(t, "code")
    /\ \E c \in ExitCodes : code' = [code EXCEPT ![t] = c]
    /\ Goto(t, "leave")
    /\ UNCHANGED <<tstate, pvars, exiting, mvars, target, frame, result, hvars, panicked>>

ExitLeave(t) ==
    /\ At(t, "leave")
    /\ tstate' = [tstate EXCEPT ![t] = "Exited"]
    /\ UNCHANGED <<code, pvars, exiting, mvars, pc, target, frame, result, hvars, panicked>>

\* A fault that cannot be resolved: the same sequence with interrupts off.
FaultKill(t) ==
    /\ At(t, "run") /\ t # Main
    /\ exiting' = [exiting EXCEPT ![t] = TRUE]
    /\ IF BeginExit(t)
       THEN /\ free' = free \cup table[pml4[t]]
            /\ panicked' = IF table[pml4[t]] \cap free # {} THEN "double free" ELSE "no"
            /\ table' = [table EXCEPT ![pml4[t]] = {}]
       ELSE UNCHANGED <<free, table, panicked>>
    /\ code' = [code EXCEPT ![t] = FaultCode]
    /\ tstate' = [tstate EXCEPT ![t] = "Exited"]
    /\ UNCHANGED <<pvars, pml4, pc, target, frame, result, hvars>>

\* Threads that are inside a call about p and may still go on with it.
InCall(p, where) == {t \in Threads : tstate[t] = "Live" /\ pc[t] \in where /\ target[t] = p}

Killing == {"mark", "claim", "walk", "clear"}
Waiting == {"join", "collect", "destroy"}

\* kill finds the process, running or zombie, in the registry ...
Kill(t, p) ==
    /\ At(t, "run") /\ p # t
    /\ p \in processes
    /\ Exclusive => InCall(p, Waiting) = {}
    /\ target' = [target EXCEPT ![t] = p]
    /\ Goto(t, "mark")
    /\ UNCHANGED <<tstate, code, pvars, exiting, mvars, frame, result, hvars, panicked>>

\* Mutant: the code of a process that has already ended is replaced.
KillMarkAgain(t) ==
    LET p == target[t] IN
    /\ At(t, "mark")
    /\ tstate' = [tstate EXCEPT ![p] = "Exited"]
    /\ code' = [code EXCEPT ![p] = KilledCode]
    /\ Goto(t, "claim")
    /\ UNCHANGED <<pvars, exiting, mvars, target, frame, result, hvars, panicked>>

\* ... force_exit: an exited thread keeps its code; its joiners may go on ...
KillMark(t) ==
    LET p == target[t] IN
    /\ At(t, "mark")
    /\ IF tstate[p] = "Exited" THEN UNCHANGED <<tstate, code, cut>>
       ELSE /\ tstate' = [tstate EXCEPT ![p] = "Exited"]
            /\ code' = [code EXCEPT ![p] = KilledCode]
            /\ cut' = (cut \/ pc[p] \notin {"run", "join"})
    /\ Goto(t, "claim")
    /\ UNCHANGED <<pvars, exiting, mvars, target, frame, result, returned, destroyed, panicked>>

\* ... and only then claim the tear-down of its address space.
KillClaim(t) ==
    LET p == target[t] IN
    /\ At(t, "claim")
    /\ exiting' = [exiting EXCEPT ![p] = TRUE]
    /\ Goto(t, IF BeginExit(p) THEN "walk" ELSE "run")
    /\ UNCHANGED <<tstate, code, pvars, mvars, target, frame, result, hvars, panicked>>

----------------------------------------------------------------------------
\* Collecting a process.

\* wait finds the process in the registry ...
Wait(t, p) ==
    /\ At(t, "run")
    /\ p \in processes
    /\ Exclusive => InCall(p, Killing) \ {p} = {}
    /\ target' = [target EXCEPT ![t] = p]
    /\ Goto(t, "join")
    /\ UNCHANGED <<tstate, code, pvars, exiting, mvars, frame, result, hvars, panicked>>

\* Mutant: join does not wait.
WaitJoinEarly(t) ==
    /\ At(t, "join")
    /\ result' = [result EXCEPT ![t] = code[target[t]]]
    /\ Goto(t, "collect")
    /\ UNCHANGED <<tstate, code, pvars, exiting, mvars, target, frame, hvars, panicked>>

\* ... sched::join blocks until its thread has exited ...
WaitJoin(t) ==
    /\ At(t, "join")
    /\ tstate[target[t]] = "Exited"
    /\ result' = [result EXCEPT ![t] = code[target[t]]]
    /\ Goto(t, "collect")
    /\ UNCHANGED <<tstate, code, pvars, exiting, mvars, target, frame, hvars, panicked>>

\* Mutants: every waiter destroys the address space; the one that lost the
\* race for it starts over.
WaitCollectAll(t) ==
    LET p == target[t] IN
    /\ At(t, "collect")
    /\ processes' = processes \ {p}
    /\ threadToPid' = threadToPid \ {p}
    /\ returned' = [returned EXCEPT ![p] = @ \cup {result[t]}]
    /\ Goto(t, "destroy")
    /\ UNCHANGED <<tstate, code, nextPid, exiting, mvars, target, frame, result, destroyed, cut,
                   panicked>>

WaitCollectAgain(t) ==
    LET p == target[t] IN
    /\ At(t, "collect")
    /\ processes' = processes \ {p}
    /\ threadToPid' = threadToPid \ {p}
    /\ returned' = [returned EXCEPT ![p] = @ \cup {result[t]}]
    /\ Goto(t, IF p \in processes THEN "destroy" ELSE "join")
    /\ UNCHANGED <<tstate, code, nextPid, exiting, mvars, target, frame, result, destroyed, cut,
                   panicked>>

\* ... the registry entries go, and who removed the process ...
WaitCollect(t) ==
    LET p == target[t] IN
    /\ At(t, "collect")
    /\ processes' = processes \ {p}
    /\ threadToPid' = threadToPid \ {p}
    /\ returned' = [returned EXCEPT ![p] = @ \cup {result[t]}]
    /\ Goto(t, IF p \in processes THEN "destroy" ELSE "run")
    /\ UNCHANGED <<tstate, code, nextPid, exiting, mvars, target, frame, result, destroyed, cut,
                   panicked>>

\* ... frees the PML4 frame.
WaitDestroy(t) ==
    LET p == target[t] IN
    /\ At(t, "destroy")
    /\ FreeFrame(pml4[p])
    /\ destroyed' = destroyed \cup {p}
    /\ Goto(t, "run")
    /\ UNCHANGED <<tstate, code, pvars, exiting, pml4, table, target, frame, result, returned, cut>>

----------------------------------------------------------------------------
\* The rest of a system call, once it was started.
Continue(t) ==
    \/ SpawnCreate(t) \/ SpawnFail(t)
    \/ MapPage(t) \/ UnmapFree(t)
    \/ Walk(t) \/ WalkClear(t) \/ ExitCode(t) \/ ExitLeave(t)
    \/ KillMark(t) \/ KillClaim(t)
    \/ WaitJoin(t) \/ WaitCollect(t) \/ WaitDestroy(t)

Start(t) ==
    \/ Spawn(t)
    \/ MapAnon(t) \/ Unmap(t) \/ GrowStack(t)
    \/ Exit(t) \/ FaultKill(t)
    \/ \E p \in Pids : Kill(t, p) \/ Wait(t, p)

Next == \E t \in Threads : Continue(t) \/ Start(t)

Spec == Init /\ [][Next]_vars

\* A thread in the middle of a system call is dispatched again and again
\* until it has finished (round robin: Sched, EventuallyRuns).
FairSpec == Spec /\ \A t \in Threads : WF_vars(Continue(t))

----------------------------------------------------------------------------
(***************************************************************************)
(* Properties.                                                             *)
(***************************************************************************)

\* A process whose address space has not been destroyed.
Exists(p) == tstate[p] # "New" /\ p \notin destroyed

\* t has freed f during its walk and has not cleared the entry yet.
JustFreed(p, f) == \E t \in Threads : pc[t] = "clear" /\ target[t] = p /\ frame[t] = f

\* Who accounts for frame f: the free list, the process whose PML4 it is,
\* the process that maps it, or the system call that holds it.
Roots(p, f) == Exists(p) /\ pml4[p] = f
Maps(p, f)  == Exists(p) /\ f \in table[pml4[p]] /\ ~JustFreed(p, f)
Holds(t, f) == pc[t] \in {"map", "unmap"} /\ frame[t] = f

Owners(f) ==
    (IF f \in free THEN 1 ELSE 0)
    + Cardinality({p \in Pids : Roots(p, f)})
    + Cardinality({p \in Pids : Maps(p, f)})
    + Cardinality({t \in Threads : Holds(t, f)})

\* No frame is in two places: no page of a live process is free or belongs
\* to another one, however exits, kills, faults and waits interleave; and no
\* frame is freed twice (the assertion of pmm::free_frame).
FramesNotShared ==
    /\ panicked # "double free"
    /\ \A f \in Frames : Owners(f) <= 1

\* No frame is lost, unless a thread was killed in the middle of a call.
NoFrameLost == ~cut => \A f \in Frames : Owners(f) >= 1

\* Exactly one caller ever tears an address space down, and never while its
\* process can still be dispatched in it, unless it is the process itself.
OneTeardown ==
    \A t \in Threads : pc[t] \in {"walk", "clear"} =>
        /\ exiting[target[t]]
        /\ target[t] = t \/ tstate[target[t]] = "Exited"
        /\ \A u \in Threads : pc[u] \in {"walk", "clear"} /\ target[u] = target[t] => u = t

\* proc::current never panics: a thread that can still make a system call or
\* fault is in both tables of the registry, and the tables agree.
RegistryKnowsLive ==
    /\ \A p \in Pids : tstate[p] = "Live" => p \in processes
    /\ processes = threadToPid
    /\ \A p \in processes : p < nextPid /\ tstate[p] # "New"

\* Every wait for one process returns the same code, the one it ended with,
\* however many callers wait and whether exit or kill came first.
WaitersAgree ==
    \A p \in Pids : returned[p] \subseteq {code[p]} /\ (returned[p] # {} => tstate[p] = "Exited")

\* The life of a process as its callers see it.
Life ==
    INSTANCE ProcLife WITH
        Codes <- AllCodes \cup {NoCode},
        status <- [p \in Pids |->
                     IF tstate[p] = "New" THEN "none"
                     ELSE IF tstate[p] = "Live" THEN "live"
                     ELSE IF p \in processes THEN "zombie" ELSE "collected"],
        ended <- [p \in Pids |-> IF tstate[p] = "Exited" THEN code[p] ELSE NoCode]

\* Proc implements ProcLife: created once, ends once, collected once, and the
\* exit code never changes after the end.
ImplementsLife == Life!Spec

\* A process that has begun to exit does end: the walk over its address
\* space terminates although other threads map and free frames meanwhile.
ExitCompletes == \A p \in Pids : exiting[p] ~> (tstate[p] = "Exited" \/ panicked # "no")

\* A wait for a process that has ended returns, or the waiter is killed,
\* as long as callers keep the waits and kills of one process apart (Exclusive).
WaitReturns ==
    \A t \in Threads :
        (pc[t] = "join" /\ tstate[target[t]] = "Exited")
            ~> (pc[t] = "run" \/ tstate[t] = "Exited" \/ panicked # "no")

\* Documented in proc::wait ("`free_user_space` already ran ... at exit/kill
\* time, so only the PML4 frame itself remains to free"): when wait is about
\* to destroy an address space, nothing is mapped in it any more.
FreedBeforeDestroy ==
    ~cut => \A t \in Threads : At(t, "destroy") => table[pml4[target[t]]] = {}

----------------------------------------------------------------------------
(***************************************************************************)
(* The inductive invariant behind OneTeardown, RegistryKnowsLive,          *)
(* WaitersAgree and ImplementsLife (proved in ProcProofs).                 *)
(***************************************************************************)

\* A pid that is being created is nobody's yet, and two threads never create
\* the same one.
CreatesFresh ==
    \A t \in Threads : pc[t] = "create" =>
        /\ target[t] \in Pids /\ target[t] < nextPid
        /\ tstate[target[t]] = "New"
        /\ \A u \in Threads : pc[u] = "create" /\ target[u] = target[t] => u = t

\* Whatever a call is about was created, has an address space and a pid that
\* was handed out.
TargetsExist ==
    \A t \in Threads : pc[t] \in Killing \cup Waiting =>
        target[t] \in Pids /\ tstate[target[t]] # "New"
SpacesBuilt == \A p \in Pids : tstate[p] # "New" => pml4[p] \in Frames /\ p < nextPid

\* A call that holds a frame knows which.
FramesHeld == \A t \in Threads : pc[t] \in {"map", "unmap"} => frame[t] \in Frames

\* What is claimed by a killer or collected by a waiter has ended, with the
\* code the waiter was told.
TargetsEnded ==
    \A t \in Threads :
        /\ pc[t] \in {"claim", "collect", "destroy"} => tstate[target[t]] = "Exited"
        /\ pc[t] = "collect" => result[t] = code[target[t]]

ProcInv ==
    /\ TypeOK
    /\ CreatesFresh
    /\ TargetsExist
    /\ SpacesBuilt
    /\ FramesHeld
    /\ TargetsEnded
    /\ OneTeardown
    /\ RegistryKnowsLive
    /\ WaitersAgree

----------------------------------------------------------------------------
(***************************************************************************)
(* The inductive invariant behind FramesNotShared and NoFrameLost, for     *)
(* callers that keep kills and waits of one process apart (proved in       *)
(* ProcProofs).                                                            *)
(***************************************************************************)

\* A thread that does not run yet is in no call; memory calls and exits are
\* made by processes; nobody kills itself with force_exit.
CallersAreThreads ==
    \A t \in Threads :
        /\ tstate[t] = "New" => pc[t] = "run"
        /\ pc[t] \in {"map", "unmap", "code", "leave"} => t \in Pids
        /\ pc[t] \in {"mark", "claim"} => target[t] # t

\* A kill and a wait of one process are not under way together.
CallsApart ==
    \A t, u \in Threads :
        (tstate[t] = "Live" /\ pc[t] \in Killing /\ tstate[u] = "Live" /\ pc[u] \in Waiting
            /\ target[t] = target[u]) => t = target[t]

\* A process that exits is on its way out until it has ended.
ExitersKnown ==
    \A p \in Pids :
        /\ exiting[p] => \/ tstate[p] = "Exited"
                         \/ pc[p] \in {"walk", "clear", "code", "leave"} /\ target[p] = p
        /\ pc[p] \in {"code", "leave"} => exiting[p]

\* One waiter destroys an address space, when nobody is in a call about it
\* that touches it.
DestroyedOnce ==
    /\ \A p \in destroyed : p \notin processes /\ tstate[p] = "Exited"
    /\ \A t \in Threads : pc[t] = "destroy" =>
           /\ target[t] \notin processes \cup destroyed
           /\ \A u \in Threads : pc[u] = "destroy" /\ target[u] = target[t] => u = t
    /\ \A t \in Threads : tstate[t] = "Live" /\ pc[t] \in Killing => target[t] \notin destroyed

\* Nobody accounts for a frame that somebody else accounts for.
OwnedOnce(f) ==
    /\ f \in free => /\ \A p \in Pids : ~Roots(p, f) /\ ~Maps(p, f)
                    /\ \A t \in Threads : ~Holds(t, f)
    /\ \A p, q \in Pids :
           /\ Roots(p, f) /\ Roots(q, f) => p = q
           /\ Maps(p, f) /\ Maps(q, f) => p = q
           /\ ~(Roots(p, f) /\ Maps(q, f))
    /\ \A t \in Threads : Holds(t, f) =>
           /\ \A p \in Pids : ~Roots(p, f) /\ ~Maps(p, f)
           /\ \A u \in Threads : Holds(u, f) => t = u

OneOwner == \A f \in Frames : OwnedOnce(f)

FrameInv ==
    /\ ProcInv /\ CallersAreThreads /\ CallsApart /\ ExitersKnown /\ DestroyedOnce /\ OneOwner
    /\ panicked # "double free"

\* Nobody was killed inside a call: who has ended was in none, what a process
\* mapped is freed when it ends or is being freed by the one killer that
\* claimed it, and somebody accounts for every frame.
NobodyCut == \A t \in Threads : tstate[t] = "Exited" => pc[t] \in {"run", "join", "leave"}

Tearing(t, p) == tstate[t] = "Live" /\ pc[t] \in {"walk", "clear"} /\ target[t] = p /\ t # p

SpacesEmptied ==
    /\ \A p \in Pids : pc[p] \in {"code", "leave"} /\ tstate[p] = "Live" => table[pml4[p]] = {}
    /\ \A p \in Pids : tstate[p] = "Exited" /\ p \notin destroyed =>
           IF exiting[p]
           THEN table[pml4[p]] = {} \/ \E t \in Threads : Tearing(t, p)
           ELSE \E t \in Threads : tstate[t] = "Live" /\ pc[t] = "claim" /\ target[t] = p

Covered ==
    \A f \in Frames :
        \/ f \in free
        \/ \E p \in Pids : Roots(p, f) \/ Maps(p, f)
        \/ \E t \in Threads : Holds(t, f)

UncutInv == ~cut => NobodyCut /\ SpacesEmptied /\ Covered
=============================================================================

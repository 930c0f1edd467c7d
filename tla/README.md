# TLA+ models of OtterOS

OtterOS is an x86_64 operating system in Rust: a preemptive single-core kernel
(`kernel/`), host-testable libraries (`crates/`) and a few user programs
(`user/`). This directory models the parts of it in which the order of steps
matters (locks, scheduler, processes, memory, drivers, network, keyboard,
windows, TLS, agent) as state machines, and the parts that transform data
(parsers, encoders, loaders, editors, the console) as operators that are
compared with reference definitions. Every definition is translated from the
source; `PROJECT.json` maps the definitions to their lines (about 31 % of the
implementation; a small helper shares the entry of the definition that uses it).

## 1. Inventory

One core runs one thread at a time. Kernel code that does not disable
interrupts can be preempted by the timer between any two instructions; system
calls run with interrupts on (`syscall_entry.rs` executes `sti`). A critical
section with interrupts off (`without_interrupts`, `IrqMutex`, interrupt gates)
is atomic. `proc::kill` can end another thread wherever it was preempted. These
three facts cause nearly all the hard behaviour of the kernel; devices and the
network add completions that are late, lost, repeated or out of order.

| component | state | operations | interacts with | correct when |
|---|---|---|---|---|
| sleeping locks (`sched/mutex.rs`, `waitqueue.rs`) | `locked`, `owner`, `permits`, waiters, per-thread hand-off flag | lock, unlock, acquire, release, wait_until, pop | scheduler (`block_current`, `wake`) | one holder, hand-off arrives, permits conserved, no lost wake-up |
| scheduler (`sched/`) | current, ready queue, sleep list, reap list, all threads, retired codes | spawn, yield, sleep, join, exit, force_exit, tick, wake | timer, keyboard, kernel stacks, processes | no thread lost or doubled, exits final, ready threads run |
| kernel stacks (`mm/kstack.rs`) | slot free list, next fresh slot, spin lock | allocate, free | called by spawn and by the reaper | one owner per slot, no stack freed under a live thread |
| processes (`proc/`) | registry, exiting flag, address space | spawn, exit, fault, kill, wait, map, unmap, grow stack | scheduler, frames, system calls | torn down once, collected once, codes agree |
| frames (`mm/pmm.rs`), heap (`mm/heap`) | bitmaps; slabs, large runs | alloc, free, contiguous runs; alloc, dealloc, realloc | processes, drivers | no frame or object is given out twice or lost |
| address spaces (`mm/vmm/`) | four levels of tables, TLB, MMIO window | map, unmap, translate, free_user_space, destroy | frames, processes, stacks | a translation is the last one mapped, kernel half shared |
| virtio queues and block driver (`drivers/virtio`) | descriptor free list, ring indices, bounce buffer, request mutex | add, pop_used, notify, read, write, flush | device, sleeping mutex | each completion goes to its request |
| network (`net/`, `virtio/net`, `otter-netlogic`) | receive buffers, transmit slot, UDP sockets, DHCP and DNS clients | transmit, receive, dispatch, poll, tick | virtio-net, timer, servers | tolerates lost, late and repeated packets |
| keyboard (`drivers/ps2`) | scancode ring, modifiers, read queue, pending bytes | IRQ push, blocking read, `sys_read` | scheduler, processes | no byte lost or read twice while there is room |
| console and serial line (`console/`, `serial.rs`) | grid, cursor, parser, boot ring | write, scroll, replay, panic screen | everyone who prints | the screen shows the text |
| boot and loading (`proc/elf.rs`, `fs/`, `acpi/`, `drivers/pci`) | parsed tables, segments | parse, load, scan | virtual memory, drivers | what is loaded is what the file says |
| windows, text, terminal, HTML | stacking order, focus; text and undo groups; screen; tokens and tree | events, edits, bytes | each other | focus on top, undo exact, output independent of how input is cut |
| agent, tools, language model, grammar | conversation, approvals, log; tokens, sampler; matcher | ask, step, approve; encode, decode; accept | TLS, HTTP, JSON, host | no tool runs without consent, every call is answered |
| TLS, HTTP, JSON, wire protocol, certificates | keys, transcript, buffers | feed, send, verify | agent, browser | both sides in step, the same result however input is cut |
| packets, partitions, USB and xHCI | rings, contexts, tables | parse, build, push, pop | network, disks | parsers invert builders, rings lose nothing |
| cryptography, numerical kernels, drawing, widgets, random numbers, CPU set-up | | | | not modelled (section 6) |

What is hard here: locks released in two steps; a wake-up between a check and
the blocking it guards; a thread killed while it holds something; a stack or a
PML4 frame freed and reused while somebody has its number; spin locks taken
both with interrupts on and off; time-outs that race late completions; answers
to a question that is no longer asked; input that arrives in any division; a
stale approval. The list, line by line, is under `hazards` in `PROJECT.json`.

## 2. Plan

Done: `SleepLock`, `Sched`, `ProcLife` and `Proc`; virtqueue and block driver
over an abstract disk, heap and frames, page tables, network, keyboard, text,
windows, TLS, agent; the pure algorithms. Proved: the safety properties of
`SleepLock`, `Sched` and `Proc`, of the virtqueue and its block driver with the
abstract disk they implement, of the DHCP client, the network card, the look-ups,
the keyboard, the windows, the editor's text and the agent (section 5).

Next, in this order:

1. `PagesSound`, `HeapSound`, `TlsInStep`.
2. Composition of `SleepLock`, `Sched` and `Proc` in the kill paths. Each of the
   three models the kill as it sees it; the product is too large for the runs
   here.

The block cache has no caller in the kernel; it is worth a module when it gets
one.

## 3. Modules and how they correspond to the code

### State machines of the kernel

**SleepLock.** A thread is `Runnable` (Ready or Running in the code), `Blocked`
or `Exited`; `pc` says which step of `lock`, `acquire`, `unlock` or `release` is
next. Steps: the re-entry assertion (`Lock`), the first check of `wait_until`
(`TryNow`), the second check with its registration, interrupts off
(`BlockCurrent`), the store of the owner (`EnterCS`), its reset (`Unlock`),
`WaitQueue::pop` (`PopWaiter`), `grant_handoff`, `wake`, and the `None` branch
(`FreeIt`). `take_handoff` and `compare_exchange` are one step because a hand-off
is granted only to a parked thread, which is itself an invariant
(`WaitersReachable`). `Kill` is `force_exit` as the locks see it.

**Sched.** `Schedule(st, rq, ts)` is `schedule()`: reap what earlier calls
queued, requeue or retire the outgoing thread, pop the ready queue past killed
threads, dispatch. Interrupts (`TimerTick`, `KeyboardIrq`) are handler, EOI and
`preempt_if_needed` in one action. `spawn` takes the slot lock with interrupts
on, so it is four actions; `spawn_user` runs with them off and is one. `join`
and the keyboard reader show `wait_until` with both of its checks. `force_exit`
is one action under the scheduler lock followed by the preemptible wake-up of
all joiners, the freeing of the stack and `retire`. `hung` is a spin on a lock
with interrupts off; `panicked` an assertion that failed. `wake_due` removes
entries with `swap_remove`: the order in which sleepers become ready is left
open. A join of oneself blocks for ever and is left to `Proc`.

**ProcLife / Proc.** `ProcLife` is what callers may rely on: a process is
created, ends once with a code, is a zombie, is collected at most once. `Proc`
is the code: an address space is the number of a PML4 frame, and what it maps
is stored in that frame (`table`), so a stale number reads what the frame's new
owner wrote. `free_user_space` is a preemptible walk that frees a frame before
it clears the entry, as the code does. `panicked` tells an out-of-memory panic
of `new_user` (and a double free) from normal operation. `cut` is a history
variable: some thread was killed in the middle of a system call. A process has
one thread. Calls on ranges of pages are sequences of calls on one page; an
error after some pages is one such sequence.

The constant `Exclusive` is the discipline under which the code is right: nobody
kills and waits for one process at the same time. With it the frame properties
hold; without it the run `proc_race` finds the disagreement below. The proofs of
the frame properties assume it, those of the life cycle do not.

**Queues, QueueLemmas.** `Queues` has the operators on sequences without
duplicates that the scheduler, the network card and the windows share (`In`,
`Distinct`, `Kept`, the filter); `QueueLemmas` proves facts about them.

**VirtQueue, VirtioBlk, BlockDevice.** `VirtQueue` is `SplitQueue`: the free
list threaded through the descriptors, chains, both rings, their indices modulo
a power of two, and event suppression; the device's side is external.
`VirtioBlk` is `execute_request` and its callers: the request mutex, the one
bounce buffer, the poll with its time-out, and the completion that comes after
it. `BlockDevice` is the abstract disk: one operation is served at a time, a read
returns what the disk holds, a successful write is there in full, a failed one
may be there in part, a flush makes everything durable. Its promise ends with the
first operation that timed out (`late`): from then on nothing is said about
contents, because the code really breaks it there (`blk_late`).

**Heap.** The frame allocator's boot-time regions, two bitmaps, aligned runs and
assertions, and over it the slabs and large runs of the kernel heap. An object
is the range it occupies; `HeapSound` says that live objects are disjoint and as
large and aligned as asked for, that a frame is marked used exactly if one slab,
one large object or one caller has it, and that a slab's free list and its live
objects make up its slots.

**PageTables.** Four levels with a radix of `ENTRIES`, 4 KiB and 2 MiB pages, the
kernel image and direct map, user spaces, stacks with guard pages, the MMIO
window, and a TLB that may keep what no `invlpg` removed. Creation (`spawn`,
`spawn_payload`) runs with interrupts off and a user half is changed only by its
own thread, so each operation is one action. Exhaustion while a table is
created panics the kernel; `Reserve` keeps this run away from it, and
exhaustion is the subject of `Proc`.

**Dhcp, VirtioNet, NetStack.** `Dhcp` is the client of
`otter-netlogic` with its caller's clock, the messages in flight (lost,
repeated, delayed) and a server that may refuse. The clock is the code's: both
callers (`net/rx.rs:47`, `net/udp.rs:193`) cut the uptime down to a u32 of
milliseconds, so `clock` wraps after `MsMax`, and the client subtracts its stamps
from it with `saturating_sub` (`Elapsed`), so a stamp from before the wrap seems
to be of this moment. What the wrap, every 49.7 days, does to a client is part of
the model: bound shortly before it, the client never renews and never gives the
address up (`Lost`, `LateAckBindsForEver`); asking across it, the client may never
ask again. `OverstayBounded` and `AskingEnds` therefore speak of leases and
questions that do not meet the wrap, and say so in their hypotheses (`Unwrapped`,
`AsksIn`). `VirtioNet` is the receive
buffers' circle and the transmit slots with their time-out. `NetStack` has one
look-up of a name with its retries and alias chains, and composes look-ups,
sockets and pollers.

**Keyboard.** Interrupt handler, decoder with modifiers, the ring with its two
indices as separate steps, the blocking reader, `sys_read` and its shared pending
buffer.

### State machines of the libraries

**TextBuffer** (edits with their undo and redo groups), **WindowManager**
(focus, stacking, minimise, maximise, pointer grabs, task bar; calls name any window,
also one that was closed or never created: `focus_window` then takes the mark from the
focused window and leaves `focused_window` as it is, which the history variable
`strayed` remembers and `FocusOnTop` allows for), **Tls** (the
handshake and the record layer with an abstract server; a key is a symbolic
term, a sequence number a counter), **Agent** (ask, the streamed turn, tool
calls, consent, limits, cancellation, the log; the tool session's verdict on a
call and its path). An answer may end for any of the five stop reasons or for one the
parser does not know, whatever blocks it has. Only `tool_use` runs tools: an answer
with calls that ends in `end_turn`, `refusal`, `pause_turn` or an unknown reason is
pushed to the conversation and its calls stay unanswered, also in the requests that
follow. `ToolCallsAnswered` says both, with the history field `ended` of a message.

### Pure algorithms

An operator translates the algorithm; an `ASSUME` in an MC module compares it
with a reference definition over every input of a small set. TLC evaluates it at
the start of the run whose module extends it.

| module | code | compared in | evaluated by run |
|---|---|---|---|
| `HtmlTokenizer`, `HtmlTree` | `otter-html` | `MCAlgorithms` | `sched_live` |
| `Terminal` | `otter-term` | `MCAlgorithms` | `sched_live` |
| `X509` | `otter-x509` | `MCAlgorithms` | `sched_live` |
| `Usb` | `otter-usb`, `otter-xhci` | `MCAlgorithms` | `sched_live` |
| `Json`, `Http`, `Packets`, `Wire`, `Partitions`, `Grammar` | the crates of these names, `otter-net-proto` | `MCInputs` | `net` |
| `LocalModel` | `otter-llm`, `otter-sample`, `otter-local` | `MCInputs` | `net` |
| `Boot` | `fs/`, `proc/elf.rs`, `proc/usermem.rs`, `acpi/`, `drivers/pci` | `MCInputs` | `net` |
| `Shell` | `user/`, `console/`, `serial.rs` | `MCInputs` | `net` |
| index arithmetic of `VirtQueue`, `Heap`, `PageTables` | | `MCStorage` | `storage` |

What the comparisons say, by kind: a parser inverts its builder (packets, JSON,
partitions, frames, USB contexts); the result does not depend on how the input
is cut into pieces (HTTP, events, wire frames, UTF-8 decoder, terminal, HTML); a
search finds what a declarative definition says (certificate path, aligned runs,
longest merges, host names); a matcher admits exactly the prefixes of a
language (grammar); a screen shows the last lines of what was written
(console). Several assumptions state a limit of the code instead, and say so in
their comment: `LongLinesAreSmeared`, `UnknownKeysAreTyped`,
`ExitCodesAreAmbiguous` and the like.

**MC modules** give the constants their values. `MCStorage`, `MCNet` and
`MCUser` hold several machines with disjoint variables: a variable `subject`,
chosen in `Init`, says which of them moves in this behaviour, so that their
state spaces add up instead of multiplying. `MCProc` uses the symmetry of frames
in the safety runs only.

## 4. Runs

| run | shows | size |
|---|---|---|
| `sleeplock` | `MutualExclusion`, `OneTokenPerLock`, `OwnerTracksGuard`, `PermitConservation`, `WaitersReachable`, `HandoffDelivered` | 3 threads, 1 killable, 1 mutex, 1 semaphore; 396,000 states |
| `sleeplock_lost` | violation of `NoLostWakeup` | 2 threads, 1 mutex |
| `sched_safety` | `EveryThreadIsSomewhere`, `StacksAreSafe`, `RetiredCodesTrue`, `IdleOnlyIfNothingReady`, `NoPanic`, `ExitIsFinal` | 4 threads, all operations, 4 slots, time slice 1, sleeps end at the next tick; 297,000 states |
| `sched_live` | `EventuallyRuns`, `JoinReturns` (and the assumptions of `MCAlgorithms`) | 4 threads, time slice 2, sleeps of up to 2 ticks; 22,000 states |
| `sched_hang` | violation of `NoSelfDeadlock` | 5 threads |
| `proc` | `FramesNotShared`, `NoFrameLost`, `OneTeardown`, `RegistryKnowsLive`, `WaitersAgree`, `ImplementsLife` | kernel thread, 2 processes, 5 frames; 123,000 states |
| `proc_live` | `ExitCompletes`, `WaitReturns` | 3 frames; 266,000 states |
| `proc_race` | violation of `FreedBeforeDestroy` | 4 frames, `Exclusive` false |
| `storage` | `DescriptorsConserved`, `NoLostNotification`, `LeftBehind`, `ImplementsBlockDevice` (blk), `HeapSound` (heap), `PagesSound` (pages) | queue of 4, indices modulo 8 starting at 6, 2 threads, 2 sectors, 3 of 4 operations, 1 error; 8 entries per table, 2 processes; 339,000 states |
| `blk_late` | violation of `OneRequestInQueue` | as `storage` |
| `net` | `OverstayBounded`, `AskingEnds` (dhcp), `RxBuffersConserved`, `TransmitHonest` (nic), `AnswerIsTrue` (sockets) (and the assumptions of `MCInputs`) | 1 address, leases of 2 and 3, clock modulo 22 (the smallest in which seven times a lease fits), delay 1, 2 receive buffers, 2 transmit slots, 1 late completion, 1 port, 2 callers; 254,000 states |
| `user` | `KeysReachReader` (keys), `UndoIsExact` (text), `FocusOnTop` (windows), `TlsInStep` (tls), `ConsentFirst`, `ToolCallsAnswered` (agent) | ring of 3, 4 scan codes, 3 characters and 3 edits, 3 windows, 2 cipher suites, 6 reasons for an answer's end, 2 questions of 2 turns; 2,013,000 states |

Why the bounds are enough for what they ask: a lock race needs a holder, a
waiter and a third party that barges in or is killed; a scheduler race needs a
killer, a victim and a joiner, plus one slot that is freed and claimed again;
a process race needs a victim, a waiter and a killer, and a frame that moves
from one address space to another. A late completion needs a request that timed
out and the next one; the ring indices start just below their modulus, so that
they wrap within three requests. A lease race needs two leases of different
length and one message of each kind that is late, and a clock that wraps while the
client holds the address or asks. The keyboard's ring is one
slot smaller than the number of codes, so it overflows. Undo needs two groups
and an edit after an undo. Counters are cut by named bounds (`MaxId`, `MaxPid`,
`MaxReleases`, `MaxSleep`, `MsMax` and others). `sched_safety` sets `MaxThreads`,
`MaxRetired` and `NumSlots` so that no capacity is exceeded: what happens at
the capacities is listed under hazards. Deadlock checking is off: when the
bounds are used up, or every thread waits for something that never comes, the
real system idles.

Fairness. `SleepLock`: weak fairness of each runnable thread's next step, which
round robin gives (`EventuallyRuns` in `Sched`). `Sched`: the timer keeps
ticking (weak), and a thread that is dispatched again and again in the middle of
an operation makes its next step (strong; a time slice of 10 ms is far longer
than a step, and another tick may always come first). `Proc`: weak fairness of
started system calls. `Dhcp`: time passes and the poller calls `tick` (weak),
which the network thread's loop does on every round; nothing is assumed of the
network. Nobody is obliged to start an operation.

### What the violations mean

- `sleeplock_lost` (`sched/mutex.rs:83-88`): unlock finds no waiter, is
  preempted, a second thread still sees `locked`, parks, and unlock then clears
  `locked`. Nobody wakes the parked thread until the next unlock.
  `wait_until` is documented as lost-wake-up-safe; it is, with respect to wakers
  that change the condition before they look at the queue.
- `sched_hang` (`mm/kstack.rs:301`): `spawn` is preempted while it holds the
  slot spin lock; an exited thread waits to be reaped; `schedule()` spins on that
  lock with interrupts off.
- `proc_race` (`proc/mod.rs:248`): `kill` marks the thread exited, which lets a
  waiter collect the process and free its PML4 frame before the killer walks it.
- `blk_late` (`virtio/blk/mod.rs:449`): a request that times out returns and
  drops the request mutex while its descriptors are still queued; the next
  request joins it in the queue and takes its completion for its own.

## 5. Proofs

TLAPS proves the theorems listed in `PROJECT.json` for every value of the
constants, under the named assumptions of the modules (`LockAssumption`,
`SchedAssumption`, `ProcAssumption`, `QueueAssumption`, `BlkAssumption`,
`DhcpAssumption`, `NicAssumption`, `NetAssumption`, `KeyboardAssumption`,
`WmAssumption`, `BufAssumption`, `AgentAssumption`). These say that the constants are sets and
numbers of the right kind and that the "none" values are not among the others (of a look-up: that addresses,
names and ping numbers are told from each other and from errors, as their types do
in the code; and, of a queue, that its
size divides the modulus of its indices, which `Layout::for_size` sees to, and of
the keyboard's pending buffer, that it holds the two bytes an arrow key leaves
over; the code's holds 64; and, of a call of `write_file`, that a valid input has a
path, which its schema requires); TLC evaluates them in every run. Where a theorem needs
more, it says so in its statement (`Exclusive =>`).
Every inductive invariant below was an invariant of a TLC run before its proof.

- **`SleepLockProofs`**, two inductive invariants. `LockInv` gives `TypeCorrect`,
  `MutexExcludes`, `OwnerAccurate`. Mutual exclusion alone is not inductive: a
  claim on a mutex (entering, holding, releasing, or having been granted it)
  implies `locked` and is unique (`TokenLocks`, `TokenUnique`), hand-offs go
  only to threads that wait for that object (`HandoffWaits`, `PoppedWaits`), and a
  popped thread is in no queue and held by one releaser (`ParkedWaits`,
  `ParkedOnce`, `PoppedGone`, `PoppedOnce`). `ClaimInv` adds the converse:
  `locked` has a claimant, a blocked thread is found somewhere, and permits and
  their claims add up. It gives `ClaimsAreUnique`, `PermitsAreConserved` and
  `BlockedAreReachable`, for kills at any point.
- **`SchedProofs`**, `SchedInv`. The properties count how often a thread occurs;
  the invariant says where it is: in the ready queue, the sleep list, a wait
  queue or a waker's hands according to its state (`Placed`, `Asleep`, `Waiting`),
  on the way out exactly once (`Ending`), and who has each stack slot
  (`SlotsOwned`, `SlotsMapped`). Its parts take the variables as parameters:
  `schedule()` is entered in the middle of an action with a state that is no
  state of the behaviour, and one lemma about `Schedule` serves every caller.
  From it: `ThreadsArePlaced`, `SlotsAreSafe`, `CodesStayTrue`,
  `NoIdleWhileReady`, and the action property `ExitsAreFinal`. `NeverPanics` adds
  that no assertion fails, under `Capacities`: ready queue, record of exit codes
  and stack region are sized for every thread ever spawned. It rests on
  `NothingFailed` (who was spawned is registered or in the record) and on counting:
  a queue of distinct threads without the idle thread is short (`QueueLength`), and
  a slot is left as long as threads and claims together are fewer than slots
  (`SlotLeft`). The code has 64, 128 and 4096 places and counts no threads, so the
  hypothesis is one on its load; a kernel that has spawned more than the record
  holds may panic in `join` (hazard at `sched/mod.rs:87`).
- **`ProcProofs`**, in three layers. `ProcInv` (no hypothesis) gives
  `RegistryComplete`, `TeardownByOne`, `WaitsAgree` and the refinement
  `ImplementsLifecycle`: every step of `Proc` is a step of `ProcLife` or leaves it
  unchanged under the mapping `Life`. It says that a pid under creation is
  nobody's yet and created by one thread, that whatever a call is about exists,
  and that what is claimed or collected has ended with the code the waiter was
  told. `FrameInv`, under `Exclusive`, says that every frame has one owner (the
  free set, a root, a mapping or a call's hands) and gives `FramesStayApart`.
  `UncutInv` adds, until a thread is killed inside a call, that what has ended has
  been emptied and that every frame has an owner: `NoFrameIsLost` and
  `NothingLeftToFree`. The last is the property `proc_race` violates when
  `Exclusive` is false, so that the proof and the run together say exactly when
  the code is right: callers must keep kills and waits of one process apart.
- **`StorageProofs`**, two inductive invariants. `BlkInv` holds whatever times
  out. Its core is `RingInv`, about a queue as a value: the head of a request
  stands in one place (published, with the device, or answered), its chain is
  what `Chain` walks, chains and free list share no descriptor, and neither ring
  overflows. The last is not assumed: heads in one window are distinct
  descriptors, so there are at most `QSize` of them (`WindowFits`), which keeps a
  wrapped index from meeting an entry in use. `add`, `pop_used` and the device's
  two accesses preserve it for any queue (`AddRing`, `PopRing`, `FetchRing`,
  `AnswerRing`); with the order of the mutex, the accepted operations and the
  count of `LeftBehind` the driver's steps do. From it:
  `DescriptorsStayConserved`, `NotificationsReachDevice`,
  `TimeoutsLeaveOneBehind`. `InStep` says what is true until something times out:
  by `LeftBehind` at most one request is in the ring, so it belongs to the thread
  that polls; its chain is `Buffers`, the device has taken it as it was meant, and
  a good status means that disk or bounce buffer hold what was asked.
  `DriverImplementsBlockDevice` follows: every step of the driver or of the device
  is a step of `BlockDevice` or changes nothing it has, under the mapping that calls
  served the thread that began to use the bounce buffer. `blk_late` shows that the
  hypothesis of `InStep` is needed.
- **`NetProofs`**. `DhcpInv` relates the client's two stamps to the time the address
  has been held, state by state (Bound, Renewing, Rebinding), as long as the clock
  has not wrapped since the ACK; `LeaseOverstayIsBounded` adds them up to `MaxHold`,
  for any lease, back-off and delay. `LateAckBindsForEver` says what happens
  otherwise: a client bound within half a lease of the wrap stays bound for good,
  since the elapsed time never reaches T1 on either side of it. `NicInv` says where each receive buffer is and that a transmission that
  was alone is the only one in the queue; `NoBufferIsLost` and the action property
  `SuccessIsHonest` follow. `NetInv` is about the threads that ask the resolver:
  each look-up has a socket of its own (`LookupsApart`), the name it asks for next
  is one the asked name leads to, and its hop count is that name's place in the
  chain of aliases (`OnTheWay`); what it has returned is true (`ResultsTrue`). A
  response in flight is true of the zone (`ResponsesHonest`), so
  what `parse_response` walks in it is a piece of the zone's chain
  (`ChainShape`, `PlacedStep`). `AnswersAreTrue` follows for any zone, any number of
  threads and any loss, under `ChainsFit`: a name that has an address reaches it
  within `MAX_CNAME_HOPS` aliases. With more the code reports a loop.
- **`UserProofs`**, `WmInv`, `BufInv`, `KbdInv` and `AgentInv`. Calls of the window manager are made of calls, which
  hand on a record of the variables; so the invariant is a predicate of that
  record. `Agreed` (stack and `window_data` have the same windows once, and the
  mark is where the focus is, unless a stray call took it away) is what `focus_window` may be called with, `Topped`
  (the focused window is on top) is what it leaves. `FocusStaysOnTop` follows for
  any set of windows and calls with any id. For the text, that the newest entry can be undone is not
  inductive: an undo uncovers the one below. `BufInv` says it of both stacks whole
  (`Chain`): each entry makes, of the text it leads back to, the one the next entry
  leads back to (`Makes`), up to the text that is there. It rests on lemmas about
  texts: drain takes back splice, splice takes back drain, and two splices one
  behind the other are one, which is why a merged entry is as good as two. Every
  cursor movement ends in the text (`LineMovesInText`, `WordMovesInText`).
  `UndoStaysExact` follows for any keys and files and stacks of any depth. For the
  keyboard, `KbdInv` says how many scancodes `k` have left the ring: the ring holds
  those behind the first `k` (`InRing`), what was read and what is kept is what those
  before the reader's place spell (`Decoded`), and between the copy of a slot and the
  advance of the tail the reader has the next one in its registers (`ReaderAt`). An
  interrupt changes no slot in use and leaves `k` alone; only the advance moves it.
  `KeysStayInOrder` follows for a ring of any size. It rests on what scancodes spell
  being a step per code (`SpelledSteps`, `SpelledAppend`, `SpelledGrows`). For the
  agent, `AgentInv` says that a call that is asked about or run has passed the
  session's checks and, if it is run, has the yes it needs (`InHand`); that the ids of
  the calls to come are larger than every id answered, logged or run (`Fresh`), so
  that a yes or an entry of the log can only be about the call in hand and an earlier
  answer stays true, and a call of an answer that ended otherwise is never answered; that the results so far answer the calls before the one in hand
  (`SoFar`); and that the log kept to what ran is what ran (`Tells`). Two lemmas about
  data carry it. `AnswersHonest`: however the stream of an answer is cut off, an
  answer the loop takes as complete has calls the API sent, in their order, and ends
  for the API's reason; the parser never closes a block it did not see begin
  (`StreamFlows`, `ParserStep`). `NormalizeIsLocation`: the path the system is given,
  built by a stack that ".." pops, is the place `Location` finds by reading the path
  from its end, so a check on the one protects the other. `AgentAsksFirst` and
  `AgentAnswersCalls` follow for any calls, any number of blocks, questions and turns.
- **`QueueLemmas`**: what appending, popping, filtering and swapping do to queues
  without duplicates. The library's induction theorems take an operator as a
  parameter, which the provers cannot instantiate; `NatInductionSet` states
  induction for a set of numbers instead, derived from well-foundedness, and is
  what the facts about the recursive function `Kept` rest on.

Each invariant proof has one lemma per action, and under it one step per conjunct
the action can disturb.

Only model-checked: liveness (TLAPS reaches neither fairness nor ENABLED),
`HeapSound` and `PagesSound` (`CHOOSE`, folds over the boot map and address
arithmetic with fixed masks), `TlsInStep` (its invariant would have to account for
every record in flight between the two sides) and the pure algorithms, which are recursive or fold over sequences. RECURSIVE operators are out of the prover's reach; the modules with
theorems reach none.

## 6. Not modelled

Modelled with less than the code holds: the map covers about a third of the
implementation's lines. Of the rest, the larger part is arithmetic
(cryptography, floating point), drawing, layout and fonts, and generated or tabular
data (entities, glyphs, usage tables); then register-level set-up of devices and
CPU, error texts, accessors and formatting.

- Cryptography (`otter-crypto`): arithmetic on large numbers; symbolic where
  `Tls` and `X509` use it. Numerical kernels (`otter-simd`, the forward pass):
  floating point; only the shapes are checked.
- Widgets, applications and drawing (`otter-ui`, `otter-apps`, `otter-apps-ai`,
  `otter-gfx`): layout and pixels.
- Random numbers (`random.rs`): a generator over hardware sources; no protocol
  to check beyond the lock listed under hazards.
- Traps and CPU set-up, the entry assembly, timer calibration, MSI-X, the APICs,
  the UART's registers, the reading of capabilities and the feature negotiation of
  virtio devices.
- Block cache: no caller. `otter-tcp` and `otter-fat` contain tests only.
  `otter-usb` and `otter-xhci` are modelled as libraries; no kernel driver uses them.
- Of the modelled parts: selections, search, replacement, the clipboard and
  `indent_lines` and `outdent_lines` (which make no undo entry) of `otter-textbuf`; `key_to_bytes` of the terminal; the DER reader's depth budget;
  the contents of files and search results in the agent's tools; ICMP echo; what the
  shell's commands print; statistics and test hooks. `line-editor` is the same code as
  the shell's editor, which is modelled in `Shell`.
- Multi-core execution does not exist in the code. Memory ordering is not
  modelled: on one core a preempted thread's stores are visible to the next.

## 7. Observations made while modelling

Behaviour of the code that the models reproduce or leave out on purpose, and that is
not a run of its own. Most of it needs unusual input; it is kept here for whoever
changes these files.

Kernel. A waiter killed after it was granted a mutex keeps it locked. A process
killed in the middle of its own exit, or between allocating and mapping a page, leaks
frames (`cut`). `join` of a thread that has aged out of the record of 128 codes panics.
`sched::spawn` of kernel threads changes the kernel's page tables with interrupts on,
although the comment at `mm/vmm/mod.rs:121-128` says otherwise; a new table is needed
only beyond some 30 stacks. `free_user_space` would free one frame of a 2 MiB page
(none is ever mapped in a user half). With more than 64 usable regions
(`mm/pmm.rs:284`) frames are handed out that `free_frame` refuses.
`elf.rs:141-144` says the address space is left as it was on an error; after
`OutOfMemory` it is not (the caller tears it down). The PCI scan lists a device
behind bridges once per way to its bus, and does not end on a circle of bridges. When the
stack cannot be grown to the end, `stack_mapped_low` (`process.rs:371`) is set as if pages
had been mapped downwards; the only caller kills the process at once. An
LED acknowledgement between 0xE0 and its code splits the key. The network card's
driver posts 64 receive buffers and gives up when the queue is smaller.

Console. `ansi.rs:12-14` says unknown sequences never fall through; a byte outside
the subset ends the sequence and its rest is printed, while the serial filter
swallows it to the final byte. Parameters beyond the limit extend the last kept one. A
line that reaches the last column is smeared when it is redrawn. Pieces of 4096 bytes
may cut a character in two. Exit codes from -4095 to -1 look like errors, and those
above 127 like kills.

Network. The DHCP client's clock wraps after 49.7 days and its timers with it (`Dhcp`,
`Lost`). `lease_ms * 7` can overflow 32 bits for leases of more than a week. An alias
loop is reported as a server failure. A UDP checksum that comes out as 0 is sent as 0.
The loop detector of names remembers 16 offsets. The ARP cache, which the kernel does
not use, drops what it had queued when the reply comes. HTTP: a body of known
length 0 ends without `Complete`; a line that is too long is refused only while its end
is missing; a CRLF cut between two feeds ends a server-sent event early. URLs lose the
brackets of IPv6 hosts. JSON: numbers beyond the range become infinity and are written
as null; of duplicate keys `remove` takes the first and `get` the last. GPT: an
unreadable first header is an error without a try of the backup; partitions may
overlap.

TLS and certificates. The answer to a key update is not flushed while the client only
reads (`transport.rs:116-150`). At most 7 intermediates are tried, where the comment
says 8. USB: usages 0x31 and 0x32 share a scan code; a command completion keeps the
low 32 bits of its pointer.

Agent and model. `&content[..2048]` (`session.rs:399`) can fall inside a character. The
check whether a file exists is older than the write it describes. A stop reason that is
not known ends the turn, and calls in such an answer, as in one that ends in `refusal`,
`pause_turn` or `end_turn`, are never answered. Under random sampling a turn whose stop token came in the
middle of a step is resumed by the next step. At the end of the context `step` returns
empty text for ever. Temperature 0 together with top-k or top-p is not greedy. Grammar:
`maxItems` 0 admits one item; an object whose properties are exactly `name` and `input`
is taken for the call itself; escapes from \uE800 up are rejected with the surrogates;
more than 32 properties overflow the mask.

Windows, text, HTML, terminal. `focus_window` of a window that is gone leaves the focused
one without its mark. A transmission that overlaps another may send its frame or take its
completion, which `TransmitHonest` excepts; a receive buffer whose frame is shorter than
its header is leaked, which `RxBuffersConserved` counts. Indenting lines is not undone.
Closing a window or Tab can focus a minimised one.
HTML: an unquoted attribute value followed by a blank is lost; text after `</html>`
without a body panics; text in tables outside cells is lost; the character reference
state loops on `&#` without digits when it is entered from RCDATA (tests only).
Terminal: ESC 7, 8, c, D, M and E do not leave the escape state; erasing to the cursor
at the right margin indexes out of range; an inverted scroll region underflows; the
saved cursor is not clamped on a resize; `insert_lines` does what `delete_lines` does.

------------------------------ MODULE VirtioBlk ------------------------------
(***************************************************************************)
(* The virtio block driver, kernel/src/drivers/virtio/blk/mod.rs, over one *)
(* split virtqueue, and the device it talks to (external).                 *)
(*                                                                         *)
(* Every operation holds request_mutex from its first request to its last; *)
(* the driver's one bounce buffer holds the header (16 bytes), then the    *)
(* data, then the status byte, so the place of the status depends on how   *)
(* many sectors the request moves.  Here header is the header and bounce   *)
(* the cells after it: a cell is a sector, or its first byte when it is    *)
(* read as a status.  Threads poll for the completion with interrupts on,  *)
(* so the device and the other threads run between any two actions.        *)
(*                                                                         *)
(* The request mutex is the sleeping lock of module SleepLock, which hands *)
(* over in FIFO order: mutex is the sequence of its holder and waiters.    *)
(* The DEVICE spin lock is taken with interrupts off on the one processor: *)
(* what runs under it is one action, except where the device can see the   *)
(* steps of it (publish, then look at the notify flag).                    *)
(***************************************************************************)
EXTENDS VirtQueue, FiniteSets

CONSTANTS
    Threads,     \* callers of the driver
    Capacity,    \* sectors of the device
    LbaMod,      \* where lba + sectors overflows (2^64 in the code)
    MaxPerReq,   \* sectors one request may move (256 KiB / 512 in the code)
    Sectors,     \* contents of a sector; its first byte if read as a status
    Offers,      \* sets of features a device may offer
    Requested,   \* the operations callers try: see Ops
    StartIdx,    \* requests the ring has been through before
    MaxOps,      \* bound: operations called in a behaviour
    MaxErrors,   \* bound: requests the device fails by itself
    NoOp, NoThread

\* Operations: kind, lba, n (sectors), ragged (the length of the buffer is not a
\* multiple of 512) and data (what the caller's buffer holds).
Ops == Requested

S_OK    == 0   \* BLOCK_S_OK
S_IOERR == 1   \* BLOCK_S_IOERR

ASSUME BlkAssumption ==
    /\ Capacity \in Nat \ {0}
    /\ LbaMod \in Nat /\ Capacity < LbaMod
    /\ MaxPerReq \in Nat \ {0}
    /\ {S_OK, S_IOERR} \subseteq Sectors
    /\ StartIdx \in Indices
    /\ MaxOps \in Nat /\ MaxErrors \in Nat
    /\ NoOp \notin Ops
    /\ NoThread \notin Threads
    /\ \A o \in Ops : /\ o.kind \in {"read", "write", "flush"}
                      /\ o.lba \in 0 .. LbaMod - 1
                      /\ o.n = Len(o.data)
                      /\ o.data \in Seq(Sectors)
                      /\ o.kind = "flush" => o.n = 0

\* What init asks negotiate for, besides VERSION_1.
Wanted == {"RING_EVENT_IDX", "FLUSH"}

VARIABLES
    up,         \* init() stored a device: vda() is Some
    features,   \* VirtioBlk::features
    q,          \* VirtioBlk::queue
    header,     \* the first 16 bytes of the bounce buffer
    bounce,     \* the rest of it
    requests,   \* VirtioBlk::request_count
    mutex,      \* request_mutex: its holder, then its waiters
    pc,         \* where in its operation a thread is
    op,         \* the operation a thread has called
    data,       \* the thread's buffer
    done,       \* sectors of it done so far (offset / 512)
    result,     \* what the thread's last operation returned
    calls,      \* operations called so far
    disk, durable,          \* the device's sectors, and those that survive
    seen,       \* the device's own index into avail.ring
    inDev,      \* the requests the device is working on
    asleep,     \* the device waits for a notification
    kicked,     \* a notification is on its way
    errors,     \* requests the device failed by itself
    timeouts    \* history: operations that have timed out

drvVars == <<up, features, q, header, bounce, requests, mutex, pc, op, data, done, result, calls>>
devVars == <<disk, durable, seen, inDev, asleep, kicked, errors>>
vars    == <<drvVars, devVars, timeouts>>

Cells == 1 .. MaxPerReq + 1

\* init(): the device is set up, or the driver reports an error and has no device.
\* The ring is laid out for the size the device allows, at most QSize.
BootResult(offered, accepts, max) ==
    LET n    == Negotiate(offered, Wanted, "VERSION_1", accepts)
        size == QueueSizeFor(QSize, max)
    IN  [up |-> n.ok /\ LayoutForSize(size) # 0, features |-> n.features]

Init ==
    /\ \E offered \in Offers, accepts \in BOOLEAN, max \in {0, QSize} :
          LET b == BootResult(offered, accepts, max)
          IN  up = b.up /\ features = b.features
    /\ q = NewQueue(StartIdx)
    /\ header = [kind |-> "read", lba |-> 0]
    /\ \E b \in Sectors : bounce = [c \in Cells |-> b]   \* fresh frames, not cleared
    /\ requests = 0
    /\ mutex = <<>>
    /\ pc = [t \in Threads |-> "idle"]
    /\ op = [t \in Threads |-> NoOp]
    /\ data = [t \in Threads |-> <<>>]
    /\ done = [t \in Threads |-> 0]
    /\ result = [t \in Threads |-> "none"]
    /\ calls = 0
    /\ disk = [s \in 0 .. Capacity - 1 |-> S_OK]
    /\ durable = disk
    /\ seen = StartIdx
    /\ inDev = {}
    /\ asleep = FALSE
    /\ kicked = FALSE
    /\ errors = 0
    /\ timeouts = 0

-----------------------------------------------------------------------------
(* The driver. *)

\* Sectors of the request that is being put together or awaited.
This(t) == LET left == op[t].n - done[t] IN IF left < MaxPerReq THEN left ELSE MaxPerReq

\* The cell the driver takes the status from.
StatusCell(t) == IF op[t].kind = "flush" THEN 1 ELSE 1 + This(t)

\* The chain of buffers of a request: header, data if any, status.
Buffers(t) ==
    LET hdr == [addr |-> 0, len |-> 1, write |-> FALSE]
        dat == [addr |-> 1, len |-> This(t), write |-> op[t].kind = "read"]
        sta == [addr |-> StatusCell(t), len |-> 1, write |-> TRUE]
    IN  IF op[t].kind = "flush" THEN <<hdr, sta>> ELSE <<hdr, dat, sta>>

\* lba.checked_add(num_sectors) fails, or exceeds the capacity.
OutOfRange(o) == o.lba + o.n >= LbaMod \/ o.lba + o.n > Capacity

\* The checks read, write and flush make before they touch the device.
Refusal(o) ==
    CASE o.kind = "flush" -> IF "FLUSH" \in features THEN "none" ELSE "ok"
      [] o.ragged \/ o.n = 0 -> "length"
      [] OutOfRange(o) -> "range"
      [] OTHER -> "none"

\* The operation returns r; request_mutex, if held, is dropped.
Done(t, r) ==
    /\ pc' = [pc EXCEPT ![t] = "idle"]
    /\ op' = [op EXCEPT ![t] = NoOp]
    /\ done' = [done EXCEPT ![t] = 0]
    /\ result' = [result EXCEPT ![t] = r]
    /\ mutex' = IF mutex # <<>> /\ Head(mutex) = t THEN Tail(mutex) ELSE mutex

\* A thread calls read, write or flush.
Enter(t) ==
    /\ up
    /\ pc[t] = "idle"
    /\ calls < MaxOps
    /\ calls' = calls + 1
    /\ \E o \in Ops :
          /\ op' = [op EXCEPT ![t] = o]
          /\ data' = [data EXCEPT ![t] = o.data]
    /\ pc' = [pc EXCEPT ![t] = "check"]
    /\ UNCHANGED <<up, features, q, header, bounce, requests, mutex, done, result, devVars, timeouts>>

\* It is refused, or queues for request_mutex.
Check(t) ==
    /\ pc[t] = "check"
    /\ LET r == Refusal(op[t])
       IN  IF r # "none"
           THEN Done(t, r)
           ELSE /\ mutex' = Append(mutex, t)
                /\ pc' = [pc EXCEPT ![t] = "copy"]
                /\ UNCHANGED <<op, done, result>>
    /\ UNCHANGED <<up, features, q, header, bounce, requests, data, calls, devVars, timeouts>>

\* Mutant: the bounce buffer is filled in before the mutex is held.
CopyIn_Unlocked(t) ==
    /\ pc[t] = "copy"
    /\ header' = [kind |-> op[t].kind, lba |-> op[t].lba + done[t]]
    /\ bounce' = IF op[t].kind = "write"
                 THEN [c \in Cells |-> IF c <= This(t) THEN data[t][done[t] + c] ELSE bounce[c]]
                 ELSE bounce
    /\ pc' = [pc EXCEPT ![t] = "add"]
    /\ UNCHANGED <<up, features, q, requests, mutex, op, data, done, result, calls, devVars, timeouts>>

\* Holding the mutex: fill in the bounce buffer.
CopyIn(t) ==
    /\ pc[t] = "copy"
    /\ Head(mutex) = t
    /\ header' = [kind |-> op[t].kind, lba |-> op[t].lba + done[t]]
    /\ bounce' = IF op[t].kind = "write"
                 THEN [c \in Cells |-> IF c <= This(t) THEN data[t][done[t] + c] ELSE bounce[c]]
                 ELSE bounce
    /\ pc' = [pc EXCEPT ![t] = "add"]
    /\ UNCHANGED <<up, features, q, requests, mutex, op, data, done, result, calls, devVars, timeouts>>

\* queue.add; QueueFull ends the operation with Io(99).
Submit(t) ==
    /\ pc[t] = "add"
    /\ IF CanAdd(q, Buffers(t))
       THEN /\ q' = Add(q, Buffers(t), op[t].lba + done[t])
            /\ pc' = [pc EXCEPT ![t] = "notify"]
            /\ UNCHANGED <<mutex, op, done, result>>
       ELSE Done(t, "io") /\ UNCHANGED q
    /\ UNCHANGED <<up, features, header, bounce, requests, data, calls, devVars, timeouts>>

\* should_notify, notify, count the request.
Notify(t) ==
    /\ pc[t] = "notify"
    /\ kicked' = (kicked \/ ShouldNotify(q))
    /\ requests' = requests + 1
    /\ pc' = [pc EXCEPT ![t] = "poll"]
    /\ UNCHANGED <<up, features, q, header, bounce, mutex, op, data, done, result, calls,
                   disk, durable, seen, inDev, asleep, errors, timeouts>>

\* The data a completed read has left in the bounce buffer goes to the caller.
CopyOut(t) ==
    IF op[t].kind = "read"
    THEN [data EXCEPT ![t] = [i \in DOMAIN data[t] |->
             IF i \in done[t] + 1 .. done[t] + This(t) THEN bounce[i - done[t]] ELSE data[t][i]]]
    ELSE data

\* pop_used returned a completion: look at the status, go on with the next request.
Completed(t) ==
    /\ pc[t] = "poll"
    /\ HasUsed(q)
    /\ q' = PopUsed(q)
    /\ IF bounce[StatusCell(t)] # S_OK
       THEN Done(t, "io") /\ UNCHANGED data
       ELSE /\ data' = CopyOut(t)
            /\ IF done[t] + This(t) >= op[t].n
               THEN Done(t, "ok")
               ELSE /\ done' = [done EXCEPT ![t] = @ + This(t)]
                    /\ pc' = [pc EXCEPT ![t] = "copy"]
                    /\ UNCHANGED <<mutex, op, result>>
    /\ UNCHANGED <<up, features, header, bounce, requests, calls, devVars, timeouts>>

\* pop_used returned nothing: on to the deadline.
PollEmpty(t) ==
    /\ pc[t] = "poll"
    /\ ~HasUsed(q)
    /\ pc' = [pc EXCEPT ![t] = "clock"]
    /\ UNCHANGED <<up, features, q, header, bounce, requests, mutex, op, data, done, result, calls,
                   devVars, timeouts>>

\* The 5 s are not over.
Spin(t) ==
    /\ pc[t] = "clock"
    /\ pc' = [pc EXCEPT ![t] = "poll"]
    /\ UNCHANGED <<up, features, q, header, bounce, requests, mutex, op, data, done, result, calls,
                   devVars, timeouts>>

\* They are: the operation ends, its request stays with the device.
Expire(t) ==
    /\ pc[t] = "clock"
    /\ Done(t, "timeout")
    /\ timeouts' = timeouts + 1
    /\ UNCHANGED <<up, features, q, header, bounce, requests, data, calls, devVars>>

-----------------------------------------------------------------------------
(* The device (external).  It reads the header and the data of a request   *)
(* when it fetches it and answers it later, in any order.                  *)

DevFetch ==
    /\ up /\ ~asleep
    /\ HasAvail(q, seen)
    /\ LET h  == AvailHead(q, seen)
           ch == Chain(q, h)
       IN  inDev' = inDev \cup
             {[head   |-> h,
               kind   |-> header.kind,
               lba    |-> header.lba,
               moves  |-> IF Len(ch) = 3 THEN q.desc[ch[2]].len ELSE 0,
               fills  |-> Len(ch) = 3 /\ q.desc[ch[2]].write,
               status |-> q.desc[Last(ch)].addr,
               data   |-> [c \in Cells |-> bounce[c]]]}
    /\ seen' = Plus(seen, 1)
    /\ UNCHANGED <<drvVars, disk, durable, asleep, kicked, errors, timeouts>>

\* The request makes sense to the device: the buffers fit the header it read.
Sensible(r) ==
    /\ r.lba + r.moves <= Capacity
    /\ \/ r.kind = "read" /\ r.fills
       \/ r.kind = "write" /\ ~r.fills /\ r.moves > 0
       \/ r.kind = "flush" /\ r.moves = 0

DevAnswer(r, s) ==
    /\ bounce' = [c \in Cells |->
                    IF c = r.status THEN s
                    ELSE IF s = S_OK /\ r.kind = "read" /\ c <= r.moves THEN disk[r.lba + c - 1]
                    ELSE bounce[c]]
    /\ disk' = IF s = S_OK /\ r.kind = "write"
               THEN [x \in DOMAIN disk |->
                       IF x \in r.lba .. r.lba + r.moves - 1 THEN r.data[x - r.lba + 1] ELSE disk[x]]
               ELSE disk
    /\ durable' = IF s = S_OK /\ r.kind = "flush" THEN disk ELSE durable
    /\ q' = PushUsed(q, r.head, r.moves)
    /\ inDev' = inDev \ {r}
    /\ UNCHANGED <<up, features, header, requests, mutex, pc, op, data, done, result, calls,
                   seen, asleep, kicked, timeouts>>

DevComplete ==
    \E r \in inDev :
       /\ ~asleep
       /\ \/ Sensible(r) /\ DevAnswer(r, S_OK) /\ UNCHANGED errors
          \/ ~Sensible(r) /\ DevAnswer(r, S_IOERR) /\ UNCHANGED errors
          \/ errors < MaxErrors /\ errors' = errors + 1 /\ DevAnswer(r, S_IOERR)

\* Nothing to do: ask for notifications, look once more, sleep.
DevSleep ==
    /\ up /\ ~asleep
    /\ ~HasAvail(q, seen) /\ inDev = {}
    /\ asleep' = TRUE
    /\ q' = [q EXCEPT !.noNotify = FALSE]
    /\ UNCHANGED <<up, features, header, bounce, requests, mutex, pc, op, data, done, result, calls,
                   disk, durable, seen, inDev, kicked, errors, timeouts>>

\* A notification arrives; while it works the device may do without more of them.
DevWake ==
    /\ kicked
    /\ kicked' = FALSE
    /\ asleep' = FALSE
    /\ \E f \in BOOLEAN : q' = [q EXCEPT !.noNotify = f]
    /\ UNCHANGED <<up, features, header, bounce, requests, mutex, pc, op, data, done, result, calls,
                   disk, durable, seen, inDev, errors, timeouts>>

-----------------------------------------------------------------------------
Thread(t) ==
    \/ Enter(t) \/ Check(t) \/ CopyIn(t) \/ Submit(t) \/ Notify(t)
    \/ Completed(t) \/ PollEmpty(t) \/ Spin(t) \/ Expire(t)

Device == DevFetch \/ DevComplete \/ DevSleep \/ DevWake

Next == (\E t \in Threads : Thread(t)) \/ Device

Spec == Init /\ [][Next]_vars

-----------------------------------------------------------------------------
(* Properties. *)

\* The requests in the ring: published by the driver and not popped by it yet.
Busy == {r.head : r \in inDev}
Outstanding == InRing(q, seen, Busy)

\* The request a thread has published and awaits.
Awaiting == {t \in Threads : pc[t] \in {"notify", "poll", "clock"}}

\* Whatever times out or fails, no descriptor of the ring is lost, freed twice or
\* shared by two requests (add, pop_used and return_descriptor_chain agree).
DescriptorsConserved == Conserved(q, Outstanding)

\* The device never sleeps on a request nobody will tell it about: should_notify
\* reads the flag after avail.idx was stored.
NoLostNotification ==
    asleep /\ HasAvail(q, seen) => kicked \/ \E t \in Threads : pc[t] = "notify"

\* Every operation that timed out leaves exactly one request behind for good, since
\* each later operation adds one request and takes one completion: the driver
\* never gets back in step with the device.
LeftBehind == Cardinality(Outstanding) = timeouts + Cardinality(Awaiting)

\* The comment in read and write: "This ensures only one request is in the device
\* queue at a time."
OneRequestInQueue == Cardinality(Outstanding) <= 1

\* The operation that has begun to use the bounce buffer.
Serving ==
    IF mutex # <<>> /\ (pc[Head(mutex)] # "copy" \/ done[Head(mutex)] > 0)
    THEN Head(mutex) ELSE NoThread

Abstract == INSTANCE BlockDevice WITH serving <- Serving, late <- timeouts > 0

\* The driver, its queue and its mutex implement a block device: what a read returns
\* is what the device holds, a successful write is there in full, a successful
\* flush has made everything durable, one operation at a time.
ImplementsBlockDevice == Abstract!AbsSpec

-----------------------------------------------------------------------------
(* The inductive invariants (proved in StorageProofs).  BlkInv holds       *)
(* whatever times out: the ring, the mutex and what was left behind.       *)

Kinds == {"read", "write", "flush"}
Request ==
    [head : Descs, kind : Kinds, lba : Nat, moves : 0 .. MaxPerReq, fills : BOOLEAN, status : Nat,
     data : [Cells -> Sectors]]
Steps == {"idle", "check", "copy", "add", "notify", "poll", "clock"}

BlkTypes ==
    /\ header \in [kind : Kinds, lba : Nat] /\ bounce \in [Cells -> Sectors]
    /\ mutex \in Seq(Threads) /\ pc \in [Threads -> Steps]
    /\ op \in [Threads -> Ops \cup {NoOp}] /\ data \in [Threads -> Seq(Sectors)]
    /\ done \in [Threads -> Nat]
    /\ disk \in [0 .. Capacity - 1 -> Sectors] /\ inDev \subseteq Request
    /\ \A d \in Descs : q.desc[d].len <= MaxPerReq
    /\ timeouts \in Nat

\* Who is past the checks holds request_mutex or waits for it with nothing done.
MutexOrder ==
    /\ Distinct(mutex)
    /\ \A t \in Threads : In(t, mutex) <=> pc[t] \notin {"idle", "check"}
    /\ \A t \in Threads : pc[t] \notin {"idle", "check", "copy"} \/ done[t] > 0 => t = Head(mutex)

\* An operation past the checks is one the device can do, and is not done yet.
OpsAccepted ==
    \A t \in Threads :
        /\ pc[t] = "idle" <=> op[t] = NoOp
        /\ pc[t] \in {"idle", "check"} => done[t] = 0
        /\ pc[t] # "idle" => Len(data[t]) = op[t].n
        /\ pc[t] \notin {"idle", "check"} /\ op[t].kind # "flush" =>
               done[t] < op[t].n /\ op[t].lba + op[t].n <= Capacity

\* Two requests the device works on have two heads.
HeadsApart == \A r1, r2 \in inDev : r1.head = r2.head => r1 = r2

BlkInv ==
    /\ BlkTypes /\ MutexOrder /\ OpsAccepted
    /\ RingInv(q, seen, Busy) /\ HeadsApart
    /\ LeftBehind
    /\ (asleep => ~q.noNotify) /\ NoLostNotification

(* InStep holds until something times out: the one request in the ring is  *)
(* that of the operation that holds the mutex.                             *)

\* What the requests before this one have moved.
SoFar(t) ==
    CASE op[t].kind = "read"  -> \A i \in 1 .. done[t] : data[t][i] = disk[op[t].lba + i - 1]
      [] op[t].kind = "write" -> /\ data[t] = op[t].data
                                 /\ \A i \in 1 .. done[t] : disk[op[t].lba + i - 1] = data[t][i]
      [] OTHER -> TRUE

\* The bounce buffer holds this request.
FilledIn(t) ==
    /\ header = [kind |-> op[t].kind, lba |-> op[t].lba + done[t]]
    /\ op[t].kind = "write" => \A c \in 1 .. This(t) : bounce[c] = data[t][done[t] + c]

\* Its chain is that of Buffers.
AsBuilt(t, w) ==
    /\ Len(w) = Len(Buffers(t))
    /\ \A i \in 1 .. Len(w) : LET b == Buffers(t)[i]
                                d == q.desc[w[i]]
                            IN  d.addr = b.addr /\ d.len = b.len /\ d.write = b.write

\* The device took it as it was meant.
Fetched(t, r) ==
    /\ r.kind = op[t].kind /\ r.lba = op[t].lba + done[t] /\ r.status = StatusCell(t)
    /\ r.moves = (IF op[t].kind = "flush" THEN 0 ELSE This(t)) /\ r.fills = (op[t].kind = "read")
    /\ op[t].kind = "write" => \A c \in 1 .. This(t) : r.data[c] = data[t][done[t] + c]

\* A status that says so means that it was done.
Effected(t) ==
    bounce[StatusCell(t)] = S_OK =>
        CASE op[t].kind = "read"  -> \A c \in 1 .. This(t) : bounce[c] = disk[op[t].lba + done[t] + c - 1]
          [] op[t].kind = "write" -> \A c \in 1 .. This(t) : disk[op[t].lba + done[t] + c - 1] = data[t][done[t] + c]
          [] OTHER -> durable = disk

\* The request it awaits is where the ring or the device says, as it was meant.
Underway(t) ==
    /\ \A i \in Published(q, seen) : FilledIn(t) /\ AsBuilt(t, Chain(q, PublishedHead(q, i)))
    /\ \A r \in inDev : Fetched(t, r)
    /\ Answered(q) # {} => Effected(t)

ThreadInStep(t) ==
    /\ pc[t] \notin {"idle", "check"} => SoFar(t)
    /\ pc[t] = "check" => data[t] = op[t].data
    /\ pc[t] = "add" => FilledIn(t)
    /\ t \in Awaiting => Underway(t)

InStep == timeouts = 0 => \A t \in Threads : ThreadInStep(t)
=============================================================================

------------------------------ MODULE VirtQueue ------------------------------
(***************************************************************************)
(* The split virtqueue of crates/otter-virtio/src/lib.rs, as a value: a    *)
(* record that holds what the driver keeps in SplitQueue and what the two  *)
(* sides share in the ring memory.  The driver's operations are operators  *)
(* on that record; a device driver's module keeps one in a variable.       *)
(*                                                                         *)
(*   free       free_descs[0 .. num_free - 1], its top is the last one     *)
(*   nextAvail  next_avail, which every add also stores in avail.idx       *)
(*   nextUsed   next_used         lastNotify  last_notify_idx              *)
(*   token      token_map         desc        the descriptor table         *)
(*   avail      avail.ring        used        used.ring                    *)
(*   usedIdx    used.idx          noNotify    VIRTQ_USED_F_NO_NOTIFY       *)
(*                                                                         *)
(* Ring indices are 16-bit in the code and wrap; here they wrap at IdxMod. *)
(***************************************************************************)
EXTENDS Queues, SequencesExt

CONSTANTS
    QSize,    \* the queue size: number of descriptors and of ring entries
    IdxMod    \* where a ring index wraps (2^16 in the code)

\* Layout::for_size accepts powers of two up to 2^15, so QSize divides IdxMod.
ASSUME QueueAssumption ==
    /\ QSize \in Nat \ {0}
    /\ IdxMod \in Nat \ {0}
    /\ IdxMod % QSize = 0
    /\ QSize < IdxMod

Descs   == 0 .. QSize - 1
Indices == 0 .. IdxMod - 1

Plus(i, n)  == (i + n) % IdxMod
Minus(i, j) == (i + IdxMod - j) % IdxMod
\* The indices from, from + 1, ... below to.
Window(from, to) == {j \in Indices : Minus(j, from) < Minus(to, from)}

\* SplitQueue::new on zeroed ring memory, with the indices at i: a ring that has been
\* through i requests, all of them completed and popped.
NewQueue(i) ==
    [free       |-> [n \in 1 .. QSize |-> n - 1],
     nextAvail  |-> i,
     nextUsed   |-> i,
     lastNotify |-> 0,
     token      |-> [d \in Descs |-> 0],
     desc       |-> [d \in Descs |->
                       [addr |-> 0, len |-> 0, write |-> FALSE, more |-> FALSE, next |-> 0]],
     avail      |-> [n \in Descs |-> 0],
     used       |-> [n \in Descs |-> [id |-> 0, len |-> 0]],
     usedIdx    |-> i,
     noNotify   |-> FALSE]

-----------------------------------------------------------------------------
(* The driver's side. *)

\* AddError::EmptyBuffers and AddError::QueueFull
CanAdd(q, buffers) == buffers # <<>> /\ Len(buffers) <= Len(q.free)

\* The descriptors add takes for n buffers: from the top of the stack down.
Allocated(q, n) == [i \in 1 .. n |-> q.free[Len(q.free) + 1 - i]]

\* The descriptor of the i-th buffer of a chain.
ChainDesc(buffers, ds, i) ==
    [addr  |-> buffers[i].addr,
     len   |-> buffers[i].len,
     write |-> buffers[i].write,
     more  |-> i < Len(ds),
     next  |-> IF i < Len(ds) THEN ds[i + 1] ELSE 0]

\* SplitQueue::add, when CanAdd: buffers is a sequence of records addr, len, write.
Add(q, buffers, tok) ==
    LET n    == Len(buffers)
        ds   == Allocated(q, n)
        head == ds[1]
    IN  [q EXCEPT
           !.free      = SubSeq(q.free, 1, Len(q.free) - n),
           !.desc      = [d \in Descs |->
                            IF \E i \in 1 .. n : ds[i] = d
                            THEN ChainDesc(buffers, ds, CHOOSE i \in 1 .. n : ds[i] = d)
                            ELSE q.desc[d]],
           !.token     = [q.token EXCEPT ![head] = tok],
           !.avail     = [q.avail EXCEPT ![q.nextAvail % QSize] = head],
           !.nextAvail = Plus(q.nextAvail, 1)]

HasUsed(q) == q.usedIdx # q.nextUsed

\* The used entry pop_used is about to read.
UsedEntry(q) == q.used[q.nextUsed % QSize]

\* The descriptors return_descriptor_chain walks from d: it follows next while
\* the NEXT flag is set.  A walk longer than the table repeats a descriptor.
Chain(q, d) ==
    LET Follow(w) == IF q.desc[Last(w)].more THEN Append(w, q.desc[Last(w)].next) ELSE w
        walk[i \in 1 .. QSize + 1] == IF i = 1 THEN <<d>> ELSE Follow(walk[i - 1])
    IN  walk[QSize + 1]

\* Mutant: only the head of the chain goes back to the pool.
PopUsed_HeadOnly(q) ==
    [q EXCEPT !.nextUsed = Plus(q.nextUsed, 1), !.free = Append(q.free, UsedEntry(q).id)]

\* Mutant: completions that have piled up are taken for one.
PopUsed_All(q) ==
    [q EXCEPT !.nextUsed = q.usedIdx, !.free = q.free \o Chain(q, UsedEntry(q).id)]

\* What pop_used returns, when HasUsed.
PoppedToken(q) == q.token[UsedEntry(q).id]
PoppedLen(q)   == UsedEntry(q).len

\* SplitQueue::pop_used, when HasUsed: the queue after it.
PopUsed(q) ==
    [q EXCEPT !.nextUsed = Plus(q.nextUsed, 1),
              !.free     = q.free \o Chain(q, UsedEntry(q).id)]

\* Mutant: the flag read the wrong way round.
ShouldNotify_Flipped(q) == q.noNotify

\* SplitQueue::should_notify without EVENT_IDX, which is how both drivers use it.
ShouldNotify(q) == ~q.noNotify

\* The test of should_notify with EVENT_IDX: avail.idx moved from old to new, and
\* the device asked to be told about entry event.
NeedEvent(new, event, old) == Minus(Minus(new, event), 1) < Minus(new, old)

-----------------------------------------------------------------------------
(* The device's side (external): what it does to the shared memory. *)

\* The device has not looked at every available entry: seen is its own index.
HasAvail(q, seen) == q.nextAvail # seen

AvailHead(q, seen) == q.avail[seen % QSize]

PushUsed(q, head, len) ==
    [q EXCEPT !.used    = [q.used EXCEPT ![q.usedIdx % QSize] = [id |-> head, len |-> len]],
              !.usedIdx = Plus(q.usedIdx, 1)]

-----------------------------------------------------------------------------
(* What a queue must never be, whatever the two sides do. *)

\* The descriptors of the requests that are in the ring: published by the driver
\* and not popped yet.  heads is the set of heads of those requests.
ChainSet(q, heads) == UNION {Range(Chain(q, h)) : h \in heads}

\* Every descriptor is either free, once, or part of the chain of exactly one
\* request in the ring; no chain runs into another one or into the free list.
Conserved(q, heads) ==
    /\ \A i, j \in DOMAIN q.free : q.free[i] = q.free[j] => i = j
    /\ \A h1, h2 \in heads :
          h1 # h2 => Range(Chain(q, h1)) \cap Range(Chain(q, h2)) = {}
    /\ Range(q.free) \cap ChainSet(q, heads) = {}
    /\ Range(q.free) \cup ChainSet(q, heads) = Descs

\* The heads of the entries of the available ring the device has not fetched, and of
\* those of the used ring the driver has not popped.
PublishedHead(q, i) == q.avail[i % QSize]
AnsweredHead(q, i) == q.used[i % QSize].id
Published(q, seen) == Window(seen, q.nextAvail)
Answered(q) == Window(q.nextUsed, q.usedIdx)

\* The requests in the ring, if the device works on those with the heads busy:
\* published by the driver and not popped by it yet.
InRing(q, seen, busy) ==
    {PublishedHead(q, i) : i \in Published(q, seen)} \cup busy
      \cup {AnsweredHead(q, i) : i \in Answered(q)}

(* What keeps Conserved (proved in StorageProofs): no request is in the    *)
(* ring twice, so that a completion takes one out and no ring overflows.   *)

Descriptor == [addr : Nat, len : Nat, write : BOOLEAN, more : BOOLEAN, next : Descs]
QueueType ==
    [free : Seq(Descs), nextAvail : Indices, nextUsed : Indices, lastNotify : Nat,
     token : [Descs -> Nat], desc : [Descs -> Descriptor], avail : [Descs -> Descs],
     used : [Descs -> [id : Descs, len : Nat]], usedIdx : Indices, noNotify : BOOLEAN]

\* w is a chain of the descriptor table: its flags and links say so, and it ends.
IsChain(q, w) ==
    /\ w \in Seq(Descs) /\ Distinct(w) /\ Len(w) \in 1 .. QSize
    /\ \A i \in 1 .. Len(w) : q.desc[w[i]].more <=> i < Len(w)
    /\ \A i \in 1 .. Len(w) - 1 : q.desc[w[i]].next = w[i + 1]

\* A head stands in one place of the rings or with the device, once.
OnePlace(q, seen, busy) ==
    /\ \A i, j \in Published(q, seen) : PublishedHead(q, i) = PublishedHead(q, j) => i = j
    /\ \A i, j \in Answered(q) : AnsweredHead(q, i) = AnsweredHead(q, j) => i = j
    /\ \A i \in Published(q, seen) : /\ PublishedHead(q, i) \notin busy
                                      /\ \A j \in Answered(q) : PublishedHead(q, i) # AnsweredHead(q, j)
    /\ \A j \in Answered(q) : AnsweredHead(q, j) \notin busy

RingInv(q, seen, busy) ==
    /\ q \in QueueType /\ seen \in Indices /\ busy \subseteq Descs
    /\ Minus(q.nextAvail, seen) <= QSize /\ Minus(q.usedIdx, q.nextUsed) <= QSize
    /\ OnePlace(q, seen, busy)
    /\ \A h \in InRing(q, seen, busy) : IsChain(q, Chain(q, h)) /\ Chain(q, h)[1] = h
    /\ Conserved(q, InRing(q, seen, busy))

-----------------------------------------------------------------------------
(* Setting a device up: negotiate, queue_size_for. *)

\* negotiate: what the driver asks for, cut down to what is offered; VERSION_1 is
\* mandatory, and the device may still refuse the set (FEATURES_OK reads back 0).
Negotiate(offered, wanted, version1, accepts) ==
    IF version1 \notin offered THEN [ok |-> FALSE, status |-> "FAILED", features |-> {}]
    ELSE IF ~accepts THEN [ok |-> FALSE, status |-> "FAILED", features |-> {}]
    ELSE [ok       |-> TRUE,
          status   |-> "FEATURES_OK",
          features |-> offered \cap (wanted \cup {version1})]

\* The loop of queue_size_for: the smallest power of two that is >= size.
PowerAtLeast(size) ==
    CHOOSE p \in {2^k : k \in 0 .. 15} :
        /\ p >= size
        /\ \A k \in 0 .. 15 : 2^k >= size => p <= 2^k

\* queue_size_for: 0 stands for ZeroMaxQueueSize.
QueueSizeFor(desired, max) ==
    LET size == IF desired < max THEN desired ELSE max
        p    == PowerAtLeast(size)
    IN  IF max = 0 THEN 0 ELSE IF p < max THEN p ELSE max

\* Layout::for_size: 0 stands for None.
LayoutForSize(n) == IF n \in {2^k : k \in 0 .. 15} THEN n ELSE 0
=============================================================================

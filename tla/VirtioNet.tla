------------------------------ MODULE VirtioNet ------------------------------
(***************************************************************************)
(* virtio-net (kernel/src/drivers/virtio/net.rs) under its users: net-rx,  *)
(* which takes frames from the receive queue, answers some and posts the   *)
(* buffer again (net/rx.rs), and threads that transmit.  Both share one    *)
(* bounce buffer and one queue, and whoever polls takes whatever           *)
(* completion comes next.                                                  *)
(*                                                                         *)
(* The split queues are those of VirtQueue; here a queue is what its users *)
(* see of it: buffers posted, completions not yet popped, frames waiting.  *)
(***************************************************************************)
EXTENDS Naturals, Sequences, FiniteSets

CONSTANTS
    Senders,     \* threads that transmit
    Frames,      \* what they transmit
    NumRx,       \* receive buffers (64 in the code)
    TxSlots,     \* frames that fit the transmit queue: half its descriptors (32)
    MaxTx,       \* bound: frames a sender transmits
    MaxTxLate,   \* bound: transmissions that time out
    MaxShort     \* bound: frames shorter than the virtio header

ASSUME NicAssumption ==
    /\ NumRx \in Nat \ {0} /\ TxSlots \in Nat \ {0}
    /\ "rx" \notin Senders

VARIABLES
    posted,    \* receive buffers the device may fill, in order
    rxUsed,    \* completions of the receive queue, oldest first
    inHand,    \* the buffer of the frame net-rx is answering
    leaked,    \* buffers never given back
    bounce,    \* tx_bounce_buf: the frame in it
    txq,       \* frames in the transmit queue, each with the thread that added it
    txUsed,    \* completions of the transmit queue not yet popped
    tx,        \* tx[t]: where thread t is in transmit
    count,     \* frames transmitted by each sender
    late, shorts

rxRing  == <<posted, rxUsed, leaked, shorts>>
nicVars == <<rxRing, inHand, bounce, txq, txUsed, tx, count, late>>

Threads   == Senders \cup {"rx"}
RxBuffers == 1 .. NumRx
NoBuffer  == 0

\* What the device may put into a buffer: a frame net-rx answers (an ARP or echo
\* request for the interface), one it only files, one without a whole header.
Incoming == {"request", "other", "short"}

\* alone: nothing else was in the queue since this transmit began; gone: its frame has
\* left as it was given.
NoTx == [st |-> "idle", ok |-> TRUE, alone |-> FALSE, gone |-> FALSE]

\* init, with both queues of the size that was asked for.
NicInit ==
    /\ posted = [i \in RxBuffers |-> i] /\ rxUsed = <<>> /\ leaked = {} /\ shorts = 0
    /\ inHand = NoBuffer
    /\ bounce = "empty" /\ txq = <<>> /\ txUsed = 0
    /\ tx = [t \in Threads |-> NoTx]
    /\ count = [t \in Senders |-> 0] /\ late = 0

-----------------------------------------------------------------------------
(* VirtioNet::transmit.  The bounce buffer is filled before the queue is   *)
(* known to have room; once the lock is dropped another transmit may fill  *)
(* it again.                                                               *)

Transmit(t, f) ==
    LET room  == Len(txq) + txUsed < TxSlots
        quiet == txq = <<>> /\ txUsed = 0
    IN  /\ bounce' = f
        /\ txq' = IF room THEN Append(txq, [by |-> t, frame |-> f]) ELSE txq
        /\ tx' = [u \in Threads |->
             IF u = t THEN [st |-> IF room THEN "poll" ELSE "done", ok |-> room,
                            alone |-> quiet, gone |-> FALSE]
             ELSE [tx[u] EXCEPT !.alone = FALSE]]

\* A sender's transmit begins; the last one has returned.
SendFrame(t, f) ==
    /\ tx[t].st \in {"idle", "done"} /\ count[t] < MaxTx
    /\ count' = [count EXCEPT ![t] = @ + 1]
    /\ Transmit(t, f)
    /\ UNCHANGED <<rxRing, inHand, txUsed, late>>

\* pop_used found a completion: whose it is, nobody looks.
TxPop(t) ==
    /\ tx[t].st = "poll" /\ txUsed > 0
    /\ txUsed' = txUsed - 1
    /\ tx' = [tx EXCEPT ![t].st = "done"]
    /\ UNCHANGED <<rxRing, inHand, bounce, txq, count, late>>

\* Mutant: running out of time is not told from a completion.
TxTimeout_Ok(t) ==
    /\ tx[t].st = "poll" /\ late < MaxTxLate
    /\ late' = late + 1
    /\ tx' = [tx EXCEPT ![t].st = "done"]
    /\ UNCHANGED <<rxRing, inHand, bounce, txq, txUsed, count>>

\* A second went by; the frame stays queued.
TxTimeout(t) ==
    /\ tx[t].st = "poll" /\ late < MaxTxLate
    /\ late' = late + 1
    /\ tx' = [tx EXCEPT ![t].st = "done", ![t].ok = FALSE]
    /\ UNCHANGED <<rxRing, inHand, bounce, txq, txUsed, count>>

\* The device (external) sends what the bounce buffer holds now.
DevTransmit ==
    /\ txq # <<>>
    /\ tx' = [tx EXCEPT ![Head(txq).by].gone = @ \/ bounce = Head(txq).frame]
    /\ txq' = Tail(txq)
    /\ txUsed' = txUsed + 1
    /\ UNCHANGED <<rxRing, inHand, bounce, count, late>>

-----------------------------------------------------------------------------
(* The receive side. *)

\* The device (external) fills the next buffer.
DevReceive ==
    /\ posted # <<>>
    /\ \E f \in Incoming :
        /\ f = "short" => shorts < MaxShort
        /\ rxUsed' = Append(rxUsed, [buf |-> Head(posted), frame |-> f])
        /\ shorts' = IF f = "short" THEN shorts + 1 ELSE shorts
    /\ posted' = Tail(posted)
    /\ UNCHANGED <<leaked, inHand, bounce, txq, txUsed, tx, count, late>>

\* receive and process_frame.  A frame shorter than the header is counted, and its
\* buffer is not posted again; a request for the interface is answered first; any
\* other frame is filed (module NetStack) and its buffer posted.
Receive ==
    /\ inHand = NoBuffer /\ rxUsed # <<>>
    /\ LET b == Head(rxUsed).buf
           f == Head(rxUsed).frame
       IN  \/ /\ f = "short"
              /\ leaked' = leaked \cup {b}
              /\ UNCHANGED <<posted, inHand, bounce, txq, tx>>
           \/ /\ f = "request"
              /\ inHand' = b
              /\ Transmit("rx", "answer")
              /\ UNCHANGED <<posted, leaked>>
           \/ /\ f = "other"
              /\ posted' = Append(posted, b)
              /\ UNCHANGED <<inHand, leaked, bounce, txq, tx>>
    /\ rxUsed' = Tail(rxUsed)
    /\ UNCHANGED <<txUsed, count, late, shorts>>

\* Mutant: the buffer is posted only if the answer was transmitted.
Repost_IfSent ==
    /\ inHand # NoBuffer /\ tx["rx"].st = "done"
    /\ posted' = IF tx["rx"].ok THEN Append(posted, inHand) ELSE posted
    /\ inHand' = NoBuffer
    /\ tx' = [tx EXCEPT !["rx"] = NoTx]
    /\ UNCHANGED <<rxUsed, leaked, shorts, bounce, txq, txUsed, count, late>>

\* process_frame goes on to repost_rx_buffer once the answer was transmitted or was not.
Repost ==
    /\ inHand # NoBuffer /\ tx["rx"].st = "done"
    /\ posted' = Append(posted, inHand)
    /\ inHand' = NoBuffer
    /\ tx' = [tx EXCEPT !["rx"] = NoTx]
    /\ UNCHANGED <<rxUsed, leaked, shorts, bounce, txq, txUsed, count, late>>

NicNext ==
    \/ \E t \in Senders, f \in Frames : SendFrame(t, f)
    \/ \E t \in Threads : TxPop(t) \/ TxTimeout(t)
    \/ DevTransmit \/ DevReceive \/ Receive \/ Repost

NicSpec == NicInit /\ [][NicNext]_nicVars

-----------------------------------------------------------------------------
\* Every receive buffer is in one place: with the device, in a completion, with
\* net-rx, or given up with a short frame (rx.rs: the return before the repost), and
\* no more are given up than short frames came, however the answers' transmissions
\* end.
RxBuffersConserved ==
    LET used  == {rxUsed[i].buf : i \in 1 .. Len(rxUsed)}
        taken == {inHand} \ {NoBuffer}
    IN  /\ RxBuffers = {posted[i] : i \in 1 .. Len(posted)} \cup used \cup taken \cup leaked
        /\ Len(posted) + Len(rxUsed) + Cardinality(taken) + Cardinality(leaked) = NumRx
        /\ Cardinality(leaked) <= shorts

\* A transmit that no other one overlapped, and that found no frame left over in the
\* queue, returns Ok only after its own frame left the device unchanged.
TransmitHonest ==
    [][\A t \in Threads :
          tx[t].st = "poll" /\ tx'[t].st = "done" /\ tx'[t].ok /\ tx[t].alone => tx[t].gone]_tx

-----------------------------------------------------------------------------
(* The inductive invariants behind RxBuffersConserved and TransmitHonest   *)
(* (proved in NetProofs).                                                  *)

Progress == [st : {"idle", "poll", "done"}, ok : BOOLEAN, alone : BOOLEAN, gone : BOOLEAN]

NicTypes ==
    /\ posted \in Seq(RxBuffers)
    /\ rxUsed \in Seq([buf : RxBuffers, frame : Incoming])
    /\ inHand \in RxBuffers \cup {NoBuffer}
    /\ leaked \subseteq RxBuffers /\ IsFiniteSet(leaked)
    /\ shorts \in Nat
    /\ txq \in Seq([by : Threads, frame : Frames \cup {"answer"}])
    /\ txUsed \in Nat
    /\ tx \in [Threads -> Progress]

\* No buffer is in two places, or twice in one.
BuffersApart ==
    /\ \A i, j \in 1 .. Len(posted) : posted[i] = posted[j] => i = j
    /\ \A i, j \in 1 .. Len(rxUsed) : rxUsed[i].buf = rxUsed[j].buf => i = j
    /\ \A i \in 1 .. Len(posted), j \in 1 .. Len(rxUsed) : posted[i] # rxUsed[j].buf
    /\ \A i \in 1 .. Len(posted) : posted[i] # inHand /\ posted[i] \notin leaked
    /\ \A j \in 1 .. Len(rxUsed) : rxUsed[j].buf # inHand /\ rxUsed[j].buf \notin leaked
    /\ inHand \notin leaked

\* The only frame of a transmission that runs alone is the one in the bounce buffer,
\* until it has left.
AloneIsOnly ==
    \A t \in Threads : tx[t].st = "poll" /\ tx[t].alone /\ ~tx[t].gone =>
        /\ txUsed = 0 /\ Len(txq) = 1
        /\ txq[1].by = t /\ txq[1].frame = bounce

\* net-rx transmits only while it holds the buffer of the frame it answers.
AnswersInHand == inHand = NoBuffer => tx["rx"].st = "idle"

\* A frame without a header costs one buffer, taken or still to be taken.
ShortBuffers == {rxUsed[i].buf : i \in {j \in 1 .. Len(rxUsed) : rxUsed[j].frame = "short"}}
ShortsCounted == Cardinality(ShortBuffers \cup leaked) <= shorts

NicInv ==
    /\ NicTypes /\ BuffersApart /\ RxBuffersConserved /\ ShortsCounted
    /\ AloneIsOnly /\ AnswersInHand
=============================================================================

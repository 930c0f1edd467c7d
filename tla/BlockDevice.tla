----------------------------- MODULE BlockDevice -----------------------------
(***************************************************************************)
(* What a caller of the virtio block driver may rely on: an array of       *)
(* sectors with read, write and flush.  One operation is served at a time; *)
(* it is atomic for the others, except that a write that fails may leave   *)
(* some of its sectors written.                                            *)
(*                                                                         *)
(* The promise ends with the first operation that timed out: the driver    *)
(* leaves its request with the device, and from then on (late) nothing is  *)
(* promised about contents.                                                *)
(***************************************************************************)
EXTENDS Naturals, Sequences

CONSTANTS Threads, Capacity, Sectors, Ops, NoOp, NoThread

VARIABLES
    disk,      \* the contents of the sectors
    durable,   \* what of it survives a loss of power
    serving,   \* the thread whose operation is served, or NoThread
    op,        \* the operation a thread has called, or NoOp
    data,      \* what a thread's buffer holds
    result,    \* what its last operation returned
    late       \* an operation has timed out

absVars == <<disk, durable, serving, op, data, result, late>>

AbsInit ==
    /\ disk \in [0 .. Capacity - 1 -> Sectors]
    /\ durable = disk
    /\ serving = NoThread
    /\ op = [t \in Threads |-> NoOp]
    /\ data = [t \in Threads |-> <<>>]
    /\ result = [t \in Threads |-> "none"]
    /\ late = FALSE

\* The sectors an operation is about lie on the device.
InRange(o) == o.lba + o.n <= Capacity

\* The buffer of an operation holds what the disk holds at its place.
SameAsDisk(o, buf) == \A i \in 1 .. o.n : buf[i] = disk[o.lba + i - 1]

Call(t) ==
    /\ op[t] = NoOp
    /\ \E o \in Ops :
          /\ op' = [op EXCEPT ![t] = o]
          /\ data' = [data EXCEPT ![t] = o.data]
    /\ UNCHANGED <<disk, durable, serving, result, late>>

Serve(t) ==
    /\ op[t] # NoOp
    /\ serving = NoThread
    /\ serving' = t
    /\ UNCHANGED <<disk, durable, op, data, result, late>>

\* The operation that is served changes sectors of its own range, to its own data.
Store(t) ==
    /\ serving = t
    /\ op[t].kind = "write"
    /\ \A s \in DOMAIN disk :
          disk'[s] # disk[s] => /\ s - op[t].lba \in 0 .. op[t].n - 1
                                /\ disk'[s] = op[t].data[s - op[t].lba + 1]
    /\ UNCHANGED <<durable, serving, op, data, result, late>>

\* A read fills the buffer with what the disk holds.
Load(t) ==
    /\ serving = t
    /\ op[t].kind = "read"
    /\ \A i \in 1 .. op[t].n :
          data'[t][i] # data[t][i] => data'[t][i] = disk[op[t].lba + i - 1]
    /\ \A u \in Threads \ {t} : data'[u] = data[u]
    /\ UNCHANGED <<disk, durable, serving, op, result, late>>

\* A flush makes what has been written durable.
Sync(t) ==
    /\ serving = t
    /\ op[t].kind = "flush"
    /\ durable' = disk
    /\ UNCHANGED <<disk, serving, op, data, result, late>>

\* Success means: the whole range is there, and after a flush all of it is durable.
Succeed(t) ==
    /\ \/ /\ op[t].kind \in {"read", "write"}
          /\ serving = t
          /\ op[t].n > 0
          /\ InRange(op[t])
          /\ SameAsDisk(op[t], data'[t])
       \/ /\ op[t].kind = "flush"
          /\ serving = t => durable' = disk
    /\ result' = [result EXCEPT ![t] = "ok"]

Return(t) ==
    /\ op[t] # NoOp
    /\ op' = [op EXCEPT ![t] = NoOp]
    /\ serving' = IF serving = t THEN NoThread ELSE serving
    /\ \A u \in Threads \ {t} : data'[u] = data[u]
    /\ UNCHANGED <<disk, durable>>
    /\ \/ Succeed(t) /\ UNCHANGED late
       \/ /\ \E e \in {"length", "range", "io"} : result' = [result EXCEPT ![t] = e]
          /\ UNCHANGED late
       \/ result' = [result EXCEPT ![t] = "timeout"] /\ late' = TRUE

\* After a timeout nothing is promised.
Late == late /\ late'

AbsNext ==
    \/ \E t \in Threads : Call(t) \/ Serve(t) \/ Store(t) \/ Load(t) \/ Sync(t) \/ Return(t)
    \/ Late

AbsSpec == AbsInit /\ [][AbsNext]_absVars
=============================================================================

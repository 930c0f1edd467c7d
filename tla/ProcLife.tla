------------------------------ MODULE ProcLife ------------------------------
(***************************************************************************)
(* What kernel/src/proc promises its callers about one process: it is      *)
(* created once, ends once with an exit code that never changes again, is  *)
(* a zombie until it is collected, and is collected at most once.  Module  *)
(* Proc implements this.                                                   *)
(***************************************************************************)
CONSTANTS Pids, Codes, NoCode

VARIABLES
    status,   \* what a caller may know of each process
    ended     \* the exit code, once there is one

vars == <<status, ended>>

Init ==
    /\ status = [p \in Pids |-> "none"]
    /\ ended = [p \in Pids |-> NoCode]

Create(p) ==
    /\ status[p] = "none"
    /\ status' = [status EXCEPT ![p] = "live"]
    /\ UNCHANGED ended

End(p, c) ==
    /\ status[p] = "live"
    /\ status' = [status EXCEPT ![p] = "zombie"]
    /\ ended' = [ended EXCEPT ![p] = c]

Collect(p) ==
    /\ status[p] = "zombie"
    /\ status' = [status EXCEPT ![p] = "collected"]
    /\ UNCHANGED ended

Next == \E p \in Pids : Create(p) \/ Collect(p) \/ \E c \in Codes : End(p, c)

Spec == Init /\ [][Next]_vars
=============================================================================

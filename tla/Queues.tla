------------------------------- MODULE Queues -------------------------------
(***************************************************************************)
(* What the queues of the kernel and of the window manager are asked: who  *)
(* is in one, how often, and what is left of one (VecDeque::retain, or the *)
(* loop that pops a wait queue and skips the dead).  The filter is a       *)
(* recursive function, so that module QueueLemmas can prove what it keeps. *)
(***************************************************************************)
EXTENDS Naturals, Sequences, FiniteSets

In(x, q) == \E i \in 1 .. Len(q) : q[i] = x

Distinct(q) == \A i, j \in 1 .. Len(q) : q[i] = q[j] => i = j

Occurs(x, q) == Cardinality({i \in 1 .. Len(q) : q[i] = x})

\* What is behind x in q.
Behind(x, q) == SubSeq(q, 1 + CHOOSE i \in 1 .. Len(q) : q[i] = x, Len(q))

\* The members of S in q, in their order.
Kept(q, S) ==
    LET f[i \in 0 .. Len(q)] ==
            IF i = 0 THEN <<>>
            ELSE IF q[i] \in S THEN Append(f[i - 1], q[i]) ELSE f[i - 1]
    IN  f[Len(q)]
=============================================================================

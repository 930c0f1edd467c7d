---------------------------- MODULE SchedProofs ----------------------------
(***************************************************************************)
(* Proofs about the scheduler, for any number of threads, stack slots and  *)
(* killers, any time slice and any capacities.  The inductive invariant    *)
(* says where each thread is (Placed, Asleep, Waiting, Ending) and who     *)
(* owns each stack slot (SlotsOwned), with queues of distinct members      *)
(* instead of the counts of the properties.  Its parts take the variables  *)
(* as parameters, so that they can be stated of the state in which         *)
(* schedule() is entered as well as of the states between actions.         *)
(***************************************************************************)
EXTENDS Sched, QueueLemmas

-----------------------------------------------------------------------------
(* The inductive invariant. *)

\* Who runs and who is ready.  cur is out of the ready queue.
Placed(st, cur, rq) ==
    /\ st[IdleId] \in {"Ready", "Running"}
    /\ \A t \in Ids \ {IdleId} : st[t] = "Running" => t = cur
    /\ Distinct(rq) /\ ~In(IdleId, rq) /\ ~In(cur, rq)
    /\ \A t \in Ids : In(t, rq) => st[t] \in {"Ready", "Exited"}
    /\ \A t \in Ids \ {IdleId} : st[t] = "Ready" => In(t, rq)

\* The sleep list has the sleeping threads.
Asleep(st, sl) == \A t \in Ids : t \in sl <=> st[t] = "Sleeping"

\* A blocked thread is in one wait queue, or popped from one and not yet woken.
Waiting(st, jq, dq, pcs, pp) ==
    /\ Distinct(jq) /\ Distinct(dq)
    /\ \A t \in Ids : /\ ~(In(t, jq) /\ In(t, dq))
                      /\ In(t, jq) \/ In(t, dq) => st[t] \in {"Blocked", "Exited"}
    /\ \A u \in Ids : pcs[u] = "wake" =>
           /\ pp[u] \in Ids /\ st[pp[u]] \in {"Blocked", "Exited"}
           /\ ~In(pp[u], jq) /\ ~In(pp[u], dq)
    /\ \A u, v \in Ids : pcs[u] = "wake" /\ pcs[v] = "wake" /\ pp[u] = pp[v] => u = v
    /\ \A t \in Ids : st[t] = "Blocked" =>
           In(t, jq) \/ In(t, dq) \/ \E u \in Ids : pcs[u] = "wake" /\ pp[u] = t

\* The thread u ends another one and will reap it itself.
Reaps(pcs, ag, u, t) == pcs[u] \in Killing /\ ag[u] = t

\* An exited thread that is still registered has one reaper, unless it is cur.
Ending(st, cur, rq, rp, al, pcs, ag) ==
    /\ cur \in al
    /\ Distinct(rp)
    /\ \A t \in Ids : In(t, rp) => st[t] = "Exited" /\ t \in al /\ ~In(t, rq) /\ t # cur
    /\ \A t \in Ids : In(t, rq) => t \in al
    /\ \A u, t \in Ids : Reaps(pcs, ag, u, t) =>
           st[t] = "Exited" /\ t \in al /\ ~In(t, rq) /\ ~In(t, rp) /\ t # cur
    /\ \A u, v, t \in Ids : Reaps(pcs, ag, u, t) /\ Reaps(pcs, ag, v, t) => u = v
    /\ \A t \in al : st[t] = "Exited" /\ t # cur =>
           In(t, rp) \/ In(t, rq) \/ \E u \in Ids : Reaps(pcs, ag, u, t)
    /\ \A t \in Ids \ al : st[t] \in {"New", "Exited"}
    /\ \A t \in al : st[t] # "New"

\* A thread at t has not given its stack back.
HasStack(al, pcs, ag, t) == t \in al /\ \A u \in Ids : ~(pcs[u] = "retire" /\ ag[u] = t)

\* A spawn has claimed slot s and no thread is on it yet.
Claims(pcs, ag, u, s) == pcs[u] \in {"map", "register"} /\ ag[u] = s

\* Every slot handed out so far has one owner.
SlotsOwned(al, stk, pcs, ag, fs, nf) ==
    /\ \A t \in al : stk[t] \in Slots /\ stk[t] < nf
    /\ \A t, v \in Ids : HasStack(al, pcs, ag, t) /\ HasStack(al, pcs, ag, v) /\ stk[t] = stk[v] => t = v
    /\ \A u \in Ids, s \in Slots : Claims(pcs, ag, u, s) =>
           /\ s < nf /\ ~In(s, fs)
           /\ \A t \in Ids : HasStack(al, pcs, ag, t) => stk[t] # s
    /\ \A u, v \in Ids, s \in Slots : Claims(pcs, ag, u, s) /\ Claims(pcs, ag, v, s) => u = v
    /\ Distinct(fs)
    /\ \A s \in Slots : In(s, fs) => /\ s < nf
                                     /\ \A t \in Ids : HasStack(al, pcs, ag, t) => stk[t] # s
    /\ \A s \in Slots : s < nf =>
           \/ In(s, fs)
           \/ \E t \in Ids : HasStack(al, pcs, ag, t) /\ stk[t] = s
           \/ \E u \in Ids : Claims(pcs, ag, u, s)

\* Which stacks are mapped.
SlotsMapped(st, stk, pcs, ag, fs, mp) ==
    /\ \A s \in Slots : In(s, fs) => s \notin mp
    /\ \A u \in Ids : /\ pcs[u] = "map" => ag[u] \notin mp
                      /\ pcs[u] = "register" => ag[u] \in mp
                      /\ pcs[u] \in {"release", "unlock"} => stk[ag[u]] \notin mp
    /\ \A t \in Ids : st[t] \notin {"New", "Exited"} => stk[t] \in mp

\* What the argument of an operation is.
Arguments(pcs, ag) ==
    \A u \in Ids :
        /\ pcs[u] \in {"join", "joinblock"} => ag[u] \in Ids
        /\ pcs[u] \in {"map", "register"} => ag[u] \in Slots
        /\ pcs[u] \in {"pop", "wake"} => ag[u] \in Ids \cup {None}
        /\ pcs[u] \in {"unmap", "release", "unlock", "retire"} => ag[u] \in Ids

\* The threads in the middle of a spawn.
Spawning(pcs) == {u \in Ids : pcs[u] \in {"lock", "map", "register"}}

\* Thread ids are handed out in order, and suffice for the spawns under way.
IdsInOrder(st, pcs, next) ==
    /\ \A t \in Ids : st[t] = "New" <=> t >= next
    /\ next + Cardinality(Spawning(pcs)) <= MaxId + 1

\* Where every thread is, while the machine runs.
Whereabouts ==
    /\ state[current] = "Running"
    /\ Placed(state, current, ready)
    /\ Asleep(state, sleeping)
    /\ Waiting(state, joinq, readq, pc, popped)
    /\ Ending(state, current, ready, toReap, all, pc, arg)

\* The inductive invariant of the scheduler.
SchedInv ==
    /\ TypeOK
    /\ pc[IdleId] = "run"
    /\ Arguments(pc, arg)
    /\ IdsInOrder(state, pc, nextId)
    /\ Up => Whereabouts
    /\ SlotsOwned(all, stack, pc, arg, freeSlots, nextFresh)
    /\ SlotsMapped(state, stack, pc, arg, freeSlots, mapped)
    /\ \A s \in mapped : s < nextFresh
    /\ RetiredCodesTrue
    /\ IdleOnlyIfNothingReady

-----------------------------------------------------------------------------
(* The pick-next loop of schedule(). *)

\* What the assumptions on the constants say about ids and slots.
LEMMA Constants ==
    /\ MaxId \in Nat /\ MaxId >= 1 /\ NumSlots \in Nat /\ NumSlots >= 2
    /\ MaxThreads \in Nat /\ MaxRetired \in Nat \ {0} /\ TimesliceTicks \in Nat \ {0}
    /\ MaxSleep \in Nat /\ 0 \in Codes
    /\ Main \in Ids /\ IdleId \in Ids /\ Main # IdleId /\ None \notin Ids
    /\ NoSlot \notin Slots
BY SchedAssumption DEF Ids, Main, IdleId, None, NoSlot, Slots

\* The loop stops: at the first thread of the queue that has not exited, or behind
\* the queue when all have.
LEMMA PickNext ==
    ASSUME NEW q \in Seq(Ids), NEW st
    PROVE  /\ FirstLive(q, st) \in 1 .. Len(q) + 1
           /\ FirstLive(q, st) <= Len(q) => st[q[FirstLive(q, st)]] # "Exited"
           /\ \A j \in 1 .. FirstLive(q, st) - 1 : st[q[j]] = "Exited"
<1> DEFINE k == FirstLive(q, st)
           dead(i) == i <= Len(q) /\ st[q[i]] = "Exited"
           T == {i \in 1 .. Len(q) + 1 : ~dead(i)}
<1>1. Len(q) \in Nat
  BY LenProperties
<1>2. T \subseteq Nat /\ Len(q) + 1 \in T
  BY <1>1
<1>3. PICK i \in T : \A j \in T : i <= j
  BY <1>2, LeastNat
<1>4. i \in 1 .. Len(q) + 1 /\ ~dead(i)
  BY <1>3
<1>5. ASSUME NEW j \in 1 .. i - 1 PROVE dead(j)
  <2>1. j \in 1 .. Len(q) + 1 /\ ~(i <= j)
    BY <1>1, <1>4
  <2> QED BY <2>1, <1>3
<1>6. \E i0 \in 1 .. Len(q) + 1 : ~dead(i0) /\ \A j \in 1 .. i0 - 1 : dead(j)
  BY <1>4, <1>5
<1>7. k \in 1 .. Len(q) + 1 /\ ~dead(k) /\ \A j \in 1 .. k - 1 : dead(j)
  BY <1>6 DEF FirstLive
<1> QED BY <1>7

\* What one pass of schedule() does to the queues: of the threads it was entered with,
\* each is dispatched, stays in the ready queue, or has exited and goes to the reaper.
LEMMA ScheduleEffect ==
    ASSUME NEW st \in [Ids -> States], NEW rq \in Seq(Ids), NEW ts,
           current \in Ids, Placed(st, current, rq),
           current = IdleId => st[current] = "Running",
           Schedule(st, rq, ts), Up'
    PROVE  /\ current' \in Ids /\ ready' \in Seq(Ids) /\ toReap' \in Seq(Ids)
           /\ Len(ready') <= MaxThreads
           /\ state' \in [Ids -> States]
           /\ \A t \in Ids : state'[t] =
                  IF t = current' THEN "Running"
                  ELSE IF t = current /\ t # IdleId /\ st[t] = "Running" THEN "Ready" ELSE st[t]
           /\ Distinct(ready') /\ Distinct(toReap')
           /\ \A t \in Ids : In(t, ready') =>
                  /\ ~In(t, toReap') /\ t # current'
                  /\ In(t, rq) \/ (t = current /\ t # IdleId /\ st[t] = "Running")
           /\ \A t \in Ids : In(t, toReap') =>
                  /\ st[t] = "Exited" /\ t # current'
                  /\ In(t, rq) \/ (t = current /\ t # IdleId)
           /\ \A t \in Ids : In(t, rq) \/ (t = current /\ t # IdleId /\ st[t] \in {"Running", "Exited"}) =>
                  In(t, ready') \/ In(t, toReap') \/ t = current'
           /\ current' # IdleId =>
                  /\ st[current'] # "Exited"
                  /\ In(current', rq) \/ (current' = current /\ st[current] = "Running")
           /\ current' = IdleId => ready' = <<>>
<1> DEFINE back == current # IdleId /\ st[current] = "Running"
           rq1  == IF back THEN Append(rq, current) ELSE rq
           st1  == IF back THEN [st EXCEPT ![current] = "Ready"] ELSE st
           k    == FirstLive(rq1, st)
           next == IF k > Len(rq1) THEN IdleId ELSE rq1[k]
           first == SubSeq(rq1, 1, k - 1)
           gone == IF current # IdleId /\ st[current] = "Exited" THEN <<current>> ELSE <<>>
<1>1. /\ ~Overflows(rq1)
      /\ ready' = SubSeq(rq1, k + 1, Len(rq1))
      /\ toReap' = gone \o first
      /\ state' = [st1 EXCEPT ![next] = "Running"]
      /\ current' = next
  BY DEF Schedule, Up
<1>2. /\ rq1 \in Seq(Ids) /\ Distinct(rq1) /\ ~In(IdleId, rq1)
      /\ \A t : In(t, rq1) <=> In(t, rq) \/ (back /\ t = current)
  <2>1. CASE back
    BY <2>1, InAppend, DistinctAppend, Constants DEF Placed
  <2>2. CASE ~back
    BY <2>2 DEF Placed
  <2> QED BY <2>1, <2>2
<1>3. st1 \in [Ids -> States] /\ \A t \in Ids : st1[t] = IF back /\ t = current THEN "Ready" ELSE st[t]
  BY DEF States
<1>4. /\ k \in 1 .. Len(rq1) + 1
      /\ k <= Len(rq1) => st[rq1[k]] # "Exited"
      /\ \A j \in 1 .. k - 1 : st[rq1[j]] = "Exited"
  <2> HIDE DEF rq1
  <2> QED BY <1>2, PickNext
<1> HIDE DEF k, rq1, st1, back
<1>5. Len(rq1) \in Nat /\ \A i \in 1 .. Len(rq1) : rq1[i] \in Ids /\ In(rq1[i], rq1)
  BY <1>2, LenProperties, ElementOfSeq DEF In
<1>6. next \in Ids
  BY <1>4, <1>5, Constants
<1>7. next # IdleId => k <= Len(rq1) /\ next = rq1[k] /\ In(next, rq1) /\ st[next] # "Exited"
  BY <1>4, <1>5
<1>8. next = IdleId => k = Len(rq1) + 1
  BY <1>2, <1>4, <1>5
<1>9. /\ ready' \in Seq(Ids) /\ Distinct(ready') /\ Len(ready') <= Len(rq1)
      /\ \A t : In(t, ready') <=> \E i \in k + 1 .. Len(rq1) : rq1[i] = t
  <2>1. CASE k <= Len(rq1)
    <3>1. k + 1 \in 1 .. Len(rq1) + 1 /\ Len(rq1) \in (k + 1) - 1 .. Len(rq1)
      BY <2>1, <1>4, <1>5
    <3>2. Len(SubSeq(rq1, k + 1, Len(rq1))) = Len(rq1) - (k + 1) + 1
      BY <3>1, <1>2, InSubSeq
    <3>3. Len(ready') <= Len(rq1)
      BY <1>1, <3>2, <1>4, <1>5
    <3>4. ready' \in Seq(Ids) /\ Distinct(ready')
      BY <1>1, <1>2, <3>1, InSubSeq, DistinctSubSeq
    <3>5. \A t : In(t, ready') <=> \E i \in k + 1 .. Len(rq1) : rq1[i] = t
      <4>1. \A t : In(t, SubSeq(rq1, k + 1, Len(rq1))) <=> \E i \in k + 1 .. Len(rq1) : rq1[i] = t
        BY <1>2, <3>1, InSubSeq
      <4> QED BY <1>1, <4>1
    <3> QED BY <3>3, <3>4, <3>5
  <2>2. CASE k = Len(rq1) + 1
    <3>1. SubSeq(rq1, k + 1, Len(rq1)) = <<>>
      BY <2>2, <1>2, <1>5, SubSeqProperties
    <3> QED BY <1>1, <2>2, <3>1, <1>5 DEF In, Distinct
  <2> QED BY <1>4, <1>5, <2>1, <2>2
<1>10. /\ first \in Seq(Ids) /\ Distinct(first)
       /\ \A t : In(t, first) <=> \E i \in 1 .. k - 1 : rq1[i] = t
  <2>1. 1 \in 1 .. Len(rq1) + 1 /\ k - 1 \in 1 - 1 .. Len(rq1)
    BY <1>4, <1>5
  <2> QED BY <1>2, <2>1, InSubSeq, DistinctSubSeq
<1> HIDE DEF next, first
<1>11. \A t \in Ids : In(t, first) => st[t] = "Exited" /\ In(t, rq) /\ t # current
  <2>1. SUFFICES ASSUME NEW t \in Ids, In(t, first)
                 PROVE  st[t] = "Exited" /\ In(t, rq) /\ t # current
    OBVIOUS
  <2>2. PICK i \in 1 .. k - 1 : rq1[i] = t
    BY <2>1, <1>10
  <2>3. i \in 1 .. Len(rq1) /\ st[t] = "Exited" /\ In(t, rq1)
    BY <2>2, <1>4, <1>5
  <2>4. ~(back /\ t = current)
    BY <2>3 DEF back
  <2> QED BY <2>3, <2>4, <1>2 DEF Placed
<1>12. gone \in Seq(Ids) /\ Distinct(gone)
       /\ \A t : In(t, gone) <=> t = current /\ current # IdleId /\ st[current] = "Exited"
  BY DEF In, Distinct
<1> HIDE DEF gone
<1>13. /\ toReap' \in Seq(Ids) /\ Distinct(toReap')
       /\ \A t : In(t, toReap') <=> In(t, gone) \/ In(t, first)
  <2>1. \A t \in Ids : ~(In(t, gone) /\ In(t, first))
    BY <1>11, <1>12
  <2>2. gone \o first \in Seq(Ids)
    BY <1>10, <1>12, ConcatProperties
  <2> QED BY <1>1, <1>10, <1>12, <2>1, <2>2, InConcat, DistinctConcat
<1>14. \A t \in Ids : In(t, ready') => ~In(t, first) /\ t # next /\ In(t, rq1)
  <2>1. SUFFICES ASSUME NEW t \in Ids, In(t, ready') PROVE ~In(t, first) /\ t # next /\ In(t, rq1)
    OBVIOUS
  <2>2. PICK i \in k + 1 .. Len(rq1) : rq1[i] = t
    BY <2>1, <1>9
  <2>3. i \in 1 .. Len(rq1) /\ k \in 1 .. Len(rq1) /\ i # k
    BY <2>2, <1>4, <1>5
  <2>4. ASSUME NEW j \in 1 .. k - 1 PROVE rq1[j] # t
    <3>1. j \in 1 .. Len(rq1) /\ j # i
      BY <2>3, <2>2, <1>4, <1>5
    <3> QED BY <3>1, <2>2, <2>3, <1>2 DEF Distinct
  <2>5. rq1[k] # t
    BY <2>2, <2>3, <1>2 DEF Distinct
  <2> QED BY <2>2, <2>3, <2>4, <2>5, <1>5, <1>10 DEF next
<1>15. \A t \in Ids : In(t, rq1) => In(t, ready') \/ In(t, first) \/ t = next
  <2>1. SUFFICES ASSUME NEW t \in Ids, NEW i \in 1 .. Len(rq1), rq1[i] = t
                 PROVE  In(t, ready') \/ In(t, first) \/ t = next
    BY DEF In
  <2>2. CASE i < k
    <3>1. i \in 1 .. k - 1
      BY <2>2, <1>4, <1>5
    <3> QED BY <3>1, <2>1, <1>10
  <2>3. CASE i = k
    BY <2>1, <2>3, <1>5 DEF next
  <2>4. CASE i > k
    <3>1. i \in k + 1 .. Len(rq1)
      BY <2>4, <1>4, <1>5
    <3> QED BY <3>1, <2>1, <1>9
  <2> QED BY <2>2, <2>3, <2>4, <1>4, <1>5
<1>16. next = IdleId => ready' = <<>>
  <2>1. SUFFICES ASSUME next = IdleId PROVE ready' = <<>>
    OBVIOUS
  <2>2. SubSeq(rq1, k + 1, Len(rq1)) = <<>>
    BY <2>1, <1>8, <1>2, <1>5, SubSeqProperties
  <2> QED BY <2>2, <1>1
<1>17. /\ state' \in [Ids -> States]
       /\ \A t \in Ids : state'[t] =
              IF t = current' THEN "Running"
              ELSE IF t = current /\ t # IdleId /\ st[t] = "Running" THEN "Ready" ELSE st[t]
  BY <1>1, <1>3, <1>6 DEF States, back
<1>18. Len(ready') <= MaxThreads
  BY <1>1, <1>5, <1>9, Constants, LenProperties DEF Overflows
<1>19. \A t \in Ids : In(t, ready') =>
                  /\ ~In(t, toReap') /\ t # current'
                  /\ In(t, rq) \/ (t = current /\ t # IdleId /\ st[t] = "Running")
  <2>1. SUFFICES ASSUME NEW t \in Ids, In(t, ready')
                 PROVE  /\ ~In(t, toReap') /\ t # current'
                        /\ In(t, rq) \/ (t = current /\ t # IdleId /\ st[t] = "Running")
    OBVIOUS
  <2>2. ~In(t, first) /\ t # current' /\ In(t, rq1)
    BY <2>1, <1>14, <1>1
  <2>3. In(t, rq) \/ (t = current /\ back)
    BY <2>2, <1>2
  <2>4. ~In(t, gone)
    BY <2>3, <1>12 DEF Placed, back
  <2> QED BY <2>2, <2>3, <2>4, <1>13 DEF back
<1>20. \A t \in Ids : In(t, toReap') =>
                  /\ st[t] = "Exited" /\ t # current'
                  /\ In(t, rq) \/ (t = current /\ t # IdleId)
  BY <1>1, <1>7, <1>11, <1>12, <1>13 DEF Placed
<1>21. \A t \in Ids : In(t, rq) \/ (t = current /\ t # IdleId /\ st[t] \in {"Running", "Exited"}) =>
                  In(t, ready') \/ In(t, toReap') \/ t = current'
  BY <1>1, <1>2, <1>12, <1>13, <1>15 DEF back
<1>22. current' # IdleId =>
                  /\ st[current'] # "Exited"
                  /\ In(current', rq) \/ (current' = current /\ st[current] = "Running")
  BY <1>1, <1>2, <1>7 DEF back
<1> QED BY <1>1, <1>6, <1>9, <1>13, <1>16, <1>17, <1>18, <1>19, <1>20, <1>21, <1>22

\* schedule() keeps every thread in its place: entered in a state where all but the
\* outgoing thread are where they belong, it leaves all where they belong.
LEMMA ScheduleKeeps ==
    ASSUME NEW st \in [Ids -> States], NEW rq \in Seq(Ids), NEW ts,
           NEW sl, NEW jq, NEW dq, NEW pcs, NEW pp, NEW ag,
           current \in Ids, toReap \in Seq(Ids), all \subseteq Ids,
           st[current] \in {"Running", "Blocked", "Sleeping", "Exited"},
           current = IdleId => st[current] = "Running",
           Placed(st, current, rq), Asleep(st, sl), Waiting(st, jq, dq, pcs, pp),
           Ending(st, current, rq, toReap, all, pcs, ag),
           Schedule(st, rq, ts), Up'
    PROVE  /\ state'[current'] = "Running"
           /\ Placed(state', current', ready')
           /\ Asleep(state', sl)
           /\ Waiting(state', jq, dq, pcs, pp)
           /\ Ending(state', current', ready', toReap', all', pcs, ag)
           /\ current' = IdleId => ready' = <<>>
<1>1. /\ current' \in Ids /\ ready' \in Seq(Ids) /\ toReap' \in Seq(Ids)
      /\ state' \in [Ids -> States]
      /\ \A t \in Ids : state'[t] =
             IF t = current' THEN "Running"
             ELSE IF t = current /\ t # IdleId /\ st[t] = "Running" THEN "Ready" ELSE st[t]
      /\ Distinct(ready') /\ Distinct(toReap')
  BY ScheduleEffect
<1>2. \A t \in Ids : In(t, ready') =>
          /\ ~In(t, toReap') /\ t # current'
          /\ In(t, rq) \/ (t = current /\ t # IdleId /\ st[t] = "Running")
  BY ScheduleEffect
<1>3. \A t \in Ids : In(t, toReap') =>
          /\ st[t] = "Exited" /\ t # current'
          /\ In(t, rq) \/ (t = current /\ t # IdleId)
  BY ScheduleEffect
<1>4. \A t \in Ids : In(t, rq) \/ (t = current /\ t # IdleId /\ st[t] \in {"Running", "Exited"}) =>
          In(t, ready') \/ In(t, toReap') \/ t = current'
  BY ScheduleEffect
<1>5. /\ current' # IdleId =>
             /\ st[current'] # "Exited"
             /\ In(current', rq) \/ (current' = current /\ st[current] = "Running")
      /\ current' = IdleId => ready' = <<>>
  BY ScheduleEffect
<1>6. \A t \in Ids : t \in all' <=> t \in all /\ ~In(t, toReap)
  BY DEF Schedule, Up, In
<1>7. st[current'] \in {"Ready", "Running"}
  BY <1>1, <1>5 DEF Placed
<1>8. Placed(state', current', ready')
  <2>1. state'[IdleId] \in {"Ready", "Running"}
    BY <1>1, Constants DEF Placed
  <2>2. \A t \in Ids \ {IdleId} : state'[t] = "Running" => t = current'
    BY <1>1 DEF Placed
  <2>3. ~In(IdleId, ready') /\ ~In(current', ready')
    BY <1>1, <1>2, Constants DEF Placed
  <2>4. \A t \in Ids : In(t, ready') => state'[t] \in {"Ready", "Exited"}
    BY <1>1, <1>2 DEF Placed
  <2>5. \A t \in Ids \ {IdleId} : state'[t] = "Ready" => In(t, ready')
    BY <1>1, <1>3, <1>4 DEF Placed
  <2> QED BY <1>1, <2>1, <2>2, <2>3, <2>4, <2>5 DEF Placed
<1>9. \A t \in Ids : st[t] \in {"Sleeping", "Blocked", "Exited", "New"} => state'[t] = st[t]
  BY <1>1, <1>7
<1>10. \A t \in Ids : state'[t] \in {"Sleeping", "Blocked", "Exited", "New"} => state'[t] = st[t]
  BY <1>1
<1>11. Asleep(state', sl)
  BY <1>9, <1>10 DEF Asleep
<1>12. Waiting(state', jq, dq, pcs, pp)
  BY <1>9, <1>10 DEF Waiting
<1>13. Ending(state', current', ready', toReap', all', pcs, ag)
  <2>1. current' \in all'
    <3>1. current' \in all
      BY <1>1, <1>7 DEF Ending
    <3>2. ~In(current', toReap)
      BY <1>1, <1>7 DEF Ending
    <3> QED BY <1>1, <1>6, <3>1, <3>2
  <2>2. \A t \in Ids : In(t, toReap') =>
            state'[t] = "Exited" /\ t \in all' /\ ~In(t, ready') /\ t # current'
    BY <1>2, <1>3, <1>6, <1>9 DEF Ending
  <2>3. \A t \in Ids : In(t, ready') => t \in all'
    BY <1>2, <1>6 DEF Ending
  <2>4. \A u, t \in Ids : Reaps(pcs, ag, u, t) =>
           state'[t] = "Exited" /\ t \in all' /\ ~In(t, ready') /\ ~In(t, toReap') /\ t # current'
    BY <1>2, <1>3, <1>6, <1>7, <1>9 DEF Ending
  <2>5. \A u, v, t \in Ids : Reaps(pcs, ag, u, t) /\ Reaps(pcs, ag, v, t) => u = v
    BY DEF Ending
  <2>6. \A t \in all' : state'[t] = "Exited" /\ t # current' =>
           In(t, toReap') \/ In(t, ready') \/ \E u \in Ids : Reaps(pcs, ag, u, t)
    <3>1. SUFFICES ASSUME NEW t \in Ids, t \in all, ~In(t, toReap), state'[t] = "Exited", t # current'
                   PROVE  In(t, toReap') \/ In(t, ready') \/ \E u \in Ids : Reaps(pcs, ag, u, t)
      <4>1. all' \subseteq Ids
        BY DEF Schedule, Up
      <4> QED BY <4>1, <1>6
    <3>2. st[t] = "Exited"
      BY <3>1, <1>10
    <3>3. CASE t = current
      BY <3>1, <3>2, <3>3, <1>4, Constants DEF Placed
    <3>4. CASE t # current
      <4>1. In(t, rq) \/ \E u \in Ids : Reaps(pcs, ag, u, t)
        BY <3>1, <3>2, <3>4 DEF Ending
      <4> QED BY <3>1, <4>1, <1>4
    <3> QED BY <3>3, <3>4
  <2>7. \A t \in Ids \ all' : state'[t] \in {"New", "Exited"}
    BY <1>6, <1>9 DEF Ending
  <2>8. \A t \in all' : state'[t] # "New"
    <3>1. \A t \in all' : t \in Ids /\ t \in all
      BY DEF Schedule, Up
    <3> QED BY <3>1, <1>10 DEF Ending
  <2> QED BY <1>1, <2>1, <2>2, <2>3, <2>4, <2>5, <2>6, <2>7, <2>8 DEF Ending
<1> QED BY <1>1, <1>5, <1>8, <1>11, <1>12, <1>13

\* The record of exit codes, with the variables as parameters.
CodesTrue(r, st, cd, al) ==
    \A i \in 1 .. Len(r) :
        /\ st[r[i].id] = "Exited" /\ r[i].code = cd[r[i].id] /\ r[i].id \notin al
        /\ \A j \in 1 .. Len(r) : r[j].id = r[i].id => i = j

\* Retiring registered threads that have exited keeps the record bounded and true.
LEMMA RetiredKeeps ==
    ASSUME NEW r \in Seq([id : Ids, code : Codes]), NEW ts \in Seq(Ids), Distinct(ts),
           NEW st, NEW al, code \in [Ids -> Codes], CodesTrue(r, st, code, al),
           \A t \in Ids : In(t, ts) => t \in al /\ st[t] = "Exited"
    PROVE  /\ Retired(r, ts) \in Seq([id : Ids, code : Codes])
           /\ Len(Retired(r, ts)) <= MaxRetired
           /\ CodesTrue(Retired(r, ts), st, code, al \ {ts[i] : i \in 1 .. Len(ts)})
<1> DEFINE R == [id : Ids, code : Codes]
           more == [i \in 1 .. Len(ts) |-> [id |-> ts[i], code |-> code[ts[i]]]]
           longer == r \o more
           over == IF Len(longer) > MaxRetired THEN Len(longer) - MaxRetired ELSE 0
           rest == SubSeq(longer, over + 1, Len(longer))
           al1 == al \ {ts[i] : i \in 1 .. Len(ts)}
<1>1. Len(ts) \in Nat /\ Len(r) \in Nat /\ \A i \in 1 .. Len(ts) : ts[i] \in Ids /\ In(ts[i], ts)
  BY LenProperties, ElementOfSeq DEF In
<1>2. more \in Seq(R) /\ Len(more) = Len(ts)
  BY <1>1
<1>0. r \in Seq(R) /\ \A x \in R : x.id \in Ids
  OBVIOUS
<1> HIDE DEF R
<1>3. /\ longer \in Seq(R) /\ Len(longer) = Len(r) + Len(ts)
      /\ \A i \in 1 .. Len(r) + Len(ts) : longer[i] = IF i <= Len(r) THEN r[i] ELSE more[i - Len(r)]
  <2> HIDE DEF more
  <2>1. longer \in Seq(R) /\ Len(longer) = Len(r) + Len(more)
    BY <1>0, <1>2, ConcatProperties
  <2>2. \A i \in 1 .. Len(r) + Len(more) : longer[i] = IF i <= Len(r) THEN r[i] ELSE more[i - Len(r)]
    BY <1>0, <1>2, ConcatProperties
  <2> HIDE DEF longer
  <2> QED BY <1>2, <2>1, <2>2
<1>4. \A i \in 1 .. Len(r) : longer[i] = r[i] /\ longer[i].id \in Ids
  <2>1. \A i \in 1 .. Len(r) : r[i] \in R
    BY <1>0, ElementOfSeq
  <2> HIDE DEF longer, more
  <2>2. \A i \in 1 .. Len(r) : longer[i] = r[i]
    BY <1>1, <1>3
  <2> QED BY <1>0, <2>1, <2>2
<1>5. \A i \in Len(r) + 1 .. Len(r) + Len(ts) :
          /\ i - Len(r) \in 1 .. Len(ts)
          /\ longer[i].id = ts[i - Len(r)] /\ longer[i].code = code[ts[i - Len(r)]]
  <2>1. \A i \in 1 .. Len(ts) : more[i].id = ts[i] /\ more[i].code = code[ts[i]]
    OBVIOUS
  <2> HIDE DEF longer, more
  <2>2. \A i \in Len(r) + 1 .. Len(r) + Len(ts) : i - Len(r) \in 1 .. Len(ts) /\ longer[i] = more[i - Len(r)]
    BY <1>1, <1>3
  <2> QED BY <2>1, <2>2
<1> HIDE DEF longer, more
<1>6. CodesTrue(longer, st, code, al1)
  <2>1. ASSUME NEW i \in 1 .. Len(r) + Len(ts)
        PROVE  st[longer[i].id] = "Exited" /\ longer[i].code = code[longer[i].id] /\ longer[i].id \notin al1
    <3>1. CASE i <= Len(r)
      BY <3>1, <1>1, <1>4 DEF CodesTrue
    <3>2. CASE i > Len(r)
      BY <3>2, <1>1, <1>5
    <3> QED BY <3>1, <3>2, <1>1
  <2>2. ASSUME NEW i \in 1 .. Len(r) + Len(ts), NEW j \in 1 .. Len(r) + Len(ts),
               longer[j].id = longer[i].id
        PROVE  i = j
    <3>1. ASSUME NEW m \in 1 .. Len(r), NEW n \in Len(r) + 1 .. Len(r) + Len(ts)
          PROVE  longer[m].id # longer[n].id
      <4>1. longer[m].id \notin al
        BY <1>4 DEF CodesTrue
      <4>2. longer[n].id \in al
        BY <1>1, <1>5
      <4> QED BY <4>1, <4>2
    <3>2. CASE i <= Len(r) /\ j <= Len(r)
      <4>1. i \in 1 .. Len(r) /\ j \in 1 .. Len(r) /\ r[j].id = r[i].id
        BY <3>2, <2>2, <1>1, <1>4
      <4> QED BY <4>1 DEF CodesTrue
    <3>3. CASE i > Len(r) /\ j > Len(r)
      <4>1. /\ i \in Len(r) + 1 .. Len(r) + Len(ts) /\ j \in Len(r) + 1 .. Len(r) + Len(ts)
            /\ ts[i - Len(r)] = ts[j - Len(r)]
        BY <3>3, <2>2, <1>1, <1>5
      <4>2. i - Len(r) = j - Len(r)
        BY <4>1, <1>5 DEF Distinct
      <4> QED BY <4>2, <1>1
    <3>4. CASE i <= Len(r) /\ j > Len(r)
      <4>1. i \in 1 .. Len(r) /\ j \in Len(r) + 1 .. Len(r) + Len(ts)
        BY <3>4, <1>1
      <4> QED BY <4>1, <3>1, <2>2
    <3>5. CASE i > Len(r) /\ j <= Len(r)
      <4>1. j \in 1 .. Len(r) /\ i \in Len(r) + 1 .. Len(r) + Len(ts)
        BY <3>5, <1>1
      <4> QED BY <4>1, <3>1, <2>2
    <3> QED BY <3>2, <3>3, <3>4, <3>5, <1>1
  <2> QED BY <2>1, <2>2, <1>3 DEF CodesTrue
<1>7. /\ over \in Nat /\ over <= Len(longer) /\ Len(longer) - over <= MaxRetired
      /\ Len(longer) \in Nat
  BY <1>1, <1>3, Constants
<1> HIDE DEF over, al1
<1>8. /\ rest \in Seq(R) /\ Len(rest) = Len(longer) - over
      /\ \A i \in 1 .. Len(rest) : rest[i] = longer[over + i]
  <2>1. over + 1 \in 1 .. Len(longer) + 1 /\ Len(longer) \in (over + 1) - 1 .. Len(longer)
    BY <1>7
  <2>2. /\ rest \in Seq(R)
        /\ Len(rest) = IF over + 1 <= Len(longer) THEN Len(longer) - (over + 1) + 1 ELSE 0
        /\ \A i \in 1 .. Len(longer) - (over + 1) + 1 : rest[i] = longer[over + 1 + i - 1]
    BY <2>1, <1>3, <1>7, SubSeqProperties
  <2>3. Len(rest) = Len(longer) - over
    BY <2>2, <1>7
  <2>4. \A i \in 1 .. Len(rest) : rest[i] = longer[over + i]
    BY <2>2, <2>3, <1>7
  <2> QED BY <2>2, <2>3, <2>4
<1> HIDE DEF rest
<1>9. CodesTrue(rest, st, code, al1)
  <2>1. \A i \in 1 .. Len(rest) : over + i \in 1 .. Len(longer)
    BY <1>7, <1>8
  <2>2. ASSUME NEW i \in 1 .. Len(rest), NEW j \in 1 .. Len(rest), rest[j].id = rest[i].id
        PROVE  i = j
    <3>1. longer[over + j].id = longer[over + i].id
      BY <2>2, <1>8
    <3>2. over + i = over + j
      BY <2>1, <3>1, <1>6 DEF CodesTrue
    <3> QED BY <3>2, <1>7, <1>8
  <2> QED BY <2>1, <2>2, <1>6, <1>8 DEF CodesTrue
<1>10. Retired(r, ts) = rest
  BY DEF Retired, rest, over, longer, more
<1>11. Len(rest) <= MaxRetired
  BY <1>7, <1>8
<1> QED BY <1>8, <1>9, <1>10, <1>11 DEF al1, R

\* The record names threads.
LEMMA RecordIds ==
    ASSUME NEW r \in Seq([id : Ids, code : Codes])
    PROVE  \A i \in 1 .. Len(r) : r[i].id \in Ids
<1>1. \A i \in 1 .. Len(r) : r[i] \in [id : Ids, code : Codes]
  BY ElementOfSeq
<1> QED BY <1>1

\* Reaping gives each stack back once: the slots stay owned by one, and the stacks that
\* become free are no longer mapped.
LEMMA ScheduleSlots ==
    ASSUME NEW st, NEW rq, NEW ts, NEW pcs, NEW ag,
           toReap \in Seq(Ids), all \subseteq Ids, stack \in [Ids -> Slots \cup {NoSlot}],
           freeSlots \in Seq(Slots), mapped \subseteq Slots,
           Ending(st, current, rq, toReap, all, pcs, ag),
           SlotsOwned(all, stack, pcs, ag, freeSlots, nextFresh),
           SlotsMapped(st, stack, pcs, ag, freeSlots, mapped),
           Schedule(st, rq, ts), Up'
    PROVE  /\ freeSlots' \in Seq(Slots) /\ mapped' \subseteq Slots /\ all' \subseteq all
           /\ SlotsOwned(all', stack, pcs, ag, freeSlots', nextFresh)
           /\ SlotsMapped(st, stack, pcs, ag, freeSlots', mapped')
<1> DEFINE slots == [i \in 1 .. Len(toReap) |-> stack[toReap[i]]]
<1>1. /\ all' = all \ {toReap[i] : i \in 1 .. Len(toReap)}
      /\ mapped' = mapped \ {stack[toReap[i]] : i \in 1 .. Len(toReap)}
      /\ freeSlots' = freeSlots \o slots
  BY DEF Schedule, Up
<1>2. /\ Len(toReap) \in Nat
      /\ \A i \in 1 .. Len(toReap) : toReap[i] \in Ids /\ In(toReap[i], toReap)
  BY LenProperties, ElementOfSeq DEF In
<1>3. \A t \in Ids : In(t, toReap) => HasStack(all, pcs, ag, t) /\ stack[t] \in Slots
  <2>1. \A t \in Ids : In(t, toReap) => t \in all
    BY DEF Ending
  <2>2. \A t \in Ids : In(t, toReap) => \A u \in Ids : ~(pcs[u] = "retire" /\ ag[u] = t)
    BY DEF Ending, Reaps, Killing
  <2> QED BY <2>1, <2>2 DEF HasStack, SlotsOwned
<1>4. /\ slots \in Seq(Slots)
      /\ \A s : In(s, slots) <=> \E t \in Ids : In(t, toReap) /\ stack[t] = s
  <2>1. slots \in Seq(Slots) /\ Len(slots) = Len(toReap)
    BY <1>2, <1>3
  <2> QED BY <2>1, <1>2 DEF In
<1>5. Distinct(slots)
  <2>1. SUFFICES ASSUME NEW i \in 1 .. Len(toReap), NEW j \in 1 .. Len(toReap),
                        stack[toReap[i]] = stack[toReap[j]]
                 PROVE  i = j
    BY <1>2 DEF Distinct
  <2>2. toReap[i] = toReap[j]
    BY <2>1, <1>2, <1>3 DEF SlotsOwned
  <2> QED BY <2>2 DEF Ending, Distinct
<1> HIDE DEF slots
<1>6. \A s \in Slots : ~(In(s, freeSlots) /\ In(s, slots))
  BY <1>3, <1>4 DEF SlotsOwned
<1>7. /\ freeSlots' \in Seq(Slots) /\ Distinct(freeSlots')
      /\ \A s : In(s, freeSlots') <=> In(s, freeSlots) \/ In(s, slots)
  <2>1. Distinct(freeSlots)
    BY DEF SlotsOwned
  <2>2. freeSlots \o slots \in Seq(Slots)
    BY <1>4, ConcatProperties
  <2> QED BY <1>1, <1>4, <1>5, <1>6, <2>1, <2>2, InConcat, DistinctConcat
<1>8. \A t \in Ids : HasStack(all', pcs, ag, t) <=> HasStack(all, pcs, ag, t) /\ ~In(t, toReap)
  BY <1>1 DEF HasStack, In
<1>9. SlotsOwned(all', stack, pcs, ag, freeSlots', nextFresh)
  <2>1. \A t \in all' : stack[t] \in Slots /\ stack[t] < nextFresh
    BY <1>1 DEF SlotsOwned
  <2>2. \A t, v \in Ids : HasStack(all', pcs, ag, t) /\ HasStack(all', pcs, ag, v) /\ stack[t] = stack[v] => t = v
    BY <1>8 DEF SlotsOwned
  <2>3. \A u \in Ids, s \in Slots : Claims(pcs, ag, u, s) =>
           /\ s < nextFresh /\ ~In(s, freeSlots')
           /\ \A t \in Ids : HasStack(all', pcs, ag, t) => stack[t] # s
    BY <1>3, <1>4, <1>7, <1>8 DEF SlotsOwned
  <2>4. \A u, v \in Ids, s \in Slots : Claims(pcs, ag, u, s) /\ Claims(pcs, ag, v, s) => u = v
    BY DEF SlotsOwned
  <2>5. ASSUME NEW s \in Slots, In(s, freeSlots')
        PROVE  /\ s < nextFresh
               /\ \A t \in Ids : HasStack(all', pcs, ag, t) => stack[t] # s
    <3>1. CASE In(s, freeSlots)
      BY <3>1, <1>8 DEF SlotsOwned
    <3>2. CASE In(s, slots)
      <4>1. PICK t \in Ids : In(t, toReap) /\ stack[t] = s
        BY <3>2, <1>4
      <4>2. s < nextFresh
        BY <4>1, <1>3 DEF SlotsOwned, HasStack
      <4>3. ASSUME NEW v \in Ids, HasStack(all', pcs, ag, v) PROVE stack[v] # s
        <5>1. HasStack(all, pcs, ag, v) /\ v # t
          BY <4>1, <4>3, <1>8
        <5> QED BY <4>1, <5>1, <1>3 DEF SlotsOwned
      <4> QED BY <4>2, <4>3
    <3> QED BY <2>5, <3>1, <3>2, <1>7
  <2>6. \A s \in Slots : s < nextFresh =>
           \/ In(s, freeSlots')
           \/ \E t \in Ids : HasStack(all', pcs, ag, t) /\ stack[t] = s
           \/ \E u \in Ids : Claims(pcs, ag, u, s)
    BY <1>4, <1>7, <1>8 DEF SlotsOwned
  <2> QED BY <1>7, <2>1, <2>2, <2>3, <2>4, <2>5, <2>6 DEF SlotsOwned
<1>10. SlotsMapped(st, stack, pcs, ag, freeSlots', mapped')
  <2>1. \A s : s \in mapped' <=> s \in mapped /\ ~In(s, slots)
    <3>1. \A s : In(s, slots) <=> \E i \in 1 .. Len(toReap) : stack[toReap[i]] = s
      BY <1>2 DEF In, slots
    <3> QED BY <1>1, <3>1
  <2>2. ASSUME NEW u \in Ids, pcs[u] = "register" PROVE ag[u] \in mapped'
    <3>1. ag[u] \in mapped /\ ag[u] \in Slots
      BY <2>2 DEF SlotsMapped
    <3>2. \A t \in Ids : HasStack(all, pcs, ag, t) => stack[t] # ag[u]
      BY <2>2, <3>1 DEF SlotsOwned, Claims
    <3> QED BY <2>1, <3>1, <3>2, <1>3, <1>4
  <2>3. ASSUME NEW t \in Ids, st[t] \notin {"New", "Exited"} PROVE stack[t] \in mapped'
    <3>1. stack[t] \in mapped
      BY <2>3 DEF SlotsMapped
    <3>2. t \in all
      BY <2>3 DEF Ending
    <3>3. HasStack(all, pcs, ag, t)
      BY <2>3, <3>2 DEF Ending, Reaps, HasStack, Killing
    <3>4. ~In(t, toReap)
      BY <2>3 DEF Ending
    <3>5. ~In(stack[t], slots)
      BY <3>3, <3>4, <1>3, <1>4 DEF SlotsOwned
    <3> QED BY <2>1, <3>1, <3>5
  <2> QED BY <1>7, <2>1, <2>2, <2>3 DEF SlotsMapped
<1> QED BY <1>1, <1>7, <1>9, <1>10

-----------------------------------------------------------------------------
(* Steps that neither spawn nor kill. *)

Plain == {"run", "sleep", "join", "joinblock", "read", "readblock", "exit"}

\* A step of a thread between plain places leaves what spawns and kills hold alone.
LEMMA PlainStep ==
    ASSUME NEW pcs, NEW ag, NEW pcs1, NEW ag1, NEW t \in Ids,
           pcs[t] \in Plain, pcs1[t] \in Plain,
           \A u \in Ids \ {t} : pcs1[u] = pcs[u] /\ ag1[u] = ag[u],
           NEW st, NEW cur, NEW rq, NEW rp, NEW al, al \subseteq Ids, NEW jq, NEW dq, NEW pp,
           NEW stk, NEW fs, NEW nf, NEW mp, NEW next
    PROVE  /\ Waiting(st, jq, dq, pcs, pp) => Waiting(st, jq, dq, pcs1, pp)
           /\ Ending(st, cur, rq, rp, al, pcs, ag) => Ending(st, cur, rq, rp, al, pcs1, ag1)
           /\ SlotsOwned(al, stk, pcs, ag, fs, nf) => SlotsOwned(al, stk, pcs1, ag1, fs, nf)
           /\ SlotsMapped(st, stk, pcs, ag, fs, mp) => SlotsMapped(st, stk, pcs1, ag1, fs, mp)
           /\ IdsInOrder(st, pcs, next) => IdsInOrder(st, pcs1, next)
<1>1. \A u \in Ids : pcs1[u] = "wake" <=> pcs[u] = "wake"
  BY DEF Plain
<1>2. \A u, x \in Ids : Reaps(pcs1, ag1, u, x) <=> Reaps(pcs, ag, u, x)
  BY DEF Plain, Reaps, Killing
<1>3. \A u \in Ids : \A x : Claims(pcs1, ag1, u, x) <=> Claims(pcs, ag, u, x)
  BY DEF Plain, Claims
<1>4. \A x \in Ids : HasStack(al, pcs1, ag1, x) <=> HasStack(al, pcs, ag, x)
  BY DEF Plain, HasStack
<1>5. Spawning(pcs1) = Spawning(pcs)
  BY DEF Plain, Spawning
<1>6. Waiting(st, jq, dq, pcs, pp) => Waiting(st, jq, dq, pcs1, pp)
  BY <1>1 DEF Waiting
<1>7. Ending(st, cur, rq, rp, al, pcs, ag) => Ending(st, cur, rq, rp, al, pcs1, ag1)
  BY <1>2 DEF Ending
<1>8. SlotsOwned(al, stk, pcs, ag, fs, nf) => SlotsOwned(al, stk, pcs1, ag1, fs, nf)
  BY <1>3, <1>4 DEF SlotsOwned
<1>9. SlotsMapped(st, stk, pcs, ag, fs, mp) => SlotsMapped(st, stk, pcs1, ag1, fs, mp)
  BY DEF SlotsMapped, Plain
<1>10. IdsInOrder(st, pcs, next) => IdsInOrder(st, pcs1, next)
  BY <1>5 DEF IdsInOrder
<1> QED BY <1>6, <1>7, <1>8, <1>9, <1>10

\* The invariant after schedule(), from what holds where it is entered: st and rq are
\* the states and the ready queue there, and the rest of the step is done.
LEMMA ScheduleInv ==
    ASSUME SchedInv, Up,
           NEW st \in [Ids -> States], NEW rq \in Seq(Ids), NEW ts \in 1 .. TimesliceTicks,
           \A t \in Ids : (st[t] = "New" <=> state[t] = "New") /\ (state[t] = "Exited" => st[t] = "Exited"),
           st[current] \in {"Running", "Blocked", "Sleeping", "Exited"},
           current = IdleId => st[current] = "Running",
           Placed(st, current, rq), Asleep(st, sleeping'), Waiting(st, joinq', readq', pc', popped'),
           Ending(st, current, rq, toReap, all, pc', arg'),
           SlotsOwned(all, stack, pc', arg', freeSlots, nextFresh),
           SlotsMapped(state, stack, pc', arg', freeSlots, mapped),
           IdsInOrder(state, pc', nextId),
           Arguments(pc', arg'), pc'[IdleId] = "run",
           sleeping' \subseteq Ids, left' \in [Ids -> 0 .. MaxSleep], joinq' \in Seq(Ids), readq' \in Seq(Ids),
           key' \in BOOLEAN, pc' \in [Ids -> PCs], arg' \in [Ids -> Ids \cup Slots \cup {None}],
           popped' \in [Ids -> Ids \cup {None}],
           UNCHANGED <<code, stack, nextId>>,
           Schedule(st, rq, ts)
    PROVE  SchedInv'
<1> USE DEF SchedInv
<1>1. CASE ~Up'
  <2>1. UNCHANGED <<state, current, ready, toReap, all, retired, slice, freeSlots, nextFresh, mapped, slotsBy>>
    BY <1>1 DEF Schedule, Up, svars, kvars
  <2>2. TypeOK'
    <3>1. (panicked' = panicked \/ panicked' = TRUE) /\ (hung' = hung \/ hung' = TRUE)
      BY DEF Schedule
    <3>2. panicked' \in BOOLEAN /\ hung' \in BOOLEAN
      BY <3>1, Zenon DEF TypeOK
    <3> QED BY <2>1, <1>1, <3>2 DEF TypeOK
  <2>3. IdleOnlyIfNothingReady' /\ (Up => Whereabouts)'
    BY <1>1 DEF IdleOnlyIfNothingReady
  <2>4. RetiredCodesTrue'
    BY <2>1 DEF RetiredCodesTrue
  <2> QED BY <2>1, <2>2, <2>3, <2>4
<1>2. CASE Up'
  <2>1. /\ current \in Ids /\ toReap \in Seq(Ids) /\ all \subseteq Ids /\ freeSlots \in Seq(Slots)
        /\ mapped \subseteq Slots /\ stack \in [Ids -> Slots \cup {NoSlot}] /\ code \in [Ids -> Codes]
        /\ retired \in Seq([id : Ids, code : Codes])
    BY DEF TypeOK
  <2>2. /\ state'[current'] = "Running"
        /\ Placed(state', current', ready')
        /\ Asleep(state', sleeping')
        /\ Waiting(state', joinq', readq', pc', popped')
        /\ Ending(state', current', ready', toReap', all', pc', arg')
        /\ current' = IdleId => ready' = <<>>
    BY <1>2, <2>1, ScheduleKeeps
  <2>3. /\ current' \in Ids /\ ready' \in Seq(Ids) /\ toReap' \in Seq(Ids)
        /\ Len(ready') <= MaxThreads /\ state' \in [Ids -> States]
        /\ \A t \in Ids : state'[t] =
               IF t = current' THEN "Running"
               ELSE IF t = current /\ t # IdleId /\ st[t] = "Running" THEN "Ready" ELSE st[t]
    BY <1>2, <2>1, ScheduleEffect
  <2>4. /\ current' # IdleId =>
             /\ st[current'] # "Exited"
             /\ In(current', rq) \/ (current' = current /\ st[current] = "Running")
    BY <1>2, <2>1, ScheduleEffect
  <2>5. st[current'] \in {"Ready", "Running"}
    BY <2>3, <2>4 DEF Placed
  <2>6. \A t \in Ids : /\ state'[t] = "New" <=> state[t] = "New"
                       /\ state[t] = "Exited" => state'[t] = "Exited"
                       /\ state'[t] \notin {"New", "Exited"} => state[t] \notin {"New", "Exited"}
    BY <2>3, <2>5
  <2>7. SlotsMapped(st, stack, pc', arg', freeSlots, mapped)
    BY DEF SlotsMapped
  <2>8. /\ freeSlots' \in Seq(Slots) /\ mapped' \subseteq Slots /\ all' \subseteq all
        /\ SlotsOwned(all', stack, pc', arg', freeSlots', nextFresh)
        /\ SlotsMapped(st, stack, pc', arg', freeSlots', mapped')
    BY <1>2, <2>1, <2>7, ScheduleSlots
  <2>9. SlotsMapped(state', stack, pc', arg', freeSlots', mapped')
    <3>1. \A t \in Ids : state'[t] \notin {"New", "Exited"} => st[t] \notin {"New", "Exited"}
      BY <2>3, <2>5
    <3> QED BY <2>8, <3>1 DEF SlotsMapped
  <2>10. CodesTrue(retired, st, code, all)
    <3>1. \A i \in 1 .. Len(retired) : retired[i].id \in Ids
      BY <2>1, RecordIds
    <3> QED BY <3>1 DEF CodesTrue, RetiredCodesTrue
  <2>11. /\ retired' = Retired(retired, toReap) /\ all' = all \ {toReap[i] : i \in 1 .. Len(toReap)}
         /\ nextFresh' = nextFresh /\ slotsBy' = slotsBy /\ slice' \in 1 .. TimesliceTicks
         /\ mapped' \subseteq mapped /\ UNCHANGED <<panicked, hung>>
    <3>1. /\ retired' = Retired(retired, toReap) /\ all' = all \ {toReap[i] : i \in 1 .. Len(toReap)}
          /\ mapped' = mapped \ {stack[toReap[i]] : i \in 1 .. Len(toReap)}
          /\ UNCHANGED <<nextFresh, slotsBy, panicked, hung>>
          /\ slice' = ts \/ slice' = TimesliceTicks
      BY <1>2 DEF Schedule, Up
    <3>2. TimesliceTicks \in 1 .. TimesliceTicks
      BY Constants
    <3> QED BY <3>1, <3>2
  <2>12. /\ Retired(retired, toReap) \in Seq([id : Ids, code : Codes])
         /\ Len(Retired(retired, toReap)) <= MaxRetired
         /\ CodesTrue(Retired(retired, toReap), st, code, all \ {toReap[i] : i \in 1 .. Len(toReap)})
    <3>1. Distinct(toReap) /\ \A t \in Ids : In(t, toReap) => t \in all /\ st[t] = "Exited"
      BY DEF Ending
    <3> QED BY <2>1, <2>10, <3>1, RetiredKeeps
  <2>13. RetiredCodesTrue'
    <3>1. \A i \in 1 .. Len(retired') : retired'[i].id \in Ids
      BY <2>11, <2>12, RecordIds
    <3>2. \A t \in Ids : st[t] = "Exited" => state'[t] = "Exited"
      BY <2>3, <2>5
    <3>3. CodesTrue(retired', st, code, all')
      BY <2>11, <2>12
    <3> QED BY <3>1, <3>2, <3>3 DEF CodesTrue, RetiredCodesTrue
  <2>14. TypeOK'
    BY <2>1, <2>3, <2>8, <2>11, <2>12 DEF TypeOK
  <2>15. IdsInOrder(state', pc', nextId')
    BY <2>6 DEF IdsInOrder
  <2>16. Whereabouts'
    BY <2>2 DEF Whereabouts
  <2>17. IdleOnlyIfNothingReady'
    BY <2>2 DEF IdleOnlyIfNothingReady
  <2> QED BY <2>8, <2>9, <2>11, <2>13, <2>14, <2>15, <2>16, <2>17
<1> QED BY <1>1, <1>2

-----------------------------------------------------------------------------
(* Waking threads. *)

\* Blocked or sleeping threads that wake() marks and appends to the ready queue are
\* where they belong.
LEMMA WakeUp ==
    ASSUME NEW st \in [Ids -> States], NEW rq \in Seq(Ids), NEW q \in Seq(Ids), Distinct(q),
           NEW cur \in Ids, NEW rp, NEW al, al \subseteq Ids, NEW pcs, NEW ag,
           \A t \in Ids : In(t, q) => st[t] \in {"Blocked", "Sleeping"} /\ t # cur,
           Placed(st, cur, rq), Ending(st, cur, rq, rp, al, pcs, ag)
    PROVE  /\ SetReady(st, q) \in [Ids -> States]
           /\ \A t \in Ids : SetReady(st, q)[t] = IF In(t, q) THEN "Ready" ELSE st[t]
           /\ rq \o q \in Seq(Ids)
           /\ Placed(SetReady(st, q), cur, rq \o q)
           /\ Ending(SetReady(st, q), cur, rq \o q, rp, al, pcs, ag)
<1> DEFINE st1 == SetReady(st, q)
           rq1 == rq \o q
<1>1. st1 \in [Ids -> States] /\ \A t \in Ids : st1[t] = IF In(t, q) THEN "Ready" ELSE st[t]
  BY DEF SetReady, States
<1>2. rq1 \in Seq(Ids) /\ \A t : In(t, rq1) <=> In(t, rq) \/ In(t, q)
  BY InConcat, ConcatProperties
<1>3. Distinct(rq1)
  <2>1. \A t \in Ids : ~(In(t, rq) /\ In(t, q))
    BY DEF Placed
  <2>2. Distinct(rq)
    BY DEF Placed
  <2> QED BY <2>1, <2>2, DistinctConcat
<1> HIDE DEF st1, rq1
<1>4. Placed(st1, cur, rq1)
  BY <1>1, <1>2, <1>3, Constants DEF Placed
<1>5. \A t \in Ids : In(t, q) => ~In(t, rp) /\ \A u \in Ids : ~Reaps(pcs, ag, u, t)
  BY DEF Ending
<1>6. \A t \in Ids : In(t, q) => t \in al
  BY DEF Ending
<1>7. Ending(st1, cur, rq1, rp, al, pcs, ag)
  BY <1>1, <1>2, <1>5, <1>6 DEF Ending
<1> QED BY <1>1, <1>2, <1>4, <1>7 DEF st1, rq1

\* Popping a wait queue takes its first thread that has not exited, and drops none
\* that has not.
LEMMA PopFirst ==
    ASSUME NEW q \in Seq(Ids), Distinct(q), NEW st
    PROVE  /\ Live(st, q) = <<>> => \A t \in Ids : In(t, q) => st[t] = "Exited"
           /\ Live(st, q) # <<>> =>
                /\ Head(Live(st, q)) \in Ids /\ In(Head(Live(st, q)), q) /\ st[Head(Live(st, q))] # "Exited"
                /\ Behind(Head(Live(st, q)), q) \in Seq(Ids) /\ Distinct(Behind(Head(Live(st, q)), q))
                /\ \A t \in Ids : In(t, Behind(Head(Live(st, q)), q)) => In(t, q) /\ t # Head(Live(st, q))
                /\ \A t \in Ids : In(t, q) /\ st[t] # "Exited" =>
                      In(t, Behind(Head(Live(st, q)), q)) \/ t = Head(Live(st, q))
<1> DEFINE S == {t \in Ids : st[t] # "Exited"}
           w == Live(st, q)
           h == Head(w)
           q2 == Behind(h, q)
<1>1. /\ w \in Seq(Ids)
      /\ \A x : In(x, w) <=> In(x, q) /\ x \in S
      /\ w # <<>> =>
           \E i \in 1 .. Len(q) : /\ q[i] \in S /\ h = q[i]
                                  /\ \A j \in 1 .. i - 1 : q[j] \notin S
  <2>1. w = Kept(q, S)
    BY DEF Live
  <2> HIDE DEF S
  <2> QED BY <2>1, KeptProperties
<1> HIDE DEF w, h, q2
<1>2. ASSUME w = <<>>, NEW t \in Ids, In(t, q) PROVE st[t] = "Exited"
  <2>1. ~In(t, w)
    BY <1>2 DEF In
  <2> QED BY <1>1, <1>2, <2>1
<1>3. ASSUME w # <<>>
      PROVE  /\ h \in Ids /\ In(h, q) /\ st[h] # "Exited"
             /\ q2 \in Seq(Ids) /\ Distinct(q2)
             /\ \A t \in Ids : In(t, q2) => In(t, q) /\ t # h
             /\ \A t \in Ids : In(t, q) /\ st[t] # "Exited" => In(t, q2) \/ t = h
  <2>1. PICK i \in 1 .. Len(q) : /\ q[i] \in S /\ h = q[i]
                                 /\ \A j \in 1 .. i - 1 : q[j] \notin S
    BY <1>1, <1>3
  <2>2. Len(q) \in Nat
    BY LenProperties
  <2>3. /\ q2 \in Seq(Ids) /\ Distinct(q2)
        /\ \A t : In(t, q2) <=> \E j \in i + 1 .. Len(q) : q[j] = t
    <3>1. q2 = Behind(q[i], q)
      BY <2>1 DEF q2
    <3> QED BY <3>1, BehindProperties
  <2>4. ASSUME NEW t \in Ids, In(t, q2) PROVE In(t, q) /\ t # h
    <3>1. PICK j \in i + 1 .. Len(q) : q[j] = t
      BY <2>3, <2>4
    <3>2. j \in 1 .. Len(q) /\ j # i
      BY <3>1, <2>1, <2>2
    <3> QED BY <2>1, <3>1, <3>2 DEF In, Distinct
  <2>5. ASSUME NEW t \in Ids, In(t, q), st[t] # "Exited" PROVE In(t, q2) \/ t = h
    <3>1. PICK j \in 1 .. Len(q) : q[j] = t
      BY <2>5 DEF In
    <3>2. ~(j \in 1 .. i - 1)
      BY <2>1, <2>5, <3>1
    <3>3. j = i \/ j \in i + 1 .. Len(q)
      BY <2>1, <2>2, <3>1, <3>2
    <3> QED BY <2>1, <2>3, <3>1, <3>3
  <2>6. h \in Ids /\ In(h, q) /\ st[h] # "Exited"
    BY <2>1 DEF In
  <2> QED BY <2>3, <2>4, <2>5, <2>6
<1> QED BY <1>2, <1>3 DEF w, h, q2

-----------------------------------------------------------------------------
(* The steps that may call schedule(). *)

\* What the type invariant says, for citing.
LEMMA Types ==
    ASSUME TypeOK
    PROVE  /\ state \in [Ids -> States] /\ code \in [Ids -> Codes] /\ current \in Ids
           /\ stack \in [Ids -> Slots \cup {NoSlot}]
           /\ ready \in Seq(Ids) /\ toReap \in Seq(Ids) /\ joinq \in Seq(Ids) /\ readq \in Seq(Ids)
           /\ sleeping \subseteq Ids /\ all \subseteq Ids /\ left \in [Ids -> 0 .. MaxSleep]
           /\ slice \in 1 .. TimesliceTicks /\ key \in BOOLEAN
           /\ pc \in [Ids -> PCs] /\ arg \in [Ids -> Ids \cup Slots \cup {None}]
           /\ popped \in [Ids -> Ids \cup {None}]
           /\ freeSlots \in Seq(Slots) /\ mapped \subseteq Slots /\ nextFresh \in 0 .. NumSlots
           /\ slotsBy \in Ids \cup {None} /\ nextId \in 2 .. MaxId + 1
           /\ retired \in Seq([id : Ids, code : Codes])
BY DEF TypeOK

\* yield_now keeps the invariant.
LEMMA YieldInv ==
    ASSUME SchedInv, NEW t \in Ids, Yield(t)
    PROVE  SchedInv'
<1>1. /\ Up /\ current = t /\ t # IdleId /\ Schedule(state, ready, slice)
      /\ UNCHANGED <<code, stack, pc, arg, popped, sleeping, left, joinq, readq, key, nextId>>
  BY DEF Yield, At, tvars, wvars
<1>2. TypeOK /\ Whereabouts
  BY <1>1 DEF SchedInv
<1>3. /\ pc[IdleId] = "run" /\ Arguments(pc, arg) /\ IdsInOrder(state, pc, nextId)
      /\ SlotsOwned(all, stack, pc, arg, freeSlots, nextFresh)
      /\ SlotsMapped(state, stack, pc, arg, freeSlots, mapped)
  BY DEF SchedInv
<1> QED BY <1>1, <1>2, <1>3, Types, ScheduleInv DEF Whereabouts

\* Ending asks of a state only whether a thread is new and whether it exited.
LEMMA EndingStates ==
    ASSUME NEW st, NEW st1, NEW cur, NEW rq, NEW rp, NEW al, NEW pcs, NEW ag, al \subseteq Ids,
           Ending(st, cur, rq, rp, al, pcs, ag),
           \A u \in Ids : /\ st1[u] = "Exited" <=> st[u] = "Exited"
                          /\ st1[u] = "New" <=> st[u] = "New"
    PROVE  Ending(st1, cur, rq, rp, al, pcs, ag)
  BY DEF Ending

\* The step from one plain place to another of a thread that calls schedule().
LEMMA BlockInv ==
    ASSUME SchedInv, Up, NEW t \in Ids \ {IdleId}, current = t,
           NEW to \in Plain, pc[t] \in Plain, pc' = [pc EXCEPT ![t] = to],
           to \in {"join", "joinblock"} => arg[t] \in Ids,
           NEW s0 \in {"Blocked", "Sleeping"},
           Schedule([state EXCEPT ![t] = s0], ready, slice),
           UNCHANGED <<code, stack, arg, popped, left, key, nextId>>,
           IF s0 = "Sleeping"
           THEN sleeping' = sleeping \cup {t} /\ UNCHANGED <<joinq, readq>>
           ELSE /\ UNCHANGED sleeping
                /\ \/ joinq' = Append(joinq, t) /\ UNCHANGED readq
                   \/ readq' = Append(readq, t) /\ UNCHANGED joinq
    PROVE  SchedInv'
<1> DEFINE st == [state EXCEPT ![t] = s0]
<1>1. TypeOK /\ Whereabouts /\ pc[IdleId] = "run" /\ Arguments(pc, arg)
      /\ IdsInOrder(state, pc, nextId)
      /\ SlotsOwned(all, stack, pc, arg, freeSlots, nextFresh)
      /\ SlotsMapped(state, stack, pc, arg, freeSlots, mapped)
  BY DEF SchedInv
<1>2. /\ st \in [Ids -> States] /\ st[t] = s0
      /\ \A u \in Ids : u # t => st[u] = state[u]
      /\ state[t] = "Running"
  BY <1>1, Types DEF States, Whereabouts
<1>3. /\ pc' \in [Ids -> PCs] /\ pc'[IdleId] = "run" /\ pc'[t] \in Plain
      /\ \A u \in Ids \ {t} : pc'[u] = pc[u] /\ arg'[u] = arg[u]
  BY <1>1, Types, Constants DEF PCs, Plain
<1>4. Arguments(pc', arg')
  BY <1>1, Types DEF Arguments, Plain
<1> HIDE DEF st
<1>5. Placed(st, t, ready)
  BY <1>1, <1>2, Constants DEF Whereabouts, Placed
<1>6. Asleep(st, sleeping')
  BY <1>1, <1>2 DEF Whereabouts, Asleep
<1>7. Ending(st, t, ready, toReap, all, pc, arg)
  <2>1. Ending(state, t, ready, toReap, all, pc, arg) /\ all \subseteq Ids
    BY <1>1, Types DEF Whereabouts
  <2>2. \A u \in Ids : u # t => st[u] = state[u]
    BY <1>2
  <2>3. st[t] \notin {"New", "Exited"} /\ state[t] \notin {"New", "Exited"}
    BY <1>2
  <2>4. \A u \in Ids : /\ st[u] = "Exited" <=> state[u] = "Exited"
                       /\ st[u] = "New" <=> state[u] = "New"
    BY <2>2, <2>3
  <2> QED BY <2>1, <2>4, EndingStates
<1>8. Waiting(st, joinq', readq', pc, popped) /\ joinq' \in Seq(Ids) /\ readq' \in Seq(Ids)
  <2>1. \A u \in Ids : /\ ~In(t, joinq) /\ ~In(t, readq)
                       /\ pc[u] = "wake" => popped[u] # t
    BY <1>1, <1>2 DEF Whereabouts, Waiting
  <2>2. CASE s0 = "Sleeping"
    <3>1. joinq' = joinq /\ readq' = readq
      BY <2>2
    <3>2. Waiting(state, joinq, readq, pc, popped) /\ joinq \in Seq(Ids) /\ readq \in Seq(Ids)
      BY <1>1, Types DEF Whereabouts
    <3>3. st[t] = "Sleeping" /\ \A u \in Ids : u # t => st[u] = state[u]
      BY <1>2, <2>2
    <3>4. Waiting(st, joinq, readq, pc, popped)
      BY <2>1, <3>2, <3>3 DEF Waiting
    <3> QED BY <3>1, <3>2, <3>4
  <2>3. CASE s0 = "Blocked" /\ joinq' = Append(joinq, t) /\ UNCHANGED readq
    <3>1. /\ joinq' \in Seq(Ids) /\ Distinct(joinq')
          /\ \A u : In(u, joinq') <=> In(u, joinq) \/ u = t
      BY <2>1, <2>3, <1>1, Types, InAppend, DistinctAppend DEF Whereabouts, Waiting
    <3> QED BY <2>1, <2>3, <3>1, <1>1, <1>2, Types, SMTT(40) DEF Whereabouts, Waiting
  <2>4. CASE s0 = "Blocked" /\ readq' = Append(readq, t) /\ UNCHANGED joinq
    <3>1. /\ readq' \in Seq(Ids) /\ Distinct(readq')
          /\ \A u : In(u, readq') <=> In(u, readq) \/ u = t
      BY <2>1, <2>4, <1>1, Types, InAppend, DistinctAppend DEF Whereabouts, Waiting
    <3> QED BY <2>1, <2>4, <3>1, <1>1, <1>2, Types, SMTT(40) DEF Whereabouts, Waiting
  <2> QED BY <2>2, <2>3, <2>4
<1>9. /\ Waiting(st, joinq', readq', pc', popped')
      /\ Ending(st, t, ready, toReap, all, pc', arg')
      /\ SlotsOwned(all, stack, pc', arg', freeSlots, nextFresh)
      /\ SlotsMapped(state, stack, pc', arg', freeSlots, mapped)
      /\ IdsInOrder(state, pc', nextId)
  BY <1>1, <1>3, <1>7, <1>8, Types, PlainStep
<1>10. /\ sleeping' \subseteq Ids /\ left' \in [Ids -> 0 .. MaxSleep] /\ key' \in BOOLEAN
       /\ arg' \in [Ids -> Ids \cup Slots \cup {None}] /\ popped' \in [Ids -> Ids \cup {None}]
  BY <1>1, Types
<1>11. \A u \in Ids : (st[u] = "New" <=> state[u] = "New") /\ (state[u] = "Exited" => st[u] = "Exited")
  BY <1>2
<1>12. Schedule(st, ready, slice)
  BY DEF st
<1> QED BY <1>1, <1>2, <1>3, <1>4, <1>5, <1>6, <1>8, <1>9, <1>10, <1>11, <1>12, Types, ScheduleInv

\* A thread parks itself in the sleep list.
LEMMA SleepBlockInv ==
    ASSUME SchedInv, NEW t \in Ids, SleepBlock(t)
    PROVE  SchedInv'
<1>1. /\ Up /\ current = t /\ pc[t] = "sleep" /\ t # IdleId
      /\ pc' = [pc EXCEPT ![t] = "run"] /\ sleeping' = sleeping \cup {t}
      /\ Schedule([state EXCEPT ![t] = "Sleeping"], ready, slice)
      /\ UNCHANGED <<code, stack, arg, popped, left, joinq, readq, key, nextId>>
  BY DEF SleepBlock, At, Goto, SchedInv
<1>2. "run" \in Plain /\ "sleep" \in Plain /\ "run" \notin {"join", "joinblock"}
  BY DEF Plain
<1>3. "Sleeping" \in {"Blocked", "Sleeping"}
  OBVIOUS
<1> QED BY <1>1, <1>2, <1>3, BlockInv

\* A step of the running thread that neither schedules, spawns nor kills.
LEMMA QuietInv ==
    ASSUME SchedInv, Up, NEW t \in Ids \ {IdleId}, current = t,
           pc[t] \in Plain, pc' \in [Ids -> PCs], pc'[t] \in Plain,
           \A u \in Ids \ {t} : pc'[u] = pc[u] /\ arg'[u] = arg[u],
           arg' \in [Ids -> Ids \cup Slots \cup {None}], Arguments(pc', arg'),
           left' \in [Ids -> 0 .. MaxSleep], key' \in BOOLEAN, panicked' \in BOOLEAN,
           code' \in [Ids -> Codes], \A u \in Ids \ {t} : code'[u] = code[u],
           UNCHANGED <<svars, stack, popped, sleeping, joinq, readq, kvars, nextId, hung>>
    PROVE  SchedInv'
<1>1. /\ TypeOK /\ Whereabouts /\ pc[IdleId] = "run"
      /\ IdsInOrder(state, pc, nextId)
      /\ SlotsOwned(all, stack, pc, arg, freeSlots, nextFresh)
      /\ SlotsMapped(state, stack, pc, arg, freeSlots, mapped)
      /\ RetiredCodesTrue
  BY DEF SchedInv
<1>2. /\ UNCHANGED <<state, current, ready, toReap, all, retired, slice>>
      /\ UNCHANGED <<freeSlots, nextFresh, mapped, slotsBy>>
      /\ UNCHANGED <<stack, popped, sleeping, joinq, readq, nextId, hung>>
  BY DEF svars, kvars
<1>3. TypeOK'
  <2>1. Up' => Len(ready') <= MaxThreads
    BY <1>1, <1>2 DEF TypeOK
  <2> QED BY <1>1, <1>2, <2>1 DEF TypeOK
<1>4. /\ Waiting(state, joinq, readq, pc', popped)
      /\ Ending(state, current, ready, toReap, all, pc', arg')
      /\ SlotsOwned(all, stack, pc', arg', freeSlots, nextFresh)
      /\ SlotsMapped(state, stack, pc', arg', freeSlots, mapped)
      /\ IdsInOrder(state, pc', nextId)
  <2>1. t \in Ids /\ all \subseteq Ids /\ Waiting(state, joinq, readq, pc, popped)
        /\ Ending(state, current, ready, toReap, all, pc, arg)
    BY <1>1, Types DEF Whereabouts
  <2>2. Waiting(state, joinq, readq, pc', popped)
    <3>1. \A u \in Ids : pc'[u] = "wake" <=> pc[u] = "wake"
      BY DEF Plain
    <3> QED BY <2>1, <3>1 DEF Waiting
  <2>5. IdsInOrder(state, pc', nextId)
    <3>1. Spawning(pc') = Spawning(pc)
      BY DEF Plain, Spawning
    <3> QED BY <1>1, <3>1 DEF IdsInOrder
  <2>3. Ending(state, current, ready, toReap, all, pc', arg')
    BY <2>1, PlainStep
  <2>4. /\ SlotsOwned(all, stack, pc', arg', freeSlots, nextFresh)
        /\ SlotsMapped(state, stack, pc', arg', freeSlots, mapped)
    BY <1>1, <2>1, PlainStep
  <2> QED BY <2>2, <2>3, <2>4, <2>5
<1>5. Whereabouts'
  BY <1>1, <1>2, <1>4 DEF Whereabouts
<1>6. RetiredCodesTrue'
  <2>1. \A i \in 1 .. Len(retired) : retired[i].id \in Ids /\ retired[i].id # t
    <3>1. retired \in Seq([id : Ids, code : Codes]) /\ state[t] = "Running"
      BY <1>1, Types DEF Whereabouts
    <3>2. \A i \in 1 .. Len(retired) : retired[i].id \in Ids
      BY <3>1, RecordIds
    <3> QED BY <3>1, <3>2, <1>1 DEF RetiredCodesTrue
  <2> QED BY <1>1, <1>2, <2>1 DEF RetiredCodesTrue
<1>7. IdleOnlyIfNothingReady'
  BY <1>2 DEF IdleOnlyIfNothingReady
<1>8. pc'[IdleId] = "run"
  BY <1>1, Constants
<1> QED BY <1>2, <1>3, <1>4, <1>5, <1>6, <1>7, <1>8 DEF SchedInv

\* The plain places of a thread, when its argument stays or is set for a join.
LEMMA PlainPlace ==
    ASSUME SchedInv, NEW t \in Ids, current = t, pc[t] \in Plain \ {"run"} \/ t # IdleId, pc[t] \in Plain,
           NEW to \in Plain, pc' = [pc EXCEPT ![t] = to],
           \/ arg' = arg /\ (to \in {"join", "joinblock"} => arg[t] \in Ids)
           \/ arg' = [arg EXCEPT ![t] = None] /\ to \notin {"join", "joinblock"}
           \/ \E u \in Ids : arg' = [arg EXCEPT ![t] = u]
    PROVE  /\ t # IdleId /\ pc' \in [Ids -> PCs] /\ pc'[t] \in Plain
           /\ \A u \in Ids \ {t} : pc'[u] = pc[u] /\ arg'[u] = arg[u]
           /\ arg' \in [Ids -> Ids \cup Slots \cup {None}] /\ Arguments(pc', arg')
<1>1. /\ TypeOK /\ pc[IdleId] = "run" /\ Arguments(pc, arg)
  BY DEF SchedInv
<1>2. pc \in [Ids -> PCs] /\ arg \in [Ids -> Ids \cup Slots \cup {None}]
  BY <1>1, Types
<1>3. pc' \in [Ids -> PCs] /\ pc'[t] \in Plain /\ pc'[t] = to /\ \A u \in Ids \ {t} : pc'[u] = pc[u]
  BY <1>2 DEF Plain, PCs
<1>4. /\ arg' \in [Ids -> Ids \cup Slots \cup {None}] /\ \A u \in Ids \ {t} : arg'[u] = arg[u]
      /\ to \in {"join", "joinblock"} => arg'[t] \in Ids
  BY <1>2
<1>5. Arguments(pc', arg')
  BY <1>1, <1>3, <1>4 DEF Arguments, Plain
<1> QED BY <1>1, <1>3, <1>4, <1>5

\* The first half of a sleep.
LEMMA SleepStartInv ==
    ASSUME SchedInv, NEW t \in Ids, SleepStart(t)
    PROVE  SchedInv'
<1>1. /\ Up /\ current = t /\ pc[t] = "run" /\ t # IdleId /\ pc' = [pc EXCEPT ![t] = "sleep"]
      /\ \E n \in 0 .. MaxSleep : left' = [left EXCEPT ![t] = n]
      /\ arg' = arg
      /\ UNCHANGED <<svars, code, stack, popped, sleeping, joinq, readq, key, kvars, nextId, panicked, hung>>
  BY DEF SleepStart, At, Goto
<1>2. TypeOK
  BY DEF SchedInv
<1>3. /\ left' \in [Ids -> 0 .. MaxSleep] /\ key' \in BOOLEAN /\ code' \in [Ids -> Codes]
      /\ \A u \in Ids \ {t} : code'[u] = code[u]
  BY <1>1, <1>2, Types
<1>4. panicked' \in BOOLEAN
  BY <1>1, <1>2 DEF TypeOK
<1>5. "sleep" \in Plain /\ "run" \in Plain /\ "sleep" \notin {"join", "joinblock"}
  BY DEF Plain
<1>6. /\ pc' \in [Ids -> PCs] /\ pc'[t] \in Plain
      /\ \A u \in Ids \ {t} : pc'[u] = pc[u] /\ arg'[u] = arg[u]
      /\ arg' \in [Ids -> Ids \cup Slots \cup {None}] /\ Arguments(pc', arg')
  BY <1>1, <1>5, PlainPlace
<1> QED BY <1>1, <1>3, <1>4, <1>5, <1>6, QuietInv

\* join finds its target, finds its code in the record, or panics.
LEMMA JoinInv ==
    ASSUME SchedInv, NEW t \in Ids, NEW u \in Ids, Join(t, u)
    PROVE  SchedInv'
<1>1. /\ Up /\ current = t /\ pc[t] = "run" /\ t # IdleId
      /\ \/ pc' = [pc EXCEPT ![t] = "join"] /\ arg' = [arg EXCEPT ![t] = u] /\ UNCHANGED panicked
         \/ pc' = pc /\ arg' = arg /\ panicked' = ~\E i \in 1 .. Len(retired) : retired[i].id = u
      /\ UNCHANGED <<svars, code, stack, popped, sleeping, left, joinq, readq, key, kvars, nextId, hung>>
  BY DEF Join, At, Goto, wvars
<1>2. TypeOK
  BY DEF SchedInv
<1>3. /\ left' \in [Ids -> 0 .. MaxSleep] /\ key' \in BOOLEAN /\ code' \in [Ids -> Codes]
      /\ \A v \in Ids \ {t} : code'[v] = code[v]
  BY <1>1, <1>2, Types
<1>4. panicked' \in BOOLEAN
  BY <1>1, <1>2 DEF TypeOK
<1>5. "join" \in Plain /\ "run" \in Plain /\ "run" \notin {"join", "joinblock"}
  BY DEF Plain
<1>6. pc' = [pc EXCEPT ![t] = "join"] \/ pc' = [pc EXCEPT ![t] = "run"]
  BY <1>1, <1>2, Types
<1>7. /\ pc' \in [Ids -> PCs] /\ pc'[t] \in Plain
      /\ \A v \in Ids \ {t} : pc'[v] = pc[v] /\ arg'[v] = arg[v]
      /\ arg' \in [Ids -> Ids \cup Slots \cup {None}] /\ Arguments(pc', arg')
  <2>1. CASE pc' = [pc EXCEPT ![t] = "join"] /\ arg' = [arg EXCEPT ![t] = u]
    BY <2>1, <1>1, <1>5, PlainPlace
  <2>2. CASE pc' = pc /\ arg' = arg
    BY <2>2, <1>1, <1>2, <1>5, Types DEF SchedInv
  <2> QED BY <1>1, <2>1, <2>2
<1> QED BY <1>1, <1>3, <1>4, <1>5, <1>7, QuietInv

\* The join's first look at its target.
LEMMA JoinCheckInv ==
    ASSUME SchedInv, NEW t \in Ids, JoinCheck(t)
    PROVE  SchedInv'
<1>1. /\ Up /\ current = t /\ pc[t] = "join"
      /\ \/ pc' = [pc EXCEPT ![t] = "run"] /\ arg' = [arg EXCEPT ![t] = None]
         \/ pc' = [pc EXCEPT ![t] = "joinblock"] /\ arg' = arg
      /\ UNCHANGED <<svars, code, stack, popped, sleeping, left, joinq, readq, key, kvars, nextId, panicked, hung>>
  BY DEF JoinCheck, At, Goto, wvars
<1>2. TypeOK /\ arg[t] \in Ids
  BY <1>1 DEF SchedInv, Arguments
<1>3. /\ left' \in [Ids -> 0 .. MaxSleep] /\ key' \in BOOLEAN /\ code' \in [Ids -> Codes]
      /\ \A v \in Ids \ {t} : code'[v] = code[v]
  BY <1>1, <1>2, Types
<1>4. panicked' \in BOOLEAN
  BY <1>1, <1>2 DEF TypeOK
<1>5. "join" \in Plain \ {"run"} /\ "run" \in Plain /\ "joinblock" \in Plain /\ "run" \notin {"join", "joinblock"}
  BY DEF Plain
<1>6. /\ t # IdleId /\ pc' \in [Ids -> PCs] /\ pc'[t] \in Plain
      /\ \A v \in Ids \ {t} : pc'[v] = pc[v] /\ arg'[v] = arg[v]
      /\ arg' \in [Ids -> Ids \cup Slots \cup {None}] /\ Arguments(pc', arg')
  BY <1>1, <1>2, <1>5, PlainPlace
<1> QED BY <1>1, <1>3, <1>4, <1>5, <1>6, QuietInv

\* The join's second look, with interrupts off: it returns, or it queues up and blocks.
LEMMA JoinBlockInv ==
    ASSUME SchedInv, NEW t \in Ids, JoinBlock(t)
    PROVE  SchedInv'
<1>1. /\ Up /\ current = t /\ pc[t] = "joinblock"
      /\ UNCHANGED <<code, stack, popped, sleeping, left, readq, key, nextId>>
  BY DEF JoinBlock, At
<1>2. TypeOK /\ arg[t] \in Ids /\ t # IdleId
  BY <1>1 DEF SchedInv, Arguments
<1>3. "joinblock" \in Plain \ {"run"} /\ "run" \in Plain /\ "join" \in Plain /\ "run" \notin {"join", "joinblock"}
  BY DEF Plain
<1>4. CASE /\ pc' = [pc EXCEPT ![t] = "run"] /\ arg' = [arg EXCEPT ![t] = None]
           /\ UNCHANGED <<svars, joinq, kvars, panicked, hung>>
  <2>1. /\ left' \in [Ids -> 0 .. MaxSleep] /\ key' \in BOOLEAN /\ code' \in [Ids -> Codes]
        /\ \A v \in Ids \ {t} : code'[v] = code[v]
    BY <1>1, <1>2, Types
  <2>2. panicked' \in BOOLEAN
    BY <1>2, <1>4 DEF TypeOK
  <2>3. /\ pc' \in [Ids -> PCs] /\ pc'[t] \in Plain
        /\ \A v \in Ids \ {t} : pc'[v] = pc[v] /\ arg'[v] = arg[v]
        /\ arg' \in [Ids -> Ids \cup Slots \cup {None}] /\ Arguments(pc', arg')
    BY <1>1, <1>2, <1>3, <1>4, PlainPlace
  <2> QED BY <1>1, <1>2, <1>3, <1>4, <2>1, <2>2, <2>3, QuietInv
<1>5. CASE /\ pc' = [pc EXCEPT ![t] = "join"] /\ joinq' = Append(joinq, t)
           /\ Schedule([state EXCEPT ![t] = "Blocked"], ready, slice) /\ UNCHANGED arg
  <2>1. "Blocked" \in {"Blocked", "Sleeping"} /\ "Blocked" # "Sleeping"
    OBVIOUS
  <2> QED BY <1>1, <1>2, <1>3, <1>5, <2>1, BlockInv
<1> QED BY <1>4, <1>5 DEF JoinBlock, Goto

\* Reading the keyboard: take the byte, or go and wait.
LEMMA ReadKeyInv ==
    ASSUME SchedInv, NEW t \in Ids, ReadKey(t)
    PROVE  SchedInv'
<1>1. /\ Up /\ current = t /\ pc[t] \in {"run", "read"} /\ t # IdleId
      /\ key' = FALSE /\ arg' = arg
      /\ \E to \in {"run", "readblock"} : pc' = [pc EXCEPT ![t] = to]
      /\ UNCHANGED <<svars, code, stack, popped, sleeping, left, joinq, readq, kvars, nextId, panicked, hung>>
  BY DEF ReadKey, At, Goto
<1>2. TypeOK
  BY DEF SchedInv
<1>3. /\ left' \in [Ids -> 0 .. MaxSleep] /\ key' \in BOOLEAN /\ code' \in [Ids -> Codes]
      /\ \A v \in Ids \ {t} : code'[v] = code[v]
  BY <1>1, <1>2, Types
<1>4. panicked' \in BOOLEAN
  BY <1>1, <1>2 DEF TypeOK
<1>5. /\ "run" \in Plain /\ "read" \in Plain /\ "readblock" \in Plain
      /\ "run" \notin {"join", "joinblock"} /\ "readblock" \notin {"join", "joinblock"}
  BY DEF Plain
<1>6. /\ pc' \in [Ids -> PCs] /\ pc'[t] \in Plain
      /\ \A v \in Ids \ {t} : pc'[v] = pc[v] /\ arg'[v] = arg[v]
      /\ arg' \in [Ids -> Ids \cup Slots \cup {None}] /\ Arguments(pc', arg')
  BY <1>1, <1>5, PlainPlace
<1> QED BY <1>1, <1>3, <1>4, <1>5, <1>6, QuietInv

\* The keyboard reader looks again with interrupts off, and blocks.
LEMMA ReadBlockInv ==
    ASSUME SchedInv, NEW t \in Ids, ReadBlock(t)
    PROVE  SchedInv'
<1>1. /\ Up /\ current = t /\ pc[t] = "readblock" /\ pc' = [pc EXCEPT ![t] = "read"]
      /\ UNCHANGED <<code, stack, arg, popped, sleeping, left, joinq, key, nextId>>
  BY DEF ReadBlock, At, Goto
<1>2. TypeOK /\ t # IdleId
  BY <1>1 DEF SchedInv
<1>3. "readblock" \in Plain /\ "read" \in Plain /\ "read" \notin {"join", "joinblock"}
  BY DEF Plain
<1>4. CASE UNCHANGED <<svars, readq, kvars, panicked, hung>>
  <2>1. /\ left' \in [Ids -> 0 .. MaxSleep] /\ key' \in BOOLEAN /\ code' \in [Ids -> Codes]
        /\ \A v \in Ids \ {t} : code'[v] = code[v]
    BY <1>1, <1>2, Types
  <2>2. panicked' \in BOOLEAN
    BY <1>2, <1>4 DEF TypeOK
  <2>3. /\ pc' \in [Ids -> PCs] /\ pc'[t] \in Plain
        /\ \A v \in Ids \ {t} : pc'[v] = pc[v] /\ arg'[v] = arg[v]
        /\ arg' \in [Ids -> Ids \cup Slots \cup {None}] /\ Arguments(pc', arg')
    BY <1>1, <1>2, <1>3, PlainPlace
  <2> QED BY <1>1, <1>2, <1>3, <1>4, <2>1, <2>2, <2>3, QuietInv
<1>5. CASE /\ readq' = Append(readq, t)
           /\ Schedule([state EXCEPT ![t] = "Blocked"], ready, slice)
  <2>1. "Blocked" \in {"Blocked", "Sleeping"} /\ "Blocked" # "Sleeping"
    OBVIOUS
  <2> QED BY <1>1, <1>2, <1>3, <1>5, <2>1, BlockInv
<1> QED BY <1>4, <1>5 DEF ReadBlock

\* The trampoline stores the exit code of the running thread.
LEMMA ExitCodeInv ==
    ASSUME SchedInv, NEW t \in Ids, ExitCode(t)
    PROVE  SchedInv'
<1>1. /\ Up /\ current = t /\ pc[t] = "run" /\ t # IdleId
      /\ pc' = [pc EXCEPT ![t] = "exit"] /\ arg' = arg
      /\ \E c \in Codes : code' = [code EXCEPT ![t] = c]
      /\ UNCHANGED <<svars, stack, popped, sleeping, left, joinq, readq, key, kvars, nextId, panicked, hung>>
  BY DEF ExitCode, At, Goto, wvars
<1>2. TypeOK
  BY DEF SchedInv
<1>3. /\ left' \in [Ids -> 0 .. MaxSleep] /\ key' \in BOOLEAN /\ code' \in [Ids -> Codes]
      /\ \A v \in Ids \ {t} : code'[v] = code[v]
  BY <1>1, <1>2, Types
<1>4. panicked' \in BOOLEAN
  BY <1>1, <1>2 DEF TypeOK
<1>5. "run" \in Plain /\ "exit" \in Plain /\ "exit" \notin {"join", "joinblock"}
  BY DEF Plain
<1>6. /\ pc' \in [Ids -> PCs] /\ pc'[t] \in Plain
      /\ \A v \in Ids \ {t} : pc'[v] = pc[v] /\ arg'[v] = arg[v]
      /\ arg' \in [Ids -> Ids \cup Slots \cup {None}] /\ Arguments(pc', arg')
  BY <1>1, <1>5, PlainPlace
<1> QED BY <1>1, <1>3, <1>4, <1>5, <1>6, QuietInv

-----------------------------------------------------------------------------
(* Interrupts and exits. *)

\* An arrangement of a set of threads has each of them once.
LEMMA OrdersProperties ==
    ASSUME NEW S, S \subseteq Ids, NEW q \in Orders(S)
    PROVE  q \in Seq(Ids) /\ Distinct(q) /\ \A x : In(x, q) <=> x \in S
<1>1. IsFiniteSet(Ids)
  BY Constants, FS_Interval DEF Ids
<1>2. IsFiniteSet(S)
  BY <1>1, FS_Subset
<1>3. Cardinality(S) \in Nat
  BY <1>2, FS_CardinalityType
<1>4. q \in [1 .. Cardinality(S) -> S] /\ Distinct(q) /\ \A x \in S : In(x, q)
  BY DEF Orders
<1>5. q \in Seq(S) /\ Len(q) = Cardinality(S)
  BY <1>3, <1>4
<1>6. \A x : In(x, q) => x \in S
  BY <1>4, <1>5 DEF In
<1>7. q \in Seq(Ids)
  BY <1>3, <1>4
<1> QED BY <1>4, <1>6, <1>7

\* The wait queues look only at who is blocked and who has exited.
LEMMA WaitingStates ==
    ASSUME NEW st, NEW st1, NEW jq, NEW dq, NEW pcs, NEW pp,
           Waiting(st, jq, dq, pcs, pp),
           \A t \in Ids : st1[t] \in {"Blocked", "Exited"} <=> st[t] \in {"Blocked", "Exited"},
           \A t \in Ids : st1[t] = "Blocked" => st[t] = "Blocked"
    PROVE  Waiting(st1, jq, dq, pcs, pp)
BY DEF Waiting

\* A step that wakes threads and does not reschedule.
LEMMA WokenInv ==
    ASSUME SchedInv, Up,
           NEW st \in [Ids -> States], NEW rq \in Seq(Ids),
           \A t \in Ids : (st[t] = "New" <=> state[t] = "New") /\ (st[t] = "Exited" <=> state[t] = "Exited"),
           st[current] = "Running", current # IdleId \/ rq = ready,
           Placed(st, current, rq), Asleep(st, sleeping'), Waiting(st, joinq', readq', pc', popped'),
           Ending(st, current, rq, toReap, all, pc', arg'),
           SlotsOwned(all, stack, pc', arg', freeSlots, nextFresh),
           SlotsMapped(state, stack, pc', arg', freeSlots, mapped),
           IdsInOrder(state, pc', nextId),
           Arguments(pc', arg'), pc'[IdleId] = "run",
           sleeping' \subseteq Ids, left' \in [Ids -> 0 .. MaxSleep], joinq' \in Seq(Ids), readq' \in Seq(Ids),
           key' \in BOOLEAN, pc' \in [Ids -> PCs], arg' \in [Ids -> Ids \cup Slots \cup {None}],
           popped' \in [Ids -> Ids \cup {None}], slice' \in 1 .. TimesliceTicks,
           UNCHANGED <<code, stack, nextId, current, toReap, all, retired, kvars, hung>>,
           state' = st, ready' = rq, panicked' = Overflows(rq)
    PROVE  SchedInv'
<1> USE DEF SchedInv
<1>1. UNCHANGED <<freeSlots, nextFresh, mapped, slotsBy>>
  BY DEF kvars
<1>2. TypeOK'
  <2>1. panicked' \in BOOLEAN
    BY DEF Overflows
  <2>2. Up' => Len(ready') <= MaxThreads
    <3>1. Up' => ~(Len(rq) > MaxThreads)
      BY Zenon DEF Up, Overflows
    <3>2. Len(rq) \in Nat /\ MaxThreads \in Nat
      BY Constants, LenProperties
    <3> QED BY <3>1, <3>2
  <2> QED BY <1>1, <2>1, <2>2 DEF TypeOK
<1>3. Whereabouts'
  BY DEF Whereabouts
<1>4. SlotsMapped(state', stack', pc', arg', freeSlots', mapped')
  BY <1>1 DEF SlotsMapped
<1>5. RetiredCodesTrue'
  <2>1. \A i \in 1 .. Len(retired) : retired[i].id \in Ids
    BY RecordIds, Types
  <2> QED BY <2>1 DEF RetiredCodesTrue
<1>6. IdleOnlyIfNothingReady'
  <2>1. SUFFICES ASSUME current = IdleId PROVE IdleOnlyIfNothingReady'
    BY DEF IdleOnlyIfNothingReady
  <2>2. ready' = ready /\ \A i \in 1 .. Len(ready) : ready[i] \in Ids
    BY <2>1, Types, ElementOfSeq
  <2> QED BY <2>1, <2>2 DEF IdleOnlyIfNothingReady
<1>7. IdsInOrder(state', pc', nextId')
  BY DEF IdsInOrder
<1>8. SlotsOwned(all', stack', pc', arg', freeSlots', nextFresh')
  BY <1>1
<1>9. \A s \in mapped' : s < nextFresh'
  BY <1>1
<1> QED BY <1>2, <1>3, <1>4, <1>5, <1>6, <1>7, <1>8, <1>9

\* The timer interrupt: due sleepers wake, the timeslice counts down.
LEMMA TimerTickInv ==
    ASSUME SchedInv, TimerTick
    PROVE  SchedInv'
<1> DEFINE left1  == [t \in Ids |-> IF left[t] = 0 THEN 0 ELSE left[t] - 1]
           due    == {t \in sleeping : left1[t] = 0}
           woken  == {t \in due : state[t] = "Sleeping"}
           ts     == IF SliceOver THEN TimesliceTicks ELSE slice - 1
<1>1. /\ Up /\ left' = left1 /\ sleeping' = sleeping \ due
      /\ UNCHANGED <<code, stack, pc, arg, popped, joinq, readq, key, nextId>>
  BY DEF TimerTick, tvars
<1>2. PICK q \in Orders(woken) :
          IF SliceOver \/ PreemptsIdle(woken # {})
          THEN Schedule(SetReady(state, q), ready \o q, ts)
          ELSE /\ state' = SetReady(state, q) /\ ready' = ready \o q /\ slice' = ts
               /\ panicked' = Overflows(ready \o q)
               /\ UNCHANGED <<current, toReap, all, retired, kvars, hung>>
  BY DEF TimerTick
<1>3. /\ TypeOK /\ Whereabouts /\ pc[IdleId] = "run" /\ Arguments(pc, arg)
      /\ IdsInOrder(state, pc, nextId)
      /\ SlotsOwned(all, stack, pc, arg, freeSlots, nextFresh)
      /\ SlotsMapped(state, stack, pc, arg, freeSlots, mapped)
  BY <1>1 DEF SchedInv
<1>4. /\ left' \in [Ids -> 0 .. MaxSleep] /\ sleeping' \subseteq Ids
      /\ key' \in BOOLEAN /\ joinq' \in Seq(Ids) /\ readq' \in Seq(Ids)
      /\ pc' \in [Ids -> PCs] /\ arg' \in [Ids -> Ids \cup Slots \cup {None}]
      /\ popped' \in [Ids -> Ids \cup {None}]
  <2>1. left' \in [Ids -> 0 .. MaxSleep]
    <3>1. left \in [Ids -> 0 .. MaxSleep] /\ MaxSleep \in Nat
      BY <1>3, Types, Constants
    <3>2. \A t \in Ids : left1[t] \in 0 .. MaxSleep
      BY <3>1
    <3> QED BY <1>1, <3>2
  <2> HIDE DEF left1, due
  <2> QED BY <1>1, <1>3, <2>1, Types
<1>5. ts \in 1 .. TimesliceTicks
  <2>1. slice \in 1 .. TimesliceTicks /\ TimesliceTicks \in Nat \ {0}
    BY <1>3, Types, Constants
  <2> QED BY <2>1 DEF SliceOver
<1>6. /\ woken \subseteq Ids /\ sleeping \subseteq Ids
      /\ \A t \in Ids : t \in sleeping' <=> t \in sleeping /\ t \notin woken
      /\ \A t \in woken : state[t] = "Sleeping"
  BY <1>1, <1>3, Types DEF Whereabouts, Asleep
<1> HIDE DEF woken, due, left1, ts
<1>7. q \in Seq(Ids) /\ Distinct(q) /\ \A x : In(x, q) <=> x \in woken
  BY <1>2, <1>6, OrdersProperties
<1>8. \A t \in Ids : In(t, q) => state[t] \in {"Blocked", "Sleeping"} /\ t # current
  BY <1>3, <1>6, <1>7 DEF Whereabouts
<1> DEFINE st == SetReady(state, q)
           rq == ready \o q
<1>9. /\ st \in [Ids -> States] /\ rq \in Seq(Ids)
      /\ \A t \in Ids : st[t] = IF In(t, q) THEN "Ready" ELSE state[t]
      /\ Placed(st, current, rq)
      /\ Ending(st, current, rq, toReap, all, pc, arg)
  <2>1. /\ state \in [Ids -> States] /\ ready \in Seq(Ids) /\ current \in Ids /\ all \subseteq Ids
        /\ Placed(state, current, ready) /\ Ending(state, current, ready, toReap, all, pc, arg)
    BY <1>3, Types DEF Whereabouts
  <2> QED BY <1>7, <1>8, <2>1, WakeUp
<1> HIDE DEF st, rq
<1>10. \A t \in Ids : st[t] = IF t \in woken THEN "Ready" ELSE state[t]
  BY <1>7, <1>9
<1>11. Asleep(st, sleeping')
  BY <1>3, <1>6, <1>10 DEF Asleep, Whereabouts
<1>12. Waiting(st, joinq', readq', pc', popped')
  <2>1. Waiting(state, joinq, readq, pc, popped)
    BY <1>3 DEF Whereabouts
  <2>2. \A t \in Ids : st[t] \in {"Blocked", "Exited"} <=> state[t] \in {"Blocked", "Exited"}
    BY <1>6, <1>10
  <2>3. \A t \in Ids : st[t] = "Blocked" => state[t] = "Blocked"
    BY <1>6, <1>10
  <2>4. Waiting(st, joinq, readq, pc, popped)
    BY <2>1, <2>2, <2>3, WaitingStates
  <2> QED BY <2>4, <1>1
<1>13. \A t \in Ids : (st[t] = "New" <=> state[t] = "New") /\ (st[t] = "Exited" <=> state[t] = "Exited")
  BY <1>6, <1>10
<1>14. st[current] = "Running" /\ current \in Ids
  BY <1>3, <1>6, <1>10, Types DEF Whereabouts
<1>15. CASE SliceOver \/ PreemptsIdle(woken # {})
  <2>1. Schedule(st, rq, ts)
    BY <1>2, <1>15 DEF st, rq
  <2> QED BY <1>1, <1>3, <1>4, <1>5, <1>9, <1>11, <1>12, <1>13, <1>14, <2>1, ScheduleInv
<1>16. CASE ~(SliceOver \/ PreemptsIdle(woken # {}))
  <2>1. /\ state' = st /\ ready' = rq /\ slice' = ts /\ panicked' = Overflows(rq)
        /\ UNCHANGED <<current, toReap, all, retired, kvars, hung>>
    BY <1>2, <1>16 DEF st, rq
  <2>2. current # IdleId \/ rq = ready
    <3>1. SUFFICES ASSUME current = IdleId PROVE rq = ready
      OBVIOUS
    <3>2. woken = {}
      BY <3>1, <1>16 DEF PreemptsIdle
    <3>3. Len(q) = 0
      <4>1. ~(1 \in 1 .. Len(q))
        BY <1>7, <3>2 DEF In
      <4> QED BY <1>7, <4>1, LenProperties
    <3>4. q = <<>>
      BY <1>7, <3>3, EmptySeq
    <3> QED BY <3>4, <1>3, Types DEF rq
  <2> QED BY <1>1, <1>3, <1>4, <1>5, <1>9, <1>11, <1>12, <1>13, <1>14, <2>1, <2>2, WokenInv
<1> QED BY <1>15, <1>16

\* The wait queues after one of them was popped for a thread h that is woken (or for
\* nobody, h = None, when all in it have exited).
LEMMA PoppedWaiting ==
    ASSUME NEW st, NEW st1, NEW jq, NEW dq, NEW jq1, NEW dq1, NEW pcs, NEW pp, NEW h,
           Waiting(st, jq, dq, pcs, pp), Distinct(jq1), Distinct(dq1),
           \A t \in Ids : st1[t] = IF t = h THEN "Ready" ELSE st[t],
           \A t \in Ids : In(t, jq1) => In(t, jq) /\ t # h,
           \A t \in Ids : In(t, dq1) => In(t, dq) /\ t # h,
           \A t \in Ids : In(t, jq) /\ st[t] = "Blocked" /\ t # h => In(t, jq1),
           \A t \in Ids : In(t, dq) /\ st[t] = "Blocked" /\ t # h => In(t, dq1),
           h \in Ids => (In(h, jq) \/ In(h, dq))
    PROVE  Waiting(st1, jq1, dq1, pcs, pp)
<1>1. \A u \in Ids : pcs[u] = "wake" => pp[u] \in Ids /\ pp[u] # h
  BY DEF Waiting
<1> QED BY <1>1 DEF Waiting

\* The keyboard interrupt wakes the longest-waiting reader.
LEMMA KeyboardIrqInv ==
    ASSUME SchedInv, KeyboardIrq
    PROVE  SchedInv'
<1> DEFINE waiting == Live(state, readq)
           h  == IF waiting = <<>> THEN None ELSE Head(waiting)
           w  == IF waiting = <<>> THEN <<>> ELSE <<Head(waiting)>>
           q  == Kept(w, {t \in Ids : state[t] = "Blocked"})
           st == SetReady(state, w)
           rq == ready \o q
<1>1. /\ Up /\ key' = TRUE
      /\ readq' = IF waiting = <<>> THEN <<>> ELSE Behind(Head(waiting), readq)
      /\ IF PreemptsIdle(w # <<>>)
         THEN Schedule(st, rq, slice)
         ELSE /\ state' = st /\ ready' = rq /\ panicked' = Overflows(rq)
              /\ UNCHANGED <<current, toReap, all, retired, slice, kvars, hung>>
      /\ UNCHANGED <<code, stack, pc, arg, popped, sleeping, left, joinq, nextId>>
  BY DEF KeyboardIrq, tvars
<1>2. /\ TypeOK /\ Whereabouts /\ pc[IdleId] = "run" /\ Arguments(pc, arg)
      /\ IdsInOrder(state, pc, nextId)
      /\ SlotsOwned(all, stack, pc, arg, freeSlots, nextFresh)
      /\ SlotsMapped(state, stack, pc, arg, freeSlots, mapped)
  BY <1>1 DEF SchedInv
<1>3. readq \in Seq(Ids) /\ Distinct(readq) /\ Waiting(state, joinq, readq, pc, popped)
  BY <1>2, Types DEF Whereabouts, Waiting
<1>4. /\ readq' \in Seq(Ids) /\ Distinct(readq')
      /\ \A t \in Ids : In(t, readq') => In(t, readq) /\ t # h
      /\ \A t \in Ids : In(t, readq) /\ state[t] # "Exited" => In(t, readq') \/ t = h
      /\ waiting # <<>> => h \in Ids /\ In(h, readq) /\ state[h] # "Exited"
  <2>1. CASE waiting = <<>>
    <3>1. \A t \in Ids : In(t, readq) => state[t] = "Exited"
      BY <1>3, <2>1, PopFirst
    <3>2. readq' = <<>>
      BY <1>1, <2>1
    <3> QED BY <2>1, <3>1, <3>2 DEF In, Distinct
  <2>2. CASE waiting # <<>>
    <3>1. h = Head(Live(state, readq)) /\ readq' = Behind(Head(Live(state, readq)), readq)
      BY <1>1, <2>2
    <3>2. /\ Head(Live(state, readq)) \in Ids /\ In(Head(Live(state, readq)), readq)
          /\ state[Head(Live(state, readq))] # "Exited"
          /\ Behind(Head(Live(state, readq)), readq) \in Seq(Ids)
          /\ Distinct(Behind(Head(Live(state, readq)), readq))
          /\ \A t \in Ids : In(t, Behind(Head(Live(state, readq)), readq)) => In(t, readq) /\ t # Head(Live(state, readq))
          /\ \A t \in Ids : In(t, readq) /\ state[t] # "Exited" =>
                 In(t, Behind(Head(Live(state, readq)), readq)) \/ t = Head(Live(state, readq))
      BY <1>3, <2>2, PopFirst
    <3> HIDE DEF h, waiting
    <3> QED BY <3>1, <3>2
  <2> QED BY <2>1, <2>2
<1>5. waiting # <<>> => state[h] = "Blocked"
  BY <1>3, <1>4 DEF Waiting
<1>6. /\ w \in Seq(Ids) /\ Distinct(w) /\ \A x \in Ids : In(x, w) <=> x = h
      /\ w = <<>> => h = None
  <2>1. CASE waiting = <<>>
    BY <2>1, Constants DEF In, Distinct
  <2>2. CASE waiting # <<>>
    <3>1. w = <<h>> /\ h \in Ids
      BY <2>2, <1>4
    <3> HIDE DEF w, h
    <3>2. w \in Seq(Ids) /\ Distinct(w) /\ \A x : In(x, w) <=> x = h
      BY <3>1 DEF In, Distinct
    <3>3. w # <<>>
      BY <3>1
    <3> QED BY <3>2, <3>3
  <2> QED BY <2>1, <2>2
<1>7. h \in Ids => state[h] = "Blocked" /\ In(h, readq)
  BY <1>4, <1>5, Constants
<1>8. key' \in BOOLEAN
  BY <1>1
<1> HIDE DEF w, h, waiting
<1>9. q \in Seq(Ids) /\ Distinct(q) /\ \A x \in Ids : In(x, q) <=> x = h
  <2> DEFINE B == {t \in Ids : state[t] = "Blocked"}
  <2>1. q = Kept(w, B)
    OBVIOUS
  <2> HIDE DEF q
  <2>2. q \in Seq(Ids) /\ Distinct(q) /\ \A x : In(x, q) <=> In(x, w) /\ x \in B
    <3> HIDE DEF B
    <3> QED BY <1>6, <2>1, KeptProperties
  <2> QED BY <2>2, <1>6, <1>7
<1> HIDE DEF q
<1>10. st = SetReady(state, q)
  BY <1>6, <1>9 DEF SetReady
<1>11. \A t \in Ids : In(t, q) => state[t] \in {"Blocked", "Sleeping"} /\ t # current
  BY <1>2, <1>7, <1>9 DEF Whereabouts
<1>12. /\ st \in [Ids -> States] /\ rq \in Seq(Ids)
       /\ \A t \in Ids : st[t] = IF In(t, q) THEN "Ready" ELSE state[t]
       /\ Placed(st, current, rq)
       /\ Ending(st, current, rq, toReap, all, pc, arg)
  <2> HIDE DEF st
  <2>1. /\ state \in [Ids -> States] /\ ready \in Seq(Ids) /\ current \in Ids /\ all \subseteq Ids
        /\ Placed(state, current, ready) /\ Ending(state, current, ready, toReap, all, pc, arg)
    BY <1>2, Types DEF Whereabouts
  <2> QED BY <1>9, <1>10, <1>11, <2>1, WakeUp
<1> HIDE DEF st, rq
<1>13. \A t \in Ids : st[t] = IF t = h THEN "Ready" ELSE state[t]
  BY <1>9, <1>12
<1>14. Asleep(st, sleeping')
  BY <1>1, <1>2, <1>7, <1>13 DEF Asleep, Whereabouts
<1>15. Waiting(st, joinq', readq', pc', popped')
  <2>1. joinq' = joinq /\ pc' = pc /\ popped' = popped /\ Distinct(joinq)
    BY <1>1, <1>3 DEF Waiting
  <2>2. \A t \in Ids : In(t, joinq) => t # h
    BY <1>3, <1>7 DEF Waiting
  <2>3. /\ Waiting(state, joinq, readq, pc, popped) /\ Distinct(joinq) /\ Distinct(readq')
        /\ \A t \in Ids : st[t] = IF t = h THEN "Ready" ELSE state[t]
        /\ \A t \in Ids : In(t, joinq) => In(t, joinq) /\ t # h
        /\ \A t \in Ids : In(t, readq') => In(t, readq) /\ t # h
        /\ \A t \in Ids : In(t, joinq) /\ state[t] = "Blocked" /\ t # h => In(t, joinq)
        /\ \A t \in Ids : In(t, readq) /\ state[t] = "Blocked" /\ t # h => In(t, readq')
        /\ h \in Ids => (In(h, joinq) \/ In(h, readq))
    BY <1>3, <1>4, <1>7, <1>13, <2>1, <2>2
  <2>4. Waiting(st, joinq, readq', pc, popped)
    BY <2>3, PoppedWaiting
  <2> QED BY <2>1, <2>4
<1>16. \A t \in Ids : (st[t] = "New" <=> state[t] = "New") /\ (st[t] = "Exited" <=> state[t] = "Exited")
  BY <1>7, <1>13
<1>17. st[current] = "Running" /\ current \in Ids
  BY <1>2, <1>7, <1>13, Types DEF Whereabouts
<1>18. /\ left' \in [Ids -> 0 .. MaxSleep] /\ sleeping' \subseteq Ids /\ joinq' \in Seq(Ids)
       /\ pc' \in [Ids -> PCs] /\ arg' \in [Ids -> Ids \cup Slots \cup {None}]
       /\ popped' \in [Ids -> Ids \cup {None}] /\ slice \in 1 .. TimesliceTicks
  BY <1>1, <1>2, Types
<1>19. CASE PreemptsIdle(w # <<>>)
  <2>1. Schedule(st, rq, slice)
    BY <1>1, <1>19
  <2> QED BY <1>1, <1>2, <1>4, <1>8, <1>12, <1>14, <1>15, <1>16, <1>17, <1>18, <2>1, ScheduleInv
<1>20. CASE ~PreemptsIdle(w # <<>>)
  <2>1. /\ state' = st /\ ready' = rq /\ panicked' = Overflows(rq)
        /\ UNCHANGED <<current, toReap, all, retired, slice, kvars, hung>>
    BY <1>1, <1>20
  <2>2. current # IdleId \/ rq = ready
    <3>1. SUFFICES ASSUME current = IdleId PROVE rq = ready
      OBVIOUS
    <3>2. h = None
      BY <3>1, <1>20, <1>6 DEF PreemptsIdle
    <3>3. Len(q) = 0
      <4>1. ~(1 \in 1 .. Len(q))
        <5>1. 1 \in 1 .. Len(q) => q[1] \in Ids /\ In(q[1], q)
          BY <1>9, ElementOfSeq DEF In
        <5> QED BY <1>9, <3>2, <5>1, Constants
      <4> QED BY <1>9, <4>1, LenProperties
    <3>4. q = <<>>
      BY <1>9, <3>3, EmptySeq
    <3> QED BY <3>4, <1>2, Types DEF rq
  <2> QED BY <1>1, <1>2, <1>4, <1>8, <1>12, <1>14, <1>15, <1>16, <1>17, <1>18, <2>1, <2>2, WokenInv
<1> QED BY <1>19, <1>20

\* exit_current marks the running thread, wakes every joiner and leaves for good.
LEMMA ExitCurrentInv ==
    ASSUME SchedInv, NEW t \in Ids, ExitCurrent(t)
    PROVE  SchedInv'
<1> DEFINE st0 == [state EXCEPT ![t] = "Exited"]
           w == Live(st0, joinq)
           st == SetReady(st0, w)
           rq == ready \o w
<1>1. /\ Up /\ current = t /\ pc[t] = "exit" /\ joinq' = <<>> /\ Schedule(st, rq, slice)
      /\ UNCHANGED <<code, stack, pc, arg, popped, sleeping, left, readq, key, nextId>>
  BY DEF ExitCurrent, At, tvars
<1>2. /\ TypeOK /\ Whereabouts /\ pc[IdleId] = "run" /\ Arguments(pc, arg)
      /\ IdsInOrder(state, pc, nextId)
      /\ SlotsOwned(all, stack, pc, arg, freeSlots, nextFresh)
      /\ SlotsMapped(state, stack, pc, arg, freeSlots, mapped)
  BY <1>1 DEF SchedInv
<1>3. /\ joinq \in Seq(Ids) /\ Distinct(joinq) /\ Waiting(state, joinq, readq, pc, popped)
      /\ state[t] = "Running" /\ t # IdleId
  BY <1>1, <1>2, Types DEF Whereabouts, Waiting
<1>4. /\ st0 \in [Ids -> States] /\ st0[t] = "Exited"
      /\ \A u \in Ids : u # t => st0[u] = state[u]
  BY <1>2, Types DEF States
<1>5. w \in Seq(Ids) /\ Distinct(w) /\ \A u \in Ids : In(u, w) <=> In(u, joinq) /\ st0[u] # "Exited"
  <2> DEFINE S == {u \in Ids : st0[u] # "Exited"}
  <2>1. w = Kept(joinq, S)
    BY DEF Live
  <2>2. Kept(joinq, S) \in Seq(Ids) /\ Distinct(Kept(joinq, S))
        /\ \A x : In(x, Kept(joinq, S)) <=> In(x, joinq) /\ x \in S
    <3> HIDE DEF S
    <3> QED BY <1>3, KeptProperties
  <2> HIDE DEF w
  <2> QED BY <2>1, <2>2
<1> HIDE DEF st0, w
<1>6. \A u \in Ids : In(u, w) => st0[u] = "Blocked" /\ u # t
  <2>1. \A u \in Ids : In(u, joinq) => state[u] \in {"Blocked", "Exited"}
    BY <1>3 DEF Waiting
  <2> QED BY <2>1, <1>4, <1>5
<1>7. Placed(st0, t, ready) /\ Ending(st0, t, ready, toReap, all, pc, arg)
  <2>1. Placed(state, t, ready) /\ Ending(state, t, ready, toReap, all, pc, arg) /\ all \subseteq Ids
    BY <1>1, <1>2, Types DEF Whereabouts
  <2>2. Placed(st0, t, ready)
    BY <1>3, <1>4, <2>1, Constants DEF Placed
  <2>3. /\ \A u \in Ids : In(u, toReap) => st0[u] = "Exited"
        /\ \A u, v \in Ids : Reaps(pc, arg, u, v) => st0[v] = "Exited"
        /\ \A u \in Ids \ all : st0[u] \in {"New", "Exited"}
        /\ \A u \in all : st0[u] # "New"
    BY <1>4, <2>1 DEF Ending
  <2>4. \A u \in all : st0[u] = "Exited" /\ u # t => state[u] = "Exited"
    BY <1>4, <2>1
  <2> QED BY <2>1, <2>2, <2>3, <2>4 DEF Ending
<1>8. /\ st \in [Ids -> States] /\ rq \in Seq(Ids)
      /\ \A u \in Ids : st[u] = IF In(u, w) THEN "Ready" ELSE st0[u]
      /\ Placed(st, t, rq)
      /\ Ending(st, t, rq, toReap, all, pc, arg)
  <2>1. ready \in Seq(Ids) /\ all \subseteq Ids
    BY <1>2, Types
  <2>2. \A u \in Ids : In(u, w) => st0[u] \in {"Blocked", "Sleeping"} /\ u # t
    BY <1>6
  <2> QED BY <1>4, <1>5, <1>7, <2>1, <2>2, WakeUp
<1> HIDE DEF st, rq
<1>9. st[t] = "Exited" /\ \A u \in Ids : u # t => st[u] = IF In(u, joinq) /\ state[u] # "Exited" THEN "Ready" ELSE state[u]
  BY <1>4, <1>5, <1>6, <1>8
<1>10. \A u \in Ids : (st[u] = "New" <=> state[u] = "New") /\ (state[u] = "Exited" => st[u] = "Exited")
  <2>1. \A u \in Ids : In(u, joinq) => state[u] \in {"Blocked", "Exited"}
    BY <1>3 DEF Waiting
  <2> QED BY <1>3, <1>9, <2>1
<1>11. Asleep(st, sleeping')
  <2>1. \A u \in Ids : In(u, joinq) => state[u] \in {"Blocked", "Exited"}
    BY <1>3 DEF Waiting
  <2>2. sleeping' = sleeping /\ Asleep(state, sleeping)
    BY <1>1, <1>2 DEF Whereabouts
  <2> QED BY <1>3, <1>9, <2>1, <2>2 DEF Asleep
<1>12. Waiting(st, joinq', readq', pc', popped')
  <2>1. joinq' = <<>> /\ readq' = readq /\ pc' = pc /\ popped' = popped
    BY <1>1
  <2>2. Distinct(joinq') /\ \A u : ~In(u, joinq')
    BY <2>1 DEF Distinct, In
  <2>3. \A u \in Ids : In(u, readq) => st[u] = state[u]
    BY <1>3, <1>9 DEF Waiting
  <2>4. \A u \in Ids : pc[u] = "wake" => popped[u] \in Ids /\ st[popped[u]] = state[popped[u]]
    BY <1>3, <1>9 DEF Waiting
  <2>5. \A u \in Ids : st[u] = "Blocked" => state[u] = "Blocked" /\ ~In(u, joinq)
    BY <1>3, <1>9
  <2> QED BY <1>3, <2>1, <2>2, <2>3, <2>4, <2>5 DEF Waiting
<1>13. /\ left' \in [Ids -> 0 .. MaxSleep] /\ sleeping' \subseteq Ids
       /\ joinq' \in Seq(Ids) /\ readq' \in Seq(Ids) /\ key' \in BOOLEAN
       /\ pc' \in [Ids -> PCs] /\ arg' \in [Ids -> Ids \cup Slots \cup {None}]
       /\ popped' \in [Ids -> Ids \cup {None}] /\ slice \in 1 .. TimesliceTicks
  <2>1. <<>> \in Seq(Ids)
    OBVIOUS
  <2> QED BY <1>1, <1>2, <2>1, Types
<1> QED BY <1>1, <1>2, <1>3, <1>8, <1>9, <1>10, <1>11, <1>12, <1>13, ScheduleInv

-----------------------------------------------------------------------------
(* Spawning. *)

\* Reapers and owners depend on who reaps whom, who claims what and who has a stack.
LEMMA SameRoles ==
    ASSUME NEW pcs, NEW ag, NEW pcs1, NEW ag1, NEW al, al \subseteq Ids,
           \A u, x \in Ids : Reaps(pcs1, ag1, u, x) <=> Reaps(pcs, ag, u, x),
           \A u \in Ids, s \in Slots : Claims(pcs1, ag1, u, s) <=> Claims(pcs, ag, u, s),
           \A x \in Ids : HasStack(al, pcs1, ag1, x) <=> HasStack(al, pcs, ag, x),
           NEW st, NEW cur, NEW rq, NEW rp, NEW stk, NEW fs, NEW nf
    PROVE  /\ Ending(st, cur, rq, rp, al, pcs, ag) => Ending(st, cur, rq, rp, al, pcs1, ag1)
           /\ SlotsOwned(al, stk, pcs, ag, fs, nf) => SlotsOwned(al, stk, pcs1, ag1, fs, nf)
<1>1. Ending(st, cur, rq, rp, al, pcs, ag) => Ending(st, cur, rq, rp, al, pcs1, ag1)
  BY DEF Ending
<1>2. SlotsOwned(al, stk, pcs, ag, fs, nf) => SlotsOwned(al, stk, pcs1, ag1, fs, nf)
  BY DEF SlotsOwned
<1> QED BY <1>1, <1>2

\* The wait queues look only at who is about to wake whom.
LEMMA SameWakes ==
    ASSUME NEW st, NEW jq, NEW dq, NEW pcs, NEW pp, NEW pcs1, Waiting(st, jq, dq, pcs, pp),
           \A u \in Ids : pcs1[u] = "wake" <=> pcs[u] = "wake"
    PROVE  Waiting(st, jq, dq, pcs1, pp)
BY DEF Waiting

\* The spawns under way can be counted.
LEMMA SpawnCount ==
    ASSUME NEW pcs, NEW pcs1, NEW t \in Ids, \A u \in Ids \ {t} : pcs1[u] = pcs[u]
    PROVE  /\ Cardinality(Spawning(pcs)) \in Nat
           /\ t \in Spawning(pcs) => Cardinality(Spawning(pcs)) >= 1
           /\ t \notin Spawning(pcs) /\ t \in Spawning(pcs1) =>
                  Cardinality(Spawning(pcs1)) = Cardinality(Spawning(pcs)) + 1
           /\ t \in Spawning(pcs) /\ t \notin Spawning(pcs1) =>
                  Cardinality(Spawning(pcs1)) = Cardinality(Spawning(pcs)) - 1
           /\ (t \in Spawning(pcs) <=> t \in Spawning(pcs1)) =>
                  Spawning(pcs1) = Spawning(pcs)
<1>1. IsFiniteSet(Ids)
  BY Constants, FS_Interval DEF Ids
<1>2. Spawning(pcs) \subseteq Ids
  BY DEF Spawning
<1>3. IsFiniteSet(Spawning(pcs)) /\ Cardinality(Spawning(pcs)) \in Nat
  BY <1>1, <1>2, FS_Subset, FS_CardinalityType
<1>4. ASSUME t \notin Spawning(pcs), t \in Spawning(pcs1)
      PROVE  Cardinality(Spawning(pcs1)) = Cardinality(Spawning(pcs)) + 1
  <2>1. Spawning(pcs1) = Spawning(pcs) \cup {t}
    BY <1>4 DEF Spawning
  <2> QED BY <2>1, <1>3, <1>4, FS_AddElement
<1>5. ASSUME t \in Spawning(pcs)
      PROVE  Cardinality(Spawning(pcs) \ {t}) = Cardinality(Spawning(pcs)) - 1
             /\ Cardinality(Spawning(pcs) \ {t}) \in Nat
  <2>1. IsFiniteSet(Spawning(pcs) \ {t})
    BY <1>3, FS_RemoveElement
  <2> QED BY <2>1, <1>3, <1>5, FS_RemoveElement, FS_CardinalityType
<1>6. t \in Spawning(pcs) => Cardinality(Spawning(pcs)) >= 1
  BY <1>3, <1>5
<1>7. ASSUME t \in Spawning(pcs), t \notin Spawning(pcs1)
      PROVE  Cardinality(Spawning(pcs1)) = Cardinality(Spawning(pcs)) - 1
  <2>1. Spawning(pcs1) = Spawning(pcs) \ {t}
    BY <1>7 DEF Spawning
  <2> QED BY <2>1, <1>5, <1>7
<1>8. ASSUME t \in Spawning(pcs) <=> t \in Spawning(pcs1)
      PROVE  Spawning(pcs1) = Spawning(pcs)
  BY <1>8 DEF Spawning
<1> QED BY <1>3, <1>4, <1>6, <1>7, <1>8

\* spawn takes the slot lock.
LEMMA SpawnLockInv ==
    ASSUME SchedInv, NEW t \in Ids, SpawnLock(t)
    PROVE  SchedInv'
<1>1. /\ Up /\ current = t /\ pc[t] = "run" /\ t # IdleId /\ CanSpawn
      /\ slotsBy' = t /\ pc' = [pc EXCEPT ![t] = "lock"]
      /\ UNCHANGED <<state, current, ready, toReap, all, retired, slice, code, stack, arg, popped,
                     sleeping, left, joinq, readq, key, freeSlots, nextFresh, mapped, nextId,
                     panicked, hung>>
  BY DEF SpawnLock, At, Goto, svars, wvars
<1>2. /\ TypeOK /\ Whereabouts /\ pc[IdleId] = "run" /\ Arguments(pc, arg)
      /\ IdsInOrder(state, pc, nextId)
      /\ SlotsOwned(all, stack, pc, arg, freeSlots, nextFresh)
      /\ SlotsMapped(state, stack, pc, arg, freeSlots, mapped)
      /\ RetiredCodesTrue
  BY <1>1 DEF SchedInv
<1>3. /\ pc' \in [Ids -> PCs] /\ pc'[t] = "lock" /\ \A u \in Ids \ {t} : pc'[u] = pc[u]
  BY <1>1, <1>2, Types DEF PCs
<1>4. TypeOK'
  BY <1>1, <1>2, <1>3 DEF TypeOK, Up
<1>5. /\ \A u, x \in Ids : Reaps(pc', arg, u, x) <=> Reaps(pc, arg, u, x)
      /\ \A u \in Ids, s \in Slots : Claims(pc', arg, u, s) <=> Claims(pc, arg, u, s)
      /\ \A x \in Ids : HasStack(all, pc', arg, x) <=> HasStack(all, pc, arg, x)
      /\ \A u \in Ids : pc'[u] = "wake" <=> pc[u] = "wake"
  BY <1>1, <1>3 DEF Reaps, Killing, Claims, HasStack
<1>6. Whereabouts'
  <2>1. /\ Ending(state, current, ready, toReap, all, pc, arg) /\ all \subseteq Ids
        /\ Waiting(state, joinq, readq, pc, popped)
    BY <1>2, Types DEF Whereabouts
  <2>2. Ending(state, current, ready, toReap, all, pc', arg) /\ Waiting(state, joinq, readq, pc', popped)
    BY <1>5, <2>1, SameRoles, SameWakes
  <2> QED BY <1>1, <1>2, <2>2 DEF Whereabouts
<1>7. SlotsOwned(all, stack, pc', arg, freeSlots, nextFresh)
  BY <1>2, <1>5, Types, SameRoles
<1>8. SlotsMapped(state, stack, pc', arg, freeSlots, mapped)
  BY <1>2, <1>3 DEF SlotsMapped
<1>9. IdsInOrder(state, pc', nextId)
  <2>1. t \notin Spawning(pc) /\ t \in Spawning(pc')
    BY <1>1, <1>3 DEF Spawning
  <2>2. Cardinality(Spawning(pc')) = Cardinality(Spawning(pc)) + 1 /\ Cardinality(Spawning(pc)) \in Nat
    BY <2>1, <1>3, SpawnCount
  <2>3. nextId + Cardinality(Spawning(pc)) <= MaxId
    BY <1>1 DEF CanSpawn, Spawning
  <2>4. nextId \in Nat
    <3>1. nextId \in 2 .. MaxId + 1
      BY <1>2, Types
    <3> QED BY <3>1, Constants
  <2> QED BY <1>2, <2>2, <2>3, <2>4, Constants DEF IdsInOrder
<1>10. Arguments(pc', arg) /\ pc'[IdleId] = "run"
  BY <1>1, <1>2, <1>3, Constants DEF Arguments
<1>11. RetiredCodesTrue' /\ IdleOnlyIfNothingReady'
  BY <1>1, <1>2 DEF RetiredCodesTrue, IdleOnlyIfNothingReady
<1> QED BY <1>1, <1>4, <1>6, <1>7, <1>8, <1>9, <1>10, <1>11 DEF SchedInv

\* What claim() hands out: a slot nobody owns, that is not mapped.
LEMMA ClaimProperties ==
    ASSUME SchedInv, CanClaim, Claim
    PROVE  /\ Claimed \in Slots /\ Claimed \notin mapped /\ Claimed < nextFresh'
           /\ freeSlots' \in Seq(Slots) /\ nextFresh' \in 0 .. NumSlots /\ nextFresh <= nextFresh'
           /\ Distinct(freeSlots')
           /\ \A s \in Slots : In(s, freeSlots') <=> In(s, freeSlots) /\ s # Claimed
           /\ \A s \in Slots : s < nextFresh' /\ s # Claimed => s < nextFresh
           /\ \A u \in Ids : ~Claims(pc, arg, u, Claimed)
           /\ \A t \in Ids : HasStack(all, pc, arg, t) => stack[t] # Claimed
<1>1. /\ freeSlots \in Seq(Slots) /\ nextFresh \in 0 .. NumSlots
      /\ SlotsOwned(all, stack, pc, arg, freeSlots, nextFresh)
      /\ SlotsMapped(state, stack, pc, arg, freeSlots, mapped)
      /\ \A s \in mapped : s < nextFresh
      /\ Distinct(freeSlots)
  BY Types DEF SchedInv, SlotsOwned
<1>2. CASE freeSlots # <<>>
  <2> DEFINE n == Len(freeSlots)
  <2>1. n \in Nat /\ n >= 1 /\ Claimed = freeSlots[n] /\ Claimed \in Slots /\ In(Claimed, freeSlots)
    <3>1. n \in Nat \ {0}
      BY <1>1, <1>2, EmptySeq
    <3>2. Claimed = freeSlots[n] /\ n \in 1 .. n
      BY <1>2, <3>1 DEF Claimed
    <3>3. freeSlots[n] \in Slots
      BY <1>1, <3>2, ElementOfSeq
    <3> QED BY <3>1, <3>2, <3>3 DEF In
  <2>2. freeSlots' = SubSeq(freeSlots, 1, n - 1) /\ nextFresh' = nextFresh
    BY <1>2 DEF Claim
  <2>3. 1 \in 1 .. n + 1 /\ n - 1 \in 1 - 1 .. n
    BY <2>1
  <2>4. /\ freeSlots' \in Seq(Slots) /\ Distinct(freeSlots')
        /\ \A s : In(s, freeSlots') <=> \E i \in 1 .. n - 1 : freeSlots[i] = s
    BY <1>1, <2>2, <2>3, InSubSeq, DistinctSubSeq
  <2>5. \A s \in Slots : In(s, freeSlots') <=> In(s, freeSlots) /\ s # Claimed
    <3>1. \A i \in 1 .. n - 1 : i \in 1 .. n /\ freeSlots[i] # Claimed
      BY <1>1, <2>1 DEF Distinct
    <3>2. \A i \in 1 .. n : freeSlots[i] # Claimed => i \in 1 .. n - 1
      BY <2>1
    <3> HIDE DEF n
    <3>3. \A s : In(s, freeSlots) <=> \E i \in 1 .. n : freeSlots[i] = s
      BY DEF In, n
    <3> QED BY <2>4, <3>1, <3>2, <3>3
  <2>6. Claimed \notin mapped
    BY <1>1, <2>1 DEF SlotsMapped
  <2>7. /\ Claimed < nextFresh
        /\ \A u \in Ids : ~Claims(pc, arg, u, Claimed)
        /\ \A t \in Ids : HasStack(all, pc, arg, t) => stack[t] # Claimed
    BY <1>1, <2>1 DEF SlotsOwned
  <2> QED BY <1>1, <2>1, <2>2, <2>4, <2>5, <2>6, <2>7, Constants
<1>3. CASE freeSlots = <<>>
  <2>1. /\ freeSlots' = <<>> /\ nextFresh' = nextFresh + 1 /\ Claimed = nextFresh /\ nextFresh < NumSlots
    BY <1>3 DEF Claim, Claimed, CanClaim
  <2>2. Claimed \in Slots /\ nextFresh' \in 0 .. NumSlots /\ nextFresh <= nextFresh' /\ Claimed < nextFresh'
    BY <1>1, <2>1, Constants DEF Slots
  <2>3. freeSlots' \in Seq(Slots) /\ Distinct(freeSlots') /\ \A s : ~In(s, freeSlots') /\ ~In(s, freeSlots)
    BY <1>3, <2>1 DEF In, Distinct
  <2>4. Claimed \notin mapped
    BY <1>1, <2>1
  <2>5. \A s \in Slots : s < nextFresh' /\ s # Claimed => s < nextFresh
    BY <1>1, <2>1, Constants DEF Slots
  <2>6. \A u \in Ids : ~Claims(pc, arg, u, Claimed)
    BY <1>1, <2>1, <2>2 DEF SlotsOwned
  <2>7. \A t \in Ids : HasStack(all, pc, arg, t) => stack[t] # Claimed
    BY <1>1, <2>1 DEF SlotsOwned, HasStack
  <2> QED BY <2>2, <2>3, <2>4, <2>5, <2>6, <2>7
<1> QED BY <1>2, <1>3

\* spawn claims a slot and drops the lock.
LEMMA SpawnClaimInv ==
    ASSUME SchedInv, NEW t \in Ids, SpawnClaim(t)
    PROVE  SchedInv'
<1>1. /\ Up /\ current = t /\ pc[t] = "lock"
      /\ UNCHANGED <<state, current, ready, toReap, all, retired, slice, code, stack, popped,
                     sleeping, left, joinq, readq, key, mapped, nextId, hung>>
  BY DEF SpawnClaim, At, svars, wvars
<1>2. /\ TypeOK /\ Whereabouts /\ pc[IdleId] = "run" /\ Arguments(pc, arg)
      /\ IdsInOrder(state, pc, nextId)
      /\ SlotsOwned(all, stack, pc, arg, freeSlots, nextFresh)
      /\ SlotsMapped(state, stack, pc, arg, freeSlots, mapped)
      /\ RetiredCodesTrue /\ \A s \in mapped : s < nextFresh
  BY <1>1 DEF SchedInv
<1>3. t # IdleId
  BY <1>1, <1>2
<1>4. CASE panicked' = TRUE /\ UNCHANGED <<freeSlots, nextFresh, slotsBy, pc, arg>>
  <2>1. TypeOK' /\ ~Up'
    BY <1>1, <1>2, <1>4 DEF TypeOK, Up
  <2>2. RetiredCodesTrue' /\ IdleOnlyIfNothingReady'
    BY <1>1, <1>2, <1>3 DEF RetiredCodesTrue, IdleOnlyIfNothingReady
  <2> QED BY <1>1, <1>2, <1>4, <2>1, <2>2 DEF SchedInv
<1>5. CASE /\ CanClaim /\ Claim /\ arg' = [arg EXCEPT ![t] = Claimed] /\ slotsBy' = None
           /\ pc' = [pc EXCEPT ![t] = "map"] /\ UNCHANGED panicked
  <2> DEFINE s0 == Claimed
  <2>1. /\ s0 \in Slots /\ s0 \notin mapped /\ s0 < nextFresh'
        /\ freeSlots' \in Seq(Slots) /\ nextFresh' \in 0 .. NumSlots /\ nextFresh <= nextFresh'
        /\ Distinct(freeSlots')
        /\ \A s \in Slots : In(s, freeSlots') <=> In(s, freeSlots) /\ s # s0
        /\ \A s \in Slots : s < nextFresh' /\ s # s0 => s < nextFresh
        /\ \A u \in Ids : ~Claims(pc, arg, u, s0)
        /\ \A x \in Ids : HasStack(all, pc, arg, x) => stack[x] # s0
    BY <1>5, ClaimProperties
  <2>2. arg' = [arg EXCEPT ![t] = s0]
    BY <1>5
  <2> HIDE DEF s0
  <2>3. /\ pc' \in [Ids -> PCs] /\ pc'[t] = "map" /\ \A u \in Ids \ {t} : pc'[u] = pc[u]
        /\ arg' \in [Ids -> Ids \cup Slots \cup {None}] /\ arg'[t] = s0
        /\ \A u \in Ids \ {t} : arg'[u] = arg[u]
    <3>1. arg \in [Ids -> Ids \cup Slots \cup {None}] /\ pc \in [Ids -> PCs] /\ t \in Ids
      BY <1>2, Types
    <3>2. pc' \in [Ids -> PCs] /\ pc'[t] = "map" /\ \A u \in Ids \ {t} : pc'[u] = pc[u]
      BY <1>5, <3>1 DEF PCs
    <3>3. /\ arg' \in [Ids -> Ids \cup Slots \cup {None}] /\ arg'[t] = s0
          /\ \A u \in Ids \ {t} : arg'[u] = arg[u]
      BY <2>1, <2>2, <3>1
    <3> QED BY <3>2, <3>3
  <2>4. TypeOK'
    BY <1>1, <1>2, <1>5, <2>1, <2>3 DEF TypeOK, Up
  <2>5. /\ \A u, x \in Ids : Reaps(pc', arg', u, x) <=> Reaps(pc, arg, u, x)
        /\ \A x \in Ids : HasStack(all, pc', arg', x) <=> HasStack(all, pc, arg, x)
        /\ \A u \in Ids : pc'[u] = "wake" <=> pc[u] = "wake"
        /\ \A u \in Ids, s \in Slots : Claims(pc', arg', u, s) <=> Claims(pc, arg, u, s) \/ (u = t /\ s = s0)
    BY <1>1, <2>3 DEF Reaps, Killing, Claims, HasStack
  <2>6. Whereabouts'
    <3>1. /\ Ending(state, current, ready, toReap, all, pc, arg) /\ all \subseteq Ids
          /\ Waiting(state, joinq, readq, pc, popped)
      BY <1>2, Types DEF Whereabouts
    <3>2. Ending(state, current, ready, toReap, all, pc', arg')
      BY <2>5, <3>1 DEF Ending
    <3>3. Waiting(state, joinq, readq, pc', popped)
      BY <2>5, <3>1, SameWakes
    <3> QED BY <1>1, <1>2, <3>2, <3>3 DEF Whereabouts
  <2>7. SlotsOwned(all, stack, pc', arg', freeSlots', nextFresh')
    <3>1. nextFresh \in Nat /\ nextFresh' \in Nat /\ \A s \in Slots : s \in Nat
      BY <1>2, <2>1, Types, Constants DEF Slots
    <3>2. \A s \in Slots : s < nextFresh => s < nextFresh'
      BY <2>1, <3>1
    <3>3. \A x \in all : stack[x] \in Slots /\ stack[x] < nextFresh'
      BY <1>2, <3>2 DEF SlotsOwned
    <3>4. \A u \in Ids, s \in Slots : Claims(pc', arg', u, s) =>
              /\ s < nextFresh' /\ ~In(s, freeSlots')
              /\ \A x \in Ids : HasStack(all, pc', arg', x) => stack[x] # s
      BY <1>2, <2>1, <2>5, <3>2 DEF SlotsOwned
    <3>5. \A u, v \in Ids, s \in Slots : Claims(pc', arg', u, s) /\ Claims(pc', arg', v, s) => u = v
      BY <1>2, <2>1, <2>5 DEF SlotsOwned
    <3>6. \A s \in Slots : In(s, freeSlots') => /\ s < nextFresh'
                                                /\ \A x \in Ids : HasStack(all, pc', arg', x) => stack[x] # s
      BY <1>2, <2>1, <2>5, <3>2 DEF SlotsOwned
    <3>7. ASSUME NEW s \in Slots, s < nextFresh'
          PROVE  \/ In(s, freeSlots')
                 \/ \E x \in Ids : HasStack(all, pc', arg', x) /\ stack[x] = s
                 \/ \E u \in Ids : Claims(pc', arg', u, s)
      <4>1. CASE s = s0
        BY <4>1, <2>5
      <4>2. CASE s # s0
        <5>1. s < nextFresh
          BY <4>2, <3>7, <2>1
        <5> QED BY <5>1, <4>2, <1>2, <2>1, <2>5 DEF SlotsOwned
      <4> QED BY <4>1, <4>2
    <3>8. \A x, v \in Ids : HasStack(all, pc', arg', x) /\ HasStack(all, pc', arg', v) /\ stack[x] = stack[v] => x = v
      BY <1>2, <2>5 DEF SlotsOwned
    <3> QED BY <2>1, <3>3, <3>4, <3>5, <3>6, <3>7, <3>8 DEF SlotsOwned
  <2>8. SlotsMapped(state, stack, pc', arg', freeSlots', mapped)
    BY <1>1, <1>2, <2>1, <2>3 DEF SlotsMapped
  <2>9. IdsInOrder(state, pc', nextId)
    <3>1. Spawning(pc') = Spawning(pc)
      BY <1>1, <2>3 DEF Spawning
    <3> QED BY <1>2, <3>1 DEF IdsInOrder
  <2>10. Arguments(pc', arg') /\ pc'[IdleId] = "run"
    BY <1>2, <1>3, <2>1, <2>3, Constants DEF Arguments
  <2>11. \A s \in mapped : s < nextFresh'
    <3>1. mapped \subseteq Slots /\ nextFresh \in 0 .. NumSlots
      BY <1>2, Types
    <3>2. nextFresh \in Nat /\ nextFresh' \in Nat /\ \A s \in Slots : s \in Nat
      BY <3>1, <2>1, Constants DEF Slots
    <3> QED BY <1>2, <2>1, <3>1, <3>2
  <2>12. RetiredCodesTrue' /\ IdleOnlyIfNothingReady'
    BY <1>1, <1>2, <1>3 DEF RetiredCodesTrue, IdleOnlyIfNothingReady
  <2> QED BY <1>1, <2>4, <2>6, <2>7, <2>8, <2>9, <2>10, <2>11, <2>12 DEF SchedInv
<1> QED BY <1>4, <1>5 DEF SpawnClaim, Goto

\* A thread that a force_exit is about to release still has its stack.
LEMMA VictimHasStack ==
    ASSUME Whereabouts, TypeOK, Arguments(pc, arg), NEW u \in Ids, pc[u] \in Killing \ {"retire"}, arg[u] \in Ids
    PROVE  HasStack(all, pc, arg, arg[u]) /\ state[arg[u]] = "Exited"
<1>1. Reaps(pc, arg, u, arg[u])
  BY DEF Reaps
<1>2. arg[u] \in all /\ state[arg[u]] = "Exited"
  BY <1>1 DEF Whereabouts, Ending
<1>3. \A v \in Ids : ~(pc[v] = "retire" /\ arg[v] = arg[u])
  <2>1. ASSUME NEW v \in Ids, pc[v] = "retire", arg[v] = arg[u] PROVE FALSE
    <3>1. Reaps(pc, arg, v, arg[u])
      BY <2>1 DEF Reaps, Killing
    <3>2. u = v
      BY <1>1, <3>1 DEF Whereabouts, Ending
    <3> QED BY <2>1, <3>2
  <2> QED BY <2>1
<1> QED BY <1>2, <1>3 DEF HasStack

\* spawn maps the pages of its slot.
LEMMA SpawnMapInv ==
    ASSUME SchedInv, NEW t \in Ids, SpawnMap(t)
    PROVE  SchedInv'
<1>1. /\ Up /\ current = t /\ pc[t] = "map" /\ mapped' = mapped \cup {arg[t]}
      /\ panicked' = (arg[t] \in mapped) /\ pc' = [pc EXCEPT ![t] = "register"]
      /\ UNCHANGED <<state, current, ready, toReap, all, retired, slice, code, stack, arg, popped,
                     sleeping, left, joinq, readq, key, freeSlots, nextFresh, slotsBy, nextId, hung>>
  BY DEF SpawnMap, At, Goto, svars, wvars
<1>2. /\ TypeOK /\ Whereabouts /\ pc[IdleId] = "run" /\ Arguments(pc, arg)
      /\ IdsInOrder(state, pc, nextId)
      /\ SlotsOwned(all, stack, pc, arg, freeSlots, nextFresh)
      /\ SlotsMapped(state, stack, pc, arg, freeSlots, mapped)
      /\ RetiredCodesTrue /\ \A s \in mapped : s < nextFresh
  BY <1>1 DEF SchedInv
<1>3. t # IdleId /\ arg[t] \in Slots /\ Claims(pc, arg, t, arg[t])
  BY <1>1, <1>2 DEF Arguments, Claims
<1>4. /\ pc' \in [Ids -> PCs] /\ pc'[t] = "register" /\ \A u \in Ids \ {t} : pc'[u] = pc[u]
  BY <1>1, <1>2, Types DEF PCs
<1>5. TypeOK'
  <2>1. panicked' \in BOOLEAN /\ mapped' \subseteq Slots
    BY <1>1, <1>2, <1>3, Types
  <2> QED BY <1>1, <1>2, <1>4, <2>1 DEF TypeOK, Up
<1>6. /\ \A u, x \in Ids : Reaps(pc', arg, u, x) <=> Reaps(pc, arg, u, x)
      /\ \A u \in Ids, s \in Slots : Claims(pc', arg, u, s) <=> Claims(pc, arg, u, s)
      /\ \A x \in Ids : HasStack(all, pc', arg, x) <=> HasStack(all, pc, arg, x)
      /\ \A u \in Ids : pc'[u] = "wake" <=> pc[u] = "wake"
  BY <1>1, <1>4 DEF Reaps, Killing, Claims, HasStack
<1>7. Whereabouts'
  <2>1. /\ Ending(state, current, ready, toReap, all, pc, arg) /\ all \subseteq Ids
        /\ Waiting(state, joinq, readq, pc, popped)
    BY <1>2, Types DEF Whereabouts
  <2>2. Ending(state, current, ready, toReap, all, pc', arg) /\ Waiting(state, joinq, readq, pc', popped)
    BY <1>6, <2>1, SameRoles, SameWakes
  <2> QED BY <1>1, <1>2, <2>2 DEF Whereabouts
<1>8. SlotsOwned(all, stack, pc', arg, freeSlots, nextFresh)
  BY <1>2, <1>6, Types, SameRoles
<1>9. SlotsMapped(state, stack, pc', arg, freeSlots, mapped')
  <2>1. ~In(arg[t], freeSlots)
    BY <1>2, <1>3 DEF SlotsOwned
  <2>2. \A u \in Ids : pc'[u] = "map" => arg[u] \notin mapped'
    <3>1. ASSUME NEW u \in Ids, pc'[u] = "map" PROVE arg[u] \notin mapped'
      <4>1. u # t /\ pc[u] = "map"
        BY <3>1, <1>4
      <4>2. arg[u] \in Slots /\ Claims(pc, arg, u, arg[u]) /\ arg[u] \notin mapped
        BY <4>1, <1>2 DEF Arguments, Claims, SlotsMapped
      <4>3. arg[u] # arg[t]
        BY <4>1, <4>2, <1>2, <1>3 DEF SlotsOwned, Claims
      <4> QED BY <4>2, <4>3, <1>1
    <3> QED BY <3>1
  <2>3. \A u \in Ids : pc'[u] = "register" => arg[u] \in mapped'
    BY <1>1, <1>2, <1>4 DEF SlotsMapped
  <2>4. \A u \in Ids : pc'[u] \in {"release", "unlock"} => stack[arg[u]] \notin mapped'
    <3>1. ASSUME NEW u \in Ids, pc'[u] \in {"release", "unlock"} PROVE stack[arg[u]] \notin mapped'
      <4>1. u # t /\ pc[u] \in {"release", "unlock"}
        BY <3>1, <1>4
      <4>2. arg[u] \in Ids /\ pc[u] \in Killing \ {"retire"}
        BY <4>1, <1>2 DEF Arguments, Killing
      <4>3. HasStack(all, pc, arg, arg[u])
        BY <4>2, <1>2, VictimHasStack
      <4>4. stack[arg[u]] # arg[t]
        BY <4>2, <4>3, <1>2, <1>3 DEF SlotsOwned
      <4> QED BY <4>1, <4>4, <1>1, <1>2 DEF SlotsMapped
    <3> QED BY <3>1
  <2>5. \A s \in Slots : In(s, freeSlots) => s \notin mapped'
    BY <1>1, <1>2, <2>1 DEF SlotsMapped
  <2>6. \A x \in Ids : state[x] \notin {"New", "Exited"} => stack[x] \in mapped'
    BY <1>1, <1>2 DEF SlotsMapped
  <2> QED BY <2>2, <2>3, <2>4, <2>5, <2>6 DEF SlotsMapped
<1>10. IdsInOrder(state, pc', nextId)
  <2>1. Spawning(pc') = Spawning(pc)
    BY <1>1, <1>4 DEF Spawning
  <2> QED BY <1>2, <2>1 DEF IdsInOrder
<1>11. Arguments(pc', arg) /\ pc'[IdleId] = "run"
  BY <1>1, <1>2, <1>3, <1>4, Constants DEF Arguments
<1>12. RetiredCodesTrue' /\ IdleOnlyIfNothingReady'
  BY <1>1, <1>2, <1>3 DEF RetiredCodesTrue, IdleOnlyIfNothingReady
<1>13. \A s \in mapped' : s < nextFresh
  BY <1>1, <1>2, <1>3 DEF SlotsOwned
<1> QED BY <1>1, <1>5, <1>7, <1>8, <1>9, <1>10, <1>11, <1>12, <1>13 DEF SchedInv

\* A new thread enters the ready queue and the list of all threads.
LEMMA NewThread ==
    ASSUME Whereabouts, TypeOK, NEW n \in Ids, state[n] = "New", NEW pcs, NEW ag,
           Waiting(state, joinq, readq, pcs, popped),
           Ending(state, current, ready, toReap, all, pcs, ag)
    PROVE  /\ n \notin all /\ n # IdleId /\ n # current
           /\ [state EXCEPT ![n] = "Ready"] \in [Ids -> States]
           /\ Append(ready, n) \in Seq(Ids)
           /\ [state EXCEPT ![n] = "Ready"][current] = "Running"
           /\ Placed([state EXCEPT ![n] = "Ready"], current, Append(ready, n))
           /\ Asleep([state EXCEPT ![n] = "Ready"], sleeping)
           /\ Waiting([state EXCEPT ![n] = "Ready"], joinq, readq, pcs, popped)
           /\ Ending([state EXCEPT ![n] = "Ready"], current, Append(ready, n), toReap, all \cup {n}, pcs, ag)
<1> DEFINE st == [state EXCEPT ![n] = "Ready"]
           rq == Append(ready, n)
<1>1. /\ state \in [Ids -> States] /\ ready \in Seq(Ids) /\ all \subseteq Ids /\ current \in Ids
      /\ Placed(state, current, ready) /\ Asleep(state, sleeping) /\ state[current] = "Running"
  BY Types DEF Whereabouts
<1>2. n \notin all /\ n # current /\ ~In(n, ready) /\ n # IdleId /\ ~In(n, toReap)
      /\ \A u \in Ids : ~Reaps(pcs, ag, u, n)
  BY <1>1 DEF Ending, Placed
<1>3. st \in [Ids -> States] /\ st[n] = "Ready" /\ \A u \in Ids : u # n => st[u] = state[u]
  BY <1>1 DEF States
<1>4. rq \in Seq(Ids) /\ Distinct(rq) /\ \A u : In(u, rq) <=> In(u, ready) \/ u = n
  BY <1>1, <1>2, InAppend, DistinctAppend DEF Placed
<1> HIDE DEF st, rq
<1>5. Placed(st, current, rq)
  BY <1>1, <1>2, <1>3, <1>4, Constants DEF Placed
<1>6. Asleep(st, sleeping)
  BY <1>1, <1>3 DEF Asleep
<1>7. Waiting(st, joinq, readq, pcs, popped)
  <2>1. \A u \in Ids : st[u] \in {"Blocked", "Exited"} <=> state[u] \in {"Blocked", "Exited"}
    BY <1>3
  <2>2. \A u \in Ids : st[u] = "Blocked" => state[u] = "Blocked"
    BY <1>3
  <2> QED BY <2>1, <2>2, WaitingStates
<1>8. Ending(st, current, rq, toReap, all \cup {n}, pcs, ag)
  <2>1. \A u \in Ids : st[u] = "Exited" <=> state[u] = "Exited"
    BY <1>3
  <2>2. \A u \in Ids \ (all \cup {n}) : st[u] \in {"New", "Exited"}
    BY <1>3 DEF Ending
  <2>3. \A u \in all \cup {n} : st[u] # "New"
    BY <1>1, <1>3 DEF Ending
  <2>4. \A u \in all \cup {n} : st[u] = "Exited" => u \in all /\ state[u] = "Exited"
    BY <1>1, <1>3
  <2> QED BY <1>1, <1>2, <1>4, <2>1, <2>2, <2>3, <2>4 DEF Ending
<1> QED BY <1>1, <1>2, <1>3, <1>4, <1>5, <1>6, <1>7, <1>8 DEF st, rq

\* Every slot handed out so far but s0 has one owner, and s0 has none.
OwnedBut(s0, al, stk, pcs, ag, fs, nf) ==
    /\ s0 < nf /\ ~In(s0, fs)
    /\ \A u \in Ids : ~Claims(pcs, ag, u, s0)
    /\ \A t \in Ids : HasStack(al, pcs, ag, t) => stk[t] # s0
    /\ \A t \in al : stk[t] \in Slots /\ stk[t] < nf
    /\ \A t, v \in Ids : HasStack(al, pcs, ag, t) /\ HasStack(al, pcs, ag, v) /\ stk[t] = stk[v] => t = v
    /\ \A u \in Ids, s \in Slots : Claims(pcs, ag, u, s) =>
           /\ s < nf /\ ~In(s, fs)
           /\ \A t \in Ids : HasStack(al, pcs, ag, t) => stk[t] # s
    /\ \A u, v \in Ids, s \in Slots : Claims(pcs, ag, u, s) /\ Claims(pcs, ag, v, s) => u = v
    /\ Distinct(fs)
    /\ \A s \in Slots : In(s, fs) => /\ s < nf
                                     /\ \A t \in Ids : HasStack(al, pcs, ag, t) => stk[t] # s
    /\ \A s \in Slots : s < nf /\ s # s0 =>
           \/ In(s, fs)
           \/ \E t \in Ids : HasStack(al, pcs, ag, t) /\ stk[t] = s
           \/ \E u \in Ids : Claims(pcs, ag, u, s)

\* A new thread on the slot that has no owner: every slot has one again.
LEMMA FillSlot ==
    ASSUME NEW s0 \in Slots, NEW al, al \subseteq Ids, NEW n \in Ids \ al, NEW pcs, NEW ag, NEW fs, NEW nf,
           NEW stk \in [Ids -> Slots \cup {NoSlot}],
           OwnedBut(s0, al, stk, pcs, ag, fs, nf),
           \A u \in Ids : ~(pcs[u] = "retire" /\ ag[u] = n)
    PROVE  SlotsOwned(al \cup {n}, [stk EXCEPT ![n] = s0], pcs, ag, fs, nf)
<1> DEFINE al1 == al \cup {n}
           stk1 == [stk EXCEPT ![n] = s0]
<1>1. stk1[n] = s0 /\ \A t \in Ids : t # n => stk1[t] = stk[t]
  OBVIOUS
<1>2. HasStack(al1, pcs, ag, n) /\ ~HasStack(al, pcs, ag, n)
      /\ \A t \in Ids : t # n => (HasStack(al1, pcs, ag, t) <=> HasStack(al, pcs, ag, t))
  BY DEF HasStack
<1> HIDE DEF stk1
<1>3. \A t \in al1 : stk1[t] \in Slots /\ stk1[t] < nf
  BY <1>1 DEF OwnedBut
<1> HIDE DEF al1
<1>4. \A t, v \in Ids : HasStack(al1, pcs, ag, t) /\ HasStack(al1, pcs, ag, v) /\ stk1[t] = stk1[v] => t = v
  BY <1>1, <1>2 DEF OwnedBut
<1>5. \A u \in Ids, s \in Slots : Claims(pcs, ag, u, s) =>
           /\ s < nf /\ ~In(s, fs)
           /\ \A t \in Ids : HasStack(al1, pcs, ag, t) => stk1[t] # s
  BY <1>1, <1>2 DEF OwnedBut
<1>6. \A s \in Slots : In(s, fs) => /\ s < nf
                                    /\ \A t \in Ids : HasStack(al1, pcs, ag, t) => stk1[t] # s
  BY <1>1, <1>2 DEF OwnedBut
<1>7. ASSUME NEW s \in Slots, s < nf
      PROVE  \/ In(s, fs)
             \/ \E t \in Ids : HasStack(al1, pcs, ag, t) /\ stk1[t] = s
             \/ \E u \in Ids : Claims(pcs, ag, u, s)
  <2>1. CASE s = s0
    BY <2>1, <1>1, <1>2
  <2>2. CASE s # s0
    BY <2>2, <1>1, <1>2, <1>7 DEF OwnedBut
  <2> QED BY <2>1, <2>2
<1>8. /\ \A u, v \in Ids, s \in Slots : Claims(pcs, ag, u, s) /\ Claims(pcs, ag, v, s) => u = v
      /\ Distinct(fs)
  BY DEF OwnedBut
<1>9. SlotsOwned(al1, stk1, pcs, ag, fs, nf)
  BY <1>3, <1>4, <1>5, <1>6, <1>7, <1>8 DEF SlotsOwned
<1> QED BY <1>9 DEF al1, stk1

\* spawn registers the thread on the stack it mapped.
LEMMA SpawnRegisterInv ==
    ASSUME SchedInv, NEW t \in Ids, SpawnRegister(t)
    PROVE  SchedInv'
<1> DEFINE n == nextId
           s0 == arg[t]
<1>1. /\ Up /\ current = t /\ pc[t] = "register"
      /\ nextId' = n + 1 /\ state' = [state EXCEPT ![n] = "Ready"] /\ stack' = [stack EXCEPT ![n] = s0]
      /\ all' = all \cup {n} /\ ready' = Append(ready, n) /\ panicked' = Overflows(ready')
      /\ pc' = [pc EXCEPT ![t] = "run"] /\ arg' = [arg EXCEPT ![t] = None]
      /\ UNCHANGED <<code, current, toReap, retired, slice, popped, sleeping, left, joinq, readq, key,
                     freeSlots, nextFresh, mapped, slotsBy, hung>>
  <2>1. panicked' = (FALSE \/ Overflows(ready'))
    BY DEF SpawnRegister, Register
  <2>2. panicked' = Overflows(ready')
    <3>1. Overflows(ready') \in BOOLEAN
      BY DEF Overflows
    <3>2. (FALSE \/ Overflows(ready')) = Overflows(ready')
      BY <3>1
    <3> QED BY <2>1, <3>2
  <2> QED BY <2>2 DEF SpawnRegister, Register, At, Goto, wvars, kvars
<1>2. /\ TypeOK /\ Whereabouts /\ pc[IdleId] = "run" /\ Arguments(pc, arg)
      /\ IdsInOrder(state, pc, n)
      /\ SlotsOwned(all, stack, pc, arg, freeSlots, nextFresh)
      /\ SlotsMapped(state, stack, pc, arg, freeSlots, mapped)
      /\ RetiredCodesTrue /\ \A s \in mapped : s < nextFresh
  BY <1>1 DEF SchedInv
<1>3. t # IdleId /\ s0 \in Slots /\ Claims(pc, arg, t, s0)
  BY <1>1, <1>2 DEF Arguments, Claims
<1>4. /\ pc' \in [Ids -> PCs] /\ pc'[t] = "run" /\ \A u \in Ids \ {t} : pc'[u] = pc[u]
      /\ arg' \in [Ids -> Ids \cup Slots \cup {None}] /\ \A u \in Ids \ {t} : arg'[u] = arg[u]
  BY <1>1, <1>2, Types DEF PCs
<1>5. /\ n \in Ids /\ state[n] = "New" /\ n + 1 \in 2 .. MaxId + 1
      /\ n + 1 + Cardinality(Spawning(pc')) <= MaxId + 1
  <2>1. t \in Spawning(pc) /\ t \notin Spawning(pc')
    BY <1>1, <1>4 DEF Spawning
  <2>2. /\ Cardinality(Spawning(pc)) \in Nat /\ Cardinality(Spawning(pc)) >= 1
        /\ Cardinality(Spawning(pc')) = Cardinality(Spawning(pc)) - 1
    BY <1>4, <2>1, SpawnCount
  <2>3. n \in 2 .. MaxId + 1 /\ n + Cardinality(Spawning(pc)) <= MaxId + 1
    BY <1>2, Types DEF IdsInOrder
  <2>4. n \in Ids /\ n + 1 \in 2 .. MaxId + 1 /\ n + 1 + Cardinality(Spawning(pc')) <= MaxId + 1
    BY <2>2, <2>3, Constants DEF Ids
  <2>5. state[n] = "New"
    BY <1>2, <2>3, <2>4, Constants DEF IdsInOrder
  <2> QED BY <2>4, <2>5
<1> HIDE DEF n, s0
<1>6. /\ \A u, x \in Ids : Reaps(pc', arg', u, x) <=> Reaps(pc, arg, u, x)
      /\ \A x \in Ids : HasStack(all, pc', arg', x) <=> HasStack(all, pc, arg, x)
      /\ \A u \in Ids : pc'[u] = "wake" <=> pc[u] = "wake"
      /\ \A u \in Ids : \A s : Claims(pc', arg', u, s) <=> Claims(pc, arg, u, s) /\ u # t
  BY <1>1, <1>4 DEF Reaps, Killing, Claims, HasStack
<1>7. Waiting(state, joinq, readq, pc', popped) /\ Ending(state, current, ready, toReap, all, pc', arg')
  <2>1. /\ Ending(state, current, ready, toReap, all, pc, arg) /\ all \subseteq Ids
        /\ Waiting(state, joinq, readq, pc, popped)
    BY <1>2, Types DEF Whereabouts
  <2>2. Ending(state, current, ready, toReap, all, pc', arg')
    BY <1>6, <2>1 DEF Ending
  <2> QED BY <1>6, <2>1, <2>2, SameWakes
<1>8. /\ n \notin all /\ n # IdleId /\ n # current
      /\ state' \in [Ids -> States] /\ ready' \in Seq(Ids)
      /\ state'[current] = "Running"
      /\ Placed(state', current, ready')
      /\ Asleep(state', sleeping)
      /\ Waiting(state', joinq, readq, pc', popped)
      /\ Ending(state', current, ready', toReap, all', pc', arg')
  BY <1>1, <1>2, <1>5, <1>7, NewThread
<1>9. Whereabouts'
  BY <1>1, <1>8 DEF Whereabouts
<1>10. \A u \in Ids : ~(pc'[u] = "retire" /\ arg'[u] = n)
  BY <1>5, <1>7, <1>8 DEF Ending, Reaps, Killing
<1>11. SlotsOwned(all', stack', pc', arg', freeSlots, nextFresh)
  <2>1. OwnedBut(s0, all, stack, pc', arg', freeSlots, nextFresh)
    <3>1. s0 < nextFresh /\ ~In(s0, freeSlots) /\ \A x \in Ids : HasStack(all, pc', arg', x) => stack[x] # s0
      BY <1>2, <1>3, <1>6 DEF SlotsOwned
    <3>2. \A u \in Ids : ~Claims(pc', arg', u, s0)
      BY <1>2, <1>3, <1>6 DEF SlotsOwned
    <3>3. \A s \in Slots : s < nextFresh /\ s # s0 =>
             \/ In(s, freeSlots)
             \/ \E x \in Ids : HasStack(all, pc', arg', x) /\ stack[x] = s
             \/ \E u \in Ids : Claims(pc', arg', u, s)
      <4>1. \A s \in Slots : s # s0 => ~Claims(pc, arg, t, s)
        BY DEF Claims, s0
      <4> QED BY <1>2, <1>6, <4>1 DEF SlotsOwned
    <3>4. \A u \in Ids, s \in Slots : Claims(pc', arg', u, s) =>
             /\ s < nextFresh /\ ~In(s, freeSlots)
             /\ \A x \in Ids : HasStack(all, pc', arg', x) => stack[x] # s
      BY <1>2, <1>6 DEF SlotsOwned
    <3>5. \A s \in Slots : In(s, freeSlots) =>
             s < nextFresh /\ \A x \in Ids : HasStack(all, pc', arg', x) => stack[x] # s
      BY <1>2, <1>6 DEF SlotsOwned
    <3>6. /\ \A x \in all : stack[x] \in Slots /\ stack[x] < nextFresh
          /\ \A x, y \in Ids : HasStack(all, pc', arg', x) /\ HasStack(all, pc', arg', y) /\ stack[x] = stack[y] => x = y
          /\ \A u, y \in Ids, s \in Slots : Claims(pc', arg', u, s) /\ Claims(pc', arg', y, s) => u = y
          /\ Distinct(freeSlots)
      BY <1>2, <1>6 DEF SlotsOwned
    <3> QED BY <3>1, <3>2, <3>3, <3>4, <3>5, <3>6 DEF OwnedBut
  <2>2. all \subseteq Ids /\ stack \in [Ids -> Slots \cup {NoSlot}]
    BY <1>2, Types
  <2> QED BY <1>1, <1>3, <1>5, <1>8, <1>10, <2>1, <2>2, FillSlot
<1>12. stack' \in [Ids -> Slots \cup {NoSlot}] /\ stack'[n] = s0 /\ \A u \in Ids : u # n => stack'[u] = stack[u]
  BY <1>1, <1>2, <1>3, <1>5, Types
<1>13. SlotsMapped(state', stack', pc', arg', freeSlots, mapped)
  <2>1. s0 \in mapped
    BY <1>1, <1>2 DEF SlotsMapped, s0
  <2>2. \A u \in Ids : u # n => state'[u] = state[u]
    BY <1>1, <1>2, <1>5, Types
  <2>3. \A u \in Ids : pc'[u] \in {"release", "unlock"} => arg'[u] \in Ids /\ arg'[u] # n /\ arg'[u] = arg[u] /\ pc'[u] = pc[u]
    <3>1. \A u \in Ids : pc'[u] \in {"release", "unlock"} => arg'[u] = arg[u] /\ pc'[u] = pc[u]
      BY <1>4
    <3>2. \A u \in Ids : pc[u] \in {"release", "unlock"} => arg[u] \in Ids
      BY <1>2 DEF Arguments
    <3>3. \A u, x \in Ids : Reaps(pc', arg', u, x) => x # n
      BY <1>7, <1>8 DEF Ending
    <3> QED BY <3>1, <3>2, <3>3 DEF Reaps, Killing
  <2>4. \A u \in Ids : pc'[u] \in {"map", "register"} => pc'[u] = pc[u] /\ arg'[u] = arg[u]
    BY <1>4
  <2> QED BY <1>2, <1>12, <2>1, <2>2, <2>3, <2>4 DEF SlotsMapped
<1>14. TypeOK'
  <2>1. Up' => Len(ready') <= MaxThreads
    <3>1. Up' => ~(Len(ready') > MaxThreads)
      BY <1>1, Zenon DEF Up, Overflows
    <3>2. Len(ready') \in Nat /\ MaxThreads \in Nat
      BY <1>8, Constants, LenProperties
    <3> QED BY <3>1, <3>2
  <2>2. panicked' \in BOOLEAN /\ all' \subseteq Ids /\ nextId' \in 2 .. MaxId + 1
    BY <1>1, <1>2, <1>5, Types DEF Overflows
  <2> QED BY <1>1, <1>2, <1>4, <1>8, <1>12, <2>1, <2>2 DEF TypeOK
<1>15. IdsInOrder(state', pc', nextId')
  <2>1. \A u \in Ids : state'[u] = "New" <=> u >= n + 1
    <3>1. \A u \in Ids : state'[u] = IF u = n THEN "Ready" ELSE state[u]
      BY <1>1, <1>2, <1>5, Types
    <3>2. \A u \in Ids : u >= n + 1 <=> u >= n /\ u # n
      BY <1>5, Constants DEF Ids
    <3> QED BY <1>2, <3>1, <3>2 DEF IdsInOrder
  <2> QED BY <1>1, <1>5, <2>1 DEF IdsInOrder
<1>16. Arguments(pc', arg') /\ pc'[IdleId] = "run"
  BY <1>2, <1>3, <1>4, Constants DEF Arguments
<1>17. RetiredCodesTrue'
  <2>1. \A i \in 1 .. Len(retired) : retired[i].id \in Ids
    BY <1>2, Types, RecordIds
  <2>2. \A i \in 1 .. Len(retired) : retired[i].id # n
    BY <1>2, <1>5, <2>1 DEF RetiredCodesTrue
  <2>3. \A u \in Ids : u # n => state'[u] = state[u]
    BY <1>1, <1>2, <1>5, Types
  <2> QED BY <1>1, <1>2, <2>1, <2>2, <2>3 DEF RetiredCodesTrue
<1>18. IdleOnlyIfNothingReady'
  BY <1>1, <1>3 DEF IdleOnlyIfNothingReady
<1> QED BY <1>1, <1>2, <1>9, <1>11, <1>13, <1>14, <1>15, <1>16, <1>17, <1>18 DEF SchedInv

\* spawn_user does all of it with interrupts off.
LEMMA SpawnUserInv ==
    ASSUME SchedInv, NEW t \in Ids, SpawnUser(t)
    PROVE  SchedInv'
<1> DEFINE n == nextId
           s0 == Claimed
<1>1. /\ Up /\ current = t /\ t # IdleId /\ pc[t] = "run" /\ CanSpawn
      /\ UNCHANGED <<code, pc, arg, popped, current, toReap, retired, slice,
                     sleeping, left, joinq, readq, key, slotsBy>>
  BY DEF SpawnUser, At, wvars
<1>2. /\ TypeOK /\ Whereabouts /\ pc[IdleId] = "run" /\ Arguments(pc, arg)
      /\ IdsInOrder(state, pc, n)
      /\ SlotsOwned(all, stack, pc, arg, freeSlots, nextFresh)
      /\ SlotsMapped(state, stack, pc, arg, freeSlots, mapped)
      /\ RetiredCodesTrue /\ \A s \in mapped : s < nextFresh
  BY <1>1 DEF SchedInv
<1>3. CASE /\ (hung' = TRUE /\ panicked' = panicked) \/ (panicked' = TRUE /\ hung' = hung)
           /\ UNCHANGED <<state, stack, all, ready, nextId, freeSlots, nextFresh, mapped>>
  <2>1. ~Up' /\ panicked' \in BOOLEAN /\ hung' \in BOOLEAN
    BY <1>2, <1>3 DEF TypeOK, Up
  <2>2. TypeOK'
    BY <1>1, <1>2, <1>3, <2>1 DEF TypeOK
  <2>3. RetiredCodesTrue' /\ IdleOnlyIfNothingReady'
    BY <1>1, <1>2, <1>3 DEF RetiredCodesTrue, IdleOnlyIfNothingReady
  <2> QED BY <1>1, <1>2, <1>3, <2>1, <2>2, <2>3 DEF SchedInv
<1>4. CASE /\ CanClaim /\ Claim /\ mapped' = mapped \cup {Claimed}
           /\ Register(Claimed, Claimed \in mapped) /\ UNCHANGED hung
  <2>1. /\ nextId' = n + 1 /\ state' = [state EXCEPT ![n] = "Ready"] /\ stack' = [stack EXCEPT ![n] = s0]
        /\ all' = all \cup {n} /\ ready' = Append(ready, n)
        /\ panicked' = (Claimed \in mapped \/ Overflows(ready')) /\ mapped' = mapped \cup {s0}
    BY <1>4 DEF Register
  <2>2. /\ s0 \in Slots /\ s0 \notin mapped /\ s0 < nextFresh'
        /\ freeSlots' \in Seq(Slots) /\ nextFresh' \in 0 .. NumSlots /\ nextFresh <= nextFresh'
        /\ Distinct(freeSlots')
        /\ \A s \in Slots : In(s, freeSlots') <=> In(s, freeSlots) /\ s # s0
        /\ \A s \in Slots : s < nextFresh' /\ s # s0 => s < nextFresh
        /\ \A u \in Ids : ~Claims(pc, arg, u, s0)
        /\ \A x \in Ids : HasStack(all, pc, arg, x) => stack[x] # s0
    BY <1>4, ClaimProperties
  <2>3. /\ n \in Ids /\ state[n] = "New" /\ n + 1 \in 2 .. MaxId + 1
        /\ n + 1 + Cardinality(Spawning(pc)) <= MaxId + 1
    <3>1. Cardinality(Spawning(pc)) \in Nat
      BY SpawnCount
    <3>2. n \in 2 .. MaxId + 1 /\ n + Cardinality(Spawning(pc)) <= MaxId
      BY <1>1, <1>2, Types DEF CanSpawn, Spawning
    <3>3. n \in Ids /\ n + 1 \in 2 .. MaxId + 1 /\ n + 1 + Cardinality(Spawning(pc)) <= MaxId + 1
      BY <3>1, <3>2, Constants DEF Ids
    <3>4. state[n] = "New"
      BY <1>2, <3>2, <3>3, Constants DEF IdsInOrder
    <3> QED BY <3>3, <3>4
  <2> HIDE DEF n, s0
  <2>4. /\ n \notin all /\ n # IdleId /\ n # current
        /\ state' \in [Ids -> States] /\ ready' \in Seq(Ids)
        /\ state'[current] = "Running"
        /\ Placed(state', current, ready')
        /\ Asleep(state', sleeping)
        /\ Waiting(state', joinq, readq, pc, popped)
        /\ Ending(state', current, ready', toReap, all', pc, arg)
    <3>1. /\ Ending(state, current, ready, toReap, all, pc, arg)
          /\ Waiting(state, joinq, readq, pc, popped)
      BY <1>2 DEF Whereabouts
    <3> QED BY <1>2, <2>1, <2>3, <3>1, NewThread
  <2>5. Whereabouts'
    BY <1>1, <2>4 DEF Whereabouts
  <2>6. \A u, x \in Ids : Reaps(pc, arg, u, x) => x # n
    BY <1>2, <2>4 DEF Whereabouts, Ending
  <2>7. SlotsOwned(all', stack', pc, arg, freeSlots', nextFresh')
    <3>1. nextFresh \in Nat /\ nextFresh' \in Nat /\ \A s \in Slots : s \in Nat
      BY <1>2, <2>2, Types, Constants DEF Slots
    <3>2. \A s \in Slots : s < nextFresh => s < nextFresh'
      BY <2>2, <3>1
    <3>3. OwnedBut(s0, all, stack, pc, arg, freeSlots', nextFresh')
      BY <1>2, <2>2, <3>2 DEF SlotsOwned, OwnedBut
    <3>4. all \subseteq Ids /\ stack \in [Ids -> Slots \cup {NoSlot}]
      BY <1>2, Types
    <3>5. \A u \in Ids : ~(pc[u] = "retire" /\ arg[u] = n)
      BY <2>3, <2>6 DEF Reaps, Killing
    <3> QED BY <2>1, <2>2, <2>3, <2>4, <3>3, <3>4, <3>5, FillSlot
  <2>8. stack' \in [Ids -> Slots \cup {NoSlot}] /\ stack'[n] = s0 /\ \A u \in Ids : u # n => stack'[u] = stack[u]
    BY <1>2, <2>1, <2>2, <2>3, Types
  <2>9. \A u \in Ids : u # n => state'[u] = state[u]
    BY <1>2, <2>1, <2>3, Types
  <2>10. SlotsMapped(state', stack', pc, arg, freeSlots', mapped')
    <3>1. ASSUME NEW u \in Ids, pc[u] \in {"release", "unlock"} PROVE stack'[arg[u]] \notin mapped'
      <4>1. arg[u] \in Ids /\ pc[u] \in Killing \ {"retire"}
        BY <3>1, <1>2 DEF Arguments, Killing
      <4>2. HasStack(all, pc, arg, arg[u])
        BY <4>1, <1>2, VictimHasStack
      <4>3. arg[u] # n
        BY <4>1, <2>6 DEF Reaps
      <4>4. stack[arg[u]] # s0 /\ stack'[arg[u]] = stack[arg[u]] /\ stack[arg[u]] \notin mapped
        BY <3>1, <4>1, <4>2, <4>3, <1>2, <2>2, <2>8 DEF SlotsMapped
      <4> QED BY <4>4, <2>1
    <3>2. \A u \in Ids : /\ pc[u] = "map" => arg[u] \notin mapped'
                         /\ pc[u] = "register" => arg[u] \in mapped'
      BY <1>2, <2>1, <2>2 DEF SlotsMapped, Claims
    <3>3. \A s \in Slots : In(s, freeSlots') => s \notin mapped'
      BY <1>2, <2>1, <2>2 DEF SlotsMapped
    <3>4. \A u \in Ids : state'[u] \notin {"New", "Exited"} => stack'[u] \in mapped'
      BY <1>2, <2>1, <2>8, <2>9 DEF SlotsMapped
    <3> QED BY <3>1, <3>2, <3>3, <3>4 DEF SlotsMapped
  <2>11. TypeOK'
    <3>1. Up' => Len(ready') <= MaxThreads
      <4>1. Up' => ~(Len(ready') > MaxThreads)
        BY <2>1, Zenon DEF Up, Overflows
      <4>2. Len(ready') \in Nat /\ MaxThreads \in Nat
        BY <2>4, Constants, LenProperties
      <4> QED BY <4>1, <4>2
    <3>2. /\ panicked' \in BOOLEAN /\ all' \subseteq Ids /\ nextId' \in 2 .. MaxId + 1
          /\ mapped' \subseteq Slots
      BY <1>2, <2>1, <2>2, <2>3, Types DEF Overflows
    <3> QED BY <1>1, <1>2, <1>4, <2>2, <2>4, <2>8, <3>1, <3>2 DEF TypeOK
  <2>12. IdsInOrder(state', pc, nextId')
    <3>1. \A u \in Ids : state'[u] = IF u = n THEN "Ready" ELSE state[u]
      BY <1>2, <2>1, <2>3, Types
    <3>2. \A u \in Ids : u >= n + 1 <=> u >= n /\ u # n
      BY <2>3, Constants DEF Ids
    <3>3. \A u \in Ids : state'[u] = "New" <=> u >= n + 1
      BY <1>2, <3>1, <3>2 DEF IdsInOrder
    <3> QED BY <2>1, <2>3, <3>3 DEF IdsInOrder
  <2>13. RetiredCodesTrue'
    <3>1. \A i \in 1 .. Len(retired) : retired[i].id \in Ids
      BY <1>2, Types, RecordIds
    <3>2. \A i \in 1 .. Len(retired) : retired[i].id # n
      BY <1>2, <2>3, <3>1 DEF RetiredCodesTrue
    <3> QED BY <1>1, <1>2, <2>1, <2>9, <3>1, <3>2 DEF RetiredCodesTrue
  <2>14. IdleOnlyIfNothingReady'
    BY <1>1 DEF IdleOnlyIfNothingReady
  <2>15. \A s \in mapped' : s < nextFresh'
    <3>1. mapped \subseteq Slots /\ nextFresh \in 0 .. NumSlots
      BY <1>2, Types
    <3>2. nextFresh \in Nat /\ nextFresh' \in Nat /\ \A s \in Slots : s \in Nat
      BY <3>1, <2>2, Constants DEF Slots
    <3> QED BY <1>2, <2>1, <2>2, <3>1, <3>2
  <2> QED BY <1>1, <1>2, <2>5, <2>7, <2>10, <2>11, <2>12, <2>13, <2>14, <2>15 DEF SchedInv
<1> QED BY <1>3, <1>4 DEF SpawnUser

-----------------------------------------------------------------------------
(* Killing. *)

\* force_exit marks its victim, and reaps it itself if nobody else will find it.
LEMMA ForceExitInv ==
    ASSUME SchedInv, NEW t \in Ids, NEW v \in Ids, ForceExit(t, v)
    PROVE  SchedInv'
<1>1. /\ Up /\ current = t /\ t # IdleId /\ pc[t] = "run"
      /\ v \in all /\ v # t /\ v # IdleId /\ MarkExited(v)
      /\ arg' = [arg EXCEPT ![t] = IF ReapNow(v) THEN v ELSE None]
      /\ pc' = [pc EXCEPT ![t] = "pop"]
      /\ UNCHANGED <<stack, current, ready, toReap, all, retired, slice, popped, left, joinq, readq, key,
                     freeSlots, nextFresh, mapped, slotsBy, nextId, panicked, hung>>
  BY SchedAssumption DEF ForceExit, At, Goto, kvars
<1>2. /\ TypeOK /\ Whereabouts /\ pc[IdleId] = "run" /\ Arguments(pc, arg)
      /\ IdsInOrder(state, pc, nextId)
      /\ SlotsOwned(all, stack, pc, arg, freeSlots, nextFresh)
      /\ SlotsMapped(state, stack, pc, arg, freeSlots, mapped)
      /\ RetiredCodesTrue /\ \A s \in mapped : s < nextFresh
  BY <1>1 DEF SchedInv
<1>3. /\ state' \in [Ids -> States] /\ state'[v] = "Exited" /\ \A u \in Ids : u # v => state'[u] = state[u]
      /\ code' \in [Ids -> Codes] /\ \A u \in Ids : u # v => code'[u] = code[u]
      /\ state[v] = "Exited" => code' = code
      /\ sleeping' \subseteq Ids /\ \A u \in Ids : u \in sleeping' <=> u \in sleeping /\ u # v
  <2>1. state \in [Ids -> States] /\ code \in [Ids -> Codes] /\ sleeping \subseteq Ids /\ Asleep(state, sleeping)
    BY <1>2, Types DEF Whereabouts
  <2>2. CASE state[v] = "Exited"
    <3>1. state' = state /\ code' = code /\ sleeping' = sleeping
      BY <1>1, <2>2 DEF MarkExited
    <3> QED BY <2>1, <2>2, <3>1 DEF Asleep
  <2>3. CASE state[v] # "Exited"
    <3>1. /\ \E c \in Codes : code' = [code EXCEPT ![v] = c]
          /\ state' = [state EXCEPT ![v] = "Exited"]
          /\ sleeping' = IF state[v] = "Sleeping" THEN sleeping \ {v} ELSE sleeping
      BY <1>1, <2>3 DEF MarkExited
    <3> QED BY <2>1, <2>3, <3>1 DEF Asleep, States
  <2> QED BY <2>2, <2>3
<1>4. /\ pc' \in [Ids -> PCs] /\ pc'[t] = "pop" /\ \A u \in Ids \ {t} : pc'[u] = pc[u]
      /\ arg' \in [Ids -> Ids \cup Slots \cup {None}] /\ \A u \in Ids \ {t} : arg'[u] = arg[u]
      /\ arg'[t] = IF state[v] \in {"Blocked", "Sleeping"} THEN v ELSE None
  BY <1>1, <1>2, Types DEF PCs, ReapNow
<1>5. TypeOK'
  BY <1>1, <1>2, <1>3, <1>4 DEF TypeOK, Up
<1>6. /\ \A u, x \in Ids : Reaps(pc', arg', u, x) <=>
             Reaps(pc, arg, u, x) \/ (u = t /\ x = v /\ state[v] \in {"Blocked", "Sleeping"})
      /\ \A x \in Ids : HasStack(all, pc', arg', x) <=> HasStack(all, pc, arg, x)
      /\ \A u \in Ids, s \in Slots : Claims(pc', arg', u, s) <=> Claims(pc, arg, u, s)
      /\ \A u \in Ids : pc'[u] = "wake" <=> pc[u] = "wake"
  BY <1>1, <1>4, Constants DEF Reaps, Killing, Claims, HasStack
<1>7. Placed(state', current, ready) /\ state'[current] = "Running"
  BY <1>1, <1>2, <1>3, Types, Constants DEF Whereabouts, Placed
<1>8. Asleep(state', sleeping')
  BY <1>2, <1>3 DEF Whereabouts, Asleep
<1>9. Waiting(state', joinq, readq, pc', popped)
  <2>1. Waiting(state, joinq, readq, pc', popped)
    BY <1>2, <1>6, SameWakes DEF Whereabouts
  <2> QED BY <1>3, <2>1 DEF Waiting
<1>10. Ending(state', current, ready, toReap, all, pc', arg')
  <2>1. /\ Ending(state, current, ready, toReap, all, pc, arg) /\ all \subseteq Ids
        /\ Placed(state, current, ready) /\ state \in [Ids -> States]
    BY <1>2, Types DEF Whereabouts
  <2>2. \A u \in Ids : In(u, toReap) => state'[u] = "Exited"
    BY <1>3, <2>1 DEF Ending
  <2>3. \A u, x \in Ids : Reaps(pc', arg', u, x) =>
           state'[x] = "Exited" /\ x \in all /\ ~In(x, ready) /\ ~In(x, toReap) /\ x # current
    <3>1. ASSUME NEW u \in Ids, NEW x \in Ids, Reaps(pc, arg, u, x)
          PROVE  state'[x] = "Exited" /\ x \in all /\ ~In(x, ready) /\ ~In(x, toReap) /\ x # current
      BY <3>1, <1>3, <2>1 DEF Ending
    <3>2. ASSUME state[v] \in {"Blocked", "Sleeping"}
          PROVE  state'[v] = "Exited" /\ v \in all /\ ~In(v, ready) /\ ~In(v, toReap) /\ v # current
      BY <3>2, <1>1, <1>3, <2>1 DEF Ending, Placed
    <3> QED BY <1>6, <3>1, <3>2
  <2>4. \A u, w, x \in Ids : Reaps(pc', arg', u, x) /\ Reaps(pc', arg', w, x) => u = w
    BY <1>6, <2>1 DEF Ending
  <2>5. ASSUME NEW x \in all, state'[x] = "Exited", x # current
        PROVE  In(x, toReap) \/ In(x, ready) \/ \E u \in Ids : Reaps(pc', arg', u, x)
    <3>1. CASE x = v /\ state[v] \in {"Blocked", "Sleeping"}
      BY <3>1, <1>6
    <3>2. CASE x = v /\ state[v] \notin {"Blocked", "Sleeping", "Exited"}
      <4>1. state[v] \in {"Ready", "Running"}
        BY <3>2, <2>1 DEF Ending, States
      <4> QED BY <3>2, <4>1, <1>1, <2>1 DEF Placed
    <3>3. CASE state[x] = "Exited"
      BY <2>5, <3>3, <1>6, <2>1 DEF Ending
    <3> QED BY <2>5, <3>1, <3>2, <3>3, <1>3, <2>1
  <2>6. \A u \in Ids \ all : state'[u] \in {"New", "Exited"}
    BY <1>3, <2>1 DEF Ending
  <2>7. \A u \in all : state'[u] # "New"
    BY <1>3, <2>1 DEF Ending
  <2> QED BY <2>1, <2>2, <2>3, <2>4, <2>5, <2>6, <2>7 DEF Ending
<1>11. Whereabouts'
  BY <1>1, <1>7, <1>8, <1>9, <1>10 DEF Whereabouts
<1>12. SlotsOwned(all, stack, pc', arg', freeSlots, nextFresh)
  BY <1>2, <1>6 DEF SlotsOwned
<1>13. SlotsMapped(state', stack, pc', arg', freeSlots, mapped)
  BY <1>2, <1>3, <1>4 DEF SlotsMapped
<1>14. IdsInOrder(state', pc', nextId)
  <2>1. Spawning(pc') = Spawning(pc)
    BY <1>1, <1>4 DEF Spawning
  <2>2. state[v] # "New"
    BY <1>1, <1>2 DEF Whereabouts, Ending
  <2> QED BY <1>2, <1>3, <2>1, <2>2 DEF IdsInOrder
<1>15. Arguments(pc', arg') /\ pc'[IdleId] = "run"
  BY <1>1, <1>2, <1>4, Constants DEF Arguments
<1>16. RetiredCodesTrue'
  <2>1. \A i \in 1 .. Len(retired) : retired[i].id \in Ids
    BY <1>2, Types, RecordIds
  <2>2. \A i \in 1 .. Len(retired) : retired[i].id # v
    BY <1>1, <1>2 DEF RetiredCodesTrue
  <2> QED BY <1>1, <1>2, <1>3, <2>1, <2>2 DEF RetiredCodesTrue
<1>17. IdleOnlyIfNothingReady'
  BY <1>1 DEF IdleOnlyIfNothingReady
<1> QED BY <1>1, <1>2, <1>5, <1>11, <1>12, <1>13, <1>14, <1>15, <1>16, <1>17 DEF SchedInv

\* wake_all pops one live joiner, or is done.
LEMMA KillPopInv ==
    ASSUME SchedInv, NEW t \in Ids, KillPop(t)
    PROVE  SchedInv'
<1> DEFINE w == Live(state, joinq)
<1>1. /\ Up /\ current = t /\ pc[t] = "pop"
      /\ IF w = <<>>
         THEN /\ joinq' = <<>>
              /\ pc' = [pc EXCEPT ![t] = IF arg[t] = None THEN "run" ELSE "unmap"]
              /\ UNCHANGED popped
         ELSE /\ popped' = [popped EXCEPT ![t] = Head(w)]
              /\ joinq' = Behind(Head(w), joinq)
              /\ pc' = [pc EXCEPT ![t] = "wake"]
      /\ UNCHANGED <<state, current, ready, toReap, all, retired, slice, code, stack, arg,
                     sleeping, left, readq, key, freeSlots, nextFresh, mapped, slotsBy, nextId,
                     panicked, hung>>
  BY DEF KillPop, At, Goto, svars, kvars
<1>2. /\ TypeOK /\ Whereabouts /\ pc[IdleId] = "run" /\ Arguments(pc, arg)
      /\ IdsInOrder(state, pc, nextId)
      /\ SlotsOwned(all, stack, pc, arg, freeSlots, nextFresh)
      /\ SlotsMapped(state, stack, pc, arg, freeSlots, mapped)
      /\ RetiredCodesTrue /\ \A s \in mapped : s < nextFresh
  BY <1>1 DEF SchedInv
<1>3. joinq \in Seq(Ids) /\ Distinct(joinq) /\ Waiting(state, joinq, readq, pc, popped)
      /\ t # IdleId /\ arg[t] \in Ids \cup {None}
  BY <1>1, <1>2, Types DEF Whereabouts, Waiting, Arguments
<1>4. /\ pc' \in [Ids -> PCs] /\ \A u \in Ids \ {t} : pc'[u] = pc[u]
      /\ pc'[t] = IF w # <<>> THEN "wake" ELSE IF arg[t] = None THEN "run" ELSE "unmap"
  BY <1>1, <1>2, Types DEF PCs
<1>5. /\ \A u, x \in Ids : Reaps(pc', arg, u, x) <=> Reaps(pc, arg, u, x)
      /\ \A u \in Ids, s \in Slots : Claims(pc', arg, u, s) <=> Claims(pc, arg, u, s)
      /\ \A x \in Ids : HasStack(all, pc', arg, x) <=> HasStack(all, pc, arg, x)
  BY <1>1, <1>4, Constants DEF Reaps, Killing, Claims, HasStack
<1>6. /\ joinq' \in Seq(Ids) /\ popped' \in [Ids -> Ids \cup {None}]
      /\ Waiting(state, joinq', readq, pc', popped')
  <2>1. CASE w = <<>>
    <3>1. \A u \in Ids : In(u, joinq) => state[u] = "Exited"
      BY <1>3, <2>1, PopFirst
    <3>2. joinq' = <<>> /\ popped' = popped /\ \A u \in Ids : pc'[u] = "wake" <=> pc[u] = "wake"
      BY <1>1, <1>4, <2>1
    <3>3. joinq' \in Seq(Ids) /\ Distinct(joinq') /\ \A u : ~In(u, joinq')
      BY <3>2 DEF In, Distinct
    <3>4. popped' \in [Ids -> Ids \cup {None}]
      BY <1>2, <3>2, Types
    <3> QED BY <1>3, <3>1, <3>2, <3>3, <3>4 DEF Waiting
  <2>2. CASE w # <<>>
    <3> DEFINE h == Head(w)
    <3>1. /\ h \in Ids /\ In(h, joinq) /\ state[h] # "Exited"
          /\ Behind(h, joinq) \in Seq(Ids) /\ Distinct(Behind(h, joinq))
          /\ \A u \in Ids : In(u, Behind(h, joinq)) => In(u, joinq) /\ u # h
          /\ \A u \in Ids : In(u, joinq) /\ state[u] # "Exited" => In(u, Behind(h, joinq)) \/ u = h
      BY <1>3, <2>2, PopFirst
    <3>2. joinq' = Behind(h, joinq) /\ popped' = [popped EXCEPT ![t] = h] /\ pc'[t] = "wake"
      BY <1>1, <1>4, <2>2
    <3> HIDE DEF h, w
    <3>3. /\ joinq' \in Seq(Ids) /\ Distinct(joinq')
          /\ \A u \in Ids : In(u, joinq') => In(u, joinq) /\ u # h
          /\ \A u \in Ids : In(u, joinq) /\ state[u] # "Exited" => In(u, joinq') \/ u = h
      BY <3>1, <3>2
    <3>4. popped' \in [Ids -> Ids \cup {None}] /\ popped'[t] = h /\ \A u \in Ids \ {t} : popped'[u] = popped[u]
      BY <1>2, <3>1, <3>2, Types
    <3>5. state[h] = "Blocked" /\ ~In(h, readq)
      BY <1>3, <3>1 DEF Waiting
    <3>6. \A u \in Ids : pc[u] = "wake" => popped[u] # h /\ u # t
      BY <1>1, <1>3, <3>1 DEF Waiting
    <3>7. \A u \in Ids : pc'[u] = "wake" =>
             /\ popped'[u] \in Ids /\ state[popped'[u]] \in {"Blocked", "Exited"}
             /\ ~In(popped'[u], joinq') /\ ~In(popped'[u], readq)
      BY <1>3, <1>4, <3>1, <3>3, <3>4, <3>5, <3>6 DEF Waiting
    <3>8. \A u, v \in Ids : pc'[u] = "wake" /\ pc'[v] = "wake" /\ popped'[u] = popped'[v] => u = v
      BY <1>3, <1>4, <3>4, <3>6 DEF Waiting
    <3>9. ASSUME NEW x \in Ids, state[x] = "Blocked"
          PROVE  In(x, joinq') \/ In(x, readq) \/ \E u \in Ids : pc'[u] = "wake" /\ popped'[u] = x
      <4>1. CASE In(x, joinq)
        BY <4>1, <3>2, <3>3, <3>4, <3>9
      <4>2. CASE In(x, readq)
        BY <4>2
      <4>3. CASE \E u \in Ids : pc[u] = "wake" /\ popped[u] = x
        BY <4>3, <1>4, <3>4, <3>6
      <4> QED BY <3>9, <4>1, <4>2, <4>3, <1>3 DEF Waiting
    <3>10. Waiting(state, joinq', readq, pc', popped')
      BY <1>3, <3>3, <3>7, <3>8, <3>9 DEF Waiting
    <3> QED BY <3>3, <3>4, <3>10
  <2> QED BY <2>1, <2>2
<1>7. TypeOK'
  BY <1>1, <1>2, <1>4, <1>6 DEF TypeOK, Up
<1>8. Whereabouts'
  <2>1. Ending(state, current, ready, toReap, all, pc, arg) /\ all \subseteq Ids
    BY <1>2, Types DEF Whereabouts
  <2>2. Ending(state, current, ready, toReap, all, pc', arg)
    BY <1>5, <2>1, SameRoles
  <2> QED BY <1>1, <1>2, <1>6, <2>2 DEF Whereabouts
<1>9. SlotsOwned(all, stack, pc', arg, freeSlots, nextFresh)
  BY <1>2, <1>5, Types, SameRoles
<1>10. SlotsMapped(state, stack, pc', arg, freeSlots, mapped)
  BY <1>1, <1>2, <1>4 DEF SlotsMapped
<1>11. IdsInOrder(state, pc', nextId)
  <2>1. Spawning(pc') = Spawning(pc)
    BY <1>1, <1>4 DEF Spawning
  <2> QED BY <1>2, <2>1 DEF IdsInOrder
<1>12. Arguments(pc', arg) /\ pc'[IdleId] = "run"
  BY <1>2, <1>3, <1>4, Constants DEF Arguments
<1>13. RetiredCodesTrue' /\ IdleOnlyIfNothingReady'
  BY <1>1, <1>2, <1>3 DEF RetiredCodesTrue, IdleOnlyIfNothingReady
<1> QED BY <1>1, <1>2, <1>7, <1>8, <1>9, <1>10, <1>11, <1>12, <1>13 DEF SchedInv

\* The popped joiner is woken, unless it was killed in the meantime.
LEMMA KillWakeInv ==
    ASSUME SchedInv, NEW t \in Ids, KillWake(t)
    PROVE  SchedInv'
<1> DEFINE h == popped[t]
           q == IF state[h] = "Blocked" THEN <<h>> ELSE <<>>
           st == SetReady(state, <<h>>)
           rq == IF state[h] = "Blocked" THEN Append(ready, h) ELSE ready
<1>1. /\ Up /\ current = t /\ pc[t] = "wake" /\ popped' = [popped EXCEPT ![t] = None]
      /\ pc' = [pc EXCEPT ![t] = "pop"] /\ state' = st /\ ready' = rq /\ panicked' = Overflows(rq)
      /\ UNCHANGED <<code, stack, current, toReap, all, retired, slice, arg, sleeping, left, joinq, readq, key,
                     kvars, nextId, hung>>
  BY DEF KillWake, At, Goto, wvars
<1>2. /\ TypeOK /\ Whereabouts /\ pc[IdleId] = "run" /\ Arguments(pc, arg)
      /\ IdsInOrder(state, pc, nextId)
      /\ SlotsOwned(all, stack, pc, arg, freeSlots, nextFresh)
      /\ SlotsMapped(state, stack, pc, arg, freeSlots, mapped)
  BY <1>1 DEF SchedInv
<1>3. /\ h \in Ids /\ state[h] \in {"Blocked", "Exited"} /\ ~In(h, joinq) /\ ~In(h, readq)
      /\ \A u \in Ids : pc[u] = "wake" /\ popped[u] = h => u = t
      /\ t # IdleId /\ Waiting(state, joinq, readq, pc, popped)
  BY <1>1, <1>2 DEF Whereabouts, Waiting
<1>4. /\ pc' \in [Ids -> PCs] /\ pc'[t] = "pop" /\ \A u \in Ids \ {t} : pc'[u] = pc[u]
      /\ popped' \in [Ids -> Ids \cup {None}] /\ \A u \in Ids \ {t} : popped'[u] = popped[u]
  BY <1>1, <1>2, Types DEF PCs
<1>5. \A x : In(x, <<h>>) <=> x = h
  BY DEF In
<1>6. q \in Seq(Ids) /\ Distinct(q) /\ \A x : In(x, q) <=> x = h /\ state[h] = "Blocked"
  BY <1>3 DEF In, Distinct
<1>7. rq = ready \o q
  <2>1. ready \in Seq(Ids)
    BY <1>2, Types
  <2>2. CASE state[h] = "Blocked"
    BY <1>3, <2>1, <2>2, AppendIsConcat
  <2>3. CASE state[h] # "Blocked"
    BY <2>1, <2>3
  <2> QED BY <2>2, <2>3
<1> HIDE DEF h, q
<1>8. st = SetReady(state, q)
  BY <1>3, <1>5, <1>6 DEF SetReady
<1>9. \A u \in Ids : In(u, q) => state[u] \in {"Blocked", "Sleeping"} /\ u # current
  BY <1>2, <1>6 DEF Whereabouts
<1> HIDE DEF rq, st
<1>10. /\ st \in [Ids -> States] /\ rq \in Seq(Ids)
       /\ \A u \in Ids : st[u] = IF In(u, q) THEN "Ready" ELSE state[u]
       /\ Placed(st, current, rq)
       /\ Ending(st, current, rq, toReap, all, pc, arg)
  <2>1. /\ state \in [Ids -> States] /\ ready \in Seq(Ids) /\ current \in Ids /\ all \subseteq Ids
        /\ Placed(state, current, ready) /\ Ending(state, current, ready, toReap, all, pc, arg)
    BY <1>2, Types DEF Whereabouts
  <2> QED BY <1>6, <1>7, <1>8, <1>9, <2>1, WakeUp
<1>11. \A u \in Ids : st[u] = IF u = h /\ state[h] = "Blocked" THEN "Ready" ELSE state[u]
  BY <1>6, <1>10
<1>12. /\ \A u, x \in Ids : Reaps(pc', arg, u, x) <=> Reaps(pc, arg, u, x)
       /\ \A u \in Ids, s \in Slots : Claims(pc', arg, u, s) <=> Claims(pc, arg, u, s)
       /\ \A x \in Ids : HasStack(all, pc', arg, x) <=> HasStack(all, pc, arg, x)
  BY <1>1, <1>4 DEF Reaps, Killing, Claims, HasStack
<1>13. Ending(st, current, rq, toReap, all, pc', arg) /\ SlotsOwned(all, stack, pc', arg, freeSlots, nextFresh)
  BY <1>2, <1>10, <1>12, Types, SameRoles
<1>14. SlotsMapped(state, stack, pc', arg, freeSlots, mapped)
  BY <1>2, <1>4 DEF SlotsMapped
<1>15. IdsInOrder(state, pc', nextId)
  <2>1. Spawning(pc') = Spawning(pc)
    BY <1>1, <1>4 DEF Spawning
  <2> QED BY <1>2, <2>1 DEF IdsInOrder
<1>16. Arguments(pc', arg) /\ pc'[IdleId] = "run"
  BY <1>1, <1>2, <1>3, <1>4, Constants DEF Arguments
<1>17. Asleep(st, sleeping)
  BY <1>2, <1>11 DEF Whereabouts, Asleep
<1>18. Waiting(st, joinq, readq, pc', popped')
  <2>1. \A u \in Ids : In(u, joinq) \/ In(u, readq) => st[u] = state[u]
    BY <1>3, <1>11
  <2>2. \A u \in Ids : pc'[u] = "wake" => /\ u # t /\ pc[u] = "wake" /\ popped'[u] = popped[u]
                                          /\ popped[u] \in Ids /\ popped[u] # h
                                          /\ st[popped[u]] = state[popped[u]]
    BY <1>3, <1>4, <1>11 DEF Waiting
  <2>3. \A x \in Ids : st[x] = "Blocked" => state[x] = "Blocked" /\ x # h
    BY <1>3, <1>11
  <2>4. \A x \in Ids : st[x] = "Blocked" =>
           In(x, joinq) \/ In(x, readq) \/ \E u \in Ids : pc'[u] = "wake" /\ popped'[u] = x
    BY <1>3, <1>4, <2>3 DEF Waiting, h
  <2> QED BY <1>3, <2>1, <2>2, <2>4 DEF Waiting
<1>19. \A u \in Ids : (st[u] = "New" <=> state[u] = "New") /\ (st[u] = "Exited" <=> state[u] = "Exited")
  BY <1>11
<1>20. st[current] = "Running" /\ current \in Ids /\ current # IdleId
  BY <1>1, <1>2, <1>3, <1>11, Types DEF Whereabouts
<1>21. /\ left' \in [Ids -> 0 .. MaxSleep] /\ sleeping' \subseteq Ids /\ joinq' \in Seq(Ids) /\ readq' \in Seq(Ids)
       /\ arg' \in [Ids -> Ids \cup Slots \cup {None}] /\ key' \in BOOLEAN /\ slice' \in 1 .. TimesliceTicks
       /\ arg' = arg /\ joinq' = joinq /\ readq' = readq /\ sleeping' = sleeping
  BY <1>1, <1>2, Types
<1>22. /\ Asleep(st, sleeping') /\ Waiting(st, joinq', readq', pc', popped')
       /\ Ending(st, current, rq, toReap, all, pc', arg')
       /\ SlotsOwned(all, stack, pc', arg', freeSlots, nextFresh)
       /\ SlotsMapped(state, stack, pc', arg', freeSlots, mapped)
       /\ Arguments(pc', arg')
  BY <1>13, <1>14, <1>16, <1>17, <1>18, <1>21
<1>23. /\ UNCHANGED <<code, stack, nextId, current, toReap, all, retired, kvars, hung>>
       /\ state' = st /\ ready' = rq /\ panicked' = Overflows(rq) /\ Up
       /\ pc' \in [Ids -> PCs] /\ popped' \in [Ids -> Ids \cup {None}]
  BY <1>1, <1>4 DEF kvars, st, rq
<1> QED BY <1>10, <1>15, <1>16, <1>19, <1>20, <1>21, <1>22, <1>23, WokenInv

\* The pages of the victim's stack are unmapped; nobody else is on it.
LEMMA KillUnmapInv ==
    ASSUME SchedInv, NEW t \in Ids, KillUnmap(t)
    PROVE  SchedInv'
<1>1. /\ Up /\ current = t /\ pc[t] = "unmap" /\ mapped' = mapped \ {stack[arg[t]]}
      /\ pc' = [pc EXCEPT ![t] = "release"]
      /\ UNCHANGED <<state, current, ready, toReap, all, retired, slice, code, stack, arg, popped,
                     sleeping, left, joinq, readq, key, freeSlots, nextFresh, slotsBy, nextId,
                     panicked, hung>>
  BY DEF KillUnmap, At, Goto, svars, wvars
<1>2. /\ TypeOK /\ Whereabouts /\ pc[IdleId] = "run" /\ Arguments(pc, arg)
      /\ IdsInOrder(state, pc, nextId)
      /\ SlotsOwned(all, stack, pc, arg, freeSlots, nextFresh)
      /\ SlotsMapped(state, stack, pc, arg, freeSlots, mapped)
      /\ RetiredCodesTrue /\ \A s \in mapped : s < nextFresh
  BY <1>1 DEF SchedInv
<1>3. t # IdleId /\ arg[t] \in Ids
  BY <1>1, <1>2 DEF Arguments
<1>4. /\ pc' \in [Ids -> PCs] /\ pc'[t] = "release" /\ \A u \in Ids \ {t} : pc'[u] = pc[u]
  BY <1>1, <1>2, Types DEF PCs
<1>5. TypeOK'
  BY <1>1, <1>2, <1>4 DEF TypeOK, Up
<1>6. /\ \A u, x \in Ids : Reaps(pc', arg, u, x) <=> Reaps(pc, arg, u, x)
      /\ \A u \in Ids, s \in Slots : Claims(pc', arg, u, s) <=> Claims(pc, arg, u, s)
      /\ \A x \in Ids : HasStack(all, pc', arg, x) <=> HasStack(all, pc, arg, x)
      /\ \A u \in Ids : pc'[u] = "wake" <=> pc[u] = "wake"
  BY <1>1, <1>4 DEF Reaps, Killing, Claims, HasStack
<1>7. Whereabouts'
  <2>1. /\ Ending(state, current, ready, toReap, all, pc, arg) /\ all \subseteq Ids
        /\ Waiting(state, joinq, readq, pc, popped)
    BY <1>2, Types DEF Whereabouts
  <2>2. Ending(state, current, ready, toReap, all, pc', arg) /\ Waiting(state, joinq, readq, pc', popped)
    BY <1>6, <2>1, SameRoles, SameWakes
  <2> QED BY <1>1, <1>2, <2>2 DEF Whereabouts
<1>8. SlotsOwned(all, stack, pc', arg, freeSlots, nextFresh)
  BY <1>2, <1>6, Types, SameRoles
<1>9. HasStack(all, pc, arg, arg[t]) /\ state[arg[t]] = "Exited" /\ stack[arg[t]] \in Slots
  <2>1. pc[t] \in Killing \ {"retire"}
    BY <1>1 DEF Killing
  <2>2. HasStack(all, pc, arg, arg[t]) /\ state[arg[t]] = "Exited"
    BY <1>2, <1>3, <2>1, VictimHasStack
  <2> QED BY <1>2, <2>2 DEF HasStack, SlotsOwned
<1>10. SlotsMapped(state, stack, pc', arg, freeSlots, mapped')
  <2>1. ASSUME NEW u \in Ids, pc'[u] = "register" PROVE arg[u] \in mapped'
    <3>1. pc[u] = "register" /\ arg[u] \in Slots /\ arg[u] \in mapped
      BY <2>1, <1>2, <1>4 DEF Arguments, SlotsMapped
    <3>2. arg[u] # stack[arg[t]]
      BY <3>1, <1>2, <1>3, <1>9 DEF SlotsOwned, Claims
    <3> QED BY <3>1, <3>2, <1>1
  <2>2. ASSUME NEW x \in Ids, state[x] \notin {"New", "Exited"} PROVE stack[x] \in mapped'
    <3>1. x \in all /\ \A u \in Ids : ~Reaps(pc, arg, u, x)
      BY <2>2, <1>2 DEF Whereabouts, Ending
    <3>2. HasStack(all, pc, arg, x) /\ x # arg[t]
      BY <2>2, <3>1, <1>9 DEF HasStack, Reaps, Killing
    <3>3. stack[x] # stack[arg[t]]
      BY <3>2, <1>2, <1>3, <1>9 DEF SlotsOwned
    <3> QED BY <2>2, <3>3, <1>1, <1>2 DEF SlotsMapped
  <2>3. \A u \in Ids : pc'[u] \in {"release", "unlock"} => stack[arg[u]] \notin mapped'
    BY <1>1, <1>2, <1>4 DEF SlotsMapped
  <2>4. \A u \in Ids : pc'[u] = "map" => arg[u] \notin mapped'
    BY <1>1, <1>2, <1>4 DEF SlotsMapped
  <2>5. \A s \in Slots : In(s, freeSlots) => s \notin mapped'
    BY <1>1, <1>2 DEF SlotsMapped
  <2> QED BY <2>1, <2>2, <2>3, <2>4, <2>5 DEF SlotsMapped
<1>11. IdsInOrder(state, pc', nextId)
  <2>1. Spawning(pc') = Spawning(pc)
    BY <1>1, <1>4 DEF Spawning
  <2> QED BY <1>2, <2>1 DEF IdsInOrder
<1>12. Arguments(pc', arg) /\ pc'[IdleId] = "run"
  BY <1>1, <1>2, <1>3, <1>4, Constants DEF Arguments
<1>13. RetiredCodesTrue' /\ IdleOnlyIfNothingReady'
  BY <1>1, <1>2, <1>3 DEF RetiredCodesTrue, IdleOnlyIfNothingReady
<1>14. \A s \in mapped' : s < nextFresh
  BY <1>1, <1>2
<1> QED BY <1>1, <1>5, <1>7, <1>8, <1>10, <1>11, <1>12, <1>13, <1>14 DEF SchedInv

\* force_exit takes the slot lock.
LEMMA KillLockInv ==
    ASSUME SchedInv, NEW t \in Ids, KillLock(t)
    PROVE  SchedInv'
<1>1. /\ Up /\ current = t /\ pc[t] = "release" /\ slotsBy' = t
      /\ pc' = [pc EXCEPT ![t] = "unlock"]
      /\ UNCHANGED <<state, current, ready, toReap, all, retired, slice, code, stack, arg, popped,
                     sleeping, left, joinq, readq, key, freeSlots, nextFresh, mapped, nextId,
                     panicked, hung>>
  BY DEF KillLock, At, Goto, svars, wvars
<1>2. /\ TypeOK /\ Whereabouts /\ pc[IdleId] = "run" /\ Arguments(pc, arg)
      /\ IdsInOrder(state, pc, nextId)
      /\ SlotsOwned(all, stack, pc, arg, freeSlots, nextFresh)
      /\ SlotsMapped(state, stack, pc, arg, freeSlots, mapped)
      /\ RetiredCodesTrue /\ \A s \in mapped : s < nextFresh
  BY <1>1 DEF SchedInv
<1>3. t # IdleId /\ arg[t] \in Ids
  BY <1>1, <1>2 DEF Arguments
<1>4. /\ pc' \in [Ids -> PCs] /\ pc'[t] = "unlock" /\ \A u \in Ids \ {t} : pc'[u] = pc[u]
  BY <1>1, <1>2, Types DEF PCs
<1>5. TypeOK'
  BY <1>1, <1>2, <1>4 DEF TypeOK, Up
<1>6. /\ \A u, x \in Ids : Reaps(pc', arg, u, x) <=> Reaps(pc, arg, u, x)
      /\ \A u \in Ids, s \in Slots : Claims(pc', arg, u, s) <=> Claims(pc, arg, u, s)
      /\ \A x \in Ids : HasStack(all, pc', arg, x) <=> HasStack(all, pc, arg, x)
      /\ \A u \in Ids : pc'[u] = "wake" <=> pc[u] = "wake"
  BY <1>1, <1>4 DEF Reaps, Killing, Claims, HasStack
<1>7. Whereabouts'
  <2>1. /\ Ending(state, current, ready, toReap, all, pc, arg) /\ all \subseteq Ids
        /\ Waiting(state, joinq, readq, pc, popped)
    BY <1>2, Types DEF Whereabouts
  <2>2. Ending(state, current, ready, toReap, all, pc', arg) /\ Waiting(state, joinq, readq, pc', popped)
    BY <1>6, <2>1, SameRoles, SameWakes
  <2> QED BY <1>1, <1>2, <2>2 DEF Whereabouts
<1>8. SlotsOwned(all, stack, pc', arg, freeSlots, nextFresh)
  BY <1>2, <1>6, Types, SameRoles
<1>9. SlotsMapped(state, stack, pc', arg, freeSlots, mapped)
  BY <1>1, <1>2, <1>4 DEF SlotsMapped
<1>10. IdsInOrder(state, pc', nextId)
  <2>1. Spawning(pc') = Spawning(pc)
    BY <1>1, <1>4 DEF Spawning
  <2> QED BY <1>2, <2>1 DEF IdsInOrder
<1>11. Arguments(pc', arg) /\ pc'[IdleId] = "run"
  BY <1>1, <1>2, <1>3, <1>4, Constants DEF Arguments
<1>12. RetiredCodesTrue' /\ IdleOnlyIfNothingReady'
  BY <1>1, <1>2, <1>3 DEF RetiredCodesTrue, IdleOnlyIfNothingReady
<1> QED BY <1>1, <1>2, <1>5, <1>7, <1>8, <1>9, <1>10, <1>11, <1>12 DEF SchedInv

\* The slot goes from the victim to the free list.
LEMMA KillReleaseInv ==
    ASSUME SchedInv, NEW t \in Ids, KillRelease(t)
    PROVE  SchedInv'
<1> DEFINE v == arg[t]
           s0 == stack[v]
<1>1. /\ Up /\ current = t /\ pc[t] = "unlock" /\ freeSlots' = Append(freeSlots, s0) /\ slotsBy' = None
      /\ pc' = [pc EXCEPT ![t] = "retire"]
      /\ UNCHANGED <<state, current, ready, toReap, all, retired, slice, code, stack, arg, popped,
                     sleeping, left, joinq, readq, key, nextFresh, mapped, nextId,
                     panicked, hung>>
  BY DEF KillRelease, At, Goto, svars, wvars
<1>2. /\ TypeOK /\ Whereabouts /\ pc[IdleId] = "run" /\ Arguments(pc, arg)
      /\ IdsInOrder(state, pc, nextId)
      /\ SlotsOwned(all, stack, pc, arg, freeSlots, nextFresh)
      /\ SlotsMapped(state, stack, pc, arg, freeSlots, mapped)
      /\ RetiredCodesTrue /\ \A s \in mapped : s < nextFresh
  BY <1>1 DEF SchedInv
<1>3. t # IdleId /\ v \in Ids
  BY <1>1, <1>2 DEF Arguments
<1>4. /\ pc' \in [Ids -> PCs] /\ pc'[t] = "retire" /\ \A u \in Ids \ {t} : pc'[u] = pc[u]
  BY <1>1, <1>2, Types DEF PCs
<1>5. HasStack(all, pc, arg, v) /\ s0 \in Slots /\ s0 < nextFresh /\ s0 \notin mapped
  <2>1. pc[t] \in Killing \ {"retire"}
    BY <1>1 DEF Killing
  <2>2. HasStack(all, pc, arg, v)
    BY <1>2, <1>3, <2>1, VictimHasStack
  <2>3. s0 \notin mapped
    BY <1>1, <1>2 DEF SlotsMapped
  <2> QED BY <1>2, <2>2, <2>3 DEF HasStack, SlotsOwned
<1>6. ~In(s0, freeSlots) /\ freeSlots \in Seq(Slots) /\ Distinct(freeSlots)
  BY <1>2, <1>3, <1>5, Types DEF SlotsOwned
<1>7. /\ freeSlots' \in Seq(Slots) /\ Distinct(freeSlots')
      /\ \A s : In(s, freeSlots') <=> In(s, freeSlots) \/ s = s0
  BY <1>1, <1>5, <1>6, InAppend, DistinctAppend
<1>8. /\ \A u, x \in Ids : Reaps(pc', arg, u, x) <=> Reaps(pc, arg, u, x)
      /\ \A u \in Ids, s \in Slots : Claims(pc', arg, u, s) <=> Claims(pc, arg, u, s)
      /\ \A x \in Ids : HasStack(all, pc', arg, x) <=> HasStack(all, pc, arg, x) /\ x # v
      /\ \A u \in Ids : pc'[u] = "wake" <=> pc[u] = "wake"
  BY <1>1, <1>4 DEF Reaps, Killing, Claims, HasStack
<1> HIDE DEF v, s0
<1>9. TypeOK'
  BY <1>1, <1>2, <1>4, <1>7 DEF TypeOK, Up
<1>10. Whereabouts'
  <2>1. /\ Ending(state, current, ready, toReap, all, pc, arg) /\ all \subseteq Ids
        /\ Waiting(state, joinq, readq, pc, popped)
    BY <1>2, Types DEF Whereabouts
  <2>2. Ending(state, current, ready, toReap, all, pc', arg)
    BY <1>8, <2>1 DEF Ending
  <2>3. Waiting(state, joinq, readq, pc', popped)
    BY <1>8, <2>1, SameWakes
  <2> QED BY <1>1, <1>2, <2>2, <2>3 DEF Whereabouts
<1>11. SlotsOwned(all, stack, pc', arg, freeSlots', nextFresh)
  <2>1. \A x \in Ids : HasStack(all, pc', arg, x) => stack[x] # s0
    BY <1>2, <1>3, <1>5, <1>8 DEF SlotsOwned, s0
  <2>2. \A u \in Ids : ~Claims(pc, arg, u, s0)
    BY <1>2, <1>3, <1>5 DEF SlotsOwned, s0
  <2>3. \A u \in Ids, s \in Slots : Claims(pc', arg, u, s) =>
           /\ s < nextFresh /\ ~In(s, freeSlots')
           /\ \A x \in Ids : HasStack(all, pc', arg, x) => stack[x] # s
    BY <1>2, <1>7, <1>8, <2>2 DEF SlotsOwned
  <2>4. \A s \in Slots : In(s, freeSlots') => /\ s < nextFresh
                                              /\ \A x \in Ids : HasStack(all, pc', arg, x) => stack[x] # s
    BY <1>2, <1>5, <1>7, <1>8, <2>1 DEF SlotsOwned
  <2>5. ASSUME NEW s \in Slots, s < nextFresh
        PROVE  \/ In(s, freeSlots')
               \/ \E x \in Ids : HasStack(all, pc', arg, x) /\ stack[x] = s
               \/ \E u \in Ids : Claims(pc', arg, u, s)
    BY <2>5, <1>2, <1>7, <1>8 DEF SlotsOwned, s0
  <2>6. /\ \A x \in all : stack[x] \in Slots /\ stack[x] < nextFresh
        /\ \A x, y \in Ids : HasStack(all, pc', arg, x) /\ HasStack(all, pc', arg, y) /\ stack[x] = stack[y] => x = y
        /\ \A u, y \in Ids, s \in Slots : Claims(pc', arg, u, s) /\ Claims(pc', arg, y, s) => u = y
    BY <1>2, <1>8 DEF SlotsOwned
  <2> QED BY <1>7, <2>3, <2>4, <2>5, <2>6 DEF SlotsOwned
<1>12. SlotsMapped(state, stack, pc', arg, freeSlots', mapped)
  BY <1>2, <1>4, <1>5, <1>7 DEF SlotsMapped
<1>13. IdsInOrder(state, pc', nextId)
  <2>1. Spawning(pc') = Spawning(pc)
    BY <1>1, <1>4 DEF Spawning
  <2> QED BY <1>2, <2>1 DEF IdsInOrder
<1>14. Arguments(pc', arg) /\ pc'[IdleId] = "run"
  BY <1>2, <1>3, <1>4, Constants DEF Arguments, v
<1>15. RetiredCodesTrue' /\ IdleOnlyIfNothingReady'
  BY <1>1, <1>2, <1>3 DEF RetiredCodesTrue, IdleOnlyIfNothingReady
<1> QED BY <1>1, <1>2, <1>9, <1>10, <1>11, <1>12, <1>13, <1>14, <1>15 DEF SchedInv

\* The victim moves from the list of all threads to the record.
LEMMA KillRetireInv ==
    ASSUME SchedInv, NEW t \in Ids, KillRetire(t)
    PROVE  SchedInv'
<1> DEFINE v == arg[t]
<1>1. /\ Up /\ current = t /\ pc[t] = "retire" /\ all' = all \ {v} /\ retired' = Retired(retired, <<v>>)
      /\ arg' = [arg EXCEPT ![t] = None] /\ pc' = [pc EXCEPT ![t] = "run"]
      /\ UNCHANGED <<state, current, ready, toReap, slice, code, stack, popped, sleeping, left, joinq, readq, key,
                     freeSlots, nextFresh, mapped, slotsBy, nextId, panicked, hung>>
  BY DEF KillRetire, At, Goto, wvars, kvars
<1>2. /\ TypeOK /\ Whereabouts /\ pc[IdleId] = "run" /\ Arguments(pc, arg)
      /\ IdsInOrder(state, pc, nextId)
      /\ SlotsOwned(all, stack, pc, arg, freeSlots, nextFresh)
      /\ SlotsMapped(state, stack, pc, arg, freeSlots, mapped)
      /\ RetiredCodesTrue /\ \A s \in mapped : s < nextFresh
  BY <1>1 DEF SchedInv
<1>3. t # IdleId /\ v \in Ids /\ Reaps(pc, arg, t, v)
  BY <1>1, <1>2 DEF Arguments, Reaps, Killing
<1>4. /\ pc' \in [Ids -> PCs] /\ pc'[t] = "run" /\ \A u \in Ids \ {t} : pc'[u] = pc[u]
      /\ arg' \in [Ids -> Ids \cup Slots \cup {None}] /\ \A u \in Ids \ {t} : arg'[u] = arg[u]
  BY <1>1, <1>2, Types DEF PCs
<1>5. /\ v \in all /\ state[v] = "Exited" /\ ~In(v, ready) /\ ~In(v, toReap) /\ v # current
      /\ \A u \in Ids : Reaps(pc, arg, u, v) => u = t
  BY <1>2, <1>3 DEF Whereabouts, Ending
<1>6. /\ \A u, x \in Ids : Reaps(pc', arg', u, x) <=> Reaps(pc, arg, u, x) /\ u # t
      /\ \A u \in Ids, s \in Slots : Claims(pc', arg', u, s) <=> Claims(pc, arg, u, s)
      /\ \A u \in Ids : pc'[u] = "wake" <=> pc[u] = "wake"
  BY <1>1, <1>4 DEF Reaps, Killing, Claims
<1>7. \A x \in Ids : HasStack(all', pc', arg', x) <=> HasStack(all, pc, arg, x)
  BY <1>1, <1>4 DEF HasStack
<1>8. \A u, x \in Ids : Reaps(pc, arg, u, x) /\ x # v => u # t
  BY DEF Reaps
<1> HIDE DEF v
<1>9. Whereabouts'
  <2>1. /\ Ending(state, current, ready, toReap, all, pc, arg) /\ all \subseteq Ids
        /\ Waiting(state, joinq, readq, pc, popped)
    BY <1>2, Types DEF Whereabouts
  <2>2. Ending(state, current, ready, toReap, all', pc', arg')
    <3>1. current \in all' /\ \A x \in Ids : x \in all' <=> x \in all /\ x # v
      BY <1>1, <1>5, <2>1 DEF Ending
    <3>2. all' \subseteq all
      BY <1>1
    <3>3. \A u, x \in Ids : Reaps(pc', arg', u, x) =>
             state[x] = "Exited" /\ x \in all' /\ ~In(x, ready) /\ ~In(x, toReap) /\ x # current
      BY <1>5, <1>6, <2>1, <3>1 DEF Ending
    <3>4. \A x \in all' : state[x] = "Exited" /\ x # current =>
             In(x, toReap) \/ In(x, ready) \/ \E u \in Ids : Reaps(pc', arg', u, x)
      BY <1>6, <1>8, <2>1, <3>1, <3>2 DEF Ending
    <3>5. \A x \in Ids \ all' : state[x] \in {"New", "Exited"}
      BY <1>5, <2>1, <3>1 DEF Ending
    <3> QED BY <1>5, <1>6, <2>1, <3>1, <3>2, <3>3, <3>4, <3>5 DEF Ending
  <2>3. Waiting(state, joinq, readq, pc', popped)
    BY <1>6, <2>1, SameWakes
  <2> QED BY <1>1, <1>2, <2>2, <2>3 DEF Whereabouts
<1>10. SlotsOwned(all', stack, pc', arg', freeSlots, nextFresh)
  <2>1. all' \subseteq all
    BY <1>1
  <2> QED BY <1>2, <1>6, <1>7, <2>1 DEF SlotsOwned
<1>11. SlotsMapped(state, stack, pc', arg', freeSlots, mapped)
  BY <1>2, <1>4 DEF SlotsMapped
<1>12. IdsInOrder(state, pc', nextId)
  <2>1. Spawning(pc') = Spawning(pc)
    BY <1>1, <1>4 DEF Spawning
  <2> QED BY <1>2, <2>1 DEF IdsInOrder
<1>13. Arguments(pc', arg') /\ pc'[IdleId] = "run"
  BY <1>2, <1>3, <1>4, Constants DEF Arguments
<1>14. /\ retired' \in Seq([id : Ids, code : Codes]) /\ Len(retired') <= MaxRetired /\ RetiredCodesTrue'
  <2> DEFINE ts == <<v>>
  <2>1. ts \in Seq(Ids) /\ Distinct(ts) /\ (\A x : In(x, ts) <=> x = v) /\ {ts[i] : i \in 1 .. Len(ts)} = {v}
    BY <1>3 DEF In, Distinct
  <2>2. retired \in Seq([id : Ids, code : Codes]) /\ code \in [Ids -> Codes] /\ CodesTrue(retired, state, code, all)
    BY <1>2, Types DEF RetiredCodesTrue, CodesTrue
  <2> HIDE DEF ts
  <2>3. /\ Retired(retired, ts) \in Seq([id : Ids, code : Codes]) /\ Len(Retired(retired, ts)) <= MaxRetired
        /\ CodesTrue(Retired(retired, ts), state, code, all \ {ts[i] : i \in 1 .. Len(ts)})
    <3>1. \A x \in Ids : In(x, ts) => x \in all /\ state[x] = "Exited"
      BY <1>5, <2>1
    <3> QED BY <2>1, <2>2, <3>1, RetiredKeeps
  <2>4. retired' = Retired(retired, ts) /\ all' = all \ {ts[i] : i \in 1 .. Len(ts)}
    BY <1>1, <2>1 DEF ts
  <2>5. CodesTrue(retired', state', code', all')
    BY <1>1, <2>3, <2>4
  <2> QED BY <2>3, <2>4, <2>5 DEF CodesTrue, RetiredCodesTrue
<1>15. TypeOK'
  BY <1>1, <1>2, <1>4, <1>14 DEF TypeOK, Up
<1>16. IdleOnlyIfNothingReady'
  BY <1>1, <1>3 DEF IdleOnlyIfNothingReady
<1> QED BY <1>1, <1>2, <1>9, <1>10, <1>11, <1>12, <1>13, <1>14, <1>15, <1>16 DEF SchedInv

-----------------------------------------------------------------------------
(* The scheduler's invariant and what follows from it. *)

\* sched::init establishes the invariant.
LEMMA InitInv == Init => SchedInv
<1> SUFFICES ASSUME Init PROVE SchedInv
  OBVIOUS
<1> USE DEF Init
<1>1. \A t \in Ids : pc[t] = "run" /\ arg[t] = None
  OBVIOUS
<1>2. TypeOK
  <2>1. /\ state \in [Ids -> States] /\ pc \in [Ids -> PCs] /\ code \in [Ids -> Codes]
    BY Constants DEF States, PCs
  <2>2. stack \in [Ids -> Slots \cup {NoSlot}] /\ mapped \subseteq Slots /\ nextFresh \in 0 .. NumSlots
    BY Constants DEF Slots, Main, IdleId
  <2>3. current \in Ids /\ all \subseteq Ids /\ nextId \in 2 .. MaxId + 1
    BY Constants
  <2>4. /\ ready \in Seq(Ids) /\ toReap \in Seq(Ids) /\ joinq \in Seq(Ids) /\ readq \in Seq(Ids)
        /\ freeSlots \in Seq(Slots) /\ retired \in Seq([id : Ids, code : Codes])
        /\ Len(ready) <= MaxThreads /\ Len(retired) <= MaxRetired
    BY Constants
  <2>5. /\ left \in [Ids -> 0 .. MaxSleep] /\ slice \in 1 .. TimesliceTicks
        /\ slotsBy \in Ids \cup {None} /\ sleeping \subseteq Ids
        /\ arg \in [Ids -> Ids \cup Slots \cup {None}] /\ popped \in [Ids -> Ids \cup {None}]
    BY Constants
  <2>6. key \in BOOLEAN /\ panicked \in BOOLEAN /\ hung \in BOOLEAN
    OBVIOUS
  <2> HIDE DEF Init
  <2> QED BY <2>1, <2>2, <2>3, <2>4, <2>5, <2>6 DEF TypeOK
<1>3. \A x : ~In(x, ready) /\ ~In(x, toReap) /\ ~In(x, joinq) /\ ~In(x, readq) /\ ~In(x, freeSlots)
  BY DEF In
<1>4. Distinct(ready) /\ Distinct(toReap) /\ Distinct(joinq) /\ Distinct(readq) /\ Distinct(freeSlots)
  BY DEF Distinct
<1>5. \A t \in Ids : /\ state[t] = IF t = Main THEN "Running" ELSE IF t = IdleId THEN "Ready" ELSE "New"
                     /\ t \in {Main, IdleId} => stack[t] = t
  OBVIOUS
<1>6. /\ current = Main /\ all = {Main, IdleId} /\ sleeping = {} /\ nextFresh = 2 /\ mapped = {0, 1}
      /\ nextId = 2 /\ retired = <<>>
  OBVIOUS
<1> HIDE DEF Init
<1>7. Arguments(pc, arg) /\ pc[IdleId] = "run"
  BY <1>1, Constants DEF Arguments
<1>8. IdsInOrder(state, pc, nextId)
  <2>1. Spawning(pc) = {}
    BY <1>1 DEF Spawning
  <2>2. Cardinality(Spawning(pc)) = 0
    BY <2>1, FS_EmptySet
  <2>3. \A t \in Ids : state[t] = "New" <=> t >= 2
    BY <1>5, Constants DEF Ids, Main, IdleId
  <2> QED BY <1>6, <2>2, <2>3, Constants DEF IdsInOrder
<1>9. Whereabouts
  <2>1. Placed(state, current, ready) /\ state[current] = "Running" /\ Asleep(state, sleeping)
    BY <1>3, <1>4, <1>5, <1>6, Constants DEF Placed, Asleep
  <2>2. Waiting(state, joinq, readq, pc, popped)
    BY <1>1, <1>3, <1>4, <1>5 DEF Waiting
  <2>3. Ending(state, current, ready, toReap, all, pc, arg)
    BY <1>1, <1>3, <1>4, <1>5, <1>6, Constants DEF Ending, Reaps, Killing
  <2> QED BY <2>1, <2>2, <2>3 DEF Whereabouts
<1>10. SlotsOwned(all, stack, pc, arg, freeSlots, nextFresh)
  <2>1. \A t \in Ids : HasStack(all, pc, arg, t) <=> t \in {Main, IdleId}
    BY <1>1, <1>6 DEF HasStack
  <2>2. \A u \in Ids : \A s : ~Claims(pc, arg, u, s)
    BY <1>1 DEF Claims
  <2>3. \A t \in all : stack[t] \in Slots /\ stack[t] < nextFresh
    BY <1>5, <1>6, Constants DEF Slots, Main, IdleId
  <2>4. \A s \in Slots : s < nextFresh => \E t \in Ids : HasStack(all, pc, arg, t) /\ stack[t] = s
    <3>1. \A s \in Slots : s < nextFresh => s \in {Main, IdleId}
      BY <1>6, Constants DEF Slots, Main, IdleId
    <3> QED BY <1>5, <2>1, <3>1, Constants
  <2> QED BY <1>3, <1>4, <1>5, <2>1, <2>2, <2>3, <2>4 DEF SlotsOwned
<1>11. SlotsMapped(state, stack, pc, arg, freeSlots, mapped) /\ \A s \in mapped : s < nextFresh
  BY <1>1, <1>3, <1>5, <1>6 DEF SlotsMapped, Main, IdleId
<1>12. RetiredCodesTrue /\ IdleOnlyIfNothingReady
  BY <1>6, Constants DEF RetiredCodesTrue, IdleOnlyIfNothingReady
<1> QED BY <1>2, <1>7, <1>8, <1>9, <1>10, <1>11, <1>12 DEF SchedInv

\* Every step of the scheduler keeps the invariant.
LEMMA NextInv == SchedInv /\ [Next]_vars => SchedInv'
<1> SUFFICES ASSUME SchedInv, [Next]_vars PROVE SchedInv'
  OBVIOUS
<1>1. CASE UNCHANGED vars
  <2>1. UNCHANGED <<state, code, stack, current, ready, sleeping, left, toReap, all, retired, nextId, slice,
                    joinq, readq, key, freeSlots, nextFresh, mapped, slotsBy, pc, arg, popped, panicked, hung>>
    BY <1>1 DEF vars, svars, tvars, wvars, kvars
  <2>2. TypeOK' /\ Up' = Up /\ Whereabouts' = Whereabouts
    BY <2>1 DEF SchedInv, TypeOK, Up, Whereabouts
  <2>3. RetiredCodesTrue' /\ IdleOnlyIfNothingReady'
    BY <2>1, <2>2 DEF SchedInv, RetiredCodesTrue, IdleOnlyIfNothingReady
  <2> QED BY <2>1, <2>2, <2>3 DEF SchedInv
<1>2. CASE TimerTick
  BY <1>2, TimerTickInv
<1>3. CASE KeyboardIrq
  BY <1>3, KeyboardIrqInv
<1>4. ASSUME NEW t \in Ids, Continue(t) PROVE SchedInv'
  BY <1>4, SpawnClaimInv, SpawnMapInv, SpawnRegisterInv, SleepBlockInv, JoinCheckInv, JoinBlockInv,
     ReadBlockInv, ReadKeyInv, ExitCurrentInv, KillPopInv, KillWakeInv, KillUnmapInv, KillLockInv,
     KillReleaseInv, KillRetireInv DEF Continue
<1>5. ASSUME NEW t \in Ids, Start(t) PROVE SchedInv'
  BY <1>5, YieldInv, SpawnLockInv, SpawnUserInv, SleepStartInv, JoinInv, ForceExitInv, ReadKeyInv,
     ExitCodeInv DEF Start
<1> QED BY <1>1, <1>2, <1>3, <1>4, <1>5 DEF Next

\* The inductive invariant holds in every reachable state.
THEOREM SchedInvariant == Spec => []SchedInv
BY InitInv, NextInv, PTL DEF Spec

\* The scheduler's variables keep their types: in particular the ready queue stays
\* within its capacity while the machine runs, and the record within its own.
THEOREM SchedTypes == Spec => []TypeOK
<1>1. SchedInv => TypeOK
  BY DEF SchedInv
<1> QED BY <1>1, SchedInvariant, PTL

\* What join returns from the record is the code the thread ended with, and each
\* retired thread is recorded once, for any number of threads and any record size.
THEOREM CodesStayTrue == Spec => []RetiredCodesTrue
<1>1. SchedInv => RetiredCodesTrue
  BY DEF SchedInv
<1> QED BY <1>1, SchedInvariant, PTL

\* The CPU never idles while a thread is ready.
THEOREM NoIdleWhileReady == Spec => []IdleOnlyIfNothingReady
<1>1. SchedInv => IdleOnlyIfNothingReady
  BY DEF SchedInv
<1> QED BY <1>1, SchedInvariant, PTL

\* Counting the operations that hold something: none or one.
LEMMA HoldersCount ==
    ASSUME NEW t, NEW where, NEW f
    PROVE  /\ (\A u \in Ids : ~(pc[u] \in where /\ f[u] = t)) => Holders(t, where, f) = 0
           /\ \A u \in Ids : /\ pc[u] \in where /\ f[u] = t
                             /\ \A v \in Ids : pc[v] \in where /\ f[v] = t => v = u
                             => Holders(t, where, f) = 1
<1> DEFINE P == {u \in Ids : pc[u] \in where /\ f[u] = t}
<1>1. ASSUME \A u \in Ids : ~(pc[u] \in where /\ f[u] = t) PROVE Cardinality(P) = 0
  <2>1. P = {}
    BY <1>1
  <2> QED BY <2>1, FS_EmptySet
<1>2. ASSUME NEW u \in Ids, pc[u] \in where, f[u] = t, \A v \in Ids : pc[v] \in where /\ f[v] = t => v = u
      PROVE  Cardinality(P) = 1
  <2>1. P = {u}
    BY <1>2
  <2> QED BY <2>1, FS_Singleton
<1> QED BY <1>1, <1>2 DEF Holders

\* The inductive invariant counts every thread once.
LEMMA InvPlacesThreads == SchedInv => EveryThreadIsSomewhere
<1> SUFFICES ASSUME SchedInv, Up, NEW t \in Ids \ {IdleId}
             PROVE  /\ state[t] = "Running" <=> current = t
                    /\ state[t] = "Ready" => Occurs(t, ready) = 1
                    /\ state[t] \notin {"Ready", "Exited"} => Occurs(t, ready) = 0
                    /\ t \in sleeping <=> state[t] = "Sleeping"
                    /\ state[t] = "Blocked" =>
                           Occurs(t, joinq) + Occurs(t, readq) + Holders(t, {"wake"}, popped) = 1
                    /\ state[t] = "Exited" /\ t \in all =>
                           Occurs(t, toReap) + Occurs(t, ready) + Holders(t, Killing, arg) = 1
                    /\ state[t] # "New" /\ t \notin all => Occurs(t, ready) + Occurs(t, toReap) = 0
  BY DEF EveryThreadIsSomewhere
<1>1. TypeOK /\ Whereabouts
  BY DEF SchedInv
<1>2. ready \in Seq(Ids) /\ toReap \in Seq(Ids) /\ joinq \in Seq(Ids) /\ readq \in Seq(Ids)
      /\ current \in Ids /\ all \subseteq Ids
  BY <1>1, Types
<1>3. /\ state[current] = "Running" /\ Placed(state, current, ready) /\ Asleep(state, sleeping)
      /\ Waiting(state, joinq, readq, pc, popped) /\ Ending(state, current, ready, toReap, all, pc, arg)
  BY <1>1 DEF Whereabouts
<1>4. Distinct(ready) /\ Distinct(toReap) /\ Distinct(joinq) /\ Distinct(readq)
  BY <1>3 DEF Placed, Waiting, Ending
<1>5. /\ Occurs(t, ready) = IF In(t, ready) THEN 1 ELSE 0
      /\ Occurs(t, toReap) = IF In(t, toReap) THEN 1 ELSE 0
      /\ Occurs(t, joinq) = IF In(t, joinq) THEN 1 ELSE 0
      /\ Occurs(t, readq) = IF In(t, readq) THEN 1 ELSE 0
  BY <1>2, <1>4, OccursOnce
<1>6. /\ state[t] = "Running" <=> current = t
      /\ state[t] = "Ready" => In(t, ready)
      /\ In(t, ready) => state[t] \in {"Ready", "Exited"}
      /\ t \in sleeping <=> state[t] = "Sleeping"
  BY <1>3 DEF Placed, Asleep
<1>7. ASSUME state[t] = "Blocked"
      PROVE  Occurs(t, joinq) + Occurs(t, readq) + Holders(t, {"wake"}, popped) = 1
  <2>1. CASE \E u \in Ids : pc[u] = "wake" /\ popped[u] = t
    <3>1. PICK u \in Ids : pc[u] = "wake" /\ popped[u] = t
      BY <2>1
    <3>2. \A v \in Ids : pc[v] = "wake" /\ popped[v] = t => v = u
      BY <3>1, <1>3 DEF Waiting
    <3>3. Holders(t, {"wake"}, popped) = 1
      BY <3>1, <3>2, HoldersCount
    <3>4. ~In(t, joinq) /\ ~In(t, readq)
      BY <3>1, <1>3 DEF Waiting
    <3> QED BY <3>3, <3>4, <1>5
  <2>2. CASE ~\E u \in Ids : pc[u] = "wake" /\ popped[u] = t
    <3>1. Holders(t, {"wake"}, popped) = 0
      BY <2>2, HoldersCount
    <3>2. (In(t, joinq) \/ In(t, readq)) /\ ~(In(t, joinq) /\ In(t, readq))
      BY <2>2, <1>3, <1>7 DEF Waiting
    <3> QED BY <3>1, <3>2, <1>5
  <2> QED BY <2>1, <2>2
<1>8. ASSUME state[t] = "Exited", t \in all
      PROVE  Occurs(t, toReap) + Occurs(t, ready) + Holders(t, Killing, arg) = 1
  <2>1. CASE \E u \in Ids : Reaps(pc, arg, u, t)
    <3>1. PICK u \in Ids : Reaps(pc, arg, u, t)
      BY <2>1
    <3>2. \A v \in Ids : Reaps(pc, arg, v, t) => v = u
      BY <3>1, <1>3 DEF Ending
    <3>3. Holders(t, Killing, arg) = 1
      BY <3>1, <3>2, HoldersCount DEF Reaps
    <3>4. ~In(t, toReap) /\ ~In(t, ready)
      BY <3>1, <1>3 DEF Ending
    <3> QED BY <3>3, <3>4, <1>5
  <2>2. CASE ~\E u \in Ids : Reaps(pc, arg, u, t)
    <3>1. Holders(t, Killing, arg) = 0
      BY <2>2, HoldersCount DEF Reaps
    <3>2. In(t, toReap) \/ In(t, ready)
      BY <2>2, <1>3, <1>8 DEF Ending
    <3>3. ~(In(t, toReap) /\ In(t, ready))
      BY <1>3 DEF Ending
    <3> QED BY <3>1, <3>2, <3>3, <1>5
  <2> QED BY <2>1, <2>2
<1>9. t \notin all => ~In(t, ready) /\ ~In(t, toReap)
  BY <1>3 DEF Ending
<1> QED BY <1>5, <1>6, <1>7, <1>8, <1>9

\* No thread is lost and none is in two places.
THEOREM ThreadsArePlaced == Spec => []EveryThreadIsSomewhere
BY InvPlacesThreads, SchedInvariant, PTL

\* The inductive invariant counts one owner for each slot handed out.
LEMMA InvOwnsSlots == SchedInv => StacksAreSafe
<1> SUFFICES ASSUME SchedInv PROVE StacksAreSafe
  OBVIOUS
<1>1. /\ TypeOK /\ SlotsOwned(all, stack, pc, arg, freeSlots, nextFresh)
      /\ SlotsMapped(state, stack, pc, arg, freeSlots, mapped)
  BY DEF SchedInv
<1>2. freeSlots \in Seq(Slots) /\ all \subseteq Ids /\ nextFresh \in 0 .. NumSlots
  BY <1>1, Types
<1>3. \A t : t \in OnStack <=> t \in Ids /\ HasStack(all, pc, arg, t)
  BY <1>2 DEF OnStack, HasStack
<1>4. ASSUME NEW s \in Slots PROVE Owners(s) = IF s < nextFresh THEN 1 ELSE 0
  <2> DEFINE T == {t \in OnStack : stack[t] = s}
  <2>1. Occurs(s, freeSlots) = IF In(s, freeSlots) THEN 1 ELSE 0
    BY <1>1, <1>2, OccursOnce DEF SlotsOwned
  <2>2. ASSUME \A t \in Ids : ~(HasStack(all, pc, arg, t) /\ stack[t] = s) PROVE Cardinality(T) = 0
    <3>1. T = {}
      BY <1>3, <2>2
    <3> QED BY <3>1, FS_EmptySet
  <2>3. ASSUME NEW t \in Ids, HasStack(all, pc, arg, t), stack[t] = s PROVE Cardinality(T) = 1
    <3>1. T = {t}
      BY <1>1, <1>3, <2>3 DEF SlotsOwned
    <3> QED BY <3>1, FS_Singleton
  <2>4. ASSUME \A u \in Ids : ~Claims(pc, arg, u, s) PROVE Holders(s, {"map", "register"}, arg) = 0
    BY <2>4, HoldersCount DEF Claims
  <2>5. ASSUME NEW u \in Ids, Claims(pc, arg, u, s) PROVE Holders(s, {"map", "register"}, arg) = 1
    <3>1. \A v \in Ids : pc[v] \in {"map", "register"} /\ arg[v] = s => v = u
      BY <1>1, <2>5 DEF SlotsOwned, Claims
    <3> QED BY <2>5, <3>1, HoldersCount DEF Claims
  <2>6. Owners(s) = Cardinality(T) + Holders(s, {"map", "register"}, arg) + Occurs(s, freeSlots)
    BY DEF Owners
  <2> HIDE DEF T
  <2>7. CASE In(s, freeSlots)
    <3>1. /\ s < nextFresh /\ \A u \in Ids : ~Claims(pc, arg, u, s)
          /\ \A t \in Ids : ~(HasStack(all, pc, arg, t) /\ stack[t] = s)
      BY <1>1, <2>7 DEF SlotsOwned
    <3> QED BY <2>1, <2>2, <2>4, <2>6, <2>7, <3>1
  <2>8. CASE ~In(s, freeSlots) /\ \E u \in Ids : Claims(pc, arg, u, s)
    <3>1. s < nextFresh /\ \A t \in Ids : ~(HasStack(all, pc, arg, t) /\ stack[t] = s)
      BY <1>1, <2>8 DEF SlotsOwned
    <3>2. Holders(s, {"map", "register"}, arg) = 1
      BY <2>5, <2>8
    <3> QED BY <2>1, <2>2, <2>6, <2>8, <3>1, <3>2
  <2>9. CASE ~In(s, freeSlots) /\ ~(\E u \in Ids : Claims(pc, arg, u, s)) /\ s < nextFresh
    <3>1. PICK t \in Ids : HasStack(all, pc, arg, t) /\ stack[t] = s
      BY <1>1, <2>9 DEF SlotsOwned
    <3>2. Cardinality(T) = 1
      BY <2>3, <3>1
    <3> QED BY <2>1, <2>4, <2>6, <2>9, <3>2
  <2>10. CASE ~In(s, freeSlots) /\ ~(\E u \in Ids : Claims(pc, arg, u, s)) /\ ~(s < nextFresh)
    <3>1. \A t \in Ids : ~(HasStack(all, pc, arg, t) /\ stack[t] = s)
      BY <1>1, <2>10 DEF SlotsOwned, HasStack
    <3> QED BY <2>1, <2>2, <2>4, <2>6, <2>10, <3>1
  <2> QED BY <2>7, <2>8, <2>9, <2>10
<1>5. \A i \in 1 .. Len(freeSlots) : freeSlots[i] \notin mapped
  <2>1. \A i \in 1 .. Len(freeSlots) : freeSlots[i] \in Slots /\ In(freeSlots[i], freeSlots)
    BY <1>2, ElementOfSeq DEF In
  <2> QED BY <1>1, <2>1 DEF SlotsMapped
<1>6. \A t \in Ids : state[t] \notin {"New", "Exited"} => stack[t] \in mapped
  BY <1>1 DEF SlotsMapped
<1> QED BY <1>4, <1>5, <1>6 DEF StacksAreSafe

\* Every kernel stack slot handed out has exactly one owner, and the stack of a thread
\* that can still run is mapped.
THEOREM SlotsAreSafe == Spec => []StacksAreSafe
BY InvOwnsSlots, SchedInvariant, PTL

-----------------------------------------------------------------------------
(* The end of a thread is final. *)

\* What the running state and the code of an exited thread do in a step.
Final == \A t \in Ids : state[t] = "Exited" => state'[t] = "Exited" /\ code'[t] = code[t]

\* schedule() never dispatches an exited thread.
LEMMA ScheduleFinal ==
    ASSUME NEW st \in [Ids -> States], NEW rq \in Seq(Ids), NEW ts, current \in Ids,
           st[IdleId] # "Exited", \A t \in Ids : state[t] = "Exited" => st[t] = "Exited",
           Schedule(st, rq, ts), UNCHANGED code
    PROVE  Final
<1> DEFINE back == current # IdleId /\ st[current] = "Running"
           rq1  == IF back THEN Append(rq, current) ELSE rq
           st1  == IF back THEN [st EXCEPT ![current] = "Ready"] ELSE st
           k    == FirstLive(rq1, st)
           next == IF k > Len(rq1) THEN IdleId ELSE rq1[k]
<1>1. state' = state \/ state' = [st1 EXCEPT ![next] = "Running"]
  BY DEF Schedule, svars
<1>2. rq1 \in Seq(Ids) /\ Len(rq1) \in Nat
  BY LenProperties, AppendProperties
<1>3. st1 \in [Ids -> States] /\ \A t \in Ids : st[t] = "Exited" => st1[t] = "Exited"
  BY DEF States
<1>4. k \in 1 .. Len(rq1) + 1 /\ (k <= Len(rq1) => st[rq1[k]] # "Exited")
  <2> HIDE DEF rq1
  <2> QED BY <1>2, PickNext
<1> HIDE DEF k, rq1, st1
<1>5. st[next] # "Exited"
  BY <1>2, <1>4
<1> HIDE DEF next
<1>6. \A t \in Ids : st[t] = "Exited" => [st1 EXCEPT ![next] = "Running"][t] = "Exited"
  BY <1>3, <1>5
<1> QED BY <1>1, <1>6 DEF Final

\* Marking threads ready leaves the exited ones alone.
LEMMA SetReadyFinal ==
    ASSUME NEW st \in [Ids -> States], NEW q
    PROVE  /\ SetReady(st, q) \in [Ids -> States]
           /\ \A t \in Ids : st[t] = "Exited" => SetReady(st, q)[t] = "Exited"
           /\ \A t \in Ids : SetReady(st, q)[t] = "Exited" => st[t] = "Exited"
BY DEF SetReady, States

\* No step brings an exited thread back or changes its code.
LEMMA NextFinal == SchedInv /\ [Next]_vars => Final
<1> SUFFICES ASSUME SchedInv, [Next]_vars PROVE Final
  OBVIOUS
<1>1. /\ state \in [Ids -> States] /\ code \in [Ids -> Codes] /\ current \in Ids /\ ready \in Seq(Ids)
      /\ joinq \in Seq(Ids) /\ readq \in Seq(Ids) /\ sleeping \subseteq Ids
  BY Types DEF SchedInv
<1>2. Up => Whereabouts
  BY DEF SchedInv
<1>3. Up => state[IdleId] # "Exited" /\ state[current] = "Running"
  BY <1>2 DEF Whereabouts, Placed
<1>4. ASSUME UNCHANGED <<state, code>> PROVE Final
  BY <1>4 DEF Final
<1>5. CASE UNCHANGED vars
  BY <1>4, <1>5 DEF vars, svars, tvars
<1>6. CASE TimerTick
  <2> DEFINE ts == IF SliceOver THEN TimesliceTicks ELSE slice - 1
  <2>1. PICK q \in Seq(Ids) : \/ Schedule(SetReady(state, q), ready \o q, ts)
                             \/ state' = SetReady(state, q)
    <3> DEFINE woken == {t \in {u \in sleeping : [v \in Ids |-> IF left[v] = 0 THEN 0 ELSE left[v] - 1][u] = 0} :
                            state[t] = "Sleeping"}
    <3>1. PICK q \in Orders(woken) : \/ Schedule(SetReady(state, q), ready \o q, ts)
                                     \/ state' = SetReady(state, q)
      BY <1>6 DEF TimerTick
    <3>2. woken \subseteq Ids
      BY <1>1
    <3> HIDE DEF woken
    <3>3. q \in Seq(Ids)
      BY <3>1, <3>2, OrdersProperties
    <3> QED BY <3>1, <3>3
  <2>2. Up /\ UNCHANGED code
    BY <1>6 DEF TimerTick, tvars
  <2>3. ready \o q \in Seq(Ids)
    BY <1>1, <2>1, ConcatProperties
  <2>4. /\ SetReady(state, q) \in [Ids -> States] /\ SetReady(state, q)[IdleId] # "Exited"
        /\ \A t \in Ids : state[t] = "Exited" => SetReady(state, q)[t] = "Exited"
    BY <1>1, <1>3, <2>2, SetReadyFinal, Constants
  <2>5. CASE Schedule(SetReady(state, q), ready \o q, ts)
    BY <1>1, <2>2, <2>3, <2>4, <2>5, ScheduleFinal
  <2>6. CASE state' = SetReady(state, q)
    BY <2>2, <2>4, <2>6 DEF Final
  <2> QED BY <2>1, <2>5, <2>6
<1>7. CASE KeyboardIrq
  <2> DEFINE waiting == Live(state, readq)
             w == IF waiting = <<>> THEN <<>> ELSE <<Head(waiting)>>
             B == {t \in Ids : state[t] = "Blocked"}
  <2>1. /\ Up /\ UNCHANGED code
        /\ \/ Schedule(SetReady(state, w), ready \o Kept(w, B), slice)
           \/ state' = SetReady(state, w)
    BY <1>7 DEF KeyboardIrq, tvars
  <2>2. w \in Seq(Ids)
    <3>1. Distinct(readq)
      BY <1>2, <2>1 DEF Whereabouts, Waiting
    <3>2. waiting # <<>> => Head(waiting) \in Ids
      BY <1>1, <3>1, PopFirst
    <3> HIDE DEF waiting
    <3> QED BY <3>2
  <2> HIDE DEF w, B
  <2>3. ready \o Kept(w, B) \in Seq(Ids)
    BY <1>1, <2>2, KeptProperties, ConcatProperties
  <2>4. /\ SetReady(state, w) \in [Ids -> States] /\ SetReady(state, w)[IdleId] # "Exited"
        /\ \A t \in Ids : state[t] = "Exited" => SetReady(state, w)[t] = "Exited"
    BY <1>1, <1>3, <2>1, SetReadyFinal, Constants
  <2>5. CASE Schedule(SetReady(state, w), ready \o Kept(w, B), slice)
    BY <1>1, <2>1, <2>3, <2>4, <2>5, ScheduleFinal
  <2>6. CASE state' = SetReady(state, w)
    BY <2>1, <2>4, <2>6 DEF Final
  <2> QED BY <2>1, <2>5, <2>6
<1>8. ASSUME NEW t \in Ids, NEW s0 \in {"Blocked", "Sleeping"}, At(t, pc[t]), pc[t] # "run" \/ t # IdleId,
             Schedule([state EXCEPT ![t] = s0], ready, slice), UNCHANGED code
      PROVE  Final
  <2>1. state[t] = "Running" /\ t # IdleId
    BY <1>3, <1>8 DEF At, SchedInv
  <2>2. /\ [state EXCEPT ![t] = s0] \in [Ids -> States] /\ [state EXCEPT ![t] = s0][IdleId] # "Exited"
        /\ \A u \in Ids : state[u] = "Exited" => [state EXCEPT ![t] = s0][u] = "Exited"
    BY <1>1, <1>3, <1>8, <2>1, Constants DEF States, At
  <2> QED BY <1>1, <1>8, <2>2, ScheduleFinal
<1>9. ASSUME NEW t \in Ids, ExitCurrent(t) PROVE Final
  <2> DEFINE st == [state EXCEPT ![t] = "Exited"]
             w == Live(st, joinq)
  <2>1. Up /\ pc[t] = "exit" /\ Schedule(SetReady(st, w), ready \o w, slice) /\ UNCHANGED code
    BY <1>9 DEF ExitCurrent, At, tvars
  <2>2. t # IdleId
    BY <2>1 DEF SchedInv
  <2>3. /\ st \in [Ids -> States] /\ st[IdleId] # "Exited"
        /\ \A u \in Ids : state[u] = "Exited" => st[u] = "Exited"
    BY <1>1, <1>3, <2>1, <2>2, Constants DEF States
  <2> HIDE DEF st
  <2>4. w \in Seq(Ids)
    BY <1>1, KeptProperties DEF Live
  <2>5. ready \o w \in Seq(Ids)
    BY <1>1, <2>4, ConcatProperties
  <2> HIDE DEF w
  <2>6. /\ SetReady(st, w) \in [Ids -> States] /\ SetReady(st, w)[IdleId] # "Exited"
        /\ \A u \in Ids : state[u] = "Exited" => SetReady(st, w)[u] = "Exited"
    BY <2>3, SetReadyFinal, Constants
  <2> QED BY <1>1, <2>1, <2>5, <2>6, ScheduleFinal
<1>10. ASSUME NEW t \in Ids, NEW v \in Ids, ForceExit(t, v) PROVE Final
  BY <1>1, <1>10 DEF ForceExit, MarkExited, Final
<1>11. ASSUME NEW t \in Ids, KillWake(t) PROVE Final
  BY <1>1, <1>11, SetReadyFinal DEF KillWake, Final
<1>12. ASSUME NEW t \in Ids, ExitCode(t) PROVE Final
  <2>1. UNCHANGED state /\ \E c \in Codes : code' = [code EXCEPT ![t] = c]
    BY <1>12 DEF ExitCode, svars
  <2>2. state[t] = "Running"
    BY <1>3, <1>12 DEF ExitCode, At
  <2> QED BY <1>1, <2>1, <2>2 DEF Final
<1>13. ASSUME NEW t \in Ids, SpawnRegister(t) \/ SpawnUser(t) PROVE Final
  <2>1. CASE UNCHANGED <<state, code>>
    BY <2>1, <1>4
  <2>2. CASE state' = [state EXCEPT ![nextId] = "Ready"] /\ UNCHANGED code
    <3>1. nextId \in Ids => state[nextId] = "New"
      <4>1. \A u \in Ids : state[u] = "New" <=> u >= nextId
        BY DEF SchedInv, IdsInOrder
      <4>2. nextId \in Ids => nextId >= nextId
        BY Constants DEF Ids
      <4> QED BY <4>1, <4>2
    <3> QED BY <1>1, <2>2, <3>1 DEF Final
  <2> QED BY <1>13, <2>1, <2>2 DEF SpawnRegister, SpawnUser, Register
<1>14. ASSUME NEW t \in Ids, Yield(t) PROVE Final
  <2>1. Up /\ Schedule(state, ready, slice) /\ UNCHANGED code
    BY <1>14 DEF Yield, At, tvars
  <2> QED BY <1>1, <1>3, <2>1, ScheduleFinal
<1>15. ASSUME NEW t \in Ids, SleepBlock(t) PROVE Final
  <2>1. At(t, pc[t]) /\ pc[t] # "run" /\ Schedule([state EXCEPT ![t] = "Sleeping"], ready, slice) /\ UNCHANGED code
    BY <1>15 DEF SleepBlock, At
  <2> QED BY <1>8, <2>1
<1>16. ASSUME NEW t \in Ids, JoinBlock(t) \/ ReadBlock(t) PROVE Final
  <2>1. At(t, pc[t]) /\ pc[t] # "run" /\ UNCHANGED code
    BY <1>16 DEF JoinBlock, ReadBlock, At
  <2>2. state' = state \/ Schedule([state EXCEPT ![t] = "Blocked"], ready, slice)
    BY <1>16 DEF JoinBlock, ReadBlock, svars
  <2> QED BY <1>4, <1>8, <2>1, <2>2
<1>17. ASSUME NEW t \in Ids,
              SpawnLock(t) \/ SpawnClaim(t) \/ SpawnMap(t) \/ SleepStart(t) \/ JoinCheck(t) \/ ReadKey(t)
              \/ KillPop(t) \/ KillUnmap(t) \/ KillLock(t) \/ KillRelease(t) \/ KillRetire(t)
       PROVE  Final
  <2>1. UNCHANGED <<state, code>>
    BY <1>17 DEF SpawnLock, SpawnClaim, SpawnMap, SleepStart, JoinCheck, ReadKey, KillPop, KillUnmap, KillLock,
                 KillRelease, KillRetire, svars
  <2> QED BY <2>1, <1>4
<1>18. ASSUME NEW t \in Ids, NEW u \in Ids, Join(t, u) PROVE Final
  BY <1>4, <1>18 DEF Join, svars
<1>19. ASSUME NEW t \in Ids, Continue(t) PROVE Final
  BY <1>19, <1>9, <1>11, <1>13, <1>15, <1>16, <1>17 DEF Continue
<1>20. ASSUME NEW t \in Ids, Start(t) PROVE Final
  BY <1>20, <1>10, <1>12, <1>13, <1>14, <1>17, <1>18 DEF Start
<1> QED BY <1>5, <1>6, <1>7, <1>19, <1>20 DEF Next

\* An exited thread never comes back, and its exit code is final.
THEOREM ExitsAreFinal == Spec => ExitIsFinal
<1>1. SchedInv /\ [Next]_vars =>
          [\A t \in Ids : state[t] = "Exited" => state'[t] = "Exited" /\ code'[t] = code[t]]_vars
  BY NextFinal DEF Final
<1> QED BY <1>1, SchedInvariant, PTL DEF Spec, ExitIsFinal

-----------------------------------------------------------------------------
(* No assertion of the scheduler fails. *)

\* Capacities that suffice for the threads ever spawned: each of them but the idle thread
\* may be in the ready queue, and in the record of retired threads, and each has a stack.
Capacities == MaxThreads >= MaxId /\ MaxRetired >= MaxId /\ NumSlots > MaxId

\* The record has the exit code of thread t.
InRecord(t, r) == \E i \in 1 .. Len(r) : r[i].id = t

\* Every thread spawned so far is registered or in the record.
Recorded(al, r, next) ==
    \A t \in Ids : t < next => t \in al \/ InRecord(t, r)

\* With the inductive invariant, what excludes each panic.
NothingFailed == ~panicked /\ Recorded(all, retired, nextId)

\* A queue of distinct threads without the idle thread.
LEMMA QueueLength ==
    ASSUME NEW q \in Seq(Ids), Distinct(q), ~In(IdleId, q)
    PROVE  Len(q) \in Nat /\ Len(q) <= MaxId
<1> DEFINE T == Ids \ {IdleId}
<1>1. IsFiniteSet(Ids) /\ Cardinality(Ids) = MaxId + 1
  BY Constants, FS_Interval DEF Ids
<1>2. IsFiniteSet(T) /\ Cardinality(T) = MaxId
  BY <1>1, Constants, FS_RemoveElement
<1>3. Len(q) \in Nat /\ \A i \in 1 .. Len(q) : q[i] \in T
  BY LenProperties, ElementOfSeq DEF In
<1>4. q \in Injection(1 .. Len(q), T)
  <2>1. q \in [1 .. Len(q) -> T]
    BY <1>3
  <2> HIDE DEF T
  <2> QED BY <2>1 DEF Distinct, Injection, IsInjective
<1> HIDE DEF T
<1>5. Cardinality(1 .. Len(q)) <= Cardinality(T)
  BY <1>2, <1>4, FS_Injection
<1>6. Cardinality(1 .. Len(q)) = Len(q)
  BY <1>3, FS_Interval
<1> QED BY <1>2, <1>3, <1>5, <1>6

\* Somebody who is not in the queue yet fits into it.
LEMMA OneMoreFits ==
    ASSUME Capacities, NEW q \in Seq(Ids), Distinct(q), ~In(IdleId, q),
           NEW t \in Ids \ {IdleId}, ~In(t, q)
    PROVE  ~Overflows(q) /\ ~Overflows(Append(q, t))
<1>1. Append(q, t) \in Seq(Ids) /\ Distinct(Append(q, t)) /\ ~In(IdleId, Append(q, t))
  BY InAppend, DistinctAppend
<1>2. Len(q) \in Nat /\ Len(q) <= MaxId /\ Len(Append(q, t)) \in Nat /\ Len(Append(q, t)) <= MaxId
  BY <1>1, QueueLength
<1> QED BY <1>2, Constants DEF Overflows, Capacities

\* Retiring threads loses nobody from the record: the ids in it are distinct and none is
\* the idle thread's, so it does not come to its limit.
LEMMA RecordGrows ==
    ASSUME Capacities, NEW r \in Seq([id : Ids, code : Codes]), NEW ts \in Seq(Ids), Distinct(ts),
           code \in [Ids -> Codes], CodesTrue(r, state, code, all), state[IdleId] # "Exited",
           \A t \in Ids : In(t, ts) => t \in all /\ state[t] = "Exited"
    PROVE  \A t \in Ids : In(t, ts) \/ InRecord(t, r) => InRecord(t, Retired(r, ts))
<1> DEFINE ids == [i \in 1 .. Len(r) |-> r[i].id]
           more == [i \in 1 .. Len(ts) |-> [id |-> ts[i], code |-> code[ts[i]]]]
           longer == r \o more
<1>1. Len(r) \in Nat /\ Len(ts) \in Nat /\ \A i \in 1 .. Len(r) : r[i].id \in Ids
  BY LenProperties, RecordIds
<1>2. /\ ids \in Seq(Ids) /\ Len(ids) = Len(r)
      /\ \A t : In(t, ids) <=> \E i \in 1 .. Len(r) : r[i].id = t
  BY <1>1 DEF In
<1>3. Distinct(ids) /\ \A t \in Ids : In(t, ids) => t \notin all /\ state[t] = "Exited"
  BY <1>1, <1>2 DEF Distinct, CodesTrue
<1> HIDE DEF ids
<1>4. /\ ids \o ts \in Seq(Ids) /\ Len(ids \o ts) = Len(r) + Len(ts)
      /\ Distinct(ids \o ts) /\ ~In(IdleId, ids \o ts)
  <2>1. ids \o ts \in Seq(Ids) /\ Len(ids \o ts) = Len(r) + Len(ts)
    <3>1. ids \in Seq(Ids) /\ Len(ids) = Len(r)
      BY <1>2
    <3>2. ids \o ts \in Seq(Ids) /\ Len(ids \o ts) = Len(ids) + Len(ts)
      BY <3>1, ConcatProperties
    <3> QED BY <3>1, <3>2
  <2>2. Distinct(ids \o ts)
    BY <1>2, <1>3, DistinctConcat
  <2>3. ~In(IdleId, ids \o ts)
    BY <1>2, <1>3, Constants, InConcat
  <2> QED BY <2>1, <2>2, <2>3
<1>5. Len(r) + Len(ts) <= MaxRetired
  <2>1. Len(ids \o ts) <= MaxId
    BY <1>4, QueueLength
  <2> QED BY <1>1, <1>4, <2>1, Constants DEF Capacities
<1>6. /\ Len(longer) = Len(r) + Len(ts)
      /\ \A i \in 1 .. Len(r) : longer[i] = r[i]
      /\ \A i \in 1 .. Len(ts) : longer[Len(r) + i] = more[i]
  <2> DEFINE R == [id : Ids, code : Codes]
  <2>1. \A i \in 1 .. Len(ts) : ts[i] \in Ids /\ code[ts[i]] \in Codes
    BY ElementOfSeq
  <2>2. r \in Seq(R) /\ more \in Seq(R) /\ Len(more) = Len(ts)
    BY <1>1, <2>1
  <2> HIDE DEF R, more
  <2>3. /\ Len(r \o more) = Len(r) + Len(more)
        /\ \A i \in 1 .. Len(r) + Len(more) :
               (r \o more)[i] = IF i <= Len(r) THEN r[i] ELSE more[i - Len(r)]
    BY <2>2, ConcatProperties
  <2> QED BY <1>1, <2>2, <2>3
<1>7. Retired(r, ts) = SubSeq(longer, 1, Len(longer))
  <2>1. ~(Len(longer) > MaxRetired)
    BY <1>1, <1>5, <1>6, Constants
  <2> HIDE DEF longer
  <2>2. Retired(r, ts) = LET over == IF Len(longer) > MaxRetired THEN Len(longer) - MaxRetired ELSE 0
                         IN  SubSeq(longer, over + 1, Len(longer))
    BY DEF Retired, longer
  <2> QED BY <2>1, <2>2
<1>8. \A i \in 1 .. Len(ts) : more[i].id = ts[i]
  OBVIOUS
<1> HIDE DEF longer, more
<1>9. /\ Len(Retired(r, ts)) = Len(r) + Len(ts)
      /\ \A i \in 1 .. Len(r) + Len(ts) : Retired(r, ts)[i] = longer[i]
  BY <1>1, <1>6, <1>7
<1>10. ASSUME NEW i \in 1 .. Len(r)
       PROVE  i \in 1 .. Len(Retired(r, ts)) /\ Retired(r, ts)[i].id = r[i].id
  BY <1>1, <1>6, <1>9
<1>11. ASSUME NEW i \in 1 .. Len(ts)
       PROVE  Len(r) + i \in 1 .. Len(Retired(r, ts)) /\ Retired(r, ts)[Len(r) + i].id = ts[i]
  <2>1. Len(r) + i \in 1 .. Len(r) + Len(ts)
    BY <1>1
  <2>2. Retired(r, ts)[Len(r) + i] = more[i] /\ more[i].id = ts[i]
    BY <1>6, <1>8, <1>9, <2>1
  <2> QED BY <1>9, <2>1, <2>2
<1> QED BY <1>10, <1>11 DEF In, InRecord

\* A pass of schedule() does not overflow the ready queue, and who is reaped is recorded.
LEMMA ScheduleSafe ==
    ASSUME Capacities, SchedInv, Up, NothingFailed,
           NEW st, NEW rq \in Seq(Ids), NEW ts,
           Distinct(rq), ~In(IdleId, rq), ~In(current, rq),
           Schedule(st, rq, ts), nextId' = nextId
    PROVE  NothingFailed'
<1>1. /\ current \in Ids /\ toReap \in Seq(Ids) /\ retired \in Seq([id : Ids, code : Codes])
      /\ code \in [Ids -> Codes] /\ Whereabouts
  BY Types DEF SchedInv
<1>2. ~Overflows(rq) /\ (current # IdleId => ~Overflows(Append(rq, current)))
  <2>1. CASE current # IdleId
    BY <1>1, <2>1, OneMoreFits
  <2>2. CASE current = IdleId
    <3>1. Len(rq) <= MaxId /\ Len(rq) \in Nat
      BY QueueLength
    <3> QED BY <2>2, <3>1, Constants DEF Capacities, Overflows
  <2> QED BY <2>1, <2>2
<1>3. \/ UNCHANGED <<all, retired, panicked>>
      \/ /\ all' = all \ {toReap[i] : i \in 1 .. Len(toReap)}
         /\ retired' = Retired(retired, toReap)
         /\ panicked' = panicked
  BY <1>2 DEF Schedule, svars
<1>4. CASE UNCHANGED <<all, retired, panicked>>
  BY <1>4 DEF NothingFailed, Recorded
<1>5. CASE /\ all' = all \ {toReap[i] : i \in 1 .. Len(toReap)}
           /\ retired' = Retired(retired, toReap)
           /\ panicked' = panicked
  <2>1. /\ Distinct(toReap) /\ state[IdleId] # "Exited"
        /\ \A t \in Ids : In(t, toReap) => t \in all /\ state[t] = "Exited"
    BY <1>1 DEF Whereabouts, Ending, Placed
  <2>2. CodesTrue(retired, state, code, all)
    BY DEF SchedInv, RetiredCodesTrue, CodesTrue
  <2>3. \A t \in Ids : In(t, toReap) \/ InRecord(t, retired) => InRecord(t, retired')
    <3>1. \A t \in Ids : In(t, toReap) \/ InRecord(t, retired) => InRecord(t, Retired(retired, toReap))
      BY <1>1, <2>1, <2>2, RecordGrows
    <3> QED BY <1>5, <3>1
  <2>4. \A t \in all : t \in all' \/ In(t, toReap)
    BY <1>5 DEF In
  <2>5. Recorded(all', retired', nextId')
    BY <2>3, <2>4 DEF NothingFailed, Recorded
  <2> QED BY <1>5, <2>5 DEF NothingFailed
<1> QED BY <1>3, <1>4, <1>5

\* A step that is not a pass of schedule() nor a spawn: it appends q to the ready queue.
LEMMA WokenSafe ==
    ASSUME NothingFailed, ~panicked', UNCHANGED <<all, retired, nextId>>
    PROVE  NothingFailed'
BY DEF NothingFailed, Recorded

\* Threads that are woken are not in the ready queue, so it stays a queue of distinct
\* threads, without the idle thread and without current.
LEMMA WokenQueue ==
    ASSUME Capacities, SchedInv, Up, NEW q \in Seq(Ids), Distinct(q),
           \A t \in Ids : In(t, q) => state[t] \in {"Blocked", "Sleeping"}
    PROVE  /\ ready \o q \in Seq(Ids) /\ Distinct(ready \o q)
           /\ ~In(IdleId, ready \o q) /\ ~In(current, ready \o q)
           /\ ~Overflows(ready \o q)
<1>1. /\ ready \in Seq(Ids) /\ current \in Ids /\ state[current] = "Running"
      /\ Placed(state, current, ready)
  BY Types DEF SchedInv, Whereabouts
<1>2. ready \o q \in Seq(Ids)
  BY <1>1, ConcatProperties
<1>3. Distinct(ready \o q)
  BY <1>1, DistinctConcat DEF Placed
<1>4. ~In(IdleId, ready \o q) /\ ~In(current, ready \o q)
  BY <1>1, Constants, InConcat DEF Placed
<1>5. ~Overflows(ready \o q)
  <2>1. Len(ready \o q) \in Nat /\ Len(ready \o q) <= MaxId
    BY <1>2, <1>3, <1>4, QueueLength
  <2> QED BY <2>1, Constants DEF Capacities, Overflows
<1> QED BY <1>2, <1>3, <1>4, <1>5

\* schedule() entered with the ready queue as it is.
LEMMA YieldSafe ==
    ASSUME Capacities, SchedInv, Up, NothingFailed, NEW st, NEW ts,
           Schedule(st, ready, ts), nextId' = nextId
    PROVE  NothingFailed'
<1>1. ready \in Seq(Ids) /\ Distinct(ready) /\ ~In(IdleId, ready) /\ ~In(current, ready)
  BY Types DEF SchedInv, Whereabouts, Placed
<1> QED BY <1>1, ScheduleSafe

\* The timer tick.
LEMMA TimerTickSafe ==
    ASSUME Capacities, SchedInv, NothingFailed, TimerTick
    PROVE  NothingFailed'
<1> DEFINE left1  == [t \in Ids |-> IF left[t] = 0 THEN 0 ELSE left[t] - 1]
           due    == {t \in sleeping : left1[t] = 0}
           woken  == {t \in due : state[t] = "Sleeping"}
           ts     == IF SliceOver THEN TimesliceTicks ELSE slice - 1
<1>1. Up /\ nextId' = nextId
  BY DEF TimerTick
<1>2. PICK q \in Orders(woken) :
          IF SliceOver \/ PreemptsIdle(woken # {})
          THEN Schedule(SetReady(state, q), ready \o q, ts)
          ELSE /\ panicked' = Overflows(ready \o q)
               /\ UNCHANGED <<all, retired>>
  BY DEF TimerTick
<1>3. woken \subseteq Ids /\ \A t \in woken : state[t] = "Sleeping"
  BY Types DEF SchedInv
<1> HIDE DEF left1, due, woken, ts
<1>4. q \in Seq(Ids) /\ Distinct(q) /\ \A x : In(x, q) <=> x \in woken
  BY <1>2, <1>3, OrdersProperties
<1>5. \A t \in Ids : In(t, q) => state[t] \in {"Blocked", "Sleeping"}
  BY <1>3, <1>4
<1>6. /\ ready \o q \in Seq(Ids) /\ Distinct(ready \o q)
      /\ ~In(IdleId, ready \o q) /\ ~In(current, ready \o q) /\ ~Overflows(ready \o q)
  BY <1>1, <1>4, <1>5, WokenQueue
<1>7. CASE Schedule(SetReady(state, q), ready \o q, ts)
  BY <1>1, <1>6, <1>7, ScheduleSafe
<1>8. CASE panicked' = Overflows(ready \o q) /\ UNCHANGED <<all, retired>>
  <2>1. ~panicked'
    BY <1>6, <1>8, Zenon
  <2> QED BY <1>1, <1>8, <2>1, WokenSafe
<1> QED BY <1>2, <1>7, <1>8

\* A key press.
LEMMA KeyboardIrqSafe ==
    ASSUME Capacities, SchedInv, NothingFailed, KeyboardIrq
    PROVE  NothingFailed'
<1> DEFINE waiting == Live(state, readq)
           w  == IF waiting = <<>> THEN <<>> ELSE <<Head(waiting)>>
           B  == {t \in Ids : state[t] = "Blocked"}
           q  == Kept(w, B)
<1>1. /\ Up /\ nextId' = nextId
      /\ IF PreemptsIdle(w # <<>>)
         THEN Schedule(SetReady(state, w), ready \o q, slice)
         ELSE panicked' = Overflows(ready \o q) /\ UNCHANGED <<all, retired>>
  BY DEF KeyboardIrq
<1>2. readq \in Seq(Ids) /\ Distinct(readq)
  BY <1>1, Types DEF SchedInv, Whereabouts, Waiting
<1>3. w \in Seq(Ids) /\ Distinct(w)
  <2>1. waiting # <<>> => Head(waiting) \in Ids
    BY <1>2, PopFirst
  <2> HIDE DEF waiting
  <2> QED BY <2>1 DEF Distinct
<1>4. q \in Seq(Ids) /\ Distinct(q) /\ \A x : In(x, q) => x \in B
  <2> HIDE DEF w, B
  <2> QED BY <1>3, KeptProperties
<1>5. \A t \in Ids : In(t, q) => state[t] \in {"Blocked", "Sleeping"}
  BY <1>4
<1> HIDE DEF q, w
<1>6. /\ ready \o q \in Seq(Ids) /\ Distinct(ready \o q)
      /\ ~In(IdleId, ready \o q) /\ ~In(current, ready \o q) /\ ~Overflows(ready \o q)
  BY <1>1, <1>4, <1>5, WokenQueue
<1>7. CASE Schedule(SetReady(state, w), ready \o q, slice)
  BY <1>1, <1>6, <1>7, ScheduleSafe
<1>8. CASE panicked' = Overflows(ready \o q) /\ UNCHANGED <<all, retired>>
  <2>1. ~panicked'
    BY <1>6, <1>8, Zenon
  <2> QED BY <1>1, <1>8, <2>1, WokenSafe
<1> QED BY <1>1, <1>7, <1>8

\* A thread that exits wakes those that join it.
LEMMA ExitCurrentSafe ==
    ASSUME Capacities, SchedInv, NothingFailed, NEW t \in Ids, ExitCurrent(t)
    PROVE  NothingFailed'
<1> DEFINE st0 == [state EXCEPT ![t] = "Exited"]
           S == {u \in Ids : st0[u] # "Exited"}
           w == Live(st0, joinq)
<1>1. /\ Up /\ nextId' = nextId /\ current = t
      /\ Schedule(SetReady(st0, w), ready \o w, slice)
  BY DEF ExitCurrent, At
<1>2. /\ joinq \in Seq(Ids) /\ Distinct(joinq) /\ state \in [Ids -> States]
      /\ \A u \in Ids : In(u, joinq) => state[u] \in {"Blocked", "Exited"}
  BY <1>1, Types DEF SchedInv, Whereabouts, Waiting
<1>3. w = Kept(joinq, S)
  BY DEF Live
<1>4. w \in Seq(Ids) /\ Distinct(w) /\ \A u \in Ids : In(u, w) => In(u, joinq) /\ u \in S
  <2> HIDE DEF w, S
  <2> QED BY <1>2, <1>3, KeptProperties
<1>5. \A u \in Ids : In(u, w) => state[u] \in {"Blocked", "Sleeping"}
  <2>1. \A u \in S : state[u] # "Exited"
    BY <1>2
  <2> HIDE DEF w, S
  <2> QED BY <1>2, <1>4, <2>1
<1> HIDE DEF w, S, st0
<1>6. /\ ready \o w \in Seq(Ids) /\ Distinct(ready \o w)
      /\ ~In(IdleId, ready \o w) /\ ~In(current, ready \o w)
  BY <1>1, <1>4, <1>5, WokenQueue
<1> QED BY <1>1, <1>6, ScheduleSafe

\* A killer wakes a joiner it has popped.
LEMMA KillWakeSafe ==
    ASSUME Capacities, SchedInv, NothingFailed, NEW t \in Ids, KillWake(t)
    PROVE  NothingFailed'
<1> DEFINE h == popped[t]
<1>1. /\ Up /\ pc[t] = "wake" /\ UNCHANGED <<all, retired, nextId>>
      /\ ready' = IF state[h] = "Blocked" THEN Append(ready, h) ELSE ready
      /\ panicked' = Overflows(ready')
  BY DEF KillWake, At
<1>2. /\ ready \in Seq(Ids) /\ Distinct(ready) /\ ~In(IdleId, ready) /\ ~In(current, ready)
      /\ current \in Ids /\ h \in Ids
      /\ state[IdleId] \in {"Ready", "Running"}
      /\ \A u \in Ids : In(u, ready) => state[u] \in {"Ready", "Exited"}
  BY <1>1, Types DEF SchedInv, Whereabouts, Placed, Waiting
<1> HIDE DEF h
<1>3. CASE state[h] = "Blocked"
  <2>1. h \in Ids \ {IdleId} /\ ~In(h, ready)
    BY <1>2, <1>3
  <2>2. ~Overflows(Append(ready, h))
    BY <1>2, <2>1, OneMoreFits
  <2>3. ~panicked'
    BY <1>1, <1>3, <2>2
  <2> QED BY <1>1, <2>3, WokenSafe
<1>4. CASE state[h] # "Blocked"
  <2>1. Len(ready) \in Nat /\ Len(ready) <= MaxId
    BY <1>2, QueueLength
  <2>2. ~Overflows(ready)
    BY <2>1, Constants DEF Capacities, Overflows
  <2>3. ~panicked'
    BY <1>1, <1>4, <2>2
  <2> QED BY <1>1, <2>3, WokenSafe
<1> QED BY <1>3, <1>4

\* A killer retires its victim.
LEMMA KillRetireSafe ==
    ASSUME Capacities, SchedInv, NothingFailed, NEW t \in Ids, KillRetire(t)
    PROVE  NothingFailed'
<1> DEFINE v == arg[t]
           ts == <<v>>
<1>1. /\ Up /\ pc[t] = "retire" /\ UNCHANGED <<nextId, panicked>>
      /\ all' = all \ {v} /\ retired' = Retired(retired, ts)
  BY DEF KillRetire, At
<1>2. /\ retired \in Seq([id : Ids, code : Codes]) /\ code \in [Ids -> Codes]
      /\ v \in Ids /\ v \in all /\ state[v] = "Exited"
      /\ state[IdleId] # "Exited"
  <2>1. v \in Ids
    BY <1>1 DEF SchedInv, Arguments
  <2>2. Reaps(pc, arg, t, v)
    BY <1>1 DEF Reaps, Killing
  <2> QED BY <1>1, <2>1, <2>2, Types DEF SchedInv, Whereabouts, Ending, Placed
<1>3. CodesTrue(retired, state, code, all)
  BY DEF SchedInv, RetiredCodesTrue, CodesTrue
<1>4. ts \in Seq(Ids) /\ Distinct(ts) /\ \A x : In(x, ts) <=> x = v
  BY <1>2 DEF In, Distinct
<1> HIDE DEF v, ts
<1>5. \A x \in Ids : In(x, ts) \/ InRecord(x, retired) => InRecord(x, Retired(retired, ts))
  <2>1. \A x \in Ids : In(x, ts) => x \in all /\ state[x] = "Exited"
    BY <1>2, <1>4
  <2> QED BY <1>2, <1>3, <1>4, <2>1, RecordGrows
<1>6. Recorded(all', retired', nextId')
  BY <1>1, <1>4, <1>5 DEF NothingFailed, Recorded
<1> QED BY <1>1, <1>6 DEF NothingFailed

\* The image of a finite set has at most as many elements.
LEMMA ImageSize ==
    ASSUME NEW S, IsFiniteSet(S), NEW f
    PROVE  /\ IsFiniteSet({f[x] : x \in S})
           /\ Cardinality({f[x] : x \in S}) \in Nat
           /\ Cardinality({f[x] : x \in S}) <= Cardinality(S)
<1> DEFINE T == {f[x] : x \in S}
           g == [x \in S |-> f[x]]
<1>1. g \in Surjection(S, T)
  BY DEF Surjection
<1> HIDE DEF g, T
<1>2. IsFiniteSet(T) /\ Cardinality(T) <= Cardinality(S)
  BY <1>1, FS_Surjection
<1>3. Cardinality(T) \in Nat
  BY <1>2, FS_CardinalityType
<1> QED BY <1>2, <1>3 DEF T

\* The threads in the middle of a spawn that have claimed their slot.
Claimers == {u \in Ids : pc[u] \in {"map", "register"}}

\* As long as there are fewer registered threads and claims than slots, there is a
\* slot to claim: each slot handed out belongs to one of them or is free.
LEMMA SlotLeft ==
    ASSUME Capacities, SchedInv, Up, nextId + Cardinality(Claimers) <= MaxId
    PROVE  CanClaim
<1> SUFFICES ASSUME ~CanClaim PROVE FALSE
  OBVIOUS
<1>1. /\ nextFresh \in 0 .. NumSlots /\ nextId \in 2 .. MaxId + 1 /\ all \subseteq Ids
      /\ SlotsOwned(all, stack, pc, arg, freeSlots, nextFresh)
      /\ Ending(state, current, ready, toReap, all, pc, arg)
      /\ IdsInOrder(state, pc, nextId)
  BY Types DEF SchedInv, Whereabouts
<1>2. nextFresh = NumSlots /\ \A s : ~In(s, freeSlots)
  BY <1>1, Constants DEF CanClaim, In
<1> DEFINE A == {stack[t] : t \in all}
           B == {arg[u] : u \in Claimers}
<1>3. Slots \subseteq A \cup B
  <2>1. SUFFICES ASSUME NEW s \in Slots PROVE s \in A \cup B
    OBVIOUS
  <2>2. s < nextFresh
    BY <1>2, Constants DEF Slots
  <2>3. (\E t \in Ids : HasStack(all, pc, arg, t) /\ stack[t] = s) \/ \E u \in Ids : Claims(pc, arg, u, s)
    BY <1>1, <1>2, <2>2 DEF SlotsOwned
  <2> QED BY <2>3 DEF HasStack, Claims, Claimers
<1>4. IsFiniteSet(all) /\ Cardinality(all) \in Nat /\ Cardinality(all) <= nextId
  <2>1. all \subseteq 0 .. nextId - 1
    BY <1>1, Constants DEF IdsInOrder, Ending, Ids
  <2>2. IsFiniteSet(0 .. nextId - 1) /\ Cardinality(0 .. nextId - 1) = nextId
    BY <1>1, Constants, FS_Interval
  <2>3. IsFiniteSet(all) /\ Cardinality(all) <= Cardinality(0 .. nextId - 1)
    BY <2>1, <2>2, FS_Subset
  <2> QED BY <2>2, <2>3, FS_CardinalityType
<1>5. IsFiniteSet(Claimers) /\ Cardinality(Claimers) \in Nat
  <2>1. IsFiniteSet(Ids) /\ Claimers \subseteq Ids
    BY Constants, FS_Interval DEF Ids, Claimers
  <2>2. IsFiniteSet(Claimers)
    BY <2>1, FS_Subset
  <2> QED BY <2>2, FS_CardinalityType
<1>6. /\ IsFiniteSet(A) /\ Cardinality(A) \in Nat /\ Cardinality(A) <= Cardinality(all)
      /\ IsFiniteSet(B) /\ Cardinality(B) \in Nat /\ Cardinality(B) <= Cardinality(Claimers)
  BY <1>4, <1>5, ImageSize
<1> HIDE DEF A, B
<1>7. /\ IsFiniteSet(A \cup B) /\ Cardinality(A \cup B) \in Nat
      /\ Cardinality(A \cup B) <= Cardinality(A) + Cardinality(B)
  <2>1. /\ IsFiniteSet(A \cup B)
        /\ Cardinality(A \cup B) = Cardinality(A) + Cardinality(B) - Cardinality(A \cap B)
    BY <1>6, FS_Union
  <2>2. IsFiniteSet(A \cap B)
    BY <1>6, FS_Intersection
  <2>3. Cardinality(A \cap B) \in Nat /\ Cardinality(A \cup B) \in Nat
    BY <2>1, <2>2, FS_CardinalityType
  <2> QED BY <1>6, <2>1, <2>3
<1>8. Cardinality(Slots) = NumSlots /\ Cardinality(Slots) <= Cardinality(A \cup B)
  <2>1. Cardinality(Slots) = NumSlots
    BY Constants, FS_Interval DEF Slots
  <2> QED BY <1>3, <1>7, <2>1, FS_Subset
<1> QED BY <1>1, <1>4, <1>5, <1>6, <1>7, <1>8, Constants DEF Capacities

\* A spawn claims a slot: it is one of the spawns under way, not yet with a slot.
LEMMA SpawnClaimSafe ==
    ASSUME Capacities, SchedInv, NothingFailed, NEW t \in Ids, SpawnClaim(t)
    PROVE  NothingFailed'
<1>1. /\ Up /\ pc[t] = "lock" /\ UNCHANGED <<all, retired, nextId>>
      /\ CanClaim => panicked' = panicked
  BY DEF SpawnClaim, At, svars
<1>2. IsFiniteSet(Spawning(pc)) /\ Cardinality(Spawning(pc)) \in Nat
  <2>1. IsFiniteSet(Ids) /\ Spawning(pc) \subseteq Ids
    BY Constants, FS_Interval DEF Ids, Spawning
  <2>2. IsFiniteSet(Spawning(pc))
    BY <2>1, FS_Subset
  <2> QED BY <2>2, FS_CardinalityType
<1>3. /\ Cardinality(Spawning(pc) \ {t}) = Cardinality(Spawning(pc)) - 1
      /\ IsFiniteSet(Spawning(pc) \ {t})
  <2>1. t \in Spawning(pc)
    BY <1>1 DEF Spawning
  <2> QED BY <1>2, <2>1, FS_RemoveElement
<1>4. Cardinality(Claimers) <= Cardinality(Spawning(pc)) - 1 /\ Cardinality(Claimers) \in Nat
  <2>1. Claimers \subseteq Spawning(pc) \ {t}
    BY <1>1 DEF Claimers, Spawning
  <2>2. IsFiniteSet(Claimers) /\ Cardinality(Claimers) <= Cardinality(Spawning(pc) \ {t})
    BY <1>3, <2>1, FS_Subset
  <2> QED BY <1>3, <2>2, FS_CardinalityType
<1>5. nextId \in 2 .. MaxId + 1 /\ nextId + Cardinality(Spawning(pc)) <= MaxId + 1
  BY Types DEF SchedInv, IdsInOrder
<1>6. nextId + Cardinality(Claimers) <= MaxId
  BY <1>2, <1>4, <1>5, Constants
<1>7. CanClaim
  BY <1>1, <1>6, SlotLeft
<1> QED BY <1>1, <1>7 DEF NothingFailed, Recorded

\* A new thread is not in the ready queue yet, and is registered when its id is taken.
LEMMA RegisterSafe ==
    ASSUME Capacities, SchedInv, Up, NothingFailed, nextId <= MaxId,
           NEW slot, NEW clash, ~clash, Register(slot, clash), retired' = retired
    PROVE  NothingFailed'
<1>1. /\ nextId' = nextId + 1 /\ all' = all \cup {nextId}
      /\ panicked' = (clash \/ Overflows(Append(ready, nextId)))
  BY DEF Register
<1>2. /\ ready \in Seq(Ids) /\ Distinct(ready) /\ ~In(IdleId, ready)
      /\ nextId \in Ids \ {IdleId} /\ state[nextId] = "New"
      /\ \A u \in Ids : In(u, ready) => state[u] \in {"Ready", "Exited"}
  <2>1. nextId \in 2 .. MaxId + 1
    BY Types DEF SchedInv
  <2>2. nextId \in Ids \ {IdleId}
    BY <2>1, Constants DEF Ids, IdleId
  <2>3. state[nextId] = "New"
    BY <2>1, <2>2, Constants DEF SchedInv, IdsInOrder
  <2> QED BY <2>2, <2>3, Types DEF SchedInv, Whereabouts, Placed
<1>3. ~In(nextId, ready)
  BY <1>2
<1>4. ~Overflows(Append(ready, nextId))
  BY <1>2, <1>3, OneMoreFits
<1>5. ~panicked'
  BY <1>1, <1>4, Zenon
<1>6. Recorded(all', retired', nextId')
  <2>1. SUFFICES ASSUME NEW t \in Ids, t < nextId + 1, t \notin all' PROVE InRecord(t, retired)
    BY <1>1 DEF Recorded
  <2>2. t < nextId /\ t \notin all
    BY <1>1, <1>2, <2>1, Constants DEF Ids
  <2> QED BY <2>2 DEF NothingFailed, Recorded
<1> QED BY <1>5, <1>6 DEF NothingFailed

\* The slot a spawn has claimed is not mapped.
LEMMA SpawnMapSafe ==
    ASSUME SchedInv, NothingFailed, NEW t \in Ids, SpawnMap(t)
    PROVE  NothingFailed'
<1>1. pc[t] = "map" /\ UNCHANGED <<all, retired, nextId>> /\ panicked' = (arg[t] \in mapped)
  BY DEF SpawnMap, At, svars
<1>2. arg[t] \notin mapped
  BY <1>1 DEF SchedInv, SlotsMapped
<1> QED BY <1>1, <1>2, WokenSafe

\* spawn registers the thread.
LEMMA SpawnRegisterSafe ==
    ASSUME Capacities, SchedInv, NothingFailed, NEW t \in Ids, SpawnRegister(t)
    PROVE  NothingFailed'
<1>1. Up /\ pc[t] = "register" /\ Register(arg[t], FALSE) /\ retired' = retired
  BY DEF SpawnRegister, At
<1>2. nextId <= MaxId
  <2>1. Cardinality(Spawning(pc)) >= 1 /\ Cardinality(Spawning(pc)) \in Nat
    <3>1. t \in Spawning(pc)
      BY <1>1 DEF Spawning
    <3> QED BY <3>1, SpawnCount
  <2>2. nextId \in 2 .. MaxId + 1 /\ nextId + Cardinality(Spawning(pc)) <= MaxId + 1
    BY Types DEF SchedInv, IdsInOrder
  <2> QED BY <2>1, <2>2, Constants
<1> QED BY <1>1, <1>2, RegisterSafe

\* spawn_user, in one go.
LEMMA SpawnUserSafe ==
    ASSUME Capacities, SchedInv, NothingFailed, NEW t \in Ids, SpawnUser(t)
    PROVE  NothingFailed'
<1>1. Up /\ CanSpawn /\ retired' = retired
  BY DEF SpawnUser, At
<1>2. nextId + Cardinality(Spawning(pc)) <= MaxId
  BY <1>1 DEF CanSpawn, Spawning
<1>3. nextId \in 2 .. MaxId + 1 /\ Cardinality(Spawning(pc)) \in Nat
  BY Types, SpawnCount DEF SchedInv
<1>4. CanClaim
  <2>1. IsFiniteSet(Ids) /\ Spawning(pc) \subseteq Ids /\ Claimers \subseteq Spawning(pc)
    <3>1. IsFiniteSet(Ids)
      BY Constants, FS_Interval DEF Ids
    <3> QED BY <3>1 DEF Spawning, Claimers
  <2>2. IsFiniteSet(Spawning(pc))
    BY <2>1, FS_Subset
  <2>3. Cardinality(Claimers) <= Cardinality(Spawning(pc)) /\ IsFiniteSet(Claimers)
    BY <2>1, <2>2, FS_Subset
  <2>4. Cardinality(Claimers) \in Nat
    BY <2>3, FS_CardinalityType
  <2>5. nextId + Cardinality(Claimers) <= MaxId
    BY <1>2, <1>3, <2>3, <2>4, Constants
  <2> QED BY <1>1, <2>5, SlotLeft
<1>5. \/ UNCHANGED <<all, nextId, panicked>>
      \/ Claim /\ Register(Claimed, Claimed \in mapped)
  BY <1>4 DEF SpawnUser
<1>6. CASE UNCHANGED <<all, nextId, panicked>>
  BY <1>1, <1>6 DEF NothingFailed, Recorded
<1>7. CASE Claim /\ Register(Claimed, Claimed \in mapped)
  <2>1. Claimed \notin mapped
    BY <1>4, <1>7, ClaimProperties
  <2>2. nextId <= MaxId
    BY <1>2, <1>3, Constants
  <2>3. Register(Claimed, FALSE)
    BY <1>7, <2>1 DEF Register
  <2> QED BY <1>1, <2>2, <2>3, RegisterSafe
<1> QED BY <1>5, <1>6, <1>7

\* A join finds its target among the registered threads or in the record.
LEMMA JoinSafe ==
    ASSUME NothingFailed, NEW t \in Ids, NEW u \in Ids, Join(t, u)
    PROVE  NothingFailed'
<1>1. u < nextId /\ UNCHANGED <<all, retired, nextId>>
  BY DEF Join, svars
<1>2. u \notin all => InRecord(u, retired)
  BY <1>1 DEF NothingFailed, Recorded
<1>3. ~panicked'
  <2>1. CASE u \in all
    BY <2>1 DEF Join, NothingFailed
  <2>2. CASE u \notin all
    <3>1. InRecord(u, retired) /\ panicked' = ~InRecord(u, retired)
      BY <1>2, <2>2 DEF Join, InRecord
    <3> QED BY <3>1, Zenon
  <2> QED BY <2>1, <2>2
<1> QED BY <1>1, <1>3, WokenSafe

\* No step of the scheduler fails.
LEMMA NextSafe == Capacities /\ SchedInv /\ NothingFailed /\ [Next]_vars => NothingFailed'
<1> SUFFICES ASSUME Capacities, SchedInv, NothingFailed, [Next]_vars PROVE NothingFailed'
  OBVIOUS
<1>1. CASE UNCHANGED vars
  BY <1>1 DEF vars, svars, NothingFailed, Recorded
<1>2. CASE TimerTick
  BY <1>2, TimerTickSafe
<1>3. CASE KeyboardIrq
  BY <1>3, KeyboardIrqSafe
<1>4. ASSUME NEW t \in Ids, Continue(t) PROVE NothingFailed'
  <2>1. CASE SpawnClaim(t) \/ SpawnMap(t) \/ SpawnRegister(t)
    BY <2>1, SpawnClaimSafe, SpawnMapSafe, SpawnRegisterSafe
  <2>2. CASE SleepBlock(t)
    BY <2>2, YieldSafe DEF SleepBlock, At
  <2>3. CASE JoinCheck(t)
    BY <2>3, WokenSafe DEF JoinCheck, svars, NothingFailed
  <2>4. CASE JoinBlock(t)
    <3>1. Up /\ nextId' = nextId
      BY <2>4 DEF JoinBlock, At
    <3>2. \/ UNCHANGED <<all, retired, panicked>>
          \/ Schedule([state EXCEPT ![t] = "Blocked"], ready, slice)
      BY <2>4 DEF JoinBlock, svars
    <3> QED BY <3>1, <3>2, YieldSafe, WokenSafe DEF NothingFailed
  <2>5. CASE ReadBlock(t)
    <3>1. Up /\ nextId' = nextId
      BY <2>5 DEF ReadBlock, At
    <3>2. \/ UNCHANGED <<all, retired, panicked>>
          \/ Schedule([state EXCEPT ![t] = "Blocked"], ready, slice)
      BY <2>5 DEF ReadBlock, svars
    <3> QED BY <3>1, <3>2, YieldSafe, WokenSafe DEF NothingFailed
  <2>6. CASE ReadKey(t)
    BY <2>6, WokenSafe DEF ReadKey, svars, NothingFailed
  <2>7. CASE ExitCurrent(t) \/ KillWake(t) \/ KillRetire(t)
    BY <2>7, ExitCurrentSafe, KillWakeSafe, KillRetireSafe
  <2>8. CASE KillPop(t) \/ KillUnmap(t) \/ KillLock(t) \/ KillRelease(t)
    BY <2>8, WokenSafe DEF KillPop, KillUnmap, KillLock, KillRelease, svars, NothingFailed
  <2> QED BY <1>4, <2>1, <2>2, <2>3, <2>4, <2>5, <2>6, <2>7, <2>8 DEF Continue
<1>5. ASSUME NEW t \in Ids, Start(t) PROVE NothingFailed'
  <2>1. CASE Yield(t)
    BY <2>1, YieldSafe DEF Yield, At
  <2>2. CASE SpawnUser(t)
    BY <2>2, SpawnUserSafe
  <2>3. ASSUME NEW u \in Ids, Join(t, u) PROVE NothingFailed'
    BY <2>3, JoinSafe
  <2>4. ASSUME NEW u \in Ids, ForceExit(t, u) PROVE NothingFailed'
    BY <2>4, WokenSafe DEF ForceExit, NothingFailed
  <2>5. CASE SpawnLock(t) \/ SleepStart(t) \/ ReadKey(t) \/ ExitCode(t)
    BY <2>5, WokenSafe DEF SpawnLock, SleepStart, ReadKey, ExitCode, svars, NothingFailed
  <2> QED BY <1>5, <2>1, <2>2, <2>3, <2>4, <2>5 DEF Start
<1> QED BY <1>1, <1>2, <1>3, <1>4, <1>5 DEF Next

\* At the start the two threads there are, are registered.
LEMMA InitSafe == Init => NothingFailed
<1> SUFFICES ASSUME Init PROVE NothingFailed
  OBVIOUS
<1>1. panicked = FALSE /\ all = {Main, IdleId} /\ nextId = 2
  BY DEF Init
<1>2. \A t \in Ids : t < 2 => t \in {Main, IdleId}
  BY Constants DEF Ids, Main, IdleId
<1> QED BY <1>1, <1>2 DEF NothingFailed, Recorded

\* With a ready queue, a record of exit codes and a region of stacks that hold every
\* thread ever spawned (the idle thread is neither queued nor retired), no assertion of
\* the scheduler or of the stack allocator fails, in whatever order threads are spawned,
\* sleep, exit, and are joined and killed: push_back finds room, claim a slot, map_4k
\* an unmapped page, and join its target.
THEOREM NeverPanics ==
    ASSUME Capacities
    PROVE  Spec => []NoPanic
<1>1. NothingFailed => NoPanic
  BY DEF NothingFailed, NoPanic
<1>2. SchedInv /\ NothingFailed /\ [Next]_vars => NothingFailed'
  BY NextSafe
<1> QED BY <1>1, <1>2, InitSafe, SchedInvariant, PTL DEF Spec
=============================================================================

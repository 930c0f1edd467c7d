------------------------------ MODULE ProcProofs ------------------------------
(***************************************************************************)
(* For every number of processes and frames, and whatever threads are      *)
(* preempted or killed: ProcInv of Proc is inductive (one lemma per        *)
(* action), an address space is torn down by one caller only, the registry *)
(* knows every thread that can still run, all waits for a process agree on *)
(* its exit code, and Proc implements the lifecycle ProcLife.              *)
(***************************************************************************)
EXTENDS Proc, FiniteSetTheorems, TLAPS

\* Every process is a thread; thread 0 is not a process.
LEMMA Sorts ==
    /\ Pids \subseteq Threads
    /\ Main \in Threads /\ Main \notin Pids
    /\ \A t \in Threads : t # Main => t \in Pids
    /\ KilledCode \in AllCodes /\ FaultCode \in AllCodes /\ Codes \subseteq AllCodes
BY ProcAssumption DEF Pids, Threads, Main, AllCodes

\* Each action preserves ProcInv; the conjuncts that mention no variable the
\* action changes come first.

LEMMA SpawnStep ==
    ASSUME NEW t \in Threads, ProcInv, Spawn(t)
    PROVE  ProcInv'
<1> USE Sorts DEF ProcInv, TypeOK, Spawn, At, Goto, pvars, mvars, hvars
<1>1. WaitersAgree'
  BY DEF WaitersAgree
<1>2. TypeOK'
  BY ProcAssumption DEF PCs, SpacesBuilt, FramesHeld, Pids
<1>3. CreatesFresh'
  BY ProcAssumption DEF CreatesFresh, TargetsExist, SpacesBuilt, Pids
<1>4. TargetsExist'
  BY ProcAssumption DEF TargetsExist, Killing, Waiting, RegistryKnowsLive, CreatesFresh,
    Pids
<1>5. SpacesBuilt'
  BY ProcAssumption DEF SpacesBuilt, CreatesFresh, Pids
<1>6. FramesHeld'
  BY ProcAssumption DEF FramesHeld, SpacesBuilt, Pids
<1>7. TargetsEnded'
  BY ProcAssumption DEF TargetsEnded, TargetsExist, Killing, Waiting, CreatesFresh, Pids
<1>8. OneTeardown'
  BY ProcAssumption DEF OneTeardown, TargetsEnded, TargetsExist, Killing, Waiting,
    CreatesFresh, BeginExit, Pids
<1>9. RegistryKnowsLive'
  BY ProcAssumption DEF RegistryKnowsLive, CreatesFresh, TargetsEnded, SpacesBuilt, Pids
<1>. QED  BY <1>1, <1>2, <1>3, <1>4, <1>5, <1>6, <1>7, <1>8, <1>9

LEMMA SpawnCreateStep ==
    ASSUME NEW t \in Threads, ProcInv, SpawnCreate(t)
    PROVE  ProcInv'
<1> USE Sorts DEF ProcInv, TypeOK, SpawnCreate, At, Goto, pvars, mvars, hvars
<1>1. TypeOK'
  BY DEF PCs, CreatesFresh
<1>2. CreatesFresh'
  BY DEF CreatesFresh, TargetsExist, SpacesBuilt
<1>3. TargetsExist'
  BY DEF TargetsExist, Killing, Waiting, RegistryKnowsLive, CreatesFresh
<1>4. SpacesBuilt'
  BY DEF SpacesBuilt, CreatesFresh
<1>5. FramesHeld'
  BY DEF FramesHeld, SpacesBuilt
<1>6. TargetsEnded'
  BY DEF TargetsEnded, TargetsExist, Killing, Waiting, CreatesFresh
<1>7. OneTeardown'
  BY DEF OneTeardown, TargetsEnded, TargetsExist, Killing, Waiting, CreatesFresh, BeginExit
<1>8. RegistryKnowsLive'
  BY DEF RegistryKnowsLive, CreatesFresh, TargetsEnded, SpacesBuilt
<1>9. WaitersAgree'
  BY DEF WaitersAgree, TargetsEnded, CreatesFresh, TargetsExist, Killing, Waiting
<1>. QED  BY <1>1, <1>2, <1>3, <1>4, <1>5, <1>6, <1>7, <1>8, <1>9

LEMMA SpawnFailStep ==
    ASSUME NEW t \in Threads, ProcInv, SpawnFail(t)
    PROVE  ProcInv'
<1> USE Sorts DEF ProcInv, TypeOK, SpawnFail, At, Goto, pvars, mvars, hvars
<1>1. /\ SpacesBuilt'
      /\ RegistryKnowsLive'
      /\ WaitersAgree'
  BY DEF SpacesBuilt, RegistryKnowsLive, WaitersAgree
<1>2. TypeOK'
  BY DEF PCs, SpacesBuilt, FramesHeld
<1>3. CreatesFresh'
  BY DEF CreatesFresh, TargetsExist, SpacesBuilt
<1>4. TargetsExist'
  BY DEF TargetsExist, Killing, Waiting, RegistryKnowsLive, CreatesFresh
<1>5. FramesHeld'
  BY DEF FramesHeld, SpacesBuilt
<1>6. TargetsEnded'
  BY DEF TargetsEnded, TargetsExist, Killing, Waiting, CreatesFresh
<1>7. OneTeardown'
  BY DEF OneTeardown, TargetsEnded, TargetsExist, Killing, Waiting, CreatesFresh, BeginExit
<1>. QED  BY <1>1, <1>2, <1>3, <1>4, <1>5, <1>6, <1>7

LEMMA MapAnonStep ==
    ASSUME NEW t \in Threads, ProcInv, MapAnon(t)
    PROVE  ProcInv'
<1> USE Sorts DEF ProcInv, TypeOK, MapAnon, At, Goto, pvars, mvars, hvars
<1>1. /\ SpacesBuilt'
      /\ RegistryKnowsLive'
      /\ WaitersAgree'
  BY DEF SpacesBuilt, RegistryKnowsLive, WaitersAgree
<1>2. TypeOK'
  BY DEF PCs, SpacesBuilt, FramesHeld
<1>3. CreatesFresh'
  BY DEF CreatesFresh, TargetsExist, SpacesBuilt
<1>4. TargetsExist'
  BY DEF TargetsExist, Killing, Waiting, RegistryKnowsLive, CreatesFresh
<1>5. FramesHeld'
  BY DEF FramesHeld, SpacesBuilt
<1>6. TargetsEnded'
  BY DEF TargetsEnded, TargetsExist, Killing, Waiting, CreatesFresh
<1>7. OneTeardown'
  BY DEF OneTeardown, TargetsEnded, TargetsExist, Killing, Waiting, CreatesFresh, BeginExit
<1>. QED  BY <1>1, <1>2, <1>3, <1>4, <1>5, <1>6, <1>7

LEMMA MapPageStep ==
    ASSUME NEW t \in Threads, ProcInv, MapPage(t)
    PROVE  ProcInv'
<1> USE Sorts DEF ProcInv, TypeOK, MapPage, At, Goto, pvars, mvars, hvars
<1>1. /\ SpacesBuilt'
      /\ RegistryKnowsLive'
      /\ WaitersAgree'
  BY DEF SpacesBuilt, RegistryKnowsLive, WaitersAgree
<1>2. TypeOK'
  BY DEF PCs, SpacesBuilt, FramesHeld
<1>3. CreatesFresh'
  BY DEF CreatesFresh, TargetsExist, SpacesBuilt
<1>4. TargetsExist'
  BY DEF TargetsExist, Killing, Waiting, RegistryKnowsLive, CreatesFresh
<1>5. FramesHeld'
  BY DEF FramesHeld, SpacesBuilt
<1>6. TargetsEnded'
  BY DEF TargetsEnded, TargetsExist, Killing, Waiting, CreatesFresh
<1>7. OneTeardown'
  BY DEF OneTeardown, TargetsEnded, TargetsExist, Killing, Waiting, CreatesFresh, BeginExit
<1>. QED  BY <1>1, <1>2, <1>3, <1>4, <1>5, <1>6, <1>7

LEMMA UnmapStep ==
    ASSUME NEW t \in Threads, ProcInv, Unmap(t)
    PROVE  ProcInv'
<1> USE Sorts DEF ProcInv, TypeOK, Unmap, At, Goto, pvars, mvars, hvars
<1>1. /\ SpacesBuilt'
      /\ RegistryKnowsLive'
      /\ WaitersAgree'
  BY DEF SpacesBuilt, RegistryKnowsLive, WaitersAgree
<1>2. TypeOK'
  BY DEF PCs, SpacesBuilt, FramesHeld
<1>3. CreatesFresh'
  BY DEF CreatesFresh, TargetsExist, SpacesBuilt
<1>4. TargetsExist'
  BY DEF TargetsExist, Killing, Waiting, RegistryKnowsLive, CreatesFresh
<1>5. FramesHeld'
  BY DEF FramesHeld, SpacesBuilt
<1>6. TargetsEnded'
  BY DEF TargetsEnded, TargetsExist, Killing, Waiting, CreatesFresh
<1>7. OneTeardown'
  BY DEF OneTeardown, TargetsEnded, TargetsExist, Killing, Waiting, CreatesFresh, BeginExit
<1>. QED  BY <1>1, <1>2, <1>3, <1>4, <1>5, <1>6, <1>7

LEMMA UnmapFreeStep ==
    ASSUME NEW t \in Threads, ProcInv, UnmapFree(t)
    PROVE  ProcInv'
<1> USE Sorts DEF ProcInv, TypeOK, UnmapFree, At, Goto, pvars, mvars, hvars
<1>1. /\ SpacesBuilt'
      /\ RegistryKnowsLive'
      /\ WaitersAgree'
  BY DEF SpacesBuilt, RegistryKnowsLive, WaitersAgree
<1>2. TypeOK'
  BY DEF PCs, FreeFrame, FramesHeld
<1>3. CreatesFresh'
  BY DEF CreatesFresh, TargetsExist, SpacesBuilt
<1>4. TargetsExist'
  BY DEF TargetsExist, Killing, Waiting, RegistryKnowsLive, CreatesFresh
<1>5. FramesHeld'
  BY DEF FramesHeld, SpacesBuilt
<1>6. TargetsEnded'
  BY DEF TargetsEnded, TargetsExist, Killing, Waiting, CreatesFresh
<1>7. OneTeardown'
  BY DEF OneTeardown, TargetsEnded, TargetsExist, Killing, Waiting, CreatesFresh, BeginExit
<1>. QED  BY <1>1, <1>2, <1>3, <1>4, <1>5, <1>6, <1>7

LEMMA GrowStackStep ==
    ASSUME NEW t \in Threads, ProcInv, GrowStack(t)
    PROVE  ProcInv'
<1> USE Sorts DEF ProcInv, TypeOK, GrowStack, At, Goto, pvars, mvars, hvars
<1>1. /\ CreatesFresh'
      /\ TargetsExist'
      /\ SpacesBuilt'
      /\ FramesHeld'
      /\ TargetsEnded'
      /\ OneTeardown'
      /\ RegistryKnowsLive'
      /\ WaitersAgree'
  BY DEF CreatesFresh, TargetsExist, SpacesBuilt, FramesHeld, TargetsEnded, OneTeardown,
    RegistryKnowsLive, WaitersAgree
<1>2. TypeOK'
  BY DEF PCs, SpacesBuilt, FramesHeld
<1>. QED  BY <1>1, <1>2

LEMMA ExitStep ==
    ASSUME NEW t \in Threads, ProcInv, Exit(t)
    PROVE  ProcInv'
<1> USE Sorts DEF ProcInv, TypeOK, Exit, At, Goto, pvars, mvars, hvars
<1>1. /\ SpacesBuilt'
      /\ RegistryKnowsLive'
      /\ WaitersAgree'
  BY DEF SpacesBuilt, RegistryKnowsLive, WaitersAgree
<1>2. TypeOK'
  BY DEF PCs, SpacesBuilt, FramesHeld
<1>3. CreatesFresh'
  BY DEF CreatesFresh, TargetsExist, SpacesBuilt
<1>4. TargetsExist'
  BY DEF TargetsExist, Killing, Waiting, RegistryKnowsLive, CreatesFresh
<1>5. FramesHeld'
  BY DEF FramesHeld, SpacesBuilt
<1>6. TargetsEnded'
  BY DEF TargetsEnded, TargetsExist, Killing, Waiting, CreatesFresh
<1>7. OneTeardown'
  BY DEF OneTeardown, TargetsEnded, TargetsExist, Killing, Waiting, CreatesFresh, BeginExit
<1>. QED  BY <1>1, <1>2, <1>3, <1>4, <1>5, <1>6, <1>7

LEMMA WalkStep ==
    ASSUME NEW t \in Threads, ProcInv, Walk(t)
    PROVE  ProcInv'
<1> USE Sorts DEF ProcInv, TypeOK, Walk, At, Goto, pvars, mvars, hvars
<1>0. table[pml4[target[t]]] \subseteq Frames
  BY DEF TargetsExist, Killing, SpacesBuilt
<1>1. /\ SpacesBuilt'
      /\ RegistryKnowsLive'
      /\ WaitersAgree'
  BY DEF SpacesBuilt, RegistryKnowsLive, WaitersAgree
<1>2. TypeOK'
  <2>1. free' = free \/ \E f \in table[pml4[target[t]]] : free' = free \cup {f}
    BY DEF FreeFrame
  <2>2. free' \subseteq Frames
    BY <1>0, <2>1
  <2>3. panicked' \in {"no", "oom", "double free"}
    BY DEF FreeFrame
  <2>4. frame' \in [Threads -> Frames \cup {NoFrame}]
    BY <1>0
  <2>5. pc' \in [Threads -> PCs]
    BY DEF PCs
  <2>. QED  BY <2>2, <2>3, <2>4, <2>5
<1>3. CreatesFresh'
  BY DEF CreatesFresh, TargetsExist, SpacesBuilt
<1>4. TargetsExist'
  BY DEF TargetsExist, Killing, Waiting, RegistryKnowsLive, CreatesFresh
<1>5. FramesHeld'
  BY DEF FramesHeld, SpacesBuilt
<1>6. TargetsEnded'
  BY DEF TargetsEnded, TargetsExist, Killing, Waiting, CreatesFresh
<1>7. OneTeardown'
  BY DEF OneTeardown, TargetsEnded, TargetsExist, Killing, Waiting, CreatesFresh, BeginExit
<1>. QED  BY <1>1, <1>2, <1>3, <1>4, <1>5, <1>6, <1>7

LEMMA WalkClearStep ==
    ASSUME NEW t \in Threads, ProcInv, WalkClear(t)
    PROVE  ProcInv'
<1> USE Sorts DEF ProcInv, TypeOK, WalkClear, At, Goto, pvars, mvars, hvars
<1>1. /\ SpacesBuilt'
      /\ RegistryKnowsLive'
      /\ WaitersAgree'
  BY DEF SpacesBuilt, RegistryKnowsLive, WaitersAgree
<1>2. TypeOK'
  BY DEF PCs, SpacesBuilt, FramesHeld
<1>3. CreatesFresh'
  BY DEF CreatesFresh, TargetsExist, SpacesBuilt
<1>4. TargetsExist'
  BY DEF TargetsExist, Killing, Waiting, RegistryKnowsLive, CreatesFresh
<1>5. FramesHeld'
  BY DEF FramesHeld, SpacesBuilt
<1>6. TargetsEnded'
  BY DEF TargetsEnded, TargetsExist, Killing, Waiting, CreatesFresh
<1>7. OneTeardown'
  BY DEF OneTeardown, TargetsEnded, TargetsExist, Killing, Waiting, CreatesFresh, BeginExit
<1>. QED  BY <1>1, <1>2, <1>3, <1>4, <1>5, <1>6, <1>7

LEMMA ExitCodeStep ==
    ASSUME NEW t \in Threads, ProcInv, ExitCode(t)
    PROVE  ProcInv'
<1> USE Sorts DEF ProcInv, TypeOK, ExitCode, ExitCodes, AllCodes, At, Goto, pvars, mvars, hvars
<1>1. /\ SpacesBuilt'
      /\ RegistryKnowsLive'
  BY DEF SpacesBuilt, RegistryKnowsLive
<1>2. TypeOK'
  BY DEF PCs, SpacesBuilt, FramesHeld
<1>3. CreatesFresh'
  BY DEF CreatesFresh, TargetsExist, SpacesBuilt
<1>4. TargetsExist'
  BY DEF TargetsExist, Killing, Waiting, RegistryKnowsLive, CreatesFresh
<1>5. FramesHeld'
  BY DEF FramesHeld, SpacesBuilt
<1>6. TargetsEnded'
  BY DEF TargetsEnded, TargetsExist, Killing, Waiting, CreatesFresh
<1>7. OneTeardown'
  BY DEF OneTeardown, TargetsEnded, TargetsExist, Killing, Waiting, CreatesFresh, BeginExit
<1>8. WaitersAgree'
  BY DEF WaitersAgree, TargetsEnded, CreatesFresh, TargetsExist, Killing, Waiting
<1>. QED  BY <1>1, <1>2, <1>3, <1>4, <1>5, <1>6, <1>7, <1>8

LEMMA ExitLeaveStep ==
    ASSUME NEW t \in Threads, ProcInv, ExitLeave(t)
    PROVE  ProcInv'
<1> USE Sorts DEF ProcInv, TypeOK, ExitLeave, At, Goto, pvars, mvars, hvars
<1>1. FramesHeld'
  BY DEF FramesHeld
<1>2. TypeOK'
  BY DEF PCs, SpacesBuilt, FramesHeld
<1>3. CreatesFresh'
  BY DEF CreatesFresh, TargetsExist, SpacesBuilt
<1>4. TargetsExist'
  BY DEF TargetsExist, Killing, Waiting, RegistryKnowsLive, CreatesFresh
<1>5. SpacesBuilt'
  BY DEF SpacesBuilt, CreatesFresh
<1>6. TargetsEnded'
  BY DEF TargetsEnded, TargetsExist, Killing, Waiting, CreatesFresh
<1>7. OneTeardown'
  BY DEF OneTeardown, TargetsEnded, TargetsExist, Killing, Waiting, CreatesFresh, BeginExit
<1>8. RegistryKnowsLive'
  BY DEF RegistryKnowsLive, CreatesFresh, TargetsEnded, SpacesBuilt
<1>9. WaitersAgree'
  BY DEF WaitersAgree, TargetsEnded, CreatesFresh, TargetsExist, Killing, Waiting
<1>. QED  BY <1>1, <1>2, <1>3, <1>4, <1>5, <1>6, <1>7, <1>8, <1>9

LEMMA FaultKillStep ==
    ASSUME NEW t \in Threads, ProcInv, FaultKill(t)
    PROVE  ProcInv'
<1> USE Sorts DEF ProcInv, TypeOK, FaultKill, At, Goto, pvars, mvars, hvars
<1>1. FramesHeld'
  BY DEF FramesHeld
<1>2. TypeOK'
  BY DEF PCs, SpacesBuilt, FramesHeld
<1>3. CreatesFresh'
  BY DEF CreatesFresh, TargetsExist, SpacesBuilt
<1>4. TargetsExist'
  BY DEF TargetsExist, Killing, Waiting, RegistryKnowsLive, CreatesFresh
<1>5. SpacesBuilt'
  BY DEF SpacesBuilt, CreatesFresh
<1>6. TargetsEnded'
  BY DEF TargetsEnded, TargetsExist, Killing, Waiting, CreatesFresh
<1>7. OneTeardown'
  BY DEF OneTeardown, TargetsEnded, TargetsExist, Killing, Waiting, CreatesFresh, BeginExit
<1>8. RegistryKnowsLive'
  BY DEF RegistryKnowsLive, CreatesFresh, TargetsEnded, SpacesBuilt
<1>9. WaitersAgree'
  BY DEF WaitersAgree
<1>. QED  BY <1>1, <1>2, <1>3, <1>4, <1>5, <1>6, <1>7, <1>8, <1>9

LEMMA KillStep ==
    ASSUME NEW t \in Threads, NEW p \in Pids, ProcInv, Kill(t, p)
    PROVE  ProcInv'
<1> USE Sorts DEF ProcInv, TypeOK, Kill, At, Goto, pvars, mvars, hvars
<1>1. /\ SpacesBuilt'
      /\ RegistryKnowsLive'
      /\ WaitersAgree'
  BY DEF SpacesBuilt, RegistryKnowsLive, WaitersAgree
<1>2. TypeOK'
  BY DEF PCs, SpacesBuilt, FramesHeld
<1>3. CreatesFresh'
  BY DEF CreatesFresh, TargetsExist, SpacesBuilt
<1>4. TargetsExist'
  BY DEF TargetsExist, Killing, Waiting, RegistryKnowsLive, CreatesFresh
<1>5. FramesHeld'
  BY DEF FramesHeld, SpacesBuilt
<1>6. TargetsEnded'
  BY DEF TargetsEnded, TargetsExist, Killing, Waiting, CreatesFresh
<1>7. OneTeardown'
  BY DEF OneTeardown, TargetsEnded, TargetsExist, Killing, Waiting, CreatesFresh, BeginExit
<1>. QED  BY <1>1, <1>2, <1>3, <1>4, <1>5, <1>6, <1>7

LEMMA KillMarkStep ==
    ASSUME NEW t \in Threads, ProcInv, KillMark(t)
    PROVE  ProcInv'
<1> USE Sorts DEF ProcInv, TypeOK, KillMark, At, Goto, pvars, mvars, hvars
<1>0. target[t] \in Pids /\ tstate[target[t]] # "New"
  BY DEF TargetsExist, Killing
<1>1. TypeOK'
  <2>1. CASE tstate[target[t]] = "Exited"
    BY <1>0, <2>1 DEF PCs, SpacesBuilt, FramesHeld
  <2>2. CASE tstate[target[t]] # "Exited"
    BY <1>0, <2>2 DEF PCs, SpacesBuilt, FramesHeld
  <2>. QED  BY <2>1, <2>2
<1>2. CreatesFresh'
  <2>1. CASE tstate[target[t]] = "Exited"
    BY <1>0, <2>1 DEF CreatesFresh, TargetsExist, SpacesBuilt
  <2>2. CASE tstate[target[t]] # "Exited"
    BY <1>0, <2>2 DEF CreatesFresh, TargetsExist, SpacesBuilt
  <2>. QED  BY <2>1, <2>2
<1>3. TargetsExist'
  BY DEF TargetsExist, Killing, Waiting, RegistryKnowsLive, CreatesFresh
<1>4. SpacesBuilt'
  <2>1. CASE tstate[target[t]] = "Exited"
    BY <1>0, <2>1 DEF SpacesBuilt, CreatesFresh
  <2>2. CASE tstate[target[t]] # "Exited"
    BY <1>0, <2>2 DEF SpacesBuilt, CreatesFresh
  <2>. QED  BY <2>1, <2>2
<1>5. FramesHeld'
  BY DEF FramesHeld, SpacesBuilt
<1>6. TargetsEnded'
  BY DEF TargetsEnded, TargetsExist, Killing, Waiting, CreatesFresh
<1>7. OneTeardown'
  BY DEF OneTeardown, TargetsEnded, TargetsExist, Killing, Waiting, CreatesFresh, BeginExit
<1>8. RegistryKnowsLive'
  BY DEF RegistryKnowsLive, CreatesFresh, TargetsEnded, SpacesBuilt
<1>9. WaitersAgree'
  BY DEF WaitersAgree, TargetsEnded, CreatesFresh, TargetsExist, Killing, Waiting
<1>. QED  BY <1>1, <1>2, <1>3, <1>4, <1>5, <1>6, <1>7, <1>8, <1>9

LEMMA KillClaimStep ==
    ASSUME NEW t \in Threads, ProcInv, KillClaim(t)
    PROVE  ProcInv'
<1> USE Sorts DEF ProcInv, TypeOK, KillClaim, At, Goto, pvars, mvars, hvars
<1>1. /\ SpacesBuilt'
      /\ RegistryKnowsLive'
      /\ WaitersAgree'
  BY DEF SpacesBuilt, RegistryKnowsLive, WaitersAgree
<1>2. TypeOK'
  BY DEF PCs, SpacesBuilt, FramesHeld
<1>3. CreatesFresh'
  BY DEF CreatesFresh, TargetsExist, SpacesBuilt
<1>4. TargetsExist'
  BY DEF TargetsExist, Killing, Waiting, RegistryKnowsLive, CreatesFresh
<1>5. FramesHeld'
  BY DEF FramesHeld, SpacesBuilt
<1>6. TargetsEnded'
  BY DEF TargetsEnded, TargetsExist, Killing, Waiting, CreatesFresh
<1>7. OneTeardown'
  BY DEF OneTeardown, TargetsEnded, TargetsExist, Killing, Waiting, CreatesFresh, BeginExit
<1>. QED  BY <1>1, <1>2, <1>3, <1>4, <1>5, <1>6, <1>7

LEMMA WaitStep ==
    ASSUME NEW t \in Threads, NEW p \in Pids, ProcInv, Wait(t, p)
    PROVE  ProcInv'
<1> USE Sorts DEF ProcInv, TypeOK, Wait, At, Goto, pvars, mvars, hvars
<1>1. /\ SpacesBuilt'
      /\ RegistryKnowsLive'
      /\ WaitersAgree'
  BY DEF SpacesBuilt, RegistryKnowsLive, WaitersAgree
<1>2. TypeOK'
  BY DEF PCs, SpacesBuilt, FramesHeld
<1>3. CreatesFresh'
  BY DEF CreatesFresh, TargetsExist, SpacesBuilt
<1>4. TargetsExist'
  BY DEF TargetsExist, Killing, Waiting, RegistryKnowsLive, CreatesFresh
<1>5. FramesHeld'
  BY DEF FramesHeld, SpacesBuilt
<1>6. TargetsEnded'
  BY DEF TargetsEnded, TargetsExist, Killing, Waiting, CreatesFresh
<1>7. OneTeardown'
  BY DEF OneTeardown, TargetsEnded, TargetsExist, Killing, Waiting, CreatesFresh, BeginExit
<1>. QED  BY <1>1, <1>2, <1>3, <1>4, <1>5, <1>6, <1>7

LEMMA WaitJoinStep ==
    ASSUME NEW t \in Threads, ProcInv, WaitJoin(t)
    PROVE  ProcInv'
<1> USE Sorts DEF ProcInv, TypeOK, WaitJoin, At, Goto, pvars, mvars, hvars
<1>1. /\ SpacesBuilt'
      /\ RegistryKnowsLive'
      /\ WaitersAgree'
  BY DEF SpacesBuilt, RegistryKnowsLive, WaitersAgree
<1>2. TypeOK'
  BY DEF PCs, SpacesBuilt, FramesHeld
<1>3. CreatesFresh'
  BY DEF CreatesFresh, TargetsExist, SpacesBuilt
<1>4. TargetsExist'
  BY DEF TargetsExist, Killing, Waiting, RegistryKnowsLive, CreatesFresh
<1>5. FramesHeld'
  BY DEF FramesHeld, SpacesBuilt
<1>6. TargetsEnded'
  BY DEF TargetsEnded, TargetsExist, Killing, Waiting, CreatesFresh
<1>7. OneTeardown'
  BY DEF OneTeardown, TargetsEnded, TargetsExist, Killing, Waiting, CreatesFresh, BeginExit
<1>. QED  BY <1>1, <1>2, <1>3, <1>4, <1>5, <1>6, <1>7

LEMMA WaitCollectStep ==
    ASSUME NEW t \in Threads, ProcInv, WaitCollect(t)
    PROVE  ProcInv'
<1> USE Sorts DEF ProcInv, TypeOK, WaitCollect, At, Goto, pvars, mvars, hvars
<1>1. SpacesBuilt'
  BY DEF SpacesBuilt
<1>2. TypeOK'
  BY DEF PCs, SpacesBuilt, FramesHeld
<1>3. CreatesFresh'
  BY DEF CreatesFresh, TargetsExist, SpacesBuilt
<1>4. TargetsExist'
  BY DEF TargetsExist, Killing, Waiting, RegistryKnowsLive, CreatesFresh
<1>5. FramesHeld'
  BY DEF FramesHeld, SpacesBuilt
<1>6. TargetsEnded'
  BY DEF TargetsEnded, TargetsExist, Killing, Waiting, CreatesFresh
<1>7. OneTeardown'
  BY DEF OneTeardown, TargetsEnded, TargetsExist, Killing, Waiting, CreatesFresh, BeginExit
<1>8. RegistryKnowsLive'
  BY DEF RegistryKnowsLive, CreatesFresh, TargetsEnded, SpacesBuilt
<1>9. WaitersAgree'
  BY DEF WaitersAgree, TargetsEnded, CreatesFresh, TargetsExist, Killing, Waiting
<1>. QED  BY <1>1, <1>2, <1>3, <1>4, <1>5, <1>6, <1>7, <1>8, <1>9

LEMMA WaitDestroyStep ==
    ASSUME NEW t \in Threads, ProcInv, WaitDestroy(t)
    PROVE  ProcInv'
<1> USE Sorts DEF ProcInv, TypeOK, WaitDestroy, At, Goto, pvars, mvars, hvars
<1>0. target[t] \in Pids /\ pml4[target[t]] \in Frames
  BY DEF TargetsExist, Waiting, SpacesBuilt
<1>1. /\ SpacesBuilt'
      /\ RegistryKnowsLive'
      /\ WaitersAgree'
  BY DEF SpacesBuilt, RegistryKnowsLive, WaitersAgree
<1>2. TypeOK'
  BY <1>0 DEF PCs, FreeFrame
<1>3. CreatesFresh'
  BY DEF CreatesFresh, TargetsExist, SpacesBuilt
<1>4. TargetsExist'
  BY DEF TargetsExist, Killing, Waiting, RegistryKnowsLive, CreatesFresh
<1>5. FramesHeld'
  BY DEF FramesHeld, SpacesBuilt
<1>6. TargetsEnded'
  BY DEF TargetsEnded, TargetsExist, Killing, Waiting, CreatesFresh
<1>7. OneTeardown'
  BY DEF OneTeardown, TargetsEnded, TargetsExist, Killing, Waiting, CreatesFresh, BeginExit
<1>. QED  BY <1>1, <1>2, <1>3, <1>4, <1>5, <1>6, <1>7

LEMMA InitProcInv == Init => ProcInv
<1> SUFFICES ASSUME Init PROVE ProcInv
  OBVIOUS
<1>1. TypeOK
  <2>1. nextPid \in 1 .. MaxPid + 1
    BY ProcAssumption DEF Init
  <2>2. target \in [Threads -> Threads] /\ pc \in [Threads -> PCs]
    BY Sorts DEF Init, PCs
  <2>. QED  BY <2>1, <2>2 DEF Init, TypeOK
<1>2. CreatesFresh /\ TargetsExist /\ FramesHeld /\ TargetsEnded /\ OneTeardown
  BY DEF Init, CreatesFresh, TargetsExist, Killing, Waiting, FramesHeld, TargetsEnded, OneTeardown
<1>3. SpacesBuilt /\ RegistryKnowsLive /\ WaitersAgree
  BY Sorts DEF Init, SpacesBuilt, RegistryKnowsLive, WaitersAgree
<1>. QED  BY <1>1, <1>2, <1>3 DEF ProcInv

LEMMA NextProcInv == ProcInv /\ [Next]_vars => ProcInv'
<1> SUFFICES ASSUME ProcInv, [Next]_vars PROVE ProcInv'
  OBVIOUS
<1>1. CASE UNCHANGED vars
  <2> USE <1>1 DEF vars, pvars, mvars, hvars, ProcInv
  <2>1. TypeOK'
    BY DEF TypeOK
  <2>2. CreatesFresh' /\ TargetsExist' /\ SpacesBuilt' /\ FramesHeld'
    BY DEF CreatesFresh, TargetsExist, SpacesBuilt, FramesHeld
  <2>3. TargetsEnded' /\ OneTeardown' /\ RegistryKnowsLive' /\ WaitersAgree'
    BY DEF TargetsEnded, OneTeardown, RegistryKnowsLive, WaitersAgree
  <2>. QED  BY <2>1, <2>2, <2>3
<1>2. ASSUME NEW t \in Threads, Continue(t) PROVE ProcInv'
  BY <1>2, SpawnCreateStep, SpawnFailStep, MapPageStep, UnmapFreeStep, WalkStep, WalkClearStep,
     ExitCodeStep, ExitLeaveStep, KillMarkStep, KillClaimStep, WaitJoinStep, WaitCollectStep,
     WaitDestroyStep DEF Continue
<1>3. ASSUME NEW t \in Threads, Start(t) PROVE ProcInv'
  BY <1>3, SpawnStep, MapAnonStep, UnmapStep, GrowStackStep, ExitStep, FaultKillStep, KillStep,
     WaitStep DEF Start
<1>. QED  BY <1>1, <1>2, <1>3 DEF Next

----------------------------------------------------------------------------
\* ProcInv is an invariant of the processes, without any assumption on who
\* kills or waits for whom.
THEOREM ProcInvariant == Spec => []ProcInv
BY InitProcInv, NextProcInv, PTL DEF Spec

\* proc::current never panics: every thread that can still make a system call
\* or fault is in both tables of the registry.
THEOREM RegistryComplete == Spec => []RegistryKnowsLive
<1>1. ProcInv => RegistryKnowsLive
  BY DEF ProcInv
<1>. QED  BY <1>1, ProcInvariant, PTL

\* begin_exit works: at most one caller ever walks an address space, and only
\* after its thread was stopped, unless it is that thread.
THEOREM TeardownByOne == Spec => []OneTeardown
<1>1. ProcInv => OneTeardown
  BY DEF ProcInv
<1>. QED  BY <1>1, ProcInvariant, PTL

\* All waits for a process return the one code it ended with.
THEOREM WaitsAgree == Spec => []WaitersAgree
<1>1. ProcInv => WaitersAgree
  BY DEF ProcInv
<1>. QED  BY <1>1, ProcInvariant, PTL

----------------------------------------------------------------------------
\* The refinement.  A step that neither starts, ends nor collects a process
\* is a stutter of ProcLife.
LEMMA LifeStutter ==
    ASSUME tstate' = tstate, processes' = processes,
           \A p \in Pids : tstate[p] = "Exited" => code'[p] = code[p]
    PROVE  UNCHANGED Life!vars
BY DEF Life!vars

LEMMA LifeCreate ==
    ASSUME NEW t \in Threads, ProcInv, SpawnCreate(t)
    PROVE  Life!Next
<1> DEFINE p == target[t]
<1>1. p \in Pids /\ tstate[p] = "New"
  BY DEF ProcInv, CreatesFresh, SpawnCreate, At
<1>2. /\ tstate' = [tstate EXCEPT ![p] = "Live"]
      /\ processes' = processes \cup {p}
      /\ code' = code
  BY DEF SpawnCreate
<1>3. Life!Create(p)
  BY <1>1, <1>2, Sorts DEF Life!Create, ProcInv, TypeOK
<1>. QED  BY <1>1, <1>3 DEF Life!Next, Life!Create

\* A process that stops running ends with some code.
LEMMA LifeEnd ==
    ASSUME NEW p \in Pids, ProcInv, tstate[p] = "Live",
           tstate' = [tstate EXCEPT ![p] = "Exited"],
           processes' = processes,
           \A q \in Pids \ {p} : code'[q] = code[q],
           code'[p] \in AllCodes \cup {NoCode}
    PROVE  Life!Next
<1>1. p \in processes
  BY DEF ProcInv, RegistryKnowsLive
<1>2. Life!End(p, code'[p])
  BY <1>1, Sorts DEF Life!End, ProcInv, TypeOK
<1>. QED  BY <1>2 DEF Life!Next, Life!End

LEMMA LifeCollect ==
    ASSUME NEW t \in Threads, ProcInv, WaitCollect(t)
    PROVE  [Life!Next]_(Life!vars)
<1> DEFINE p == target[t]
<1>1. p \in Pids /\ tstate[p] = "Exited"
  BY DEF ProcInv, TargetsExist, TargetsEnded, Waiting, WaitCollect, At
<1>2. tstate' = tstate /\ code' = code /\ processes' = processes \ {p}
  BY DEF WaitCollect
<1>3. CASE p \in processes
  <2>1. Life!Collect(p)
    BY <1>1, <1>2, <1>3 DEF Life!Collect
  <2>. QED  BY <1>1, <2>1 DEF Life!Next, Life!Collect
<1>4. CASE p \notin processes
  BY <1>2, <1>4 DEF Life!vars
<1>. QED  BY <1>3, <1>4

LEMMA LifeStep == ProcInv /\ ProcInv' /\ [Next]_vars => [Life!Next]_(Life!vars)
<1> SUFFICES ASSUME ProcInv, ProcInv', [Next]_vars PROVE [Life!Next]_(Life!vars)
  OBVIOUS
<1>1. CASE UNCHANGED vars
  BY <1>1, LifeStutter DEF vars, pvars
<1>2. ASSUME NEW t \in Threads,
             \/ Spawn(t) \/ SpawnFail(t) \/ MapAnon(t) \/ MapPage(t) \/ Unmap(t) \/ UnmapFree(t)
             \/ GrowStack(t) \/ Exit(t) \/ Walk(t) \/ WalkClear(t) \/ KillClaim(t) \/ WaitJoin(t)
             \/ WaitDestroy(t) \/ \E p \in Pids : Kill(t, p) \/ Wait(t, p)
      PROVE  UNCHANGED Life!vars
  <2>1. tstate' = tstate /\ processes' = processes /\ code' = code
    BY <1>2 DEF Spawn, SpawnFail, MapAnon, MapPage, Unmap, UnmapFree, GrowStack, Exit, Walk,
      WalkClear, KillClaim, WaitJoin, WaitDestroy, Kill, Wait, pvars
  <2>. QED  BY <2>1, LifeStutter
<1>3. ASSUME NEW t \in Threads, ExitCode(t) PROVE UNCHANGED Life!vars
  <2>1. tstate' = tstate /\ processes' = processes
    BY <1>3 DEF ExitCode, pvars
  <2>2. \A p \in Pids : tstate[p] = "Exited" => code'[p] = code[p]
    BY <1>3, Sorts DEF ExitCode, At, ProcInv, TypeOK
  <2>. QED  BY <2>1, <2>2, LifeStutter
<1>4. ASSUME NEW t \in Threads, ExitLeave(t) \/ FaultKill(t) PROVE [Life!Next]_(Life!vars)
  <2>1. /\ tstate[t] = "Live" /\ tstate' = [tstate EXCEPT ![t] = "Exited"]
        /\ processes' = processes
        /\ \A q \in Pids \ {t} : code'[q] = code[q]
    BY <1>4, Sorts DEF ExitLeave, FaultKill, At, pvars, ProcInv, TypeOK
  <2>2. CASE t \in Pids
    <3>1. code'[t] \in AllCodes \cup {NoCode}
      BY <2>2, Sorts DEF ProcInv, TypeOK
    <3>. QED  BY <2>1, <2>2, <3>1, LifeEnd
  <2>3. CASE t = Main
    <3>1. \A p \in Pids : tstate'[p] = tstate[p] /\ code'[p] = code[p]
      BY <2>1, <2>3, Sorts DEF ProcInv, TypeOK
    <3>. QED  BY <2>1, <3>1 DEF Life!vars
  <2>. QED  BY <2>2, <2>3, Sorts
<1>5. ASSUME NEW t \in Threads, KillMark(t) PROVE [Life!Next]_(Life!vars)
  <2>1. target[t] \in Pids /\ tstate[target[t]] \in {"Live", "Exited"}
    BY <1>5, Sorts DEF KillMark, At, ProcInv, TypeOK, TargetsExist, Killing
  <2>2. CASE tstate[target[t]] = "Exited"
    BY <1>5, <2>2, LifeStutter DEF KillMark, pvars
  <2>3. CASE tstate[target[t]] = "Live"
    <3>1. /\ tstate' = [tstate EXCEPT ![target[t]] = "Exited"]
          /\ processes' = processes
          /\ code' = [code EXCEPT ![target[t]] = KilledCode]
      BY <1>5, <2>3 DEF KillMark, pvars
    <3>2. /\ \A q \in Pids \ {target[t]} : code'[q] = code[q]
          /\ code'[target[t]] \in AllCodes \cup {NoCode}
      BY <2>1, <3>1, Sorts DEF ProcInv, TypeOK
    <3>. QED  BY <2>1, <2>3, <3>1, <3>2, LifeEnd
  <2>. QED  BY <2>1, <2>2, <2>3
<1>6. ASSUME NEW t \in Threads, SpawnCreate(t) \/ WaitCollect(t) PROVE [Life!Next]_(Life!vars)
  BY <1>6, LifeCreate, LifeCollect
<1>. QED  BY <1>1, <1>2, <1>3, <1>4, <1>5, <1>6 DEF Next, Continue, Start

\* Proc implements the lifecycle of ProcLife: each process is created once,
\* ends once with a final exit code and is collected at most once.
THEOREM ImplementsLifecycle == Spec => ImplementsLife
<1>1. Init => Life!Init
  BY Sorts DEF Init, Life!Init, Main
<1>. QED  BY <1>1, LifeStep, ProcInvariant, PTL DEF Spec, ImplementsLife, Life!Spec


----------------------------------------------------------------------------
(***************************************************************************)
(* The frames.  CallInv is what FrameInv says of the calls alone.          *)
(***************************************************************************)
CallInv == CallersAreThreads /\ CallsApart /\ ExitersKnown /\ DestroyedOnce

\* Each step keeps kills, exits and waits in order.
LEMMA CallStep ==
    ASSUME Exclusive, ProcInv, CallInv, NEW t \in Threads, Continue(t) \/ Start(t)
    PROVE  CallInv'
<1> USE Sorts DEF At, Goto, pvars, mvars, hvars, Killing, Waiting,
    CallInv, CallersAreThreads, CallsApart, ExitersKnown, DestroyedOnce
<1>1. /\ TypeOK /\ TargetsExist /\ TargetsEnded /\ OneTeardown /\ RegistryKnowsLive /\ CreatesFresh
      /\ t \in Threads /\ tstate[t] = "Live" /\ (t \in Pids => tstate[t] # "Exited")
  BY DEF ProcInv, Continue, Start, SpawnCreate, SpawnFail, MapPage, UnmapFree, Walk, WalkClear, ExitCode,
     ExitLeave, KillMark, KillClaim, WaitJoin, WaitCollect, WaitDestroy, Spawn, MapAnon, Unmap, GrowStack,
     Exit, FaultKill, Kill, Wait
<1>2. CASE SpawnCreate(t)
  BY <1>1, <1>2 DEF SpawnCreate, TypeOK, TargetsExist, TargetsEnded, OneTeardown, RegistryKnowsLive, CreatesFresh, BeginExit
<1>3. CASE SpawnFail(t)
  BY <1>1, <1>3 DEF SpawnFail, TypeOK, TargetsExist, TargetsEnded, OneTeardown, RegistryKnowsLive, CreatesFresh, BeginExit
<1>4. CASE MapPage(t)
  BY <1>1, <1>4 DEF MapPage, TypeOK, TargetsExist, TargetsEnded, OneTeardown, RegistryKnowsLive, CreatesFresh, BeginExit
<1>5. CASE UnmapFree(t)
  BY <1>1, <1>5 DEF UnmapFree, TypeOK, TargetsExist, TargetsEnded, OneTeardown, RegistryKnowsLive, CreatesFresh, BeginExit
<1>6. CASE Walk(t)
  BY <1>1, <1>6, SMTT(40) DEF Walk, TypeOK, TargetsExist, TargetsEnded, OneTeardown, RegistryKnowsLive, CreatesFresh, BeginExit
<1>7. CASE WalkClear(t)
  BY <1>1, <1>7 DEF WalkClear, TypeOK, TargetsExist, TargetsEnded, OneTeardown, RegistryKnowsLive, CreatesFresh, BeginExit
<1>8. CASE ExitCode(t)
  BY <1>1, <1>8 DEF ExitCode, TypeOK, TargetsExist, TargetsEnded, OneTeardown, RegistryKnowsLive, CreatesFresh, BeginExit
<1>9. CASE ExitLeave(t)
  BY <1>1, <1>9 DEF ExitLeave, TypeOK, TargetsExist, TargetsEnded, OneTeardown, RegistryKnowsLive, CreatesFresh, BeginExit
<1>10. CASE KillMark(t)
  BY <1>1, <1>10 DEF KillMark, TypeOK, TargetsExist, TargetsEnded, OneTeardown, RegistryKnowsLive, CreatesFresh, BeginExit
<1>11. CASE KillClaim(t)
  BY <1>1, <1>11 DEF KillClaim, TypeOK, TargetsExist, TargetsEnded, OneTeardown, RegistryKnowsLive, CreatesFresh, BeginExit
<1>12. CASE WaitJoin(t)
  BY <1>1, <1>12 DEF WaitJoin, TypeOK, TargetsExist, TargetsEnded, OneTeardown, RegistryKnowsLive, CreatesFresh, BeginExit
<1>13. CASE WaitCollect(t)
  BY <1>1, <1>13 DEF WaitCollect, TypeOK, TargetsExist, TargetsEnded, OneTeardown, RegistryKnowsLive, CreatesFresh, BeginExit
<1>14. CASE WaitDestroy(t)
  BY <1>1, <1>14 DEF WaitDestroy, TypeOK, TargetsExist, TargetsEnded, OneTeardown, RegistryKnowsLive, CreatesFresh, BeginExit
<1>15. CASE Spawn(t)
  BY <1>1, <1>15 DEF Spawn, TypeOK, TargetsExist, TargetsEnded, OneTeardown, RegistryKnowsLive, CreatesFresh, BeginExit
<1>16. CASE MapAnon(t)
  BY <1>1, <1>16 DEF MapAnon, TypeOK, TargetsExist, TargetsEnded, OneTeardown, RegistryKnowsLive, CreatesFresh, BeginExit
<1>17. CASE Unmap(t)
  BY <1>1, <1>17 DEF Unmap, TypeOK, TargetsExist, TargetsEnded, OneTeardown, RegistryKnowsLive, CreatesFresh, BeginExit
<1>18. CASE GrowStack(t)
  BY <1>1, <1>18 DEF GrowStack, TypeOK, TargetsExist, TargetsEnded, OneTeardown, RegistryKnowsLive, CreatesFresh, BeginExit
<1>19. CASE Exit(t)
  BY <1>1, <1>19 DEF Exit, TypeOK, TargetsExist, TargetsEnded, OneTeardown, RegistryKnowsLive, CreatesFresh, BeginExit
<1>20. CASE FaultKill(t)
  <2>1. /\ t \in Pids /\ pc[t] = "run"
        /\ tstate' = [tstate EXCEPT ![t] = "Exited"] /\ exiting' = [exiting EXCEPT ![t] = TRUE]
        /\ UNCHANGED <<pc, target, processes, destroyed>>
    BY <1>1, <1>20 DEF FaultKill
  <2>4. t \in Threads /\ tstate \in [Threads -> {"New", "Live", "Exited"}] /\ exiting \in [Pids -> BOOLEAN]
    BY <1>1 DEF TypeOK
  <2>5. \A u \in Threads : tstate'[u] = IF u = t THEN "Exited" ELSE tstate[u]
    BY <2>1, <2>4
  <2>6. exiting'[t] /\ \A p \in Pids \ {t} : exiting'[p] = exiting[p]
    BY <2>1, <2>4
  <2>7. CallersAreThreads' /\ CallsApart'
    BY <1>1, <2>1, <2>5
  <2>8. ExitersKnown'
    BY <1>1, <2>1, <2>5, <2>6
  <2>9. DestroyedOnce'
    BY <1>1, <2>1, <2>5
  <2> QED BY <2>7, <2>8, <2>9
<1>21. ASSUME NEW p \in Pids, Kill(t, p) PROVE CallInv'
  BY <1>1, <1>21 DEF Kill, InCall, TypeOK, TargetsExist, TargetsEnded, RegistryKnowsLive
<1>22. ASSUME NEW p \in Pids, Wait(t, p) PROVE CallInv'
  BY <1>1, <1>22 DEF Wait, InCall, TypeOK, TargetsExist, TargetsEnded, RegistryKnowsLive
<1>. QED  BY <1>2, <1>3, <1>4, <1>5, <1>6, <1>7, <1>8, <1>9, <1>10, <1>11, <1>12, <1>13, <1>14, <1>15, <1>16, <1>17, <1>18, <1>19, <1>20, <1>21, <1>22 DEF Continue, Start


\* What SameOwners, and after it each step, says of who accounts for what.
SameOwners ==
    /\ \A p \in Pids, f \in Frames : (Roots(p, f)' <=> Roots(p, f)) /\ (Maps(p, f)' <=> Maps(p, f))
    /\ \A t \in Threads, f \in Frames : Holds(t, f)' <=> Holds(t, f)
    /\ free' = free

\* A step that touches no frame.
LEMMA QuietOwners ==
    ASSUME TypeOK, TypeOK', NEW t \in Threads,
           \A u \in Threads \ {t} : pc'[u] = pc[u] /\ target'[u] = target[u],
           pc[t] \notin {"map", "unmap", "clear"}, pc'[t] \notin {"map", "unmap", "clear"},
           \A p \in Pids : tstate'[p] = "New" <=> tstate[p] = "New",
           UNCHANGED <<mvars, frame, destroyed>>
    PROVE  SameOwners
<1>1. \A p \in Pids, f \in Frames : JustFreed(p, f)' <=> JustFreed(p, f)
  BY DEF JustFreed
<1>2. \A p \in Pids : Exists(p)' <=> Exists(p)
  BY DEF Exists
<1>3. UNCHANGED <<pml4, table, free>>
  BY DEF mvars
<1> QED BY <1>1, <1>2, <1>3 DEF SameOwners, Roots, Maps, Holds

\* Nobody walks the address space of a thread that is in another call.
LEMMA NotWalked ==
    ASSUME ProcInv, NEW p \in Pids, tstate[p] = "Live", pc[p] \notin {"walk", "clear"}
    PROVE  \A f : ~JustFreed(p, f)
  BY DEF ProcInv, OneTeardown, JustFreed

\* The frames a new process takes were free.
LEMMA SpawnCreateOwners ==
    ASSUME ProcInv, CallInv, OneOwner, NEW t \in Threads, SpawnCreate(t)
    PROVE  \E f \in free : \E image \in SUBSET (free \ {f}) :
              /\ free' = free \ (image \cup {f})
              /\ \A q \in Pids, g \in Frames :
                    /\ Roots(q, g)' <=> Roots(q, g) \/ (q = target[t] /\ g = f)
                    /\ Maps(q, g)' <=> Maps(q, g) \/ (q = target[t] /\ g \in image)
              /\ \A u \in Threads, g \in Frames : Holds(u, g)' <=> Holds(u, g)
              /\ table' = [table EXCEPT ![f] = image] /\ pml4' = [pml4 EXCEPT ![target[t]] = f]
<1> DEFINE p == target[t]
<1>1. PICK f \in free : \E im \in SUBSET (free \ {f}) :
         /\ pml4' = [pml4 EXCEPT ![p] = f] /\ table' = [table EXCEPT ![f] = im]
         /\ free' = free \ (im \cup {f})
  BY DEF SpawnCreate
<1>2. PICK image \in SUBSET (free \ {f}) :
         /\ pml4' = [pml4 EXCEPT ![p] = f] /\ table' = [table EXCEPT ![f] = image]
         /\ free' = free \ (image \cup {f})
  BY <1>1
<1>3. /\ p \in Pids /\ tstate[p] = "New" /\ tstate' = [tstate EXCEPT ![p] = "Live"]
      /\ pc' = [pc EXCEPT ![t] = "run"] /\ pc[t] = "create" /\ UNCHANGED <<target, frame, destroyed>>
      /\ p \notin destroyed
  BY DEF ProcInv, CreatesFresh, CallInv, DestroyedOnce, SpawnCreate, At, Goto, hvars
<1>4. TypeOK /\ SpacesBuilt /\ \A u \in Threads : pc[u] = "clear" => target[u] # p
  BY <1>3 DEF ProcInv, TargetsExist, Killing
<1> HIDE DEF p
<1>5. \A q \in Pids, g \in Frames : /\ JustFreed(q, g)' <=> JustFreed(q, g)
                                    /\ ~JustFreed(p, g)
  BY <1>3, <1>4 DEF JustFreed, TypeOK
<1>6. \A q \in Pids : Exists(q)' <=> Exists(q) \/ q = p
  BY <1>3, <1>4, Sorts DEF Exists, TypeOK
<1>7. \A q \in Pids : Exists(q) => pml4[q] \in Frames /\ pml4[q] # f /\ q # p
  BY <1>3, <1>4 DEF Exists, SpacesBuilt, OneOwner, OwnedOnce, Roots
<1>8. \A q \in Pids : /\ Exists(q) => pml4'[q] = pml4[q] /\ table'[pml4'[q]] = table[pml4[q]]
                      /\ q = p => pml4'[q] = f /\ table'[pml4'[q]] = image
  BY <1>2, <1>4, <1>7 DEF TypeOK
<1>9. \A q \in Pids, g \in Frames : /\ Roots(q, g)' <=> Roots(q, g) \/ (q = p /\ g = f)
                                    /\ Maps(q, g)' <=> Maps(q, g) \/ (q = p /\ g \in image)
  BY <1>5, <1>6, <1>7, <1>8 DEF Roots, Maps
<1>10. \A u \in Threads, g \in Frames : Holds(u, g)' <=> Holds(u, g)
  BY <1>3, <1>4 DEF Holds, TypeOK
<1> QED BY <1>2, <1>9, <1>10 DEF p

\* What the address spaces of existing processes map, when the tables of
\* one process and of frames that are nobody's root change.
LEMMA OthersMap ==
    ASSUME ProcInv, OneOwner, NEW q \in Pids, Exists(q)
    PROVE  /\ pml4[q] \in Frames /\ pml4[q] \notin free
           /\ \A p \in Pids : Exists(p) /\ p # q => pml4[p] # pml4[q]
  BY DEF ProcInv, SpacesBuilt, Exists, OneOwner, OwnedOnce, Roots

\* A process that runs exists.
LEMMA LiveExists ==
    ASSUME CallInv, NEW p \in Pids, tstate[p] = "Live"
    PROVE  Exists(p)
  BY DEF CallInv, DestroyedOnce, Exists

\* A frame is taken from the free list into the caller's hands.
LEMMA MapAnonOwners ==
    ASSUME ProcInv, CallInv, OneOwner, NEW t \in Threads, MapAnon(t)
    PROVE  \E f \in free :
              /\ free' = free \ {f}
              /\ \A q \in Pids, g \in Frames : (Roots(q, g)' <=> Roots(q, g)) /\ (Maps(q, g)' <=> Maps(q, g))
              /\ \A u \in Threads, g \in Frames : Holds(u, g)' <=> Holds(u, g) \/ (u = t /\ g = f)
              /\ table' = [table EXCEPT ![f] = {}] /\ pml4' = pml4
<1>1. PICK f \in free : /\ free' = free \ {f} /\ table' = [table EXCEPT ![f] = {}]
                        /\ frame' = [frame EXCEPT ![t] = f]
  BY DEF MapAnon
<1>2. /\ pc[t] = "run" /\ pc' = [pc EXCEPT ![t] = "map"]
      /\ UNCHANGED <<tstate, target, destroyed, pml4>> /\ TypeOK
  BY DEF MapAnon, At, Goto, hvars, ProcInv
<1>3. \A q \in Pids, g \in Frames : JustFreed(q, g)' <=> JustFreed(q, g)
  BY <1>1, <1>2 DEF JustFreed, TypeOK
<1>4. \A q \in Pids : /\ Exists(q)' <=> Exists(q)
                      /\ Exists(q) => table'[pml4[q]] = table[pml4[q]]
  BY <1>1, <1>2, OthersMap DEF Exists, TypeOK
<1>5. \A u \in Threads, g \in Frames : Holds(u, g)' <=> Holds(u, g) \/ (u = t /\ g = f)
  BY <1>1, <1>2 DEF Holds, TypeOK
<1>6. \A q \in Pids, g \in Frames : (Roots(q, g)' <=> Roots(q, g)) /\ (Maps(q, g)' <=> Maps(q, g))
  BY <1>2, <1>3, <1>4 DEF Roots, Maps
<1> QED BY <1>1, <1>2, <1>5, <1>6

\* ... from them into the caller's address space ...
LEMMA MapPageOwners ==
    ASSUME ProcInv, CallInv, OneOwner, NEW t \in Threads, MapPage(t)
    PROVE  /\ free' = free /\ t \in Pids /\ Holds(t, frame[t]) /\ frame[t] \in Frames
           /\ \A q \in Pids, g \in Frames :
                 (Roots(q, g)' <=> Roots(q, g)) /\ (Maps(q, g)' <=> Maps(q, g) \/ (q = t /\ g = frame[t]))
           /\ \A u \in Threads, g \in Frames : Holds(u, g)' <=> Holds(u, g) /\ u # t
           /\ table' = [table EXCEPT ![pml4[t]] = @ \cup {frame[t]}] /\ pml4' = pml4
<1> DEFINE f == frame[t]
<1>1. /\ t \in Pids /\ tstate[t] = "Live" /\ pc[t] = "map" /\ pc' = [pc EXCEPT ![t] = "run"]
      /\ frame' = [frame EXCEPT ![t] = NoFrame] /\ table' = [table EXCEPT ![pml4[t]] = @ \cup {f}]
      /\ UNCHANGED <<tstate, target, destroyed, pml4, free>>
      /\ TypeOK /\ f \in Frames /\ Exists(t)
  BY LiveExists DEF MapPage, At, Goto, hvars, ProcInv, FramesHeld, CallInv, CallersAreThreads
<1> HIDE DEF f
<1>2. \A q \in Pids, g \in Frames : (JustFreed(q, g)' <=> JustFreed(q, g)) /\ ~JustFreed(t, g)
  <2>1. \A g : ~JustFreed(t, g)
    BY <1>1, NotWalked
  <2> QED BY <1>1, <2>1 DEF JustFreed, TypeOK
<1>3. \A q \in Pids : /\ Exists(q)' <=> Exists(q)
                      /\ Exists(q) => table'[pml4[q]] = IF q = t THEN table[pml4[q]] \cup {f} ELSE table[pml4[q]]
  BY <1>1, OthersMap DEF Exists, TypeOK
<1>4. \A u \in Threads, g \in Frames : Holds(u, g)' <=> Holds(u, g) /\ u # t
  BY <1>1 DEF Holds, TypeOK
<1>5. \A q \in Pids, g \in Frames : Roots(q, g)' <=> Roots(q, g)
  BY <1>1, <1>3 DEF Roots
<1>6. \A q \in Pids, g \in Frames : Maps(q, g)' <=> Maps(q, g) \/ (q = t /\ g = f)
  <2> SUFFICES ASSUME NEW q \in Pids, NEW g \in Frames
               PROVE  Maps(q, g)' <=> Maps(q, g) \/ (q = t /\ g = f)
    OBVIOUS
  <2>1. Maps(q, g)' <=> Exists(q) /\ g \in table'[pml4[q]] /\ ~JustFreed(q, g)
    BY <1>1, <1>2, <1>3 DEF Maps
  <2>2. Maps(q, g) <=> Exists(q) /\ g \in table[pml4[q]] /\ ~JustFreed(q, g)
    BY DEF Maps
  <2> QED BY <1>1, <1>2, <1>3, <2>1, <2>2
<1> QED BY <1>1, <1>4, <1>5, <1>6 DEF f, Holds


\* ... and back by unmap ...
LEMMA UnmapOwners ==
    ASSUME ProcInv, CallInv, OneOwner, NEW t \in Threads, Unmap(t)
    PROVE  \E f \in Frames :
              /\ free' = free /\ t \in Pids /\ Maps(t, f)
              /\ \A q \in Pids, g \in Frames :
                    (Roots(q, g)' <=> Roots(q, g)) /\ (Maps(q, g)' <=> Maps(q, g) /\ ~(q = t /\ g = f))
              /\ \A u \in Threads, g \in Frames : Holds(u, g)' <=> Holds(u, g) \/ (u = t /\ g = f)
              /\ table' = [table EXCEPT ![pml4[t]] = @ \ {f}] /\ pml4' = pml4
<1>1. PICK f \in table[pml4[t]] : /\ table' = [table EXCEPT ![pml4[t]] = @ \ {f}]
                                  /\ frame' = [frame EXCEPT ![t] = f]
  BY DEF Unmap
<1>2. /\ t \in Pids /\ tstate[t] = "Live" /\ pc[t] = "run" /\ pc' = [pc EXCEPT ![t] = "unmap"]
      /\ UNCHANGED <<tstate, target, destroyed, pml4, free>>
      /\ TypeOK /\ Exists(t)
  BY Sorts, LiveExists DEF Unmap, At, Goto, hvars, ProcInv
<1>3. f \in Frames /\ pml4[t] \in Frames
  BY <1>2, OthersMap DEF TypeOK
<1>4. \A q \in Pids, g \in Frames : (JustFreed(q, g)' <=> JustFreed(q, g)) /\ ~JustFreed(t, g)
  <2>1. \A g : ~JustFreed(t, g)
    BY <1>2, NotWalked
  <2> QED BY <1>1, <1>2, <2>1 DEF JustFreed, TypeOK
<1>5. \A q \in Pids : /\ Exists(q)' <=> Exists(q)
                      /\ Exists(q) => table'[pml4[q]] = IF q = t THEN table[pml4[q]] \ {f} ELSE table[pml4[q]]
  BY <1>1, <1>2, OthersMap DEF Exists, TypeOK
<1>6. \A u \in Threads, g \in Frames : Holds(u, g)' <=> Holds(u, g) \/ (u = t /\ g = f)
  BY <1>1, <1>2, <1>3 DEF Holds, TypeOK
<1>7. \A q \in Pids, g \in Frames : Roots(q, g)' <=> Roots(q, g)
  BY <1>2, <1>5 DEF Roots
<1>8. \A q \in Pids, g \in Frames : Maps(q, g)' <=> Maps(q, g) /\ ~(q = t /\ g = f)
  <2> SUFFICES ASSUME NEW q \in Pids, NEW g \in Frames
               PROVE  Maps(q, g)' <=> Maps(q, g) /\ ~(q = t /\ g = f)
    OBVIOUS
  <2>1. Maps(q, g)' <=> Exists(q) /\ g \in table'[pml4[q]] /\ ~JustFreed(q, g)
    BY <1>2, <1>4, <1>5 DEF Maps
  <2>2. Maps(q, g) <=> Exists(q) /\ g \in table[pml4[q]] /\ ~JustFreed(q, g)
    BY DEF Maps
  <2> QED BY <1>4, <1>5, <2>1, <2>2
<1>9. Maps(t, f)
  BY <1>1, <1>2, <1>3, <1>4 DEF Maps
<1> QED BY <1>1, <1>2, <1>3, <1>6, <1>7, <1>8, <1>9

\* ... which then frees it.
LEMMA UnmapFreeOwners ==
    ASSUME ProcInv, CallInv, OneOwner, NEW t \in Threads, UnmapFree(t)
    PROVE  /\ Holds(t, frame[t]) /\ frame[t] \in Frames
           /\ free' = free \cup {frame[t]} /\ (panicked' = "double free" => frame[t] \in free)
           /\ \A q \in Pids, g \in Frames : (Roots(q, g)' <=> Roots(q, g)) /\ (Maps(q, g)' <=> Maps(q, g))
           /\ \A u \in Threads, g \in Frames : Holds(u, g)' <=> Holds(u, g) /\ u # t
           /\ UNCHANGED <<table, pml4>>
<1>1. /\ pc[t] = "unmap" /\ pc' = [pc EXCEPT ![t] = "run"] /\ frame' = [frame EXCEPT ![t] = NoFrame]
      /\ UNCHANGED <<tstate, target, destroyed, pml4, table>> /\ free' = free \cup {frame[t]}
      /\ panicked' = IF frame[t] \in free THEN "double free" ELSE "no"
      /\ TypeOK /\ frame[t] \in Frames
  BY DEF UnmapFree, FreeFrame, At, Goto, hvars, ProcInv, FramesHeld
<1>2. \A q \in Pids, g \in Frames : JustFreed(q, g)' <=> JustFreed(q, g)
  BY <1>1 DEF JustFreed, TypeOK
<1>3. \A q \in Pids : Exists(q)' <=> Exists(q)
  BY <1>1 DEF Exists
<1>4. \A u \in Threads, g \in Frames : Holds(u, g)' <=> Holds(u, g) /\ u # t
  BY <1>1 DEF Holds, TypeOK
<1>5. \A q \in Pids, g \in Frames : (Roots(q, g)' <=> Roots(q, g)) /\ (Maps(q, g)' <=> Maps(q, g))
  BY <1>1, <1>2, <1>3 DEF Roots, Maps
<1> QED BY <1>1, <1>4, <1>5 DEF Holds

\* A page of the stack goes from the free list straight into the table.
LEMMA GrowStackOwners ==
    ASSUME ProcInv, CallInv, OneOwner, NEW t \in Threads, GrowStack(t)
    PROVE  \E f \in free :
              /\ free' = free \ {f} /\ t \in Pids
              /\ \A q \in Pids, g \in Frames :
                    (Roots(q, g)' <=> Roots(q, g)) /\ (Maps(q, g)' <=> Maps(q, g) \/ (q = t /\ g = f))
              /\ \A u \in Threads, g \in Frames : Holds(u, g)' <=> Holds(u, g)
              /\ table' = [table EXCEPT ![f] = {}, ![pml4[t]] = @ \cup {f}] /\ pml4' = pml4
<1>1. PICK f \in free : free' = free \ {f} /\ table' = [table EXCEPT ![f] = {}, ![pml4[t]] = @ \cup {f}]
  BY DEF GrowStack
<1>2. /\ t \in Pids /\ tstate[t] = "Live" /\ pc[t] = "run"
      /\ UNCHANGED <<tstate, target, destroyed, pml4, pc, frame>>
      /\ TypeOK /\ Exists(t)
  BY Sorts, LiveExists DEF GrowStack, At, hvars, ProcInv
<1>3. f \in Frames /\ pml4[t] \in Frames /\ pml4[t] # f
  BY <1>1, <1>2, OthersMap DEF TypeOK
<1>4. \A q \in Pids, g \in Frames : (JustFreed(q, g)' <=> JustFreed(q, g)) /\ ~JustFreed(t, g)
  <2>1. \A g : ~JustFreed(t, g)
    BY <1>2, NotWalked
  <2> QED BY <1>2, <2>1 DEF JustFreed
<1>5. \A q \in Pids : /\ Exists(q)' <=> Exists(q)
                      /\ Exists(q) => table'[pml4[q]] = IF q = t THEN table[pml4[q]] \cup {f} ELSE table[pml4[q]]
  <2>1. \A q \in Pids : Exists(q) => /\ pml4[q] \in Frames /\ pml4[q] # f
                                     /\ q # t => pml4[q] # pml4[t]
    BY <1>1, <1>2, OthersMap
  <2>2. table' = [g \in Frames |-> IF g = pml4[t] THEN table[g] \cup {f} ELSE IF g = f THEN {} ELSE table[g]]
    BY <1>1, <1>2, <1>3 DEF TypeOK
  <2> QED BY <1>2, <2>1, <2>2 DEF Exists
<1>6. \A u \in Threads, g \in Frames : Holds(u, g)' <=> Holds(u, g)
  BY <1>2 DEF Holds
<1>7. \A q \in Pids, g \in Frames : Roots(q, g)' <=> Roots(q, g)
  BY <1>2, <1>5 DEF Roots
<1>8. \A q \in Pids, g \in Frames : Maps(q, g)' <=> Maps(q, g) \/ (q = t /\ g = f)
  <2> SUFFICES ASSUME NEW q \in Pids, NEW g \in Frames
               PROVE  Maps(q, g)' <=> Maps(q, g) \/ (q = t /\ g = f)
    OBVIOUS
  <2>1. Maps(q, g)' <=> Exists(q) /\ g \in table'[pml4[q]] /\ ~JustFreed(q, g)
    BY <1>2, <1>4, <1>5 DEF Maps
  <2>2. Maps(q, g) <=> Exists(q) /\ g \in table[pml4[q]] /\ ~JustFreed(q, g)
    BY DEF Maps
  <2> QED BY <1>2, <1>4, <1>5, <2>1, <2>2
<1> QED BY <1>1, <1>2, <1>6, <1>7, <1>8


\* Who walks an address space walks one that exists.
LEMMA WalkedExists ==
    ASSUME ProcInv, CallInv, NEW t \in Threads, tstate[t] = "Live", pc[t] \in {"walk", "clear"}
    PROVE  target[t] \in Pids /\ Exists(target[t])
  BY DEF ProcInv, TargetsExist, CallInv, DestroyedOnce, Exists, Killing

\* The walk frees a frame the address space maps; its entry no longer counts.
LEMMA WalkOwners ==
    ASSUME ProcInv, CallInv, OneOwner, NEW t \in Threads, Walk(t), table[pml4[target[t]]] # {}
    PROVE  \E f \in Frames :
              /\ Maps(target[t], f) /\ target[t] \in Pids
              /\ free' = free \cup {f} /\ (panicked' = "double free" => f \in free)
              /\ \A q \in Pids, g \in Frames :
                    (Roots(q, g)' <=> Roots(q, g)) /\ (Maps(q, g)' <=> Maps(q, g) /\ ~(q = target[t] /\ g = f))
              /\ \A u \in Threads, g \in Frames : Holds(u, g)' <=> Holds(u, g)
              /\ pc' = [pc EXCEPT ![t] = "clear"]
              /\ UNCHANGED <<table, pml4>>
<1> DEFINE p == target[t]
<1>1. PICK f \in table[pml4[p]] : /\ free' = free \cup {f} /\ frame' = [frame EXCEPT ![t] = f]
                                  /\ panicked' = IF f \in free THEN "double free" ELSE "no"
                                  /\ pc' = [pc EXCEPT ![t] = "clear"]
  BY DEF Walk, FreeFrame, Goto
<1>2. /\ tstate[t] = "Live" /\ pc[t] = "walk"
      /\ UNCHANGED <<tstate, target, destroyed, pml4, table>> /\ TypeOK /\ OneTeardown
  BY DEF Walk, At, hvars, ProcInv
<1>3. p \in Pids /\ Exists(p)
  BY <1>2, WalkedExists
<1>4. f \in Frames
  BY <1>2, <1>3, OthersMap DEF TypeOK
<1>5. \A u \in Threads : pc[u] = "clear" => target[u] # p
  BY <1>2 DEF OneTeardown
<1> HIDE DEF p
<1>6. \A q \in Pids, g \in Frames : /\ JustFreed(q, g)' <=> JustFreed(q, g) \/ (q = p /\ g = f)
                                    /\ ~JustFreed(p, g)
  BY <1>1, <1>2, <1>5 DEF JustFreed, TypeOK, p
<1>7. \A q \in Pids : Exists(q)' <=> Exists(q)
  BY <1>2 DEF Exists
<1>8. \A q \in Pids, g \in Frames : Roots(q, g)' <=> Roots(q, g)
  BY <1>2, <1>7 DEF Roots
<1>9. \A q \in Pids, g \in Frames : Maps(q, g)' <=> Maps(q, g) /\ ~(q = p /\ g = f)
  BY <1>2, <1>6, <1>7 DEF Maps
<1>10. \A u \in Threads, g \in Frames : Holds(u, g)' <=> Holds(u, g)
  BY <1>1, <1>2 DEF Holds, TypeOK
<1>11. Maps(p, f)
  BY <1>1, <1>3, <1>4, <1>6 DEF Maps
<1> QED BY <1>1, <1>2, <1>3, <1>4, <1>8, <1>9, <1>10, <1>11 DEF p

\* Clearing that entry changes nobody's account.
LEMMA WalkClearOwners ==
    ASSUME ProcInv, CallInv, OneOwner, NEW t \in Threads, WalkClear(t)
    PROVE  SameOwners /\ table' = [table EXCEPT ![pml4[target[t]]] = @ \ {frame[t]}] /\ pml4' = pml4
<1> DEFINE p == target[t]
           f == frame[t]
<1>1. /\ tstate[t] = "Live" /\ pc[t] = "clear" /\ pc' = [pc EXCEPT ![t] = "walk"]
      /\ frame' = [frame EXCEPT ![t] = NoFrame] /\ table' = [table EXCEPT ![pml4[p]] = @ \ {f}]
      /\ UNCHANGED <<tstate, target, destroyed, pml4, free>> /\ TypeOK /\ OneTeardown
  BY DEF WalkClear, At, Goto, hvars, ProcInv
<1>2. p \in Pids /\ Exists(p)
  BY <1>1, WalkedExists
<1>3. \A u \in Threads : pc[u] = "clear" /\ target[u] = p => u = t
  BY <1>1 DEF OneTeardown
<1> HIDE DEF p, f
<1>4. \A q \in Pids, g \in Frames : /\ q # p => (JustFreed(q, g)' <=> JustFreed(q, g))
                                    /\ q = p => ~JustFreed(q, g)' /\ (JustFreed(q, g) <=> g = f)
  BY <1>1, <1>3 DEF JustFreed, TypeOK, p, f
<1>5. \A q \in Pids : /\ Exists(q)' <=> Exists(q)
                      /\ Exists(q) => table'[pml4[q]] = IF q = p THEN table[pml4[q]] \ {f} ELSE table[pml4[q]]
  BY <1>1, <1>2, OthersMap DEF Exists, TypeOK
<1>6. \A q \in Pids, g \in Frames : Roots(q, g)' <=> Roots(q, g)
  BY <1>1, <1>5 DEF Roots
<1>7. \A q \in Pids, g \in Frames : Maps(q, g)' <=> Maps(q, g)
  <2> SUFFICES ASSUME NEW q \in Pids, NEW g \in Frames
               PROVE  Maps(q, g)' <=> Maps(q, g)
    OBVIOUS
  <2>1. Maps(q, g)' <=> Exists(q) /\ g \in table'[pml4[q]] /\ ~JustFreed(q, g)'
    BY <1>1, <1>5 DEF Maps
  <2>2. Maps(q, g) <=> Exists(q) /\ g \in table[pml4[q]] /\ ~JustFreed(q, g)
    BY DEF Maps
  <2>3. CASE q = p
    BY <1>4, <1>5, <2>1, <2>2, <2>3
  <2>4. CASE q # p
    BY <1>4, <1>5, <2>1, <2>2, <2>4
  <2> QED BY <2>3, <2>4
<1>8. \A u \in Threads, g \in Frames : Holds(u, g)' <=> Holds(u, g)
  BY <1>1 DEF Holds, TypeOK
<1> QED BY <1>1, <1>6, <1>7, <1>8 DEF SameOwners, p, f

\* A fault that kills frees everything its process maps in one step.
LEMMA FaultKillOwners ==
    ASSUME ProcInv, CallInv, OneOwner, NEW t \in Threads, FaultKill(t)
    PROVE  /\ t \in Pids /\ tstate[t] = "Live" /\ ~exiting[t] /\ pml4[t] \in Frames
           /\ \A g \in Frames : Maps(t, g) <=> g \in table[pml4[t]]
           /\ free' = free \cup table[pml4[t]]
           /\ panicked' = IF table[pml4[t]] \cap free # {} THEN "double free" ELSE "no"
           /\ \A q \in Pids, g \in Frames :
                 (Roots(q, g)' <=> Roots(q, g)) /\ (Maps(q, g)' <=> Maps(q, g) /\ q # t)
           /\ \A u \in Threads, g \in Frames : Holds(u, g)' <=> Holds(u, g)
           /\ table' = [table EXCEPT ![pml4[t]] = {}] /\ pml4' = pml4
<1>1. t \in Pids /\ tstate[t] = "Live" /\ pc[t] = "run" /\ TypeOK
  BY Sorts DEF FaultKill, At, ProcInv
<1>2. ~exiting[t] /\ Exists(t)
  BY <1>1, LiveExists DEF CallInv, ExitersKnown
<1>3. /\ free' = free \cup table[pml4[t]] /\ table' = [table EXCEPT ![pml4[t]] = {}]
      /\ panicked' = IF table[pml4[t]] \cap free # {} THEN "double free" ELSE "no"
      /\ tstate' = [tstate EXCEPT ![t] = "Exited"]
      /\ UNCHANGED <<pml4, pc, target, frame, destroyed>>
  BY <1>2 DEF FaultKill, BeginExit, hvars
<1>4. \A q \in Pids, g \in Frames : (JustFreed(q, g)' <=> JustFreed(q, g)) /\ ~JustFreed(t, g)
  <2>1. \A g : ~JustFreed(t, g)
    BY <1>1, NotWalked
  <2> QED BY <1>3, <2>1 DEF JustFreed
<1>5. \A q \in Pids : /\ Exists(q)' <=> Exists(q)
                      /\ Exists(q) => table'[pml4[q]] = IF q = t THEN {} ELSE table[pml4[q]]
  <2>1. \A q \in Pids : Exists(q)' <=> Exists(q)
    BY Sorts, <1>1, <1>2, <1>3 DEF Exists, TypeOK
  <2>2. \A q \in Pids : Exists(q) => pml4[q] \in Frames /\ (q # t => pml4[q] # pml4[t])
    BY <1>1, <1>2, OthersMap
  <2> QED BY <1>1, <1>3, <2>1, <2>2 DEF TypeOK
<1>6. \A q \in Pids, g \in Frames : Roots(q, g)' <=> Roots(q, g)
  BY <1>3, <1>5 DEF Roots
<1>7. \A q \in Pids, g \in Frames : Maps(q, g)' <=> Maps(q, g) /\ q # t
  <2> SUFFICES ASSUME NEW q \in Pids, NEW g \in Frames
               PROVE  Maps(q, g)' <=> Maps(q, g) /\ q # t
    OBVIOUS
  <2>1. Maps(q, g)' <=> Exists(q) /\ g \in table'[pml4[q]] /\ ~JustFreed(q, g)
    BY <1>3, <1>4, <1>5 DEF Maps
  <2>2. Maps(q, g) <=> Exists(q) /\ g \in table[pml4[q]] /\ ~JustFreed(q, g)
    BY DEF Maps
  <2> QED BY <1>5, <2>1, <2>2
<1>8. \A u \in Threads, g \in Frames : Holds(u, g)' <=> Holds(u, g)
  BY <1>3 DEF Holds
<1>9. \A g \in Frames : Maps(t, g) <=> g \in table[pml4[t]]
  BY <1>1, <1>2, <1>4 DEF Maps
<1> QED BY <1>1, <1>2, <1>3, <1>6, <1>7, <1>8, <1>9, OthersMap

\* The PML4 frame of a process goes back, and the process is gone.
LEMMA WaitDestroyOwners ==
    ASSUME ProcInv, CallInv, OneOwner, NEW t \in Threads, WaitDestroy(t)
    PROVE  LET p == target[t]
               f == pml4[p] IN
           /\ p \in Pids /\ f \in Frames /\ Roots(p, f) /\ Exists(p) /\ tstate[p] = "Exited"
           /\ free' = free \cup {f} /\ (panicked' = "double free" => f \in free)
           /\ \A q \in Pids, g \in Frames : /\ Roots(q, g)' <=> Roots(q, g) /\ q # p
                                            /\ Maps(q, g)' <=> Maps(q, g) /\ q # p
           /\ \A u \in Threads, g \in Frames : Holds(u, g)' <=> Holds(u, g)
           /\ destroyed' = destroyed \cup {p}
           /\ UNCHANGED <<table, pml4>>
<1> DEFINE p == target[t]
           f == pml4[p]
<1>1. /\ tstate[t] = "Live" /\ pc[t] = "destroy" /\ pc' = [pc EXCEPT ![t] = "run"]
      /\ free' = free \cup {f} /\ panicked' = (IF f \in free THEN "double free" ELSE "no")
      /\ destroyed' = destroyed \cup {p}
      /\ UNCHANGED <<tstate, target, pml4, table, frame>> /\ TypeOK
  BY DEF WaitDestroy, FreeFrame, At, Goto, ProcInv
<1>2. p \in Pids /\ tstate[p] = "Exited" /\ p \notin destroyed /\ f \in Frames
  BY <1>1 DEF ProcInv, TargetsExist, TargetsEnded, SpacesBuilt, Waiting, CallInv, DestroyedOnce
<1> HIDE DEF p
<1>3. \A q \in Pids, g \in Frames : JustFreed(q, g)' <=> JustFreed(q, g)
  BY <1>1 DEF JustFreed, TypeOK
<1>4. \A q \in Pids : Exists(q)' <=> Exists(q) /\ q # p
  BY <1>1 DEF Exists
<1>5. \A q \in Pids, g \in Frames : /\ Roots(q, g)' <=> Roots(q, g) /\ q # p
                                    /\ Maps(q, g)' <=> Maps(q, g) /\ q # p
  BY <1>1, <1>3, <1>4 DEF Roots, Maps
<1>6. \A u \in Threads, g \in Frames : Holds(u, g)' <=> Holds(u, g)
  BY <1>1 DEF Holds, TypeOK
<1>7. Roots(p, f) /\ Exists(p)
  BY <1>2 DEF Roots, Exists
<1> QED BY <1>1, <1>2, <1>5, <1>6, <1>7 DEF p


\* Steps that touch no frame, in the terms of QuietOwners.
QuietCall(t) ==
    \/ Spawn(t) \/ SpawnFail(t) \/ Exit(t) \/ ExitCode(t) \/ ExitLeave(t)
    \/ KillMark(t) \/ KillClaim(t) \/ WaitJoin(t) \/ WaitCollect(t)
    \/ Walk(t) /\ table[pml4[target[t]]] = {}
    \/ \E p \in Pids : Kill(t, p) \/ Wait(t, p)

LEMMA QuietCallOwners ==
    ASSUME ProcInv, ProcInv', NEW t \in Threads, QuietCall(t)
    PROVE  SameOwners /\ UNCHANGED <<table, pml4>> /\ (panicked' = panicked \/ panicked' = "oom" \/ panicked' = "no")
<1> USE DEF QuietCall, At, Goto, pvars, mvars, hvars
<1>1. TypeOK /\ TypeOK' /\ CreatesFresh /\ TargetsExist
  BY DEF ProcInv
<1>2. /\ \A u \in Threads \ {t} : pc'[u] = pc[u] /\ target'[u] = target[u]
      /\ pc[t] \notin {"map", "unmap", "clear"} /\ pc'[t] \notin {"map", "unmap", "clear"}
  <2>1. CASE Spawn(t)
    BY <1>1, <2>1 DEF Spawn, TypeOK
  <2>2. CASE SpawnFail(t)
    BY <1>1, <2>2 DEF SpawnFail, TypeOK
  <2>3. CASE Exit(t)
    BY <1>1, <2>3 DEF Exit, TypeOK
  <2>4. CASE ExitCode(t)
    BY <1>1, <2>4 DEF ExitCode, TypeOK
  <2>5. CASE ExitLeave(t)
    BY <1>1, <2>5 DEF ExitLeave, TypeOK
  <2>6. CASE KillMark(t)
    BY <1>1, <2>6 DEF KillMark, TypeOK
  <2>7. CASE KillClaim(t)
    BY <1>1, <2>7 DEF KillClaim, TypeOK
  <2>8. CASE WaitJoin(t)
    BY <1>1, <2>8 DEF WaitJoin, TypeOK
  <2>9. CASE WaitCollect(t)
    BY <1>1, <2>9 DEF WaitCollect, TypeOK
  <2>10. CASE Walk(t) /\ table[pml4[target[t]]] = {}
    BY <1>1, <2>10 DEF Walk, TypeOK
  <2>11. CASE \E p \in Pids : Kill(t, p)
    BY <1>1, <2>11 DEF Kill, TypeOK
  <2>12. CASE \E p \in Pids : Wait(t, p)
    BY <1>1, <2>12 DEF Wait, TypeOK
  <2> QED BY <2>1, <2>2, <2>3, <2>4, <2>5, <2>6, <2>7, <2>8, <2>9, <2>10, <2>11, <2>12
<1>3. UNCHANGED <<mvars, frame, destroyed>>
  BY DEF Spawn, SpawnFail, Exit, ExitCode, ExitLeave, KillMark, KillClaim, WaitJoin, WaitCollect, Walk,
     Kill, Wait
<1>4. \A p \in Pids : tstate'[p] = "New" <=> tstate[p] = "New"
  <2>1. \/ tstate' = tstate
        \/ tstate' = [tstate EXCEPT ![t] = "Exited"] /\ tstate[t] = "Live"
        \/ tstate' = [tstate EXCEPT ![target[t]] = "Exited"] /\ pc[t] = "mark"
    <3>1. CASE ExitLeave(t)
      BY <3>1 DEF ExitLeave
    <3>2. CASE KillMark(t)
      BY <3>2 DEF KillMark
    <3>3. CASE \/ Spawn(t) \/ SpawnFail(t) \/ Exit(t) \/ ExitCode(t) \/ KillClaim(t) \/ WaitJoin(t)
               \/ WaitCollect(t) \/ Walk(t) \/ \E p \in Pids : Kill(t, p) \/ Wait(t, p)
      BY <3>3 DEF Spawn, SpawnFail, Exit, ExitCode, KillClaim, WaitJoin, WaitCollect, Walk, Kill, Wait
    <3> QED BY <3>1, <3>2, <3>3
  <2> QED BY Sorts, <1>1, <2>1 DEF TypeOK, TargetsExist, Killing
<1>5. SameOwners
  BY <1>1, <1>2, <1>3, <1>4, QuietOwners
<1>6. panicked' = panicked \/ panicked' = "oom" \/ panicked' = "no"
  BY DEF Spawn, SpawnFail, Exit, ExitCode, ExitLeave, KillMark, KillClaim, WaitJoin, WaitCollect, Walk,
     Kill, Wait
<1> QED BY <1>3, <1>5, <1>6

LEMMA StepCases ==
    ASSUME NEW t \in Threads, Continue(t) \/ Start(t)
    PROVE  \/ QuietCall(t)
           \/ SpawnCreate(t) \/ MapAnon(t) \/ MapPage(t) \/ Unmap(t) \/ UnmapFree(t) \/ GrowStack(t)
           \/ Walk(t) /\ table[pml4[target[t]]] # {}
           \/ WalkClear(t) \/ FaultKill(t) \/ WaitDestroy(t)
  BY DEF Continue, Start, QuietCall

LEMMA SameStep ==
    ASSUME SameOwners, free \subseteq Frames
    PROVE  (OneOwner => OneOwner') /\ (Covered => Covered')
<1> USE DEF SameOwners
<1>1. ASSUME OneOwner PROVE OneOwner'
  BY <1>1 DEF OneOwner, OwnedOnce
<1>2. ASSUME Covered PROVE Covered'
  BY <1>2 DEF Covered
<1> QED BY <1>1, <1>2

\* Each step keeps one owner per frame and frees nothing that is free.
LEMMA OwnerStep ==
    ASSUME FrameInv, ProcInv', TypeOK', NEW t \in Threads, Continue(t) \/ Start(t)
    PROVE  OneOwner' /\ panicked' # "double free"
<1>1. ProcInv /\ CallInv /\ OneOwner /\ panicked # "double free" /\ free \subseteq Frames
  BY DEF FrameInv, CallInv, ProcInv, TypeOK
<1>2. CASE QuietCall(t)
  BY <1>1, <1>2, QuietCallOwners, SameStep
<1>3. CASE SpawnCreate(t)
  <2>1. PICK f \in free : \E im \in SUBSET (free \ {f}) :
           /\ free' = free \ (im \cup {f})
           /\ \A q \in Pids, g \in Frames :
                 /\ Roots(q, g)' <=> Roots(q, g) \/ (q = target[t] /\ g = f)
                 /\ Maps(q, g)' <=> Maps(q, g) \/ (q = target[t] /\ g \in im)
           /\ \A u \in Threads, g \in Frames : Holds(u, g)' <=> Holds(u, g)
    BY <1>1, <1>3, SpawnCreateOwners
  <2>2. PICK image \in SUBSET (free \ {f}) :
           /\ free' = free \ (image \cup {f})
           /\ \A q \in Pids, g \in Frames :
                 /\ Roots(q, g)' <=> Roots(q, g) \/ (q = target[t] /\ g = f)
                 /\ Maps(q, g)' <=> Maps(q, g) \/ (q = target[t] /\ g \in image)
           /\ \A u \in Threads, g \in Frames : Holds(u, g)' <=> Holds(u, g)
    BY <2>1
  <2>3. OneOwner'
    <3>2. ASSUME NEW g \in Frames PROVE OwnedOnce(g)'
      <4>1. OwnedOnce(g)
        BY <1>1 DEF OneOwner
      <4> QED BY <1>1, <2>2, <4>1 DEF OwnedOnce
    <3> QED BY <3>2 DEF OneOwner
  <2> QED BY <1>1, <1>3, <2>3 DEF SpawnCreate
<1>4. CASE MapAnon(t)
  <2>1. OneOwner'
    <3>1. PICK f \in free :
             /\ free' = free \ {f}
             /\ \A q \in Pids, g \in Frames : (Roots(q, g)' <=> Roots(q, g)) /\ (Maps(q, g)' <=> Maps(q, g))
             /\ \A u \in Threads, g \in Frames : Holds(u, g)' <=> Holds(u, g) \/ (u = t /\ g = f)
      BY <1>1, <1>4, MapAnonOwners
    <3>2. ASSUME NEW g \in Frames PROVE OwnedOnce(g)'
      <4>1. OwnedOnce(g)
        BY <1>1 DEF OneOwner
      <4> QED BY <1>1, <3>1, <4>1 DEF OwnedOnce
    <3> QED BY <3>2 DEF OneOwner
  <2> QED BY <1>1, <1>4, <2>1 DEF MapAnon
<1>5. CASE MapPage(t)
  <2>1. OneOwner'
    <3> DEFINE f == frame[t]
    <3>1. /\ free' = free /\ t \in Pids /\ Holds(t, f) /\ f \in Frames
          /\ \A q \in Pids, g \in Frames :
                (Roots(q, g)' <=> Roots(q, g)) /\ (Maps(q, g)' <=> Maps(q, g) \/ (q = t /\ g = f))
          /\ \A u \in Threads, g \in Frames : Holds(u, g)' <=> Holds(u, g) /\ u # t
      BY <1>1, <1>5, MapPageOwners
    <3> HIDE DEF f
    <3>2. ASSUME NEW g \in Frames PROVE OwnedOnce(g)'
      <4>1. OwnedOnce(g)
        BY <1>1 DEF OneOwner
      <4> QED BY <1>1, <3>1, <4>1 DEF OwnedOnce
    <3> QED BY <3>2 DEF OneOwner
  <2> QED BY <1>1, <1>5, <2>1 DEF MapPage
<1>6. CASE Unmap(t)
  <2>1. OneOwner'
    <3>1. PICK f \in Frames :
             /\ free' = free /\ t \in Pids /\ Maps(t, f)
             /\ \A q \in Pids, g \in Frames :
                   (Roots(q, g)' <=> Roots(q, g)) /\ (Maps(q, g)' <=> Maps(q, g) /\ ~(q = t /\ g = f))
             /\ \A u \in Threads, g \in Frames : Holds(u, g)' <=> Holds(u, g) \/ (u = t /\ g = f)
      BY <1>1, <1>6, UnmapOwners
    <3>2. ASSUME NEW g \in Frames PROVE OwnedOnce(g)'
      <4>1. OwnedOnce(g)
        BY <1>1 DEF OneOwner
      <4> QED BY <1>1, <3>1, <4>1 DEF OwnedOnce
    <3> QED BY <3>2 DEF OneOwner
  <2> QED BY <1>1, <1>6, <2>1 DEF Unmap
<1>7. CASE UnmapFree(t)
  <2> DEFINE f == frame[t]
  <2>1. /\ Holds(t, f) /\ f \in Frames
        /\ free' = free \cup {f} /\ (panicked' = "double free" => f \in free)
        /\ \A q \in Pids, g \in Frames : (Roots(q, g)' <=> Roots(q, g)) /\ (Maps(q, g)' <=> Maps(q, g))
        /\ \A u \in Threads, g \in Frames : Holds(u, g)' <=> Holds(u, g) /\ u # t
    BY <1>1, <1>7, UnmapFreeOwners
  <2> HIDE DEF f
  <2>8. panicked' # "double free"
    BY <1>1, <2>1 DEF OneOwner, OwnedOnce
  <2>2. ASSUME NEW g \in Frames PROVE OwnedOnce(g)'
    <3>1. OwnedOnce(g)
      BY <1>1 DEF OneOwner
    <3> QED BY <1>1, <2>1, <3>1 DEF OwnedOnce
  <2> QED BY <2>2, <2>8 DEF OneOwner
<1>8. CASE GrowStack(t)
  <2>1. OneOwner'
    <3>1. PICK f \in free :
             /\ free' = free \ {f} /\ t \in Pids
             /\ \A q \in Pids, g \in Frames :
                   (Roots(q, g)' <=> Roots(q, g)) /\ (Maps(q, g)' <=> Maps(q, g) \/ (q = t /\ g = f))
             /\ \A u \in Threads, g \in Frames : Holds(u, g)' <=> Holds(u, g)
      BY <1>1, <1>8, GrowStackOwners
    <3>2. ASSUME NEW g \in Frames PROVE OwnedOnce(g)'
      <4>1. OwnedOnce(g)
        BY <1>1 DEF OneOwner
      <4> QED BY <1>1, <3>1, <4>1 DEF OwnedOnce
    <3> QED BY <3>2 DEF OneOwner
  <2> QED BY <1>1, <1>8, <2>1 DEF GrowStack
<1>9. CASE Walk(t) /\ table[pml4[target[t]]] # {}
  <2>1. PICK f \in Frames :
           /\ Maps(target[t], f) /\ target[t] \in Pids
           /\ free' = free \cup {f} /\ (panicked' = "double free" => f \in free)
           /\ \A q \in Pids, g \in Frames :
                 (Roots(q, g)' <=> Roots(q, g)) /\ (Maps(q, g)' <=> Maps(q, g) /\ ~(q = target[t] /\ g = f))
           /\ \A u \in Threads, g \in Frames : Holds(u, g)' <=> Holds(u, g)
           /\ pc' = [pc EXCEPT ![t] = "clear"]
           /\ UNCHANGED <<table, pml4>>
    BY <1>1, <1>9, WalkOwners
  <2>8. panicked' # "double free"
    BY <1>1, <2>1 DEF OneOwner, OwnedOnce
  <2>2. ASSUME NEW g \in Frames PROVE OwnedOnce(g)'
    <3>1. OwnedOnce(g)
      BY <1>1 DEF OneOwner
    <3> QED BY <1>1, <2>1, <3>1 DEF OwnedOnce
  <2> QED BY <2>2, <2>8 DEF OneOwner
<1>10. CASE WalkClear(t)
  <2>1. OneOwner'
    BY <1>1, <1>10, WalkClearOwners, SameStep
  <2> QED BY <1>1, <1>10, <2>1 DEF WalkClear
<1>11. CASE FaultKill(t)
  <2> DEFINE m == table[pml4[t]]
  <2>1. /\ t \in Pids /\ m \subseteq Frames
        /\ \A g \in Frames : Maps(t, g) <=> g \in m
        /\ free' = free \cup m /\ panicked' = (IF m \cap free # {} THEN "double free" ELSE "no")
        /\ \A q \in Pids, g \in Frames :
              (Roots(q, g)' <=> Roots(q, g)) /\ (Maps(q, g)' <=> Maps(q, g) /\ q # t)
        /\ \A u \in Threads, g \in Frames : Holds(u, g)' <=> Holds(u, g)
    <3>1. pml4[t] \in Frames /\ table \in [Frames -> SUBSET Frames]
      BY <1>1, <1>11, FaultKillOwners DEF ProcInv, TypeOK
    <3> QED BY <1>1, <1>11, <3>1, FaultKillOwners
  <2> HIDE DEF m
  <2>2. ASSUME NEW g \in Frames PROVE OwnedOnce(g)'
    <3>1. OwnedOnce(g)
      BY <1>1 DEF OneOwner
    <3> QED BY <1>1, <2>1, <3>1 DEF OwnedOnce
  <2>8. panicked' # "double free"
    <3>1. m \cap free = {}
      BY <1>1, <2>1 DEF OneOwner, OwnedOnce
    <3> QED BY <2>1, <3>1
  <2> QED BY <2>2, <2>8 DEF OneOwner
<1>12. CASE WaitDestroy(t)
  <2> DEFINE p == target[t]
             f == pml4[p]
  <2>1. /\ p \in Pids /\ f \in Frames /\ Roots(p, f)
        /\ free' = free \cup {f} /\ (panicked' = "double free" => f \in free)
        /\ \A q \in Pids, g \in Frames : /\ Roots(q, g)' <=> Roots(q, g) /\ q # p
                                         /\ Maps(q, g)' <=> Maps(q, g) /\ q # p
        /\ \A u \in Threads, g \in Frames : Holds(u, g)' <=> Holds(u, g)
    BY <1>1, <1>12, WaitDestroyOwners
  <2> HIDE DEF p, f
  <2>8. panicked' # "double free"
    BY <1>1, <2>1 DEF OneOwner, OwnedOnce
  <2>2. ASSUME NEW g \in Frames PROVE OwnedOnce(g)'
    <3>1. OwnedOnce(g)
      BY <1>1 DEF OneOwner
    <3> QED BY <1>1, <2>1, <3>1 DEF OwnedOnce
  <2> QED BY <2>2, <2>8 DEF OneOwner
<1> QED BY <1>2, <1>3, <1>4, <1>5, <1>6, <1>7, <1>8, <1>9, <1>10, <1>11, <1>12, StepCases


LEMMA InitFrameInv == Init => FrameInv
<1> SUFFICES ASSUME Init PROVE FrameInv
  OBVIOUS
<1>1. ProcInv
  BY InitProcInv
<1>2. \A p \in Pids : tstate[p] = "New"
  BY Sorts DEF Init
<1>3. CallersAreThreads /\ CallsApart /\ ExitersKnown /\ DestroyedOnce
  BY <1>2, Sorts DEF Init, CallersAreThreads, CallsApart, ExitersKnown, DestroyedOnce, Killing, Waiting
<1>4. OneOwner
  BY <1>2 DEF Init, OneOwner, OwnedOnce, Roots, Maps, Holds, Exists
<1> QED BY <1>1, <1>3, <1>4 DEF Init, FrameInv

LEMMA NextFrameInv == Exclusive /\ FrameInv /\ [Next]_vars => FrameInv'
<1> SUFFICES ASSUME Exclusive, FrameInv, [Next]_vars PROVE FrameInv'
  OBVIOUS
<1>1. ProcInv' /\ TypeOK'
  BY NextProcInv DEF FrameInv, ProcInv
<1>2. CASE UNCHANGED vars
  <2>1. CallersAreThreads' /\ CallsApart' /\ ExitersKnown' /\ DestroyedOnce'
    BY <1>2 DEF FrameInv, vars, pvars, hvars, CallersAreThreads, CallsApart, ExitersKnown, DestroyedOnce
  <2>2. SameOwners
    BY <1>2 DEF vars, mvars, hvars, SameOwners, Roots, Maps, Holds, Exists, JustFreed
  <2>3. OneOwner' /\ panicked' = panicked
    BY <1>2, <2>2, SameStep DEF FrameInv, ProcInv, TypeOK, vars
  <2> QED BY <1>1, <2>1, <2>3 DEF FrameInv
<1>3. CASE Next
  <2>1. PICK t \in Threads : Continue(t) \/ Start(t)
    BY <1>3 DEF Next
  <2>2. CallInv'
    BY <2>1, CallStep DEF FrameInv, CallInv
  <2>3. OneOwner' /\ panicked' # "double free"
    BY <1>1, <2>1, OwnerStep
  <2> QED BY <1>1, <2>2, <2>3 DEF FrameInv, CallInv
<1> QED BY <1>2, <1>3

\* FrameInv holds wherever kills and waits of one process are kept apart.
THEOREM FrameInvariant == Exclusive => (Spec => []FrameInv)
<1> SUFFICES ASSUME Exclusive PROVE Spec => []FrameInv
  OBVIOUS
<1>1. Init => FrameInv
  BY InitFrameInv
<1>2. FrameInv /\ [Next]_vars => FrameInv'
  BY NextFrameInv
<1> QED BY <1>1, <1>2, PTL DEF Spec

\* At most one process, free list or call accounts for a frame, counted.
LEMMA AtMostOne ==
    ASSUME NEW S, \A x, y \in S : x = y
    PROVE  IsFiniteSet(S) /\ Cardinality(S) = IF S = {} THEN 0 ELSE 1
<1>1. CASE S = {}
  BY <1>1, FS_EmptySet
<1>2. CASE S # {}
  <2>1. PICK x : x \in S
    BY <1>2
  <2>2. S = {x}
    BY <2>1
  <2> QED BY <1>2, <2>2, FS_Singleton
<1> QED BY <1>1, <1>2

LEMMA OwnersCounted ==
    ASSUME FrameInv, NEW f \in Frames
    PROVE  /\ Owners(f) \in 0 .. 1
           /\ Owners(f) = 1 <=> \/ f \in free
                                \/ \E p \in Pids : Roots(p, f) \/ Maps(p, f)
                                \/ \E t \in Threads : Holds(t, f)
<1> DEFINE R == {p \in Pids : Roots(p, f)}
           M == {p \in Pids : Maps(p, f)}
           H == {t \in Threads : Holds(t, f)}
<1>1. OwnedOnce(f)
  BY DEF FrameInv, OneOwner
<1>2. /\ Cardinality(R) = IF R = {} THEN 0 ELSE 1
      /\ Cardinality(M) = IF M = {} THEN 0 ELSE 1
      /\ Cardinality(H) = IF H = {} THEN 0 ELSE 1
  <2>1. \A x, y \in R : x = y
    BY <1>1 DEF OwnedOnce
  <2>2. \A x, y \in M : x = y
    BY <1>1 DEF OwnedOnce
  <2>3. \A x, y \in H : x = y
    BY <1>1 DEF OwnedOnce
  <2> QED BY <2>1, <2>2, <2>3, AtMostOne
<1>3. /\ f \in free => R = {} /\ M = {} /\ H = {}
      /\ R # {} => M = {} /\ H = {}
      /\ M # {} => H = {}
  BY <1>1 DEF OwnedOnce
<1>4. Owners(f) = (IF f \in free THEN 1 ELSE 0) + Cardinality(R) + Cardinality(M) + Cardinality(H)
  BY DEF Owners
<1>5. /\ R # {} <=> \E p \in Pids : Roots(p, f)
      /\ M # {} <=> \E p \in Pids : Maps(p, f)
      /\ H # {} <=> \E t \in Threads : Holds(t, f)
  OBVIOUS
<1> HIDE DEF R, M, H
<1>6. /\ Owners(f) \in 0 .. 1
      /\ Owners(f) = 1 <=> f \in free \/ R # {} \/ M # {} \/ H # {}
  BY <1>2, <1>3, <1>4
<1> QED BY <1>5, <1>6

\* No frame of a live process is free or another one's, and none is freed
\* twice, however exits, kills, faults, waits and memory calls of any number
\* of processes interleave.
THEOREM FramesStayApart == Exclusive => (Spec => []FramesNotShared)
<1> SUFFICES ASSUME Exclusive PROVE Spec => []FramesNotShared
  OBVIOUS
<1>1. ASSUME FrameInv PROVE FramesNotShared
  <2>1. \A f \in Frames : Owners(f) <= 1
    BY <1>1, OwnersCounted
  <2> QED BY <1>1, <2>1 DEF FramesNotShared, FrameInv
<1> QED BY <1>1, FrameInvariant, PTL


----------------------------------------------------------------------------
\* While nobody is killed inside a call, an ended process leaves nothing
\* mapped behind, so that destroying its address space loses no frame.

LEMMA CutGrows ==
    ASSUME NEW t \in Threads, Continue(t) \/ Start(t), cut
    PROVE  cut'
<1> USE DEF hvars
<1>1. CASE KillMark(t)
  BY <1>1 DEF KillMark
<1>2. CASE ~KillMark(t)
  BY <1>2 DEF Continue, Start, SpawnCreate, SpawnFail, MapPage, UnmapFree, Walk, WalkClear, ExitCode,
     ExitLeave, KillClaim, WaitJoin, WaitCollect, WaitDestroy, Spawn, MapAnon, Unmap, GrowStack,
     Exit, FaultKill, Kill, Wait
<1> QED BY <1>1, <1>2

LEMMA NobodyCutStep ==
    ASSUME ProcInv, CallInv, NobodyCut, NEW t \in Threads, Continue(t) \/ Start(t), ~cut'
    PROVE  NobodyCut'
<1> USE DEF At, Goto, NobodyCut
<1>1. TypeOK /\ CreatesFresh /\ (pc[t] \in Killing => target[t] \in Pids) /\ tstate[t] = "Live"
  BY DEF ProcInv, TargetsExist, Continue, Start, SpawnCreate, SpawnFail, MapPage, UnmapFree, Walk, WalkClear,
     ExitCode, ExitLeave, KillMark, KillClaim, WaitJoin, WaitCollect, WaitDestroy, Spawn, MapAnon, Unmap,
     GrowStack, Exit, FaultKill, Kill, Wait
<1>2. CASE SpawnCreate(t)
  BY Sorts, <1>1, <1>2 DEF SpawnCreate, TypeOK, CreatesFresh
<1>3. CASE ExitLeave(t)
  BY <1>1, <1>3 DEF ExitLeave, TypeOK
<1>4. CASE FaultKill(t)
  BY <1>1, <1>4 DEF FaultKill, TypeOK
<1>5. CASE KillMark(t)
  BY Sorts, <1>1, <1>5 DEF KillMark, TypeOK, Killing
<1>6. CASE ~(SpawnCreate(t) \/ ExitLeave(t) \/ FaultKill(t) \/ KillMark(t))
  <2>1. tstate' = tstate /\ \A u \in Threads \ {t} : pc'[u] = pc[u]
    BY <1>1, <1>6 DEF Continue, Start, SpawnFail, MapPage, UnmapFree, Walk, WalkClear, ExitCode,
     KillClaim, WaitJoin, WaitCollect, WaitDestroy, Spawn, MapAnon, Unmap, GrowStack, Exit, Kill, Wait, TypeOK
  <2> QED BY <1>1, <2>1
<1> QED BY <1>2, <1>3, <1>4, <1>5, <1>6

\* Nothing is mapped in an address space that is about to be destroyed.
LEMMA DestroysEmpty ==
    ASSUME ProcInv, CallInv, SpacesEmptied, NEW t \in Threads, tstate[t] = "Live", pc[t] = "destroy"
    PROVE  table[pml4[target[t]]] = {}
<1> DEFINE p == target[t]
<1>1. p \in Pids /\ tstate[p] = "Exited" /\ p \notin destroyed
  BY DEF ProcInv, TargetsExist, TargetsEnded, CallInv, DestroyedOnce, Waiting
<1>2. \A u \in Threads : tstate[u] = "Live" /\ pc[u] \in Killing /\ target[u] = p => u = p
  BY DEF CallInv, CallsApart, Waiting
<1> QED BY <1>1, <1>2 DEF SpacesEmptied, Tearing, Killing

LEMMA CoveredStep ==
    ASSUME FrameInv, ProcInv', SpacesEmptied, Covered, NEW t \in Threads, Continue(t) \/ Start(t)
    PROVE  Covered'
<1>1. ProcInv /\ CallInv /\ OneOwner /\ free \subseteq Frames
  BY DEF FrameInv, CallInv, ProcInv, TypeOK
<1> SUFFICES ASSUME NEW g \in Frames
             PROVE  \/ g \in free'
                    \/ \E p \in Pids : Roots(p, g)' \/ Maps(p, g)'
                    \/ \E u \in Threads : Holds(u, g)'
  BY DEF Covered
<1>a. \/ g \in free
      \/ \E p \in Pids : Roots(p, g) \/ Maps(p, g)
      \/ \E u \in Threads : Holds(u, g)
  BY DEF Covered
<1>2. CASE QuietCall(t) \/ WalkClear(t)
  BY <1>1, <1>2, <1>a, QuietCallOwners, WalkClearOwners DEF SameOwners
<1>3. CASE SpawnCreate(t)
  <2>1. target[t] \in Pids
    BY <1>1, <1>3 DEF ProcInv, CreatesFresh, SpawnCreate, At
  <2> QED BY <1>1, <1>3, <1>a, <2>1, SpawnCreateOwners
<1>4. CASE MapAnon(t)
  BY <1>1, <1>4, <1>a, MapAnonOwners
<1>5. CASE MapPage(t)
  <2>1. Holds(t, g) /\ g \in Frames => frame[t] = g
    BY DEF Holds
  <2> QED BY <1>1, <1>5, <1>a, <2>1, MapPageOwners
<1>6. CASE Unmap(t)
  BY <1>1, <1>6, <1>a, UnmapOwners
<1>7. CASE UnmapFree(t)
  <2>1. Holds(t, g) /\ g \in Frames => frame[t] = g
    BY DEF Holds
  <2> QED BY <1>1, <1>7, <1>a, <2>1, UnmapFreeOwners
<1>8. CASE GrowStack(t)
  BY <1>1, <1>8, <1>a, GrowStackOwners
<1>9. CASE Walk(t) /\ table[pml4[target[t]]] # {}
  BY <1>1, <1>9, <1>a, WalkOwners
<1>10. CASE FaultKill(t)
  BY <1>1, <1>10, <1>a, FaultKillOwners
<1>11. CASE WaitDestroy(t)
  <2>1. table[pml4[target[t]]] = {}
    BY <1>1, <1>11, DestroysEmpty DEF WaitDestroy, At
  <2>2. ~Maps(target[t], g) /\ (Roots(target[t], g) => g = pml4[target[t]])
    BY <2>1 DEF Maps, Roots
  <2>3. /\ pml4[target[t]] \in free'
        /\ \A h \in free : h \in free'
        /\ \A q \in Pids : (Roots(q, g) /\ q # target[t] => Roots(q, g)') /\ (Maps(q, g) /\ q # target[t] => Maps(q, g)')
        /\ \A u \in Threads : Holds(u, g) => Holds(u, g)'
    BY <1>1, <1>11, WaitDestroyOwners
  <2> QED BY <1>a, <2>2, <2>3
<1> QED BY <1>2, <1>3, <1>4, <1>5, <1>6, <1>7, <1>8, <1>9, <1>10, <1>11, StepCases


\* What has been emptied stays so for a process that has ended, or is past
\* its own walk.
Leaving(p) ==
    \/ tstate[p] = "Exited" /\ p \notin destroyed
    \/ tstate[p] = "Live" /\ pc[p] \in {"code", "leave"}

\* Steps that neither end a process nor tear one down.
CalmCall(t) ==
    \/ Spawn(t) \/ SpawnFail(t) \/ MapAnon(t) \/ MapPage(t) \/ Unmap(t) \/ UnmapFree(t) \/ GrowStack(t)
    \/ WaitJoin(t) \/ WaitCollect(t) \/ WaitDestroy(t)
    \/ \E p \in Pids : Kill(t, p) \/ Wait(t, p)

LEMMA CalmEmptied ==
    ASSUME FrameInv, SpacesEmptied, NEW t \in Threads, CalmCall(t)
    PROVE  SpacesEmptied'
<1>1. ProcInv /\ CallInv /\ OneOwner /\ TypeOK
  BY DEF FrameInv, CallInv, ProcInv
<1>2. /\ tstate' = tstate /\ exiting' = exiting /\ pml4' = pml4 /\ destroyed \subseteq destroyed'
      /\ tstate[t] = "Live"
  BY DEF CalmCall, Spawn, SpawnFail, MapAnon, MapPage, Unmap, UnmapFree, GrowStack, WaitJoin, WaitCollect,
     WaitDestroy, Kill, Wait, hvars, mvars, At
<1>3. /\ \A u \in Threads \ {t} : pc'[u] = pc[u] /\ target'[u] = target[u]
      /\ pc[t] \notin {"walk", "clear", "claim", "code", "leave"}
      /\ pc'[t] \notin {"walk", "clear", "claim", "code", "leave"}
  <2>1. pc \in [Threads -> PCs] /\ target \in [Threads -> Threads]
    BY <1>1 DEF TypeOK
  <2>2. \E where \in {"run", "create", "map", "unmap", "mark", "join", "collect", "destroy"} :
          /\ pc' = [pc EXCEPT ![t] = where] \/ (pc' = pc /\ pc[t] = where)
          /\ pc[t] \in {"run", "create", "map", "unmap", "mark", "join", "collect", "destroy"}
          /\ target' = target \/ \E p : target' = [target EXCEPT ![t] = p]
    BY DEF CalmCall, Spawn, SpawnFail, MapAnon, MapPage, Unmap, UnmapFree, GrowStack, WaitJoin, WaitCollect,
       WaitDestroy, Kill, Wait, hvars, mvars, At, Goto
  <2> QED BY <2>1, <2>2
<1>4. \A p \in Pids : Leaving(p) => Exists(p) /\ p # t
  BY <1>1, <1>2, <1>3, LiveExists DEF Leaving, Exists
<1>5. ASSUME NEW p \in Pids, Leaving(p), table[pml4[p]] = {}
      PROVE  table'[pml4[p]] = {}
  <2>1. /\ Exists(p) /\ p # t /\ pml4[p] \in Frames /\ pml4[p] \notin free
        /\ t \in Pids => Exists(t) /\ pml4[t] # pml4[p]
    BY <1>1, <1>2, <1>4, <1>5, LiveExists, OthersMap
  <2>2. table \in [Frames -> SUBSET Frames]
    BY <1>1 DEF TypeOK
  <2>3. CASE MapAnon(t)
    <3>1. \E f \in free : table' = [table EXCEPT ![f] = {}]
      BY <2>3 DEF MapAnon
    <3> QED BY <1>5, <2>1, <2>2, <3>1
  <2>4. CASE MapPage(t)
    <3>1. t \in Pids /\ table' = [table EXCEPT ![pml4[t]] = @ \cup {frame[t]}]
      BY <1>1, <2>4, MapPageOwners
    <3> QED BY <1>5, <2>1, <2>2, <3>1
  <2>5. CASE Unmap(t)
    <3>1. t \in Pids /\ \E f \in Frames : table' = [table EXCEPT ![pml4[t]] = @ \ {f}]
      BY <1>1, <2>5, UnmapOwners
    <3> QED BY <1>5, <2>1, <2>2, <3>1
  <2>6. CASE GrowStack(t)
    <3>1. t \in Pids /\ \E f \in free : table' = [table EXCEPT ![f] = {}, ![pml4[t]] = @ \cup {f}]
      BY <1>1, <2>6, GrowStackOwners
    <3> QED BY <1>5, <2>1, <2>2, <3>1
  <2>7. CASE ~(MapAnon(t) \/ MapPage(t) \/ Unmap(t) \/ GrowStack(t))
    BY <1>5, <2>7 DEF CalmCall, Spawn, SpawnFail, UnmapFree, WaitJoin, WaitCollect, WaitDestroy, Kill, Wait, mvars
  <2> QED BY <2>3, <2>4, <2>5, <2>6, <2>7
<1>6. \A p \in Pids : pc'[p] \in {"code", "leave"} => pc[p] \in {"code", "leave"}
  BY Sorts, <1>3
<1>7. \A u \in Threads, p \in Pids :
          (Tearing(u, p) => Tearing(u, p)') /\ (pc[u] = "claim" => pc'[u] = "claim" /\ target'[u] = target[u])
  BY <1>2, <1>3 DEF Tearing
<1>8. ASSUME NEW p \in Pids, pc'[p] \in {"code", "leave"}, tstate'[p] = "Live"
      PROVE  table'[pml4'[p]] = {}
  BY <1>2, <1>5, <1>6, <1>8 DEF SpacesEmptied, Leaving
<1>9. ASSUME NEW p \in Pids, tstate'[p] = "Exited", p \notin destroyed'
      PROVE  IF exiting'[p]
             THEN table'[pml4'[p]] = {} \/ \E u \in Threads : Tearing(u, p)'
             ELSE \E u \in Threads : tstate'[u] = "Live" /\ pc'[u] = "claim" /\ target'[u] = p
  <2>1. tstate[p] = "Exited" /\ p \notin destroyed /\ Leaving(p)
    BY <1>2, <1>9 DEF Leaving
  <2>2. CASE exiting[p]
    BY <1>2, <1>5, <1>7, <2>1, <2>2 DEF SpacesEmptied
  <2>3. CASE ~exiting[p]
    BY <1>2, <1>7, <2>1, <2>3 DEF SpacesEmptied
  <2> QED BY <1>2, <2>2, <2>3
<1> QED BY <1>8, <1>9 DEF SpacesEmptied


LEMMA EmptiedStep ==
    ASSUME FrameInv, NobodyCut, SpacesEmptied, ~cut', NEW t \in Threads, Continue(t) \/ Start(t)
    PROVE  SpacesEmptied'
<1> USE Sorts DEF At, Goto, mvars, hvars, SpacesEmptied, Tearing
<1>1. ProcInv /\ CallInv /\ OneOwner /\ TypeOK /\ TargetsExist /\ OneTeardown /\ tstate[t] = "Live"
  BY DEF FrameInv, CallInv, ProcInv, Continue, Start, SpawnCreate, SpawnFail, MapPage, UnmapFree, Walk, WalkClear,
     ExitCode, ExitLeave, KillMark, KillClaim, WaitJoin, WaitCollect, WaitDestroy, Spawn, MapAnon, Unmap,
     GrowStack, Exit, FaultKill, Kill, Wait
<1>2. /\ pc \in [Threads -> PCs] /\ target \in [Threads -> Threads] /\ exiting \in [Pids -> BOOLEAN]
      /\ tstate \in [Threads -> {"New", "Live", "Exited"}] /\ table \in [Frames -> SUBSET Frames]
      /\ pml4 \in [Pids -> Frames \cup {NoFrame}]
  BY <1>1 DEF TypeOK
<1>3. CASE CalmCall(t)
  BY <1>3, CalmEmptied
<1>4. CASE SpawnCreate(t)
  <2> DEFINE p == target[t]
  <2>1. /\ p \in Pids /\ tstate[p] = "New" /\ pc[p] = "run" /\ pc[t] = "create"
    BY <1>1, <1>4 DEF SpawnCreate, ProcInv, CreatesFresh, CallInv, CallersAreThreads
  <2>2. PICK f \in free, im \in SUBSET Frames :
           table' = [table EXCEPT ![f] = im] /\ pml4' = [pml4 EXCEPT ![p] = f]
    <3>1. free \subseteq Frames
      BY <1>1 DEF TypeOK
    <3> QED BY <1>4, <3>1 DEF SpawnCreate
  <2>3. /\ tstate' = [tstate EXCEPT ![p] = "Live"] /\ pc' = [pc EXCEPT ![t] = "run"]
        /\ UNCHANGED <<target, exiting, destroyed>>
    BY <1>4 DEF SpawnCreate
  <2> HIDE DEF p
  <2>4. \A q \in Pids : Leaving(q) => Exists(q) /\ q # p /\ pml4'[q] = pml4[q] /\ table'[pml4[q]] = table[pml4[q]]
    <3> SUFFICES ASSUME NEW q \in Pids, Leaving(q)
                 PROVE  Exists(q) /\ q # p /\ pml4'[q] = pml4[q] /\ table'[pml4[q]] = table[pml4[q]]
      OBVIOUS
    <3>1. Exists(q) /\ q # p
      BY <1>1, <2>1, LiveExists DEF Leaving, Exists
    <3>2. pml4[q] \in Frames /\ pml4[q] \notin free
      BY <1>1, <3>1, OthersMap
    <3> QED BY <1>2, <2>1, <2>2, <3>1, <3>2
  <2>5. \A q \in Pids : Leaving(q)' => Leaving(q)
    BY <1>1, <1>2, <2>1, <2>3 DEF Leaving
  <2>6. \A u \in Threads, q \in Pids :
           /\ Tearing(u, q) => Tearing(u, q)'
           /\ tstate[u] = "Live" /\ pc[u] = "claim" /\ target[u] = q
                 => tstate'[u] = "Live" /\ pc'[u] = "claim" /\ target'[u] = q
    BY <1>1, <1>2, <2>1, <2>3
  <2>7. \A q \in Pids : pc'[q] \in {"code", "leave"} => pc[q] = pc'[q]
    BY <1>2, <2>3
  <2>8. ASSUME NEW q \in Pids, pc'[q] \in {"code", "leave"}, tstate'[q] = "Live"
        PROVE  table'[pml4'[q]] = {}
    <3>1. Leaving(q)' /\ tstate[q] = "Live"
      BY <1>2, <2>3, <2>5, <2>8, <2>1, <2>7 DEF Leaving
    <3> QED BY <2>4, <2>5, <2>7, <2>8, <3>1
  <2>9. ASSUME NEW q \in Pids, tstate'[q] = "Exited", q \notin destroyed'
        PROVE  IF exiting'[q]
               THEN table'[pml4'[q]] = {} \/ \E u \in Threads : Tearing(u, q)'
               ELSE \E u \in Threads : tstate'[u] = "Live" /\ pc'[u] = "claim" /\ target'[u] = q
    <3>1. Leaving(q) /\ tstate[q] = "Exited" /\ q \notin destroyed
      BY <1>2, <2>3, <2>9, <2>1 DEF Leaving
    <3> QED BY <2>3, <2>4, <2>6, <3>1
  <2> QED BY <2>8, <2>9
<1>5. CASE Exit(t)
  <2>1. /\ t \in Pids /\ pc[t] = "run" /\ pc' = [pc EXCEPT ![t] = IF ~exiting[t] THEN "walk" ELSE "code"]
        /\ target' = [target EXCEPT ![t] = t] /\ exiting' = [exiting EXCEPT ![t] = TRUE]
        /\ UNCHANGED <<tstate, table, pml4, destroyed>>
    BY <1>5 DEF Exit, BeginExit
  <2>2. ~exiting[t]
    BY <1>1, <2>1 DEF CallInv, ExitersKnown
  <2> QED BY <1>1, <1>2, <2>1, <2>2
<1>6. CASE Walk(t)
  <2>1. /\ pc[t] = "walk" /\ target[t] \in Pids /\ UNCHANGED <<tstate, table, pml4, target, exiting, destroyed>>
    BY <1>1, <1>6 DEF Walk, Killing, TargetsExist
  <2>2. CASE pc' = [pc EXCEPT ![t] = "clear"]
    BY <1>1, <1>2, <2>1, <2>2
  <2>3. CASE /\ table[pml4[target[t]]] = {}
             /\ pc' = [pc EXCEPT ![t] = IF target[t] = t THEN "code" ELSE "run"]
    BY <1>1, <1>2, <2>1, <2>3
  <2> QED BY <1>6, <2>2, <2>3 DEF Walk
<1>7. CASE WalkClear(t)
  <2> DEFINE p == target[t]
  <2>1. /\ pc[t] = "clear" /\ p \in Pids /\ pc' = [pc EXCEPT ![t] = "walk"]
        /\ table' = [table EXCEPT ![pml4[p]] = @ \ {frame[t]}]
        /\ UNCHANGED <<tstate, pml4, target, exiting, destroyed>>
    BY <1>1, <1>7 DEF WalkClear, Killing, TargetsExist
  <2>2. \A g \in Frames : table[g] = {} => table'[g] = {}
    BY <1>2, <2>1
  <2>3. \A q \in Pids : tstate[q] # "New" => pml4[q] \in Frames
    BY <1>1 DEF ProcInv, SpacesBuilt
  <2> QED BY <1>1, <1>2, <2>1, <2>2, <2>3
<1>8. CASE ExitCode(t)
  <2>1. /\ pc[t] = "code" /\ pc' = [pc EXCEPT ![t] = "leave"]
        /\ UNCHANGED <<tstate, table, pml4, target, exiting, destroyed>>
    BY <1>8 DEF ExitCode
  <2> QED BY <1>1, <1>2, <2>1
<1>9. CASE ExitLeave(t)
  <2>1. /\ pc[t] = "leave" /\ tstate' = [tstate EXCEPT ![t] = "Exited"]
        /\ UNCHANGED <<pc, table, pml4, target, exiting, destroyed>>
    BY <1>9 DEF ExitLeave
  <2>2. t \in Pids /\ exiting[t] /\ table[pml4[t]] = {}
    BY <1>1, <2>1 DEF CallInv, CallersAreThreads, ExitersKnown
  <2> QED BY <1>1, <1>2, <2>1, <2>2
<1>10. CASE FaultKill(t)
  <2>1. /\ pc[t] = "run" /\ t \in Pids /\ tstate' = [tstate EXCEPT ![t] = "Exited"]
        /\ exiting' = [exiting EXCEPT ![t] = TRUE]
        /\ UNCHANGED <<pc, pml4, target, destroyed>>
    BY <1>10 DEF FaultKill, pvars
  <2>2. ~exiting[t]
    BY <1>1, <2>1 DEF CallInv, ExitersKnown
  <2>3. table' = [table EXCEPT ![pml4[t]] = {}]
    BY <1>10, <2>2 DEF FaultKill, BeginExit
  <2>4. \A q \in Pids : tstate[q] # "New" => pml4[q] \in Frames
    BY <1>1 DEF ProcInv, SpacesBuilt
  <2> QED BY <1>1, <1>2, <2>1, <2>2, <2>3, <2>4
<1>11. CASE KillMark(t)
  <2> DEFINE p == target[t]
  <2>1. /\ pc[t] = "mark" /\ p \in Pids /\ p # t /\ pc' = [pc EXCEPT ![t] = "claim"] /\ tstate[p] # "New"
        /\ UNCHANGED <<table, pml4, target, exiting, destroyed>>
    BY <1>1, <1>11 DEF KillMark, Killing, TargetsExist, CallInv, CallersAreThreads
  <2>2. CASE tstate[p] = "Exited"
    BY <1>1, <1>2, <1>11, <2>1, <2>2 DEF KillMark
  <2>3. CASE tstate[p] = "Live"
    <3>1. tstate' = [tstate EXCEPT ![p] = "Exited"] /\ pc[p] \in {"run", "join"}
      BY <1>11, <2>3 DEF KillMark
    <3>2. ~exiting[p]
      BY <1>1, <2>1, <2>3, <3>1 DEF CallInv, ExitersKnown
    <3> QED BY <1>1, <1>2, <2>1, <2>3, <3>1, <3>2
  <2> QED BY <1>2, <2>1, <2>2, <2>3
<1>12. CASE KillClaim(t)
  <2> DEFINE p == target[t]
  <2>1. /\ pc[t] = "claim" /\ p \in Pids /\ p # t /\ exiting' = [exiting EXCEPT ![p] = TRUE]
        /\ pc' = [pc EXCEPT ![t] = IF ~exiting[p] THEN "walk" ELSE "run"]
        /\ UNCHANGED <<tstate, table, pml4, target, destroyed>>
    BY <1>1, <1>12 DEF KillClaim, BeginExit, Killing, TargetsExist, CallInv, CallersAreThreads
  <2> QED BY <1>1, <1>2, <2>1
<1> QED BY <1>3, <1>4, <1>5, <1>6, <1>7, <1>8, <1>9, <1>10, <1>11, <1>12
    DEF Continue, Start, CalmCall

LEMMA InitUncut == Init => UncutInv
<1> SUFFICES ASSUME Init PROVE NobodyCut /\ SpacesEmptied /\ Covered
  BY DEF UncutInv
<1>1. NobodyCut
  BY DEF Init, NobodyCut
<1>2. SpacesEmptied
  BY Sorts DEF Init, SpacesEmptied
<1>3. Covered
  BY DEF Init, Covered
<1> QED BY <1>1, <1>2, <1>3

LEMMA NextUncut == Exclusive /\ FrameInv /\ UncutInv /\ [Next]_vars => UncutInv'
<1> SUFFICES ASSUME Exclusive, FrameInv, UncutInv, [Next]_vars, ~cut' PROVE NobodyCut' /\ SpacesEmptied' /\ Covered'
  BY DEF UncutInv
<1>1. ASSUME NEW t \in Threads, Continue(t) \/ Start(t)
      PROVE  NobodyCut' /\ SpacesEmptied' /\ Covered'
  <2>1. NobodyCut /\ SpacesEmptied /\ Covered
    BY <1>1, CutGrows DEF UncutInv
  <2>2. ProcInv /\ CallInv /\ ProcInv'
    BY <1>1, NextProcInv DEF FrameInv, CallInv, Next
  <2> QED BY <1>1, <2>1, <2>2, NobodyCutStep, EmptiedStep, CoveredStep
<1>2. CASE UNCHANGED vars
  <2>1. NobodyCut /\ SpacesEmptied /\ Covered
    BY <1>2 DEF UncutInv, vars, hvars
  <2> QED BY <1>2, <2>1 DEF vars, pvars, mvars, hvars, NobodyCut, SpacesEmptied, Covered, Tearing, Roots, Maps,
      Holds, Exists, JustFreed
<1> QED BY <1>1, <1>2 DEF Next

\* The frames of every process that ended without being cut short in a call
\* are accounted for.
THEOREM UncutInvariant == Exclusive => (Spec => [](FrameInv /\ UncutInv))
<1> SUFFICES ASSUME Exclusive PROVE Spec => [](FrameInv /\ UncutInv)
  OBVIOUS
<1>1. Init => FrameInv /\ UncutInv
  BY InitFrameInv, InitUncut
<1>2. FrameInv /\ UncutInv /\ [Next]_vars => (FrameInv /\ UncutInv)'
  BY NextFrameInv, NextUncut
<1> QED BY <1>1, <1>2, PTL DEF Spec

\* No frame is lost: unless a thread was killed in the middle of a call, every
\* frame is free, is a page table, is mapped or is in the hands of a call, in
\* whatever order processes exit, fault, are killed and are waited for.
THEOREM NoFrameIsLost == Exclusive => (Spec => []NoFrameLost)
<1> SUFFICES ASSUME Exclusive PROVE Spec => []NoFrameLost
  OBVIOUS
<1>1. FrameInv /\ UncutInv => NoFrameLost
  BY OwnersCounted DEF UncutInv, Covered, NoFrameLost
<1> QED BY <1>1, UncutInvariant, PTL

\* What proc::wait relies on: when it destroys an address space, nothing is
\* mapped in it, if kills and waits of one process are kept apart.
THEOREM NothingLeftToFree == Exclusive => (Spec => []FreedBeforeDestroy)
<1> SUFFICES ASSUME Exclusive PROVE Spec => []FreedBeforeDestroy
  OBVIOUS
<1>1. FrameInv /\ UncutInv => FreedBeforeDestroy
  BY DestroysEmpty DEF FrameInv, CallInv, UncutInv, FreedBeforeDestroy, At
<1> QED BY <1>1, UncutInvariant, PTL
=============================================================================

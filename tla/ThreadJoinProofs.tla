-------------------------- MODULE ThreadJoinProofs --------------------------
(***************************************************************************)
(* For every set of threads and of threads that join them: the structure   *)
(* of a thread is not used after it has been freed, and a thread is joined *)
(* once and only after its exit.                                           *)
(***************************************************************************)
EXTENDS ThreadJoin, TLAPS

(***************************************************************************)
(* What makes the properties inductive.  A thread at a program counter     *)
(* that reads its structure finds it listed: it cannot be unlinked before  *)
(* done is set.                                                            *)
(***************************************************************************)
ThreadInv(t) ==
    /\ pc[t] \in ThreadPcs /\ target[t] = t
    /\ pc[t] = "unborn" => structure[t] = "none"
    /\ pc[t] = "take" => joinMutex = t
    /\ pc[t] = "signal" => threadMutex[t] = t
    /\ pc[t] \in {"take", "signal"} => structure[t] = "listed"
    /\ structure[t] = "unlinked" => waitedUpon[t]
    /\ structure[t] # "none" /\ done[t] => pc[t] \in {"leave", "gone"}

(***************************************************************************)
(* The locks that a joiner holds, the state of the structure at each of    *)
(* its steps, and the flags it has set or seen.                            *)
(***************************************************************************)
JoinerInv(j) ==
    /\ pc[j] \in JoinerPcs
    /\ pc[j] # "start" => target[j] \in Threads
    /\ pc[j] \in {"take", "unlink"} => joinMutex = j
    /\ pc[j] \in {"check", "release"} => threadMutex[target[j]] = j
    /\ pc[j] \in {"take", "wait", "wake", "release", "relist", "unlink"}
        => structure[target[j]] = "listed"
    /\ pc[j] = "check" => structure[target[j]] \in {"listed", "unlinked"}
    /\ pc[j] \in {"last", "free"} => structure[target[j]] = "unlinked"
    /\ pc[j] = "ok" => structure[target[j]] = "freed"
    /\ Waiting(j) => waitedUpon[target[j]]
    /\ pc[j] \in {"release", "relist", "unlink", "last", "free", "ok"} => done[target[j]]

\* The thread that is being created has no structure until it is remembered.
MainInv ==
    /\ pc[Main] \in MainPcs
    /\ pc[Main] # "idle" => target[Main] \in Threads
    /\ pc[Main] = "create" => pc[target[Main]] = "unborn"
    /\ pc[Main] = "remember"
        => pc[target[Main]] # "unborn" /\ structure[target[Main]] = "none"

\* One waiter; and once it has passed [3], nobody is at [2].
PairInv(i, j) ==
    target[i] = target[j] =>
        /\ Waiting(i) /\ Waiting(j) => i = j
        /\ pc[i] = "free" => pc[j] # "check"

IInv ==
    /\ TypeOK
    /\ \A t \in Threads : ThreadInv(t)
    /\ \A j \in Joiners : JoinerInv(j)
    /\ MainInv
    /\ \A i, j \in Joiners : PairInv(i, j)

USE ThreadsAssumption

-----------------------------------------------------------------------------
(***************************************************************************)
(* IInv holds initially and every action preserves it.                     *)
(***************************************************************************)
LEMMA InitIInv == Init => IInv
  BY DEF Init, IInv, TypeOK, ThreadInv, JoinerInv, MainInv, PairInv, Procs, ThreadPcs,
         JoinerPcs, MainPcs, Waiting

LEMMA EnterCreateStep ==
  ASSUME IInv, NEW t \in Threads, EnterCreate(t)
  PROVE  IInv'
  <1> USE DEF IInv, EnterCreate, Step, locks
  <1>1. TypeOK'
    BY DEF TypeOK, Procs, MainPcs
  <1>2. \A u \in Threads : ThreadInv(u)'
    BY DEF ThreadInv
  <1>3. \A k \in Joiners : JoinerInv(k)'
    BY DEF JoinerInv, Waiting
  <1>4. MainInv'
    BY DEF TypeOK, MainPcs, MainInv
  <1>5. \A i, k \in Joiners : PairInv(i, k)'
    BY DEF PairInv, Waiting
  <1> QED
    BY <1>1, <1>2, <1>3, <1>4, <1>5

LEMMA BeginThreadStep ==
  ASSUME IInv, NEW joinable \in BOOLEAN, BeginThread(joinable)
  PROVE  IInv'
  <1> USE DEF IInv, BeginThread, locks
  <1>1. TypeOK'
    BY DEF TypeOK, ThreadPcs, MainPcs
  <1>2. \A u \in Threads : ThreadInv(u)'
    BY DEF TypeOK, Procs, ThreadPcs, ThreadInv, MainInv
  <1>3. \A k \in Joiners : JoinerInv(k)'
    BY DEF TypeOK, Procs, JoinerInv, Waiting
  <1>4. MainInv'
    BY DEF TypeOK, Procs, MainPcs, ThreadInv, MainInv
  <1>5. \A i, k \in Joiners : PairInv(i, k)'
    BY DEF TypeOK, Procs, PairInv, Waiting
  <1> QED
    BY <1>1, <1>2, <1>3, <1>4, <1>5

LEMMA RememberJoinableThreadStep ==
  ASSUME IInv, RememberJoinableThread
  PROVE  IInv'
  <1> USE DEF IInv, RememberJoinableThread, Step, locks
  <1>1. TypeOK'
    <2> DEFINE u == target[Main]
    <2>1. u \in Threads
      BY DEF MainInv, RememberJoinableThread, Step
    <2>2. /\ done' \in [Threads -> BOOLEAN \union {NULL}]
          /\ waitedUpon' \in [Threads -> BOOLEAN \union {NULL}]
          /\ done'[u] = FALSE /\ waitedUpon'[u] = FALSE
          /\ \A t \in Threads \ {u} : done'[t] = done[t] /\ waitedUpon'[t] = waitedUpon[t]
      BY <2>1, Zenon DEF TypeOK, RememberJoinableThread
    <2>3. structure' = [structure EXCEPT ![u] = "listed"]
      BY DEF RememberJoinableThread
    <2> HIDE DEF u
    <2>4. ASSUME NEW t \in Threads, structure'[t] # "none"
          PROVE  NULL \notin {done'[t], waitedUpon'[t]}
      <3>1. CASE t = u
        BY <3>1, <2>2, Zenon
      <3>2. CASE t # u
        BY <3>2, <2>1, <2>2, <2>3, <2>4 DEF TypeOK
      <3> QED
        BY <3>1, <3>2
    <2> QED
      BY <2>2, <2>3, <2>1, <2>4 DEF TypeOK, RememberJoinableThread, Step, locks, Procs, MainPcs
  <1>2. \A u \in Threads : ThreadInv(u)'
    BY DEF TypeOK, ThreadInv, MainInv
  <1>3. \A k \in Joiners : JoinerInv(k)'
    BY DEF JoinerInv, MainInv, Waiting
  <1>4. MainInv'
    BY DEF TypeOK, Procs, MainPcs, MainInv
  <1>5. \A i, k \in Joiners : PairInv(i, k)'
    BY DEF PairInv, Waiting
  <1> QED
    BY <1>1, <1>2, <1>3, <1>4, <1>5

LEMMA LeaveCreateStep ==
  ASSUME IInv, LeaveCreate
  PROVE  IInv'
  <1> USE DEF IInv, LeaveCreate, Step, locks
  <1>1. TypeOK'
    BY DEF TypeOK, MainPcs
  <1>2. \A u \in Threads : ThreadInv(u)'
    BY DEF ThreadInv
  <1>3. \A k \in Joiners : JoinerInv(k)'
    BY DEF JoinerInv, Waiting
  <1>4. MainInv'
    BY DEF MainPcs, MainInv
  <1>5. \A i, k \in Joiners : PairInv(i, k)'
    BY DEF PairInv, Waiting
  <1> QED
    BY <1>1, <1>2, <1>3, <1>4, <1>5

LEMMA EnterExitStep ==
  ASSUME IInv, NEW t \in Threads, EnterExit(t)
  PROVE  IInv'
  <1> USE DEF IInv, EnterExit, Step, locks
  <1>1. TypeOK'
    BY DEF TypeOK, Procs, ThreadPcs
  <1>2. \A u \in Threads : ThreadInv(u)'
    BY DEF ThreadPcs, ThreadInv
  <1>3. \A k \in Joiners : JoinerInv(k)'
    BY DEF JoinerInv, Waiting
  <1>4. MainInv'
    BY DEF MainInv
  <1>5. \A i, k \in Joiners : PairInv(i, k)'
    BY DEF PairInv, Waiting
  <1> QED
    BY <1>1, <1>2, <1>3, <1>4, <1>5

LEMMA ExitFindStep ==
  ASSUME IInv, NEW t \in Threads, ExitFind(t)
  PROVE  IInv'
  <1> USE DEF IInv, ExitFind, LockList, locks
  <1>1. TypeOK'
    BY DEF TypeOK, Procs, ThreadPcs
  <1>2. \A u \in Threads : ThreadInv(u)'
    BY DEF TypeOK, Procs, ThreadPcs, ThreadInv
  <1>3. \A k \in Joiners : JoinerInv(k)'
    BY DEF TypeOK, Procs, JoinerInv, Waiting
  <1>4. MainInv'
    BY DEF TypeOK, Procs, MainInv
  <1>5. \A i, k \in Joiners : PairInv(i, k)'
    BY DEF TypeOK, Procs, PairInv, Waiting
  <1> QED
    BY <1>1, <1>2, <1>3, <1>4, <1>5

LEMMA ExitTakeStep ==
  ASSUME IInv, NEW t \in Threads, ExitTake(t)
  PROVE  IInv'
  <1> USE DEF IInv, ExitTake, Step, Lock, UnlockList, locks
  <1>1. TypeOK'
    BY DEF TypeOK, Procs, ThreadPcs
  <1>2. \A u \in Threads : ThreadInv(u)'
    BY DEF TypeOK, ThreadPcs, ThreadInv
  <1>3. \A k \in Joiners : JoinerInv(k)'
    BY DEF Procs, ThreadInv, JoinerInv, Waiting
  <1>4. MainInv'
    BY DEF MainInv
  <1>5. \A i, k \in Joiners : PairInv(i, k)'
    BY DEF PairInv, Waiting
  <1> QED
    BY <1>1, <1>2, <1>3, <1>4, <1>5

LEMMA ExitSignalStep ==
  ASSUME IInv, NEW t \in Threads, ExitSignal(t)
  PROVE  IInv'
  <1> USE DEF IInv, ExitSignal, WakeWaiter, Unlock, locks
  <1>1. TypeOK'
    <2>1. pc' \in [Procs -> ThreadPcs \union JoinerPcs \union MainPcs]
      BY DEF TypeOK, WakeWaiter, Procs, ThreadPcs, JoinerPcs, MainPcs
    <2>2. done' \in [Threads -> BOOLEAN \union {NULL}] /\ done'[t] = TRUE
          /\ \A u \in Threads \ {t} : done'[u] = done[u]
      BY Zenon DEF TypeOK
    <2>3. \A u \in Threads : structure'[u] # "none" => NULL \notin {done'[u], waitedUpon'[u]}
      <3> SUFFICES ASSUME NEW u \in Threads, structure[u] # "none" PROVE NULL # done'[u]
        BY DEF TypeOK
      <3>1. CASE u = t
        BY <3>1, <2>2, Zenon
      <3>2. CASE u # t
        BY <3>2, <2>2 DEF TypeOK
      <3> QED
        BY <3>1, <3>2
    <2> QED
      BY <2>1, <2>2, <2>3 DEF TypeOK, Unlock, Procs
  <1>2. \A u \in Threads : ThreadInv(u)'
    BY DEF Procs, ThreadPcs, ThreadInv
  <1>3. \A k \in Joiners : JoinerInv(k)'
    BY DEF Procs, JoinerPcs, ThreadInv, JoinerInv, Waiting
  <1>4. MainInv'
    BY DEF Procs, MainPcs, MainInv
  <1>5. \A i, k \in Joiners : PairInv(i, k)'
    BY DEF TypeOK, Procs, PairInv, Waiting
  <1> QED
    BY <1>1, <1>2, <1>3, <1>4, <1>5

LEMMA LeaveExitStep ==
  ASSUME IInv, NEW t \in Threads, LeaveExit(t)
  PROVE  IInv'
  <1> USE DEF IInv, LeaveExit, Step, locks
  <1>1. TypeOK'
    BY DEF TypeOK, ThreadPcs
  <1>2. \A u \in Threads : ThreadInv(u)'
    BY DEF ThreadPcs, ThreadInv
  <1>3. \A k \in Joiners : JoinerInv(k)'
    BY DEF JoinerInv, Waiting
  <1>4. MainInv'
    BY DEF MainInv
  <1>5. \A i, k \in Joiners : PairInv(i, k)'
    BY DEF PairInv, Waiting
  <1> QED
    BY <1>1, <1>2, <1>3, <1>4, <1>5

LEMMA JoinFindStep ==
  ASSUME IInv, NEW j \in Joiners, NEW t \in Threads, JoinFind(j, t)
  PROVE  IInv'
  <1> USE DEF IInv, JoinFind, LockList, locks
  <1>1. TypeOK'
    BY DEF TypeOK, Procs, JoinerPcs
  <1>2. \A u \in Threads : ThreadInv(u)'
    BY DEF TypeOK, Procs, ThreadInv
  <1>3. \A k \in Joiners : JoinerInv(k)'
    BY DEF TypeOK, Procs, JoinerPcs, JoinerInv, Waiting
  <1>4. MainInv'
    BY DEF TypeOK, Procs, MainInv
  <1>5. \A i, k \in Joiners : PairInv(i, k)'
    BY DEF TypeOK, Procs, PairInv, Waiting
  <1> QED
    BY <1>1, <1>2, <1>3, <1>4, <1>5

LEMMA JoinTakeStep ==
  ASSUME IInv, NEW j \in Joiners, JoinTake(j)
  PROVE  IInv'
  <1> USE DEF IInv, JoinTake, Step, Lock, UnlockList, locks
  <1>1. TypeOK'
    BY DEF TypeOK, Procs, JoinerPcs
  <1>2. \A u \in Threads : ThreadInv(u)'
    BY DEF Procs, ThreadInv, JoinerInv
  <1>3. \A k \in Joiners : JoinerInv(k)'
    BY DEF TypeOK, Procs, JoinerPcs, JoinerInv, Waiting
  <1>4. MainInv'
    BY DEF MainInv
  <1>5. \A i, k \in Joiners : PairInv(i, k)'
    BY DEF TypeOK, Procs, JoinerInv, PairInv, Waiting
  <1> QED
    BY <1>1, <1>2, <1>3, <1>4, <1>5

LEMMA JoinRefusedStep ==
  ASSUME IInv, NEW j \in Joiners, JoinRefused(j)
  PROVE  IInv'
  <1> USE DEF IInv, JoinRefused, Step, Taken, Unlock, locks
  <1>1. TypeOK'
    BY DEF TypeOK, JoinerPcs
  <1>2. \A u \in Threads : ThreadInv(u)'
    BY DEF ThreadInv, JoinerInv
  <1>3. \A k \in Joiners : JoinerInv(k)'
    BY DEF TypeOK, JoinerPcs, JoinerInv, Waiting
  <1>4. MainInv'
    BY DEF MainInv
  <1>5. \A i, k \in Joiners : PairInv(i, k)'
    BY DEF PairInv, Waiting
  <1> QED
    BY <1>1, <1>2, <1>3, <1>4, <1>5

LEMMA JoinWaitsStep ==
  ASSUME IInv, NEW j \in Joiners, JoinWaits(j)
  PROVE  IInv'
  <1> USE DEF IInv, JoinWaits, Step, Taken, Unlock, locks
  <1>1. TypeOK'
    <2> DEFINE u == target[j]
    <2>1. u \in Threads /\ structure[u] # "none"
      BY DEF JoinerInv
    <2>2. waitedUpon' \in [Threads -> BOOLEAN \union {NULL}] /\ waitedUpon'[u] = TRUE
          /\ \A t \in Threads \ {u} : waitedUpon'[t] = waitedUpon[t]
      BY <2>1, Zenon DEF TypeOK
    <2> HIDE DEF u
    <2>3. \A t \in Threads : structure'[t] # "none" => NULL \notin {done'[t], waitedUpon'[t]}
      <3> SUFFICES ASSUME NEW t \in Threads, structure[t] # "none" PROVE NULL # waitedUpon'[t]
        BY DEF TypeOK
      <3>1. CASE t = u
        BY <3>1, <2>2, Zenon
      <3>2. CASE t # u
        BY <3>2, <2>2 DEF TypeOK
      <3> QED
        BY <3>1, <3>2
    <2>4. pc' \in [Procs -> ThreadPcs \union JoinerPcs \union MainPcs]
      BY DEF TypeOK, Step, JoinerPcs
    <2>5. threadMutex' \in [Threads -> Procs \union {NULL}]
      BY DEF TypeOK, Unlock
    <2> QED
      BY <2>2, <2>3, <2>4, <2>5 DEF TypeOK
  <1>2. \A u \in Threads : ThreadInv(u)'
    BY DEF TypeOK, Procs, ThreadInv, JoinerInv
  <1>3. \A k \in Joiners : JoinerInv(k)'
    BY DEF TypeOK, Procs, JoinerPcs, ThreadInv, JoinerInv, Waiting
  <1>4. MainInv'
    BY DEF TypeOK, Procs, MainInv
  <1>5. \A i, k \in Joiners : PairInv(i, k)'
    BY DEF TypeOK, Procs, JoinerInv, PairInv, Waiting
  <1> QED
    BY <1>1, <1>2, <1>3, <1>4, <1>5

LEMMA SpuriousWakeupStep ==
  ASSUME IInv, NEW j \in Joiners, SpuriousWakeup(j)
  PROVE  IInv'
  <1> USE DEF IInv, SpuriousWakeup, Step, locks
  <1>1. TypeOK'
    BY DEF TypeOK, JoinerPcs
  <1>2. \A u \in Threads : ThreadInv(u)'
    BY DEF ThreadInv
  <1>3. \A k \in Joiners : JoinerInv(k)'
    BY DEF JoinerPcs, JoinerInv, Waiting
  <1>4. MainInv'
    BY DEF MainInv
  <1>5. \A i, k \in Joiners : PairInv(i, k)'
    BY DEF PairInv, Waiting
  <1> QED
    BY <1>1, <1>2, <1>3, <1>4, <1>5

LEMMA JoinWakesStep ==
  ASSUME IInv, NEW j \in Joiners, JoinWakes(j)
  PROVE  IInv'
  <1> USE DEF IInv, JoinWakes, Step, Lock, WaitIsOver, locks
  <1>1. TypeOK'
    BY DEF TypeOK, Procs, JoinerPcs
  <1>2. \A u \in Threads : ThreadInv(u)'
    BY DEF TypeOK, Procs, ThreadInv
  <1>3. \A k \in Joiners : JoinerInv(k)'
    BY DEF TypeOK, Procs, JoinerPcs, JoinerInv, Waiting
  <1>4. MainInv'
    BY DEF TypeOK, Procs, MainInv
  <1>5. \A i, k \in Joiners : PairInv(i, k)'
    BY DEF TypeOK, Procs, PairInv, Waiting
  <1> QED
    BY <1>1, <1>2, <1>3, <1>4, <1>5

LEMMA JoinReleasesStep ==
  ASSUME IInv, NEW j \in Joiners, JoinReleases(j)
  PROVE  IInv'
  <1> USE DEF IInv, JoinReleases, Step, Unlock, locks
  <1>1. TypeOK'
    BY DEF TypeOK, JoinerPcs
  <1>2. \A u \in Threads : ThreadInv(u)'
    BY DEF ThreadInv, JoinerInv
  <1>3. \A k \in Joiners : JoinerInv(k)'
    BY DEF TypeOK, JoinerPcs, JoinerInv, Waiting
  <1>4. MainInv'
    BY DEF MainInv
  <1>5. \A i, k \in Joiners : PairInv(i, k)'
    BY DEF PairInv, Waiting
  <1> QED
    BY <1>1, <1>2, <1>3, <1>4, <1>5

LEMMA JoinRelistsStep ==
  ASSUME IInv, NEW j \in Joiners, JoinRelists(j)
  PROVE  IInv'
  <1> USE DEF IInv, JoinRelists, Step, LockList, locks
  <1>1. TypeOK'
    BY DEF TypeOK, Procs, JoinerPcs
  <1>2. \A u \in Threads : ThreadInv(u)'
    BY DEF Procs, ThreadInv
  <1>3. \A k \in Joiners : JoinerInv(k)'
    BY DEF Procs, JoinerPcs, JoinerInv, Waiting
  <1>4. MainInv'
    BY DEF MainInv
  <1>5. \A i, k \in Joiners : PairInv(i, k)'
    BY DEF PairInv, Waiting
  <1> QED
    BY <1>1, <1>2, <1>3, <1>4, <1>5

LEMMA JoinUnlinksStep ==
  ASSUME IInv, NEW j \in Joiners, JoinUnlinks(j)
  PROVE  IInv'
  <1> USE DEF IInv, JoinUnlinks, Step, UnlockList, locks
  <1>1. TypeOK'
    BY DEF TypeOK, Procs, JoinerPcs, JoinerInv
  <1>2. \A u \in Threads : ThreadInv(u)'
    BY DEF ThreadInv, JoinerInv, Waiting
  <1>3. \A k \in Joiners : JoinerInv(k)'
    BY DEF TypeOK, Procs, JoinerPcs, JoinerInv, PairInv, Waiting
  <1>4. MainInv'
    BY DEF JoinerInv, MainInv
  <1>5. \A i, k \in Joiners : PairInv(i, k)'
    BY DEF PairInv, Waiting
  <1> QED
    BY <1>1, <1>2, <1>3, <1>4, <1>5

LEMMA JoinLastStep ==
  ASSUME IInv, NEW j \in Joiners, JoinLast(j)
  PROVE  IInv'
  <1> USE DEF IInv, JoinLast, Step, locks
  <1>1. TypeOK'
    BY DEF TypeOK, JoinerPcs
  <1>2. \A u \in Threads : ThreadInv(u)'
    BY DEF ThreadInv
  <1>3. \A k \in Joiners : JoinerInv(k)'
    BY DEF JoinerPcs, JoinerInv, Waiting
  <1>4. MainInv'
    BY DEF MainInv
  <1>5. \A i, k \in Joiners : PairInv(i, k)'
    BY DEF TypeOK, Procs, JoinerInv, PairInv, Waiting
  <1> QED
    BY <1>1, <1>2, <1>3, <1>4, <1>5

LEMMA JoinFreesStep ==
  ASSUME IInv, NEW j \in Joiners, JoinFrees(j)
  PROVE  IInv'
  <1> USE DEF IInv, JoinFrees, Step, locks
  <1>1. TypeOK'
    BY DEF TypeOK, Procs, ThreadPcs, JoinerPcs, MainPcs, ThreadInv, JoinerInv, MainInv
  <1>2. \A u \in Threads : ThreadInv(u)'
    BY DEF TypeOK, Procs, ThreadPcs, JoinerPcs, MainPcs, ThreadInv, JoinerInv, MainInv,
           Waiting
  <1>3. \A k \in Joiners : JoinerInv(k)'
    BY DEF TypeOK, Procs, ThreadPcs, JoinerPcs, MainPcs, ThreadInv, JoinerInv, MainInv,
           PairInv, Waiting
  <1>4. MainInv'
    BY DEF TypeOK, Procs, ThreadPcs, JoinerPcs, MainPcs, ThreadInv, JoinerInv, MainInv
  <1>5. \A i, k \in Joiners : PairInv(i, k)'
    BY DEF PairInv, Waiting
  <1> QED
    BY <1>1, <1>2, <1>3, <1>4, <1>5

-----------------------------------------------------------------------------
LEMMA NextIInv == IInv /\ [Next]_vars => IInv'
  <1> SUFFICES ASSUME IInv, [Next]_vars PROVE IInv'
    OBVIOUS
  <1>1. ASSUME NEW t \in Threads, EnterCreate(t) PROVE IInv'
    BY <1>1, EnterCreateStep
  <1>2. ASSUME NEW t \in Threads, ExitStep(t) PROVE IInv'
    BY <1>2, EnterExitStep, ExitFindStep, ExitTakeStep, ExitSignalStep, LeaveExitStep
       DEF ExitStep
  <1>3. ASSUME CreateStep PROVE IInv'
    BY <1>3, BeginThreadStep, RememberJoinableThreadStep, LeaveCreateStep DEF CreateStep
  <1>4. ASSUME NEW j \in Joiners, NEW t \in Threads, JoinFind(j, t) PROVE IInv'
    BY <1>4, JoinFindStep
  <1>5. ASSUME NEW j \in Joiners, JoinStep(j) PROVE IInv'
    BY <1>5, JoinTakeStep, JoinRefusedStep, JoinWaitsStep, JoinWakesStep, JoinReleasesStep,
       JoinRelistsStep, JoinUnlinksStep, JoinLastStep, JoinFreesStep DEF JoinStep
  <1>6. ASSUME NEW j \in Joiners, SpuriousWakeup(j) PROVE IInv'
    BY <1>6, SpuriousWakeupStep
  <1>7. ASSUME UNCHANGED vars PROVE IInv'
    BY <1>7 DEF IInv, TypeOK, ThreadInv, JoinerInv, MainInv, PairInv, Waiting, vars, locks
  <1> QED
    BY <1>1, <1>2, <1>3, <1>4, <1>5, <1>6, <1>7 DEF Next

LEMMA IInvIsInvariant == Spec => []IInv
  BY InitIInv, NextIInv, PTL DEF Spec

(***************************************************************************)
(* Every variable keeps its type, and the fields of a structure are set    *)
(* from the moment it is listed.                                           *)
(***************************************************************************)
THEOREM TypeCorrect == Spec => []TypeOK
  <1>1. IInv => TypeOK
    BY DEF IInv
  <1> QED
    BY <1>1, IInvIsInvariant, PTL

(***************************************************************************)
(* However many threads try to join one thread, none of them uses its      *)
(* structure after it has been freed, and the exiting thread neither.      *)
(***************************************************************************)
THEOREM NoUse == Spec => []NoUseAfterFree
  <1>1. IInv => NoUseAfterFree
    <2> SUFFICES ASSUME IInv, NEW t \in Threads, structure[t] = "freed",
                        NEW p \in Procs, Using(p, t)
                 PROVE  FALSE
      BY DEF NoUseAfterFree
    <2>1. CASE p \in Threads
      BY <2>1 DEF IInv, ThreadInv, Using
    <2>2. CASE p \in Joiners
      BY <2>2 DEF IInv, JoinerInv, JoinerPcs, Using
    <2> QED
      BY <2>1, <2>2 DEF Using
  <1> QED
    BY <1>1, IInvIsInvariant, PTL

(***************************************************************************)
(* At most one thread joins a given thread, and it comes back with success *)
(* only when that thread has stored its result.                            *)
(***************************************************************************)
THEOREM JoinedOnce == Spec => []JoinedOnceAfterExit
  <1>1. IInv => JoinedOnceAfterExit
    BY DEF IInv, PairInv, JoinerInv, JoinedOnceAfterExit
  <1> QED
    BY <1>1, IInvIsInvariant, PTL
=============================================================================

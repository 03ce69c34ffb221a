----------------------------- MODULE ThreadJoin -----------------------------
(***************************************************************************)
(* Joinable threads on Windows (generic/tclThreadJoin.c, called from       *)
(* win/tclWinThrd.c): a list of structures under joinMutex, each with a    *)
(* mutex and a condition of its own, that several threads may try to wait  *)
(* upon and that the one that succeeds frees.                              *)
(*                                                                         *)
(* joinLock, around the creation and the exit of a thread, makes the       *)
(* creator remember a thread before that thread can signal its exit.       *)
(***************************************************************************)
EXTENDS Naturals, FiniteSets

CONSTANTS Threads,  \* joinable threads
          Joiners,  \* threads that call Tcl_JoinThread, once each
          Main,     \* the thread that creates them
          NULL

Procs == Threads \union Joiners \union {Main}

ASSUME ThreadsAssumption ==
    /\ Threads \intersect Joiners = {} /\ Main \notin Threads \union Joiners
    /\ NULL \notin Procs /\ NULL \notin BOOLEAN

VARIABLES
    pc,
    target,         \* the thread that a process creates, joins or is
    joinLock, joinMutex,    \* their holders
    threadMutex,    \* holder of each structure's mutex
    structure,      \* "none", "listed", "unlinked" or "freed"
    done, waitedUpon        \* its fields, NULL until it is allocated

locks == <<joinLock, joinMutex, threadMutex>>
vars == <<pc, target, locks, structure, done, waitedUpon>>

ThreadPcs == {"unborn", "run", "exiting", "take", "signal", "leave", "gone"}
JoinerPcs == {"start", "take", "check", "wait", "wake", "release",
              "relist", "unlink", "last", "free", "ok", "error"}
MainPcs == {"idle", "create", "remember", "leave"}

TypeOK ==
    /\ pc \in [Procs -> ThreadPcs \union JoinerPcs \union MainPcs]
    /\ target \in [Procs -> Threads \union {NULL}]
    /\ joinLock \in Procs \union {NULL} /\ joinMutex \in Procs \union {NULL}
    /\ threadMutex \in [Threads -> Procs \union {NULL}]
    /\ structure \in [Threads -> {"none", "listed", "unlinked", "freed"}]
    /\ done \in [Threads -> BOOLEAN \union {NULL}]
    /\ waitedUpon \in [Threads -> BOOLEAN \union {NULL}]
    /\ \A t \in Threads : structure[t] # "none" => NULL \notin {done[t], waitedUpon[t]}

Init ==
    /\ pc = [p \in Procs |-> IF p \in Threads THEN "unborn"
                             ELSE IF p = Main THEN "idle" ELSE "start"]
    /\ target = [p \in Procs |-> IF p \in Threads THEN p ELSE NULL]
    /\ joinLock = NULL /\ joinMutex = NULL
    /\ threadMutex = [t \in Threads |-> NULL]
    /\ structure = [t \in Threads |-> "none"]
    /\ done = [t \in Threads |-> NULL] /\ waitedUpon = [t \in Threads |-> NULL]

Step(p, from, to) == pc[p] = from /\ pc' = [pc EXCEPT ![p] = to]

LockList(p) == joinMutex = NULL /\ joinMutex' = p
UnlockList == joinMutex' = NULL
Lock(p, t) == threadMutex[t] = NULL /\ threadMutex' = [threadMutex EXCEPT ![t] = p]
Unlock(t) == threadMutex' = [threadMutex EXCEPT ![t] = NULL]

-----------------------------------------------------------------------------
(***************************************************************************)
(* TclpThreadCreate and TclRememberJoinableThread.                         *)
(***************************************************************************)
EnterCreate(t) ==
    /\ Step(Main, "idle", "create")
    /\ pc[t] = "unborn"
    /\ joinLock = NULL /\ joinLock' = Main
    /\ target' = [target EXCEPT ![Main] = t]
    /\ UNCHANGED <<joinMutex, threadMutex, structure, done, waitedUpon>>

\* The thread starts to run; it is remembered only if it is joinable.
BeginThread(joinable) ==
    /\ pc[Main] = "create"
    /\ pc' = [pc EXCEPT ![Main] = IF joinable THEN "remember" ELSE "leave",
                       ![target[Main]] = "run"]
    /\ UNCHANGED <<target, locks, structure, done, waitedUpon>>

RememberUninitialized ==
    /\ Step(Main, "remember", "leave")
    /\ joinMutex = NULL
    /\ structure' = [structure EXCEPT ![target[Main]] = "listed"]
    /\ UNCHANGED <<target, locks, done, waitedUpon>>
RememberJoinableThread ==
    /\ Step(Main, "remember", "leave")
    /\ joinMutex = NULL
    /\ structure' = [structure EXCEPT ![target[Main]] = "listed"]
    /\ done' = [done EXCEPT ![target[Main]] = FALSE]
    /\ waitedUpon' = [waitedUpon EXCEPT ![target[Main]] = FALSE]
    /\ UNCHANGED <<target, locks>>

LeaveCreate ==
    /\ Step(Main, "leave", "idle")
    /\ joinLock' = NULL
    /\ UNCHANGED <<target, joinMutex, threadMutex, structure, done, waitedUpon>>

-----------------------------------------------------------------------------
(***************************************************************************)
(* TclpThreadExit and TclSignalExitThread.                                 *)
(***************************************************************************)
EnterExitUnlocked(t) ==
    /\ Step(t, "run", "exiting")
    /\ UNCHANGED <<target, locks, structure, done, waitedUpon>>
EnterExit(t) ==
    /\ Step(t, "run", "exiting")
    /\ joinLock = NULL /\ joinLock' = t
    /\ UNCHANGED <<target, joinMutex, threadMutex, structure, done, waitedUpon>>

ExitFind(t) ==
    /\ pc[t] = "exiting"
    /\ IF structure[t] = "listed"
       THEN LockList(t) /\ pc' = [pc EXCEPT ![t] = "take"]
       ELSE joinMutex = NULL /\ pc' = [pc EXCEPT ![t] = "leave"] /\ UNCHANGED joinMutex
    /\ UNCHANGED <<target, joinLock, threadMutex, structure, done, waitedUpon>>

ExitTake(t) ==
    /\ t \in Threads /\ Step(t, "take", "signal")
    /\ Lock(t, t) /\ UnlockList
    /\ UNCHANGED <<target, joinLock, structure, done, waitedUpon>>

\* done, the result, and the condition: whoever waits on it is to wake.
WakeWaiter(t) ==
    [p \in Procs |-> IF waitedUpon[t] /\ pc[p] = "wait" /\ target[p] = t
                     THEN "wake" ELSE pc[p]]

ExitSignal(t) ==
    /\ pc[t] = "signal"
    /\ done' = [done EXCEPT ![t] = TRUE]
    /\ pc' = [WakeWaiter(t) EXCEPT ![t] = "leave"]
    /\ Unlock(t)
    /\ UNCHANGED <<target, joinLock, joinMutex, structure, waitedUpon>>

LeaveExit(t) ==
    /\ t \in Threads /\ Step(t, "leave", "gone")
    /\ joinLock' = NULL
    /\ UNCHANGED <<target, joinMutex, threadMutex, structure, done, waitedUpon>>

-----------------------------------------------------------------------------
(***************************************************************************)
(* TclJoinThread.                                                          *)
(***************************************************************************)
JoinFind(j, t) ==
    /\ pc[j] = "start"
    /\ pc[t] # "unborn"         \* the id is known
    /\ target' = [target EXCEPT ![j] = t]
    /\ IF structure[t] = "listed"
       THEN LockList(j) /\ pc' = [pc EXCEPT ![j] = "take"]
       ELSE joinMutex = NULL /\ pc' = [pc EXCEPT ![j] = "error"] /\ UNCHANGED joinMutex
    /\ UNCHANGED <<joinLock, threadMutex, structure, done, waitedUpon>>

\* [1] The structure is locked before the list is given up.
JoinTake(j) ==
    /\ j \in Joiners /\ Step(j, "take", "check")
    /\ Lock(j, target[j]) /\ UnlockList
    /\ UNCHANGED <<target, joinLock, structure, done, waitedUpon>>

\* [2] Only one thread may wait.
Taken(t) == waitedUpon[t]

JoinRefused(j) ==
    /\ Step(j, "check", "error")
    /\ Taken(target[j])
    /\ Unlock(target[j])
    /\ UNCHANGED <<target, joinLock, joinMutex, structure, done, waitedUpon>>

JoinWaits(j) ==
    /\ pc[j] = "check"
    /\ ~Taken(target[j])
    /\ waitedUpon' = [waitedUpon EXCEPT ![target[j]] = TRUE]
    /\ IF done[target[j]]
       THEN Step(j, "check", "release") /\ UNCHANGED threadMutex
       ELSE Step(j, "check", "wait") /\ Unlock(target[j])
    /\ UNCHANGED <<target, joinLock, joinMutex, structure, done>>

\* Tcl_ConditionWait may return without a notification.
SpuriousWakeup(j) ==
    /\ Step(j, "wait", "wake")
    /\ UNCHANGED <<target, locks, structure, done, waitedUpon>>

WaitIsOverOnce(t) == TRUE
WaitIsOver(t) == done[t]

JoinWakes(j) ==
    /\ pc[j] = "wake"
    /\ threadMutex[target[j]] = NULL
    /\ IF WaitIsOver(target[j])
       THEN Step(j, "wake", "release") /\ Lock(j, target[j])
       ELSE Step(j, "wake", "wait") /\ UNCHANGED threadMutex
    /\ UNCHANGED <<target, joinLock, joinMutex, structure, done, waitedUpon>>

JoinReleases(j) ==
    /\ Step(j, "release", "relist")
    /\ Unlock(target[j])
    /\ UNCHANGED <<target, joinLock, joinMutex, structure, done, waitedUpon>>

JoinRelists(j) ==
    /\ Step(j, "relist", "unlink")
    /\ LockList(j)
    /\ UNCHANGED <<target, joinLock, threadMutex, structure, done, waitedUpon>>

JoinUnlinksAndFrees(j) ==
    /\ Step(j, "unlink", "free")
    /\ structure' = [structure EXCEPT ![target[j]] = "unlinked"]
    /\ UnlockList
    /\ UNCHANGED <<target, joinLock, threadMutex, done, waitedUpon>>
JoinUnlinks(j) ==
    /\ Step(j, "unlink", "last")
    /\ structure' = [structure EXCEPT ![target[j]] = "unlinked"]
    /\ UnlockList
    /\ UNCHANGED <<target, joinLock, threadMutex, done, waitedUpon>>

\* [3] A thread at [2] is let through before the structure goes away.
JoinLast(j) ==
    /\ Step(j, "last", "free")
    /\ threadMutex[target[j]] = NULL
    /\ UNCHANGED <<target, locks, structure, done, waitedUpon>>

JoinFrees(j) ==
    /\ Step(j, "free", "ok")
    /\ structure' = [structure EXCEPT ![target[j]] = "freed"]
    /\ UNCHANGED <<target, locks, done, waitedUpon>>

-----------------------------------------------------------------------------
JoinStep(j) ==
    \/ JoinTake(j) \/ JoinRefused(j) \/ JoinWaits(j) \/ JoinWakes(j)
    \/ JoinReleases(j) \/ JoinRelists(j) \/ JoinUnlinks(j) \/ JoinLast(j)
    \/ JoinFrees(j)

ExitStep(t) ==
    EnterExit(t) \/ ExitFind(t) \/ ExitTake(t) \/ ExitSignal(t) \/ LeaveExit(t)

CreateStep ==
    \/ \E joinable \in BOOLEAN : BeginThread(joinable)
    \/ RememberJoinableThread \/ LeaveCreate

Next ==
    \/ \E t \in Threads : EnterCreate(t) \/ ExitStep(t)
    \/ CreateStep
    \/ \E j \in Joiners, t \in Threads : JoinFind(j, t)
    \/ \E j \in Joiners : JoinStep(j) \/ SpuriousWakeup(j)

Spec == Init /\ [][Next]_vars

\* Every thread goes on, locks are granted fairly, and threads exit.
FairSpec ==
    /\ Spec
    /\ WF_vars(CreateStep)
    /\ \A t \in Threads :
        WF_vars(ExitSignal(t)) /\ WF_vars(LeaveExit(t)) /\ SF_vars(EnterExit(t))
        /\ SF_vars(ExitFind(t)) /\ SF_vars(ExitTake(t))
    /\ \A j \in Joiners : SF_vars(JoinStep(j))

-----------------------------------------------------------------------------
(***************************************************************************)
(* No thread uses a structure that has been freed: not one that found it   *)
(* in the list before it was unlinked and comes to lock it only then, nor  *)
(* the exiting thread, which still holds its mutex when the waiter wakes.  *)
(***************************************************************************)
Using(p, t) ==
    /\ target[p] = t
    /\ \/ p \in Threads /\ pc[p] \in {"take", "signal"}
       \/ p \in Joiners /\ pc[p] \in JoinerPcs \ {"start", "ok", "error"}

NoUseAfterFree ==
    \A t \in Threads : structure[t] = "freed" => \A p \in Procs : ~Using(p, t)

(***************************************************************************)
(* A thread is joined once, and Tcl_JoinThread succeeds only after it has  *)
(* stored its result: at most one of the threads that try to wait upon it  *)
(* gets to wait, so only one frees the structure, and a spurious wakeup    *)
(* does not end the wait.                                                  *)
(***************************************************************************)
Waiting(j) == pc[j] \in {"wait", "wake", "release", "relist", "unlink", "last",
                         "free", "ok"}

JoinedOnceAfterExit ==
    /\ \A i, j \in Joiners :
        Waiting(i) /\ Waiting(j) /\ target[i] = target[j] => i = j
    /\ \A j \in Joiners : pc[j] = "ok" => done[target[j]]

(***************************************************************************)
(* Every call of Tcl_JoinThread for a thread that exits comes back: the    *)
(* signal is not lost when the thread exits before it is remembered or     *)
(* before the waiter waits, and the two levels of locks do not deadlock.   *)
(***************************************************************************)
JoinsReturn ==
    \A j \in Joiners : pc[j] # "start" ~> pc[j] \in {"ok", "error"}
=============================================================================

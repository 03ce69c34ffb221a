------------------------------- MODULE Async -------------------------------
(***************************************************************************)
(* Asynchronous handlers (generic/tclAsync.c) of one thread and the way a  *)
(* mark wakes that thread from Tcl_WaitForEvent on Linux                   *)
(* (unix/tclEpollNotfy.c): the event fd that alerts the notifier, and      *)
(* asyncPending for marks made in a signal handler, which may not lock.    *)
(*                                                                         *)
(* Other threads mark a handler under asyncMutex.  A signal handler runs   *)
(* on the owner's own stack, between any two of the owner's steps.         *)
(***************************************************************************)
EXTENDS Naturals, Integers, SequencesExt, FiniteSetsExt

CONSTANTS
    MaxHandlers,    \* handlers are numbered in the order of firstHandler's list
    MaxDepth        \* bound: nested calls of Tcl_AsyncInvoke

ASSUME AsyncAssumption == MaxHandlers \in Nat /\ MaxDepth \in Nat

VARIABLES
    live,           \* handlers created and not deleted
    ready,          \* 1 marked, -1 marked by a signal, 0 neither
    asyncReady,
    asyncActive,
    asyncPending,
    eventFd,        \* triggerEventFd is readable
    invokes,        \* frames of Tcl_AsyncInvoke, outermost first
    wait,           \* where the owner is in Tcl_WaitForEvent, or "no"
    trigger         \* epoll_wait has reported triggerEventFd

vars == <<live, ready, asyncReady, asyncActive, asyncPending, eventFd, invokes,
          wait, trigger>>

Handlers == 1 .. MaxHandlers

TypeOK ==
    /\ live \subseteq Handlers
    /\ ready \in [Handlers -> {-1, 0, 1}]
    /\ asyncReady \in BOOLEAN /\ asyncActive \in BOOLEAN
    /\ asyncPending \in BOOLEAN /\ eventFd \in BOOLEAN /\ trigger \in BOOLEAN
    /\ invokes \in Seq({"find", "proc", "end"})
    /\ wait \in {"no", "about", "blocked", "woken", "marking", "read"}

Init ==
    /\ live = {} /\ ready = [h \in Handlers |-> 0]
    /\ asyncReady = FALSE /\ asyncActive = FALSE
    /\ asyncPending = FALSE /\ eventFd = FALSE
    /\ invokes = <<>> /\ wait = "no" /\ trigger = FALSE

InProc == invokes # <<>> /\ Last(invokes) = "proc"
ProgramRuns == wait = "no" /\ (invokes = <<>> \/ InProc)

\* The owner holds asyncMutex while it looks for a handler to invoke; every
\* other critical section is one step.
MutexFree == invokes = <<>> \/ InProc
At(pc) == invokes # <<>> /\ Last(invokes) = pc /\ wait = "no"
Goto(pc) == invokes' = [invokes EXCEPT ![Len(invokes)] = pc]

-----------------------------------------------------------------------------
AsyncCreate(h) ==
    /\ ProgramRuns
    /\ h \notin live /\ \A g \in live : g < h
    /\ live' = live \union {h} /\ ready' = [ready EXCEPT ![h] = 0]
    /\ UNCHANGED <<asyncReady, asyncActive, asyncPending, eventFd, invokes, wait,
                   trigger>>

AsyncDelete(h) ==
    /\ ProgramRuns
    /\ h \in live
    /\ live' = live \ {h} /\ ready' = [ready EXCEPT ![h] = 0]
    /\ UNCHANGED <<asyncReady, asyncActive, asyncPending, eventFd, invokes, wait,
                   trigger>>

\* What a mark of a handler does besides: nothing while Tcl_AsyncInvoke is
\* working, which will find it.
NotifyNoAlert ==
    /\ asyncReady' = (asyncReady \/ ~asyncActive)
    /\ UNCHANGED eventFd
Notify ==
    IF asyncActive THEN UNCHANGED <<asyncReady, eventFd>>
    ELSE asyncReady' = TRUE /\ eventFd' = TRUE

\* Tcl_AsyncMark in another thread.
AsyncMarkCounts(h) ==
    /\ MutexFree /\ h \in live
    /\ ready' = [ready EXCEPT ![h] = @ + 1]
    /\ Notify
    /\ UNCHANGED <<live, asyncActive, asyncPending, invokes, wait, trigger>>
AsyncMark(h) ==
    /\ MutexFree /\ h \in live
    /\ ready' = [ready EXCEPT ![h] = 1]
    /\ Notify
    /\ UNCHANGED <<live, asyncActive, asyncPending, invokes, wait, trigger>>

\* Tcl_AsyncMarkFromSignal in the owner: TclAsyncNotifier.  A signal ends
\* epoll_wait.
AsyncMarkFromSignal(h) ==
    /\ h \in live
    /\ ready' = [ready EXCEPT ![h] = -1]
    /\ asyncPending' = TRUE
    /\ eventFd' = (eventFd \/ ~asyncPending)
    /\ IF wait = "blocked" THEN wait' = "woken" /\ trigger' = FALSE
       ELSE UNCHANGED <<wait, trigger>>
    /\ UNCHANGED <<live, asyncReady, asyncActive, invokes>>

\* Tcl_ThreadAlert by a thread that has queued an event.
ThreadAlert ==
    /\ eventFd' = TRUE
    /\ UNCHANGED <<live, ready, asyncReady, asyncActive, asyncPending, invokes,
                   wait, trigger>>

-----------------------------------------------------------------------------
(***************************************************************************)
(* Tcl_AsyncInvoke, called where the owner has seen asyncReady.            *)
(***************************************************************************)
AsyncInvoke ==
    /\ ProgramRuns /\ asyncReady /\ Len(invokes) < MaxDepth
    /\ asyncReady' = FALSE /\ asyncActive' = TRUE
    /\ invokes' = Append(invokes, "find")
    /\ UNCHANGED <<live, ready, asyncPending, eventFd, wait, trigger>>

Marked == {h \in live : ready[h] # 0}

\* Each pass starts from the front of the list.
Find ==
    /\ At("find")
    /\ IF Marked = {}
       THEN Goto("end") /\ UNCHANGED ready
       ELSE ready' = [ready EXCEPT ![Min(Marked)] = 0] /\ Goto("proc")
    /\ UNCHANGED <<live, asyncReady, asyncActive, asyncPending, eventFd, wait, trigger>>

ProcReturns ==
    /\ At("proc")
    /\ Goto("find")
    /\ UNCHANGED <<live, ready, asyncReady, asyncActive, asyncPending, eventFd, wait,
                   trigger>>

EndInvoke ==
    /\ At("end")
    /\ asyncActive' = FALSE
    /\ invokes' = Front(invokes)
    /\ UNCHANGED <<live, ready, asyncReady, asyncPending, eventFd, wait, trigger>>

-----------------------------------------------------------------------------
(***************************************************************************)
(* Tcl_WaitForEvent without a time limit, as Tcl_DoOneEvent calls it after *)
(* it has found asyncReady clear.                                          *)
(***************************************************************************)
WaitForEvent ==
    /\ ProgramRuns /\ ~asyncReady
    /\ wait' = "about"
    /\ UNCHANGED <<live, ready, asyncReady, asyncActive, asyncPending, eventFd,
                   invokes, trigger>>

EpollWait ==
    /\ wait = "about"
    /\ wait' = "blocked"
    /\ UNCHANGED <<live, ready, asyncReady, asyncActive, asyncPending, eventFd,
                   invokes, trigger>>

EpollReturns ==
    /\ wait = "blocked"
    /\ wait' = "woken" /\ trigger' = eventFd
    /\ UNCHANGED <<live, ready, asyncReady, asyncActive, asyncPending, eventFd,
                   invokes>>

TakePending ==
    /\ wait = "woken"
    /\ wait' = IF asyncPending THEN "marking" ELSE "read"
    /\ asyncPending' = FALSE
    /\ UNCHANGED <<live, ready, asyncReady, asyncActive, eventFd, invokes, trigger>>

\* TclAsyncMarkFromNotifier.
MarkPending ==
    /\ wait = "marking"
    /\ wait' = "read"
    /\ ready' = [h \in Handlers |-> IF ready[h] = -1 THEN 1 ELSE ready[h]]
    /\ IF \E h \in live : ready[h] = -1 THEN Notify ELSE UNCHANGED <<asyncReady, eventFd>>
    /\ UNCHANGED <<live, asyncActive, asyncPending, invokes, trigger>>

ReadTriggerClears ==
    /\ wait = "read"
    /\ eventFd' = (eventFd /\ ~trigger)
    /\ trigger' = FALSE
    /\ wait' = "no"
    /\ asyncPending' = FALSE
    /\ UNCHANGED <<live, ready, asyncReady, asyncActive, invokes>>

\* read(triggerEventFd), if epoll_wait reported it, and the wait is over.
ReadTrigger ==
    /\ wait = "read"
    /\ eventFd' = (eventFd /\ ~trigger)
    /\ trigger' = FALSE
    /\ wait' = "no"
    /\ UNCHANGED <<live, ready, asyncReady, asyncActive, asyncPending, invokes>>

-----------------------------------------------------------------------------
OwnerStep ==
    \/ AsyncInvoke \/ Find \/ EndInvoke
    \/ EpollWait \/ (EpollReturns /\ eventFd)
    \/ TakePending \/ MarkPending \/ ReadTrigger

Next ==
    \/ \E h \in Handlers : AsyncCreate(h) \/ AsyncDelete(h)
    \/ \E h \in Handlers : AsyncMark(h) \/ AsyncMarkFromSignal(h)
    \/ ThreadAlert
    \/ AsyncInvoke \/ Find \/ ProcReturns \/ EndInvoke
    \/ WaitForEvent \/ EpollWait \/ EpollReturns
    \/ TakePending \/ MarkPending \/ ReadTrigger

Spec == Init /\ [][Next]_vars

\* The owner goes on, an async handler returns, and epoll_wait returns when the
\* event fd is readable.  Nobody need mark, post or become ready again.
FairSpec == Spec /\ WF_vars(OwnerStep) /\ WF_vars(ProcReturns)

-----------------------------------------------------------------------------
(***************************************************************************)
(* A mark made by a thread requests that the handler "be invoked as soon   *)
(* as possible" (Tcl_AsyncMark): the owner does not sleep over it while no *)
(* alert is under way, except inside an async handler, whose               *)
(* Tcl_AsyncInvoke comes back to the mark.                                 *)
(***************************************************************************)
Asleep == wait = "blocked" /\ ~eventFd

NoSleepOverMark == Asleep /\ ~asyncActive => \A h \in live : ready[h] # 1

(***************************************************************************)
(* Tcl_AsyncMarkFromSignal "is similar to Tcl_AsyncMark but must be used   *)
(* in POSIX signal contexts" (Async.3): the owner does not sleep over such *)
(* a mark either.                                                          *)
(***************************************************************************)
NoSleepOverSignal == Asleep => \A h \in live : ready[h] # -1

(***************************************************************************)
(* The mark of a signal handler is never forgotten altogether: until       *)
(* TclAsyncMarkFromNotifier has seen it, asyncPending says that there is   *)
(* something to see, so the next return of epoll_wait finds it.            *)
(***************************************************************************)
SignalRemembered ==
    \A h \in live : ready[h] = -1 => asyncPending \/ wait = "marking"

(***************************************************************************)
(* A handler that a thread has marked is invoked or deleted eventually,    *)
(* unless one before it in the list is marked (the order of creation is    *)
(* the priority) or an async handler sleeps in an event loop of its own;   *)
(* also when a signal marks it again meanwhile, which sets ready to -1.    *)
(***************************************************************************)
MarksInvoked ==
    \A h \in Handlers :
        ready[h] = 1 ~> \/ ready[h] = 0
                        \/ \E g \in Marked : g < h
                        \/ InProc /\ wait = "blocked"
=============================================================================

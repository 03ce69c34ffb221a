------------------------------ MODULE Notifier ------------------------------
(***************************************************************************)
(* The event loop of one thread: Tcl_DoOneEvent, Tcl_ServiceAll and the    *)
(* service mode of generic/tclNotify.c, over the queue of EventQueue.      *)
(* Event sources are files, which Tcl_WaitForEvent itself reports (epoll), *)
(* and one timer source, which reports in its check proc (tclTimer.c).     *)
(* Another thread posts events and alerts the notifier; the program runs   *)
(* between calls and inside handlers, from where it may call the event     *)
(* loop again.                                                             *)
(***************************************************************************)
EXTENDS Naturals, SequencesExt

CONSTANTS
    Events, NULL, MaxPosts, MaxDepth, DeleteInService,  \* see EventQueue
    FileEvents,     \* events whose handler declines without TCL_FILE_EVENTS
    TimerEvents,    \* ... without TCL_TIMER_EVENTS; the others never decline
    FlagSets,       \* the arguments given to Tcl_DoOneEvent
    Posters,        \* who queues events besides the sources: "thread",
                    \*   "program" (outside handlers), "handler"
    Places,         \* the positions they queue them at
    Signals,        \* are async handlers marked?
    Modes,          \* arguments given to Tcl_SetServiceMode
    Deletes,        \* does the program call Tcl_DeleteEvents?
    MaxCalls,       \* bound: nested calls of the event loop
    MaxIdle         \* bound: idle handlers registered at a time

Kinds == {"FILE", "TIMER", "IDLE"}      \* TCL_ALL_EVENTS

ASSUME QueueAssumption ==
    /\ NULL \notin Events /\ MaxPosts \in Nat /\ MaxDepth \in Nat
    /\ DeleteInService \in BOOLEAN
ASSUME SourcesAssumption ==
    /\ FileEvents \subseteq Events /\ TimerEvents \subseteq Events
    /\ FileEvents \intersect TimerEvents = {}
ASSUME FlagSetsAssumption == FlagSets \subseteq SUBSET (Kinds \union {"DONT_WAIT"})
ASSUME PostersAssumption == Posters \subseteq {"thread", "program", "handler"} /\ Places \subseteq {"TAIL", "HEAD", "MARK"}
ASSUME ScenarioAssumption == Signals \in BOOLEAN /\ Modes \subseteq {"NONE", "ALL"} /\ Deletes \in BOOLEAN
ASSUME CallsAssumption == MaxCalls \in Nat /\ MaxIdle \in Nat /\ MaxCalls <= MaxDepth

VARIABLES
    queue, last, marker, delim, roundFinished, busy, stack, walk, sampling,
    sampleEv, kind, born, clock, roundClock, sampleClock,   \* of EventQueue
    calls,          \* frames of Tcl_DoOneEvent and Tcl_ServiceAll, outermost first
    mode,           \* serviceMode
    idle,           \* length of the list of idle handlers
    ready,          \* events a source would queue if it were asked
    alerted,        \* the notifier has been alerted and not yet woken
    alerting,       \* the other thread has queued an event and not yet alerted
    asyncReady,
    roundOpen       \* history: since the last event of a round was handled, the
                    \*   sources have been polled or an event was queued

Q == INSTANCE EventQueue

queueVars == <<queue, last, marker, delim, roundFinished, busy, stack, walk,
               sampling, sampleEv, kind, born, clock, roundClock, sampleClock>>
vars == <<queueVars, calls, mode, idle, ready, alerted, alerting, asyncReady,
          roundOpen>>

\* Where a call invokes async handlers: before its loop, before its single
\* pass (Tcl_ServiceAll), and in Tcl_ServiceEvent.
AsyncPcs == {"async", "asyncAll", "asyncScan"}
Pcs == AsyncPcs \union
       {"scan", "event", "setup", "wait", "gather", "check", "sample", "open",
        "idle", "idleProc", "oneIdle", "done"}
Frames ==
    [fn : {"DoOneEvent", "ServiceAll"},
     flags : SUBSET (Kinds \union {"DONT_WAIT"}),
     old : {"NONE", "ALL"},     \* oldMode
     pc : Pcs,
     second : BOOLEAN,          \* have the sources been polled in this call?
     zero : BOOLEAN,            \* at "wait": blockTime is zero
     found : SUBSET Events,     \* what Tcl_WaitForEvent has still to queue
     left : Nat,                \* idle handlers of this generation not yet run
     asked : BOOLEAN]           \* history: the program has set the mode to ALL in
                                \*   this call, which has not turned it off since

TypeOK ==
    /\ Q!TypeOK
    /\ calls \in Seq(Frames) /\ Len(calls) <= MaxCalls
    /\ mode \in {"NONE", "ALL"}
    /\ idle \in 0 .. MaxIdle
    /\ ready \subseteq FileEvents \union TimerEvents
    /\ alerted \in BOOLEAN /\ alerting \in BOOLEAN /\ asyncReady \in BOOLEAN
    /\ roundOpen \in BOOLEAN

Init ==
    /\ Q!Init
    /\ calls = <<>> /\ mode = "NONE" /\ idle = 0 /\ ready = {}
    /\ alerted = FALSE /\ alerting = FALSE /\ asyncReady = FALSE
    /\ roundOpen = TRUE

top == Last(calls)
At(pc) == calls # <<>> /\ top.pc = pc
Goto(pc) == calls' = [calls EXCEPT ![Len(calls)].pc = pc]
Pending == Q!InQueue \ busy

\* The handler of an event declines when its kind is not among the flags.
Wanted(e, flags) ==
    /\ e \in FileEvents => "FILE" \in flags
    /\ e \in TimerEvents => "TIMER" \in flags

\* The bound on posts never keeps a source that is ready from queueing.
MayPost == clock + Cardinality(ready) < MaxPosts

-----------------------------------------------------------------------------
(***************************************************************************)
(* The world outside the thread.                                           *)
(***************************************************************************)
SourceReady(e) ==
    /\ e \in (FileEvents \union TimerEvents) \ ready
    /\ e \notin Q!InQueue \union Q!InService
    /\ MayPost
    /\ ready' = ready \union {e}
    /\ UNCHANGED <<queueVars, calls, mode, idle, alerted, alerting, asyncReady,
                   roundOpen>>

\* Tcl_ThreadQueueEvent: with TCL_QUEUE_ALERT_IF_EMPTY it alerts if the queue
\* was empty; without, the poster calls Tcl_ThreadAlert itself.
AlertDueNever(ifEmpty) == ~ifEmpty
AlertDue(ifEmpty) == ifEmpty => queue = <<>>

ThreadQueueEvent(e, pos, ifEmpty) ==
    /\ "thread" \in Posters /\ MayPost /\ ~alerting
    /\ e \notin FileEvents \union TimerEvents
    /\ Q!QueueEvent(e, pos)
    /\ alerting' = AlertDue(ifEmpty) /\ roundOpen' = TRUE
    /\ UNCHANGED <<calls, mode, idle, ready, alerted, asyncReady>>

AlertNotifier ==
    /\ alerting
    /\ alerting' = FALSE /\ alerted' = TRUE
    /\ UNCHANGED <<queueVars, calls, mode, idle, ready, asyncReady, roundOpen>>

\* Tcl_AsyncMark from a signal handler or another thread.  While async handlers
\* are being invoked (asyncActive) it neither sets asyncReady nor alerts.
asyncActive == \E i \in 1 .. Len(calls) : calls[i].pc \in AsyncPcs

AsyncMark ==
    /\ Signals /\ ~asyncReady /\ ~asyncActive
    /\ asyncReady' = TRUE /\ alerted' = TRUE
    /\ UNCHANGED <<queueVars, calls, mode, idle, ready, alerting, roundOpen>>

-----------------------------------------------------------------------------
(***************************************************************************)
(* The program: between calls, in the handler of an event that the current *)
(* call services, in an idle handler or in async handlers; but not while   *)
(* it is inside Tcl_DeleteEvents.                                          *)
(***************************************************************************)
InHandler ==
    \/ At("event") /\ Wanted(Last(stack), top.flags)
    \/ At("idleProc") \/ At("oneIdle")
    \/ \E pc \in AsyncPcs : At(pc)
ProgramRuns == Q!OwnerRuns /\ (calls = <<>> \/ InHandler)

ProgramQueueEvent(e, pos) ==
    /\ ProgramRuns /\ MayPost
    /\ IF calls = <<>> THEN "program" \in Posters ELSE "handler" \in Posters
    /\ e \notin FileEvents \union TimerEvents
    /\ Q!QueueEvent(e, pos)
    /\ roundOpen' = TRUE
    /\ UNCHANGED <<calls, mode, idle, ready, alerted, alerting, asyncReady>>

\* The event-deleting proc decides on each event in turn.
DeleteEvents ==
    /\ Deletes /\ ProgramRuns
    /\ Q!DeleteEvents
    /\ UNCHANGED <<calls, mode, idle, ready, alerted, alerting, asyncReady, roundOpen>>

DeleteStep ==
    /\ Q!DeleteThis \/ Q!RetainThis \/ Q!DeleteEventsReturns
    /\ UNCHANGED <<calls, mode, idle, ready, alerted, alerting, asyncReady, roundOpen>>

DoWhenIdle ==
    /\ ProgramRuns /\ idle < MaxIdle
    /\ idle' = idle + 1
    /\ UNCHANGED <<queueVars, calls, mode, ready, alerted, alerting, asyncReady,
                   roundOpen>>

SetServiceMode(m) ==
    /\ ProgramRuns
    /\ mode' = m
    /\ calls' = IF calls = <<>> THEN <<>>
                ELSE [calls EXCEPT ![Len(calls)].asked = (m = "ALL")]
    /\ UNCHANGED <<queueVars, idle, ready, alerted, alerting, asyncReady,
                   roundOpen>>

Frame(fn, flags, pc) ==
    [fn |-> fn, flags |-> flags, old |-> mode, pc |-> pc,
     second |-> fn = "ServiceAll", zero |-> FALSE, found |-> {}, left |-> 0,
     asked |-> pc = "async" /\ mode = "ALL"]

\* No kind of event means every kind; idle handlers alone are never waited for.
Effective(flags) ==
    IF flags \intersect Kinds = {} THEN flags \union Kinds
    ELSE IF flags \intersect Kinds = {"IDLE"} THEN {"IDLE", "DONT_WAIT"}
    ELSE flags

StartPc(flags) == IF flags \intersect Kinds = {"IDLE"} THEN "idle" ELSE "scan"

DoOneEvent(flags) ==
    /\ ProgramRuns /\ Len(calls) < MaxCalls
    /\ calls' = Append(calls, Frame("DoOneEvent", Effective(flags),
                                    IF asyncReady THEN "async" ELSE StartPc(flags)))
    /\ mode' = IF asyncReady THEN mode ELSE "NONE"
    /\ asyncReady' = FALSE
    /\ UNCHANGED <<queueVars, idle, ready, alerted, alerting, roundOpen>>

\* Tcl_DoOneEvent returns without restoring the mode: what a handler has set
\* stays, as if its caller had asked for it.
LeaveMode ==
    calls' = [i \in 1 .. Len(calls) - 1 |->
                [calls[i] EXCEPT !.asked =
                    IF i = Len(calls) - 1 THEN top.asked ELSE @]]

\* Async handlers are all that such a call services.
AsyncReturns ==
    /\ At("async") /\ Q!OwnerRuns
    /\ LeaveMode
    /\ UNCHANGED <<queueVars, mode, idle, ready, alerted, alerting, asyncReady,
                   roundOpen>>

\* A platform callback calls Tcl_ServiceAll in case the application, not
\* Tcl_DoOneEvent, is waiting for events.
ServiceAll ==
    /\ ProgramRuns /\ Len(calls) < MaxCalls
    /\ mode = "ALL"
    /\ calls' = Append(calls, Frame("ServiceAll", Kinds,
                                    IF asyncReady THEN "asyncAll" ELSE "check"))
    /\ mode' = "NONE"
    /\ asyncReady' = FALSE
    /\ UNCHANGED <<queueVars, idle, ready, alerted, alerting, roundOpen>>

-----------------------------------------------------------------------------
(***************************************************************************)
(* Tcl_ServiceEvent as the loops call it, before and after the sources     *)
(* have been polled, and what the caller does with its result.             *)
(***************************************************************************)
NonePc == IF top.second THEN "idle" ELSE "setup"
FoundPc == IF top.fn = "ServiceAll" THEN "scan" ELSE "done"

NoneServiceable == \A q \in 1 .. Len(queue) : ~Q!ScanReaches(0, q)

\* Before the sources are polled, and in every round of Tcl_ServiceAll, an
\* event is serviced only if the round is not finished.
RoundOverNever == FALSE
RoundOver == roundFinished /\ ~(top.fn = "DoOneEvent" /\ top.second)

ScanFinds ==
    /\ At("scan") /\ ~RoundOver /\ ~asyncReady
    /\ Q!ServiceEvent
    /\ Goto("event")
    /\ UNCHANGED <<mode, idle, ready, alerted, alerting, asyncReady, roundOpen>>

ScanFindsNothing ==
    /\ At("scan") /\ Q!OwnerRuns
    /\ RoundOver \/ (~asyncReady /\ NoneServiceable)
    /\ Goto(NonePc)
    /\ UNCHANGED <<queueVars, mode, idle, ready, alerted, alerting, asyncReady,
                   roundOpen>>

ScanInvokesAsync ==
    /\ At("scan") /\ ~RoundOver /\ asyncReady
    /\ asyncReady' = FALSE
    /\ Goto("asyncScan")
    /\ UNCHANGED <<queueVars, mode, idle, ready, alerted, alerting, roundOpen>>

AsyncInvoked ==
    /\ Q!OwnerRuns
    /\ \/ At("asyncScan") /\ Goto(FoundPc)
       \/ At("asyncAll") /\ Goto("check")
    /\ UNCHANGED <<queueVars, mode, idle, ready, alerted, alerting, asyncReady,
                   roundOpen>>

EventHandled ==
    /\ At("event") /\ Wanted(Last(stack), top.flags)
    /\ Q!HandlerReturnsOne
    /\ roundOpen' = (roundOpen /\ Last(stack) # delim)
    /\ Goto(FoundPc)
    /\ UNCHANGED <<mode, idle, ready, alerted, alerting, asyncReady>>

EventDeclined ==
    /\ At("event") /\ ~Wanted(Last(stack), top.flags)
    /\ Q!HandlerReturnsZero
    /\ Goto(IF Len(stack') = Len(stack) THEN "event" ELSE NonePc)
    /\ UNCHANGED <<mode, idle, ready, alerted, alerting, asyncReady, roundOpen>>

-----------------------------------------------------------------------------
(***************************************************************************)
(* Polling the sources.  The block time is computed first: the queue is    *)
(* looked at without queueMutex, then the timer source is asked.           *)
(***************************************************************************)
MustNotBlockByFlag ==
    \/ "DONT_WAIT" \in top.flags
    \/ "IDLE" \in top.flags /\ idle > 0
MustNotBlock ==
    \/ "DONT_WAIT" \in top.flags
    \/ queue # <<>>
    \/ "IDLE" \in top.flags /\ idle > 0

Setup ==
    /\ At("setup")
    /\ calls' = [calls EXCEPT ![Len(calls)] =
                    [@ EXCEPT !.pc = "wait", !.zero = MustNotBlock]]
    /\ UNCHANGED <<queueVars, mode, idle, ready, alerted, alerting, asyncReady,
                   roundOpen>>

\* Tcl_WaitForEvent returns at once, when alerted, when a file is ready, or
\* when the first timer that matters has expired.
WaitForEvent ==
    /\ At("wait")
    /\ \/ top.zero \/ alerted
       \/ ready \intersect FileEvents # {}
       \/ "TIMER" \in top.flags /\ ready \intersect TimerEvents # {}
    /\ calls' = [calls EXCEPT ![Len(calls)] =
                    [@ EXCEPT !.pc = "gather", !.zero = FALSE,
                              !.found = ready \intersect FileEvents]]
    /\ alerted' = FALSE
    /\ UNCHANGED <<queueVars, mode, idle, ready, alerting, asyncReady, roundOpen>>

QueueFound ==
    /\ At("gather")
    /\ \E e \in top.found :
        /\ Q!QueueEvent(e, "TAIL")
        /\ ready' = ready \ {e}
        /\ calls' = [calls EXCEPT ![Len(calls)].found = @ \ {e}]
    /\ roundOpen' = TRUE
    /\ UNCHANGED <<mode, idle, alerted, alerting, asyncReady>>

AllFoundQueued ==
    /\ At("gather") /\ top.found = {}
    /\ Goto("check")
    /\ UNCHANGED <<queueVars, mode, idle, ready, alerted, alerting, asyncReady,
                   roundOpen>>

\* TimerCheckProc; with it every source has been polled.
CheckSources ==
    /\ At("check")
    /\ IF "TIMER" \in top.flags /\ ready \intersect TimerEvents # {}
       THEN \E e \in ready \intersect TimerEvents :
                Q!QueueEvent(e, "TAIL") /\ ready' = ready \ {e}
       ELSE UNCHANGED <<queueVars, ready>>
    /\ roundOpen' = TRUE
    /\ Goto("sample")
    /\ UNCHANGED <<mode, idle, alerted, alerting, asyncReady>>

SampleLast ==
    /\ At("sample")
    /\ Q!SampleLast
    /\ Goto("open")
    /\ UNCHANGED <<mode, idle, ready, alerted, alerting, asyncReady, roundOpen>>

\* An idle handler is taken from the front of the list, so it is the first
\* of those left to every pass that has some left.
RunIdle(pc) ==
    /\ idle' = idle - 1
    /\ calls' = [i \in 1 .. Len(calls) |->
                    [calls[i] EXCEPT !.left = IF @ > 0 THEN @ - 1 ELSE 0,
                                     !.pc = IF i = Len(calls) THEN pc ELSE @]]

\* If a round had been finished, one idle handler gets its turn before the
\* first event of the new round (TclDoOneIdle).
OpenRound ==
    /\ At("open")
    /\ Q!OpenRound
    /\ IF roundFinished /\ idle > 0 /\ top.fn = "DoOneEvent"
       THEN RunIdle("oneIdle")
       ELSE /\ calls' = [calls EXCEPT ![Len(calls)] =
                            [@ EXCEPT !.pc = "scan", !.second = TRUE]]
            /\ UNCHANGED idle
    /\ UNCHANGED <<mode, ready, alerted, alerting, asyncReady, roundOpen>>

\* ... and Tcl_DoOneEvent returns from the middle of its loop.
OneIdleReturns ==
    /\ At("oneIdle") /\ Q!OwnerRuns
    /\ LeaveMode
    /\ UNCHANGED <<queueVars, mode, idle, ready, alerted, alerting, asyncReady,
                   roundOpen>>

-----------------------------------------------------------------------------
(***************************************************************************)
(* TclServiceIdle, and the end of an iteration or of the call.             *)
(***************************************************************************)
ServesEmpty == "IDLE" \in top.flags
Serves == "IDLE" \in top.flags /\ idle > 0

ServiceIdle ==
    /\ At("idle") /\ Serves
    /\ idle' = idle - 1
    /\ calls' = [i \in 1 .. Len(calls) |->
                    IF i = Len(calls)
                    THEN [calls[i] EXCEPT !.left = idle - 1, !.pc = "idleProc"]
                    ELSE [calls[i] EXCEPT !.left = IF @ > 0 THEN @ - 1 ELSE 0]]
    /\ UNCHANGED <<queueVars, mode, ready, alerted, alerting, asyncReady, roundOpen>>

IdleReturns ==
    /\ At("idleProc") /\ Q!OwnerRuns
    /\ IF top.left > 0 THEN RunIdle("idleProc") ELSE Goto("done") /\ UNCHANGED idle
    /\ UNCHANGED <<queueVars, mode, ready, alerted, alerting, asyncReady, roundOpen>>

NoIdle ==
    /\ At("idle") /\ ~Serves
    /\ IF top.fn = "ServiceAll" \/ "DONT_WAIT" \in top.flags
       THEN Goto("done")
       ELSE calls' = [calls EXCEPT ![Len(calls)] =
                [@ EXCEPT !.pc = "scan", !.second = FALSE]]
    /\ UNCHANGED <<queueVars, mode, idle, ready, alerted, alerting, asyncReady,
                   roundOpen>>

RestoredAll == "ALL"
Restored == IF top.fn = "ServiceAll" THEN "ALL" ELSE top.old

Done ==
    /\ At("done")
    /\ mode' = Restored
    /\ calls' = Front(calls)
    /\ UNCHANGED <<queueVars, idle, ready, alerted, alerting, asyncReady, roundOpen>>

-----------------------------------------------------------------------------
LoopStep ==
    \/ ScanFinds \/ ScanFindsNothing \/ ScanInvokesAsync
    \/ EventDeclined
    \/ Setup \/ WaitForEvent \/ QueueFound \/ AllFoundQueued \/ CheckSources
    \/ SampleLast \/ OpenRound
    \/ ServiceIdle \/ NoIdle \/ Done
    \/ DeleteStep

HandlerReturns ==
    EventHandled \/ OneIdleReturns \/ IdleReturns \/ AsyncReturns \/ AsyncInvoked

Program ==
    \/ \E flags \in FlagSets : DoOneEvent(flags)
    \/ ServiceAll
    \/ \E m \in Modes : SetServiceMode(m)
    \/ DoWhenIdle
    \/ DeleteEvents
    \/ \E e \in Events, pos \in Places : ProgramQueueEvent(e, pos)

Outside ==
    \/ \E e \in Events : SourceReady(e)
    \/ \E e \in Events, pos \in Places, ifEmpty \in BOOLEAN :
            ThreadQueueEvent(e, pos, ifEmpty)
    \/ AlertNotifier \/ AsyncMark

Next == LoopStep \/ HandlerReturns \/ Program \/ Outside

Spec == Init /\ [][Next]_vars

(***************************************************************************)
(* A step of the loop or of Tcl_DeleteEvents is taken eventually; a        *)
(* handler returns; a thread that has queued an event goes on to alert;    *)
(* and the program keeps asking for all kinds of events, as Tcl_Main and   *)
(* vwait do.                                                               *)
(***************************************************************************)
FairSpec ==
    /\ Spec
    /\ WF_vars(LoopStep)
    /\ SF_vars(EventHandled) /\ SF_vars(OneIdleReturns) /\ SF_vars(IdleReturns)
    /\ SF_vars(AsyncReturns \/ AsyncInvoked)
    /\ WF_vars(AlertNotifier)
    /\ SF_vars(calls = <<>> /\ DoOneEvent({}))

-----------------------------------------------------------------------------
(***************************************************************************)
(* The thread never sleeps over work.  While Tcl_WaitForEvent blocks with  *)
(* no time limit and nobody has alerted the notifier, the queue is empty   *)
(* (or its poster is about to alert), no async handler is marked and no    *)
(* idle handler that the call should run is registered.  The posters that  *)
(* alert only an empty queue, the unlocked look at firstEventPtr and the   *)
(* rounds have to agree for this.                                          *)
(***************************************************************************)
Asleep == At("wait") /\ ~top.zero /\ ~alerted

NoSleepOverEvents ==
    Asleep => /\ queue = <<>> \/ alerting
              /\ ~asyncReady
              /\ "IDLE" \in top.flags => idle = 0

(***************************************************************************)
(* After the last event of a round no event is serviced until the sources  *)
(* have been polled (ThreadSpecificData: "When this event is processed the *)
(* event sources are polled again"), unless one is queued meanwhile, which *)
(* opens a round by itself.  Nested calls share the round, and either may  *)
(* service its last event.                                                 *)
(***************************************************************************)
PollBetweenRounds == [][Len(stack') > Len(stack) => roundOpen]_vars

(***************************************************************************)
(* Servicing is not re-entered: Tcl_ServiceAll, which platform callbacks   *)
(* call at any time, runs inside another call only if the program has set  *)
(* the mode to TCL_SERVICE_ALL within that call and not taken it back      *)
(* (Tcl_ServiceAll: "turn off event servicing like we do in                *)
(* Tcl_DoOneEvent, to avoid recursive calls"), or if the mode was on while *)
(* Tcl_DoOneEvent invoked async handlers, which it does before it turns    *)
(* servicing off.  The modes that nested calls save and restore decide it. *)
(* What the program sets in an idle handler between two rounds counts for  *)
(* the caller, too, since that return restores nothing (LeaveMode).        *)
(***************************************************************************)
NoRecursiveService ==
    \A i \in 2 .. Len(calls) : calls[i].fn = "ServiceAll" => calls[i - 1].asked

(***************************************************************************)
(* Liveness, for a program that keeps calling the loop: an event that is   *)
(* queued is started or deleted, a source that is ready is asked, and a    *)
(* registered idle handler runs, even though handlers register new ones    *)
(* and delete events, calls nest, and async handlers, marked any number of *)
(* times until signals stop, keep the loop from its queue.                 *)
(***************************************************************************)
SignalsStop == <>[][~AsyncMark]_vars

WorkServed ==
    SignalsStop =>
        /\ \A e \in Events : e \in Pending ~> e \notin Pending
        /\ \A e \in FileEvents \union TimerEvents : e \in ready ~> e \in Pending
        /\ idle > 0 ~>
               \E i \in 1 .. Len(calls) : calls[i].pc \in {"idleProc", "oneIdle"}
=============================================================================

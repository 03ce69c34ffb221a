------------------------------- MODULE Timers -------------------------------
(***************************************************************************)
(* The timer event source of a thread (generic/tclTimer.c): a list of      *)
(* timer handlers in the order of their times, one event in the queue of   *)
(* the thread that stands for all of them, and passes over the list that   *)
(* nest when a handler enters the event loop.                              *)
(***************************************************************************)
EXTENDS Naturals, SequencesExt

CONSTANTS
    MaxTimers,      \* bound: timer handlers created
    MaxTime,        \* bound: the clock
    MaxDepth,       \* bound: nested passes
    Absolute,       \* are timers set for times already past, too?
    TimerFlags      \* may the loop be called with, without TCL_TIMER_EVENTS?

ASSUME TimersAssumption ==
    MaxTimers \in Nat /\ MaxTime \in Nat /\ MaxDepth \in Nat
ASSUME ScenarioAssumption == Absolute \in BOOLEAN /\ TimerFlags \subseteq BOOLEAN

VARIABLES
    now,            \* Tcl_GetTime
    timers,         \* the list, from firstTimerHandlerPtr on
    lastTimerId,
    timerPending,
    queued,         \* timer events in the queue that no loop has started
    passes,         \* frames of TimerHandlerEventProc, outermost first
    wait,           \* the loop sleeps in Tcl_WaitForEvent, or NoWait
    fate            \* history: what became of each timer

vars == <<now, timers, lastTimerId, timerPending, queued, passes, wait, fate>>

Ids == 1 .. MaxTimers
Times == 0 .. MaxTime
Never == MaxTime + 1
NoWait == [on |-> FALSE, until |-> 0, timer |-> FALSE]

TypeOK ==
    /\ now \in Times
    /\ timers \in Seq([id : Ids, at : Times])
    /\ lastTimerId \in 0 .. MaxTimers
    /\ timerPending \in BOOLEAN
    /\ queued \in Nat
    /\ passes \in Seq([gen : 0 .. MaxTimers, time : Times, running : 0 .. MaxTimers])
    /\ wait \in [on : BOOLEAN, until : 0 .. Never, timer : BOOLEAN]
    /\ fate \in [Ids -> {"none", "set", "run", "deleted"}]

Init ==
    /\ now = 0 /\ timers = <<>> /\ lastTimerId = 0
    /\ timerPending = FALSE /\ queued = 0
    /\ passes = <<>> /\ wait = NoWait
    /\ fate = [i \in Ids |-> "none"]

pass == Last(passes)
InPass == passes # <<>>

\* The program runs outside passes and while a timer handler does.
ProgramRuns == ~wait.on /\ (InPass => pass.running # 0)

Tick ==
    /\ now < MaxTime
    /\ now' = now + 1
    /\ UNCHANGED <<timers, lastTimerId, timerPending, queued, passes, wait, fate>>

-----------------------------------------------------------------------------
\* Tcl_CreateTimerHandler and TclCreateAbsoluteTimerHandler: a timer goes
\* before the first one that is later.
BeforeOrEqual(at, i) == at <= timers[i].at
Before(at, i) == at < timers[i].at

CreateTimer(at) ==
    /\ ProgramRuns /\ lastTimerId < MaxTimers
    /\ Absolute \/ at >= now
    /\ lastTimerId' = lastTimerId + 1
    /\ \E p \in 1 .. Len(timers) + 1 :
        /\ \A i \in 1 .. p - 1 : ~Before(at, i)
        /\ p <= Len(timers) => Before(at, p)
        /\ timers' = InsertAt(timers, p, [id |-> lastTimerId + 1, at |-> at])
    /\ fate' = [fate EXCEPT ![lastTimerId + 1] = "set"]
    /\ UNCHANGED <<now, timerPending, queued, passes, wait>>

\* A token whose handler has run, runs or is deleted finds nothing.
DeleteTimer(id) ==
    /\ ProgramRuns /\ id <= lastTimerId
    /\ \/ \E p \in 1 .. Len(timers) :
            /\ timers[p].id = id
            /\ timers' = RemoveAt(timers, p)
            /\ fate' = [fate EXCEPT ![id] = "deleted"]
       \/ /\ \A p \in 1 .. Len(timers) : timers[p].id # id
          /\ UNCHANGED <<timers, fate>>
    /\ UNCHANGED <<now, lastTimerId, timerPending, queued, passes, wait>>

-----------------------------------------------------------------------------
\* TimerSetupProc: not to block while a timer event is pending, and no longer
\* than until the first timer.
LimitUnpending(timer) ==
    IF timer /\ timers # <<>> /\ ~timerPending THEN timers[1].at ELSE Never
LimitFromNow(timer) ==
    IF timer /\ timers # <<>> THEN now + timers[1].at ELSE Never
BlockUntil(timer) ==
    IF ~timer THEN Never
    ELSE IF timerPending THEN now
    ELSE IF timers = <<>> THEN Never
    ELSE IF timers[1].at < now THEN now ELSE timers[1].at
Setup(timer) ==
    /\ ProgramRuns
    /\ wait' = [on |-> TRUE, until |-> BlockUntil(timer), timer |-> timer]
    /\ UNCHANGED <<now, timers, lastTimerId, timerPending, queued, passes, fate>>

\* TimerCheckProc, once the block time is over or some other event came.
MayAlwaysQueue == TRUE
MayQueue == ~timerPending

Check ==
    /\ wait.on
    /\ wait' = NoWait
    /\ IF wait.timer /\ timers # <<>> /\ timers[1].at <= now /\ MayQueue
       THEN timerPending' = TRUE /\ queued' = queued + 1
       ELSE UNCHANGED <<timerPending, queued>>
    /\ UNCHANGED <<now, timers, lastTimerId, passes, fate>>

-----------------------------------------------------------------------------
(***************************************************************************)
(* TimerHandlerEventProc.  It runs the timers that had expired and existed *)
(* when it was called, and notes both at once; the list it walks changes   *)
(* under it.                                                               *)
(***************************************************************************)
ServiceTimerEvent ==
    /\ ProgramRuns /\ queued > 0 /\ Len(passes) < MaxDepth
    /\ timerPending' = FALSE /\ queued' = queued - 1
    /\ passes' = Append(passes, [gen |-> lastTimerId, time |-> now, running |-> 0])
    /\ UNCHANGED <<now, timers, lastTimerId, wait, fate>>

Runnable == timers # <<>> /\ timers[1].at <= pass.time /\ timers[1].id <= pass.gen

TakenAfter == timers
Taken == Tail(timers)

Invoke ==
    /\ InPass /\ ~wait.on /\ pass.running = 0
    /\ Runnable
    /\ timers' = Taken
    /\ passes' = [passes EXCEPT ![Len(passes)].running = timers[1].id]
    /\ fate' = [fate EXCEPT ![timers[1].id] = "run"]
    /\ UNCHANGED <<now, lastTimerId, timerPending, queued, wait>>

HandlerReturns ==
    /\ InPass /\ ProgramRuns
    /\ passes' = [passes EXCEPT ![Len(passes)].running = 0]
    /\ UNCHANGED <<now, timers, lastTimerId, timerPending, queued, wait, fate>>

PassEnds ==
    /\ InPass /\ ~wait.on /\ pass.running = 0
    /\ ~Runnable
    /\ passes' = Front(passes)
    /\ UNCHANGED <<now, timers, lastTimerId, timerPending, queued, wait, fate>>

-----------------------------------------------------------------------------
Next ==
    \/ Tick
    \/ \E at \in Times : CreateTimer(at)
    \/ \E id \in Ids : DeleteTimer(id)
    \/ \E timer \in TimerFlags : Setup(timer)
    \/ Check \/ ServiceTimerEvent
    \/ Invoke \/ HandlerReturns \/ PassEnds

Spec == Init /\ [][Next]_vars

(***************************************************************************)
(* Time passes, a sleep ends when its limit is reached, what a call        *)
(* without TCL_TIMER_EVENTS sleeps for happens, handlers return, and the   *)
(* program goes on calling the event loop.                                 *)
(***************************************************************************)
FairSpec ==
    /\ Spec
    /\ WF_vars(Tick)
    /\ WF_vars(Check /\ (now >= wait.until \/ ~wait.timer))
    /\ WF_vars(Invoke) /\ WF_vars(PassEnds)
    /\ SF_vars(HandlerReturns)
    /\ SF_vars(~InPass /\ Setup(TRUE))
    /\ SF_vars(~InPass /\ ServiceTimerEvent)

-----------------------------------------------------------------------------
(***************************************************************************)
(* timerPending says that one timer event is in the queue, never two: a    *)
(* flag left set would stop every timer of the thread for good, one left   *)
(* clear would fill the queue.                                             *)
(***************************************************************************)
PendingIffQueued == queued = (IF timerPending THEN 1 ELSE 0)

(***************************************************************************)
(* Exactly the timers that were set, have not run and were not deleted are *)
(* in the list, once each, whatever handlers create, delete or run in      *)
(* nested loops: none is lost, none runs twice or after its deletion.      *)
(***************************************************************************)
NoneLostNoneTwice ==
    /\ {timers[i].id : i \in 1 .. Len(timers)} = {id \in Ids : fate[id] = "set"}
    /\ \A i, j \in 1 .. Len(timers) : timers[i].id = timers[j].id => i = j

(***************************************************************************)
(* TimerHandlerEventProc "handles the event by invoking the callbacks for  *)
(* all timers that are ready": none that existed and had expired when the  *)
(* pass began is left when it ends.                                        *)
(***************************************************************************)
PassComplete ==
    [][PassEnds => \A i \in 1 .. Len(timers) :
            timers[i].id <= pass.gen => timers[i].at > pass.time]_vars

(***************************************************************************)
(* A timer that is set runs eventually, unless it is deleted.              *)
(***************************************************************************)
TimersRun == \A id \in Ids : fate[id] = "set" ~> fate[id] # "set"
=============================================================================

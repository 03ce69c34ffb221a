----------------------------- MODULE EventQueue -----------------------------
(***************************************************************************)
(* The event queue of one thread: generic/tclNotify.c, the part of         *)
(* ThreadSpecificData that queueMutex protects and the four routines that  *)
(* touch it (QueueEvent, Tcl_DeleteEvents, Tcl_ServiceEvent and the line   *)
(* of Tcl_DoOneEvent and Tcl_ServiceAll that opens a round).               *)
(*                                                                         *)
(* The linked list is a sequence; firstEventPtr is its head.  The other    *)
(* three pointers into the list are kept apart from it, as in the code,    *)
(* because keeping them right is what the code has to do by hand.  Any     *)
(* thread may queue an event; everything else is done by the thread that   *)
(* owns the queue, whose C stack is nested when a handler enters the event *)
(* loop again (vwait, update).                                             *)
(***************************************************************************)
EXTENDS Naturals, SequencesExt

CONSTANTS
    Events,            \* addresses of Tcl_Event structures
    NULL,
    MaxPosts,          \* bound: calls of QueueEvent in a behaviour
    MaxDepth,          \* bound: nested calls of Tcl_ServiceEvent
    DeleteInService    \* may a delete proc pick an event being serviced?
                       \* (ThreadDeleteEvent does, ReflectEventDelete not)

ASSUME NullIsNoEvent == NULL \notin Events
ASSUME BoundsAssumption == MaxPosts \in Nat /\ MaxDepth \in Nat
ASSUME FlagAssumption == DeleteInService \in BOOLEAN

Positions == {"TAIL", "HEAD", "MARK"}
Pointers == Events \union {NULL}

VARIABLES
    queue,          \* the list, from firstEventPtr on
    last,           \* lastEventPtr
    marker,         \* markerEventPtr
    delim,          \* roundDelimPtr
    roundFinished,
    busy,           \* events whose proc field is NULL: being serviced
    stack,          \* the events of the Tcl_ServiceEvent frames, outermost first
    walk,           \* 0, or the index Tcl_DeleteEvents has reached: it holds
                    \*   queueMutex for its whole walk
    sampling,       \* the owner has read lastEventPtr, not yet written
    sampleEv,       \*   roundDelimPtr, and this is what it read
    (* History, read by no action: *)
    kind,           \* how an event was queued
    born,           \* the number of the QueueEvent call that queued it
    clock,          \* QueueEvent calls so far
    roundClock,     \* clock when the event that delim was set to was read
    sampleClock     \* clock when sampleEv was read

list    == <<queue, last, marker>>
round   == <<delim, roundFinished, roundClock>>
sample  == <<sampling, sampleEv, sampleClock>>
service == <<busy, stack>>
history == <<kind, born, clock>>
vars    == <<list, round, sample, service, walk, history>>

InQueue   == ToSet(queue)
InService == ToSet(stack)

TypeOK ==
    /\ queue \in Seq(Events)
    /\ last \in Pointers /\ marker \in Pointers /\ delim \in Pointers
    /\ roundFinished \in BOOLEAN
    /\ busy \subseteq Events
    /\ stack \in Seq(Events)
    /\ walk \in 0 .. Len(queue) + 1
    /\ sampling \in BOOLEAN /\ sampleEv \in Pointers
    /\ kind \in [Events -> Positions]
    /\ born \in [Events -> Nat]
    /\ clock \in Nat /\ roundClock \in Nat /\ sampleClock \in Nat

Init ==
    /\ queue = <<>> /\ last = NULL /\ marker = NULL
    /\ delim = NULL /\ roundFinished = FALSE
    /\ busy = {} /\ stack = <<>> /\ walk = 0
    /\ sampling = FALSE /\ sampleEv = NULL
    /\ kind = [e \in Events |-> "TAIL"] /\ born = [e \in Events |-> 0]
    /\ clock = 0 /\ roundClock = 0 /\ sampleClock = 0

MutexFree == walk = 0
OwnerRuns == MutexFree /\ ~sampling

-----------------------------------------------------------------------------
(***************************************************************************)
(* QueueEvent.  The caller owns the event, so it is neither in the list    *)
(* nor still referred to by a frame that is servicing it.                  *)
(***************************************************************************)

\* p is the index after which an event queued at pos is linked.
SlotAtFront(pos, p) == IF pos = "TAIL" THEN p = Len(queue) ELSE p = 0
Slot(pos, p) ==
    CASE pos = "TAIL" -> p = Len(queue)
      [] pos = "HEAD" -> p = 0
      [] OTHER -> IF marker = NULL THEN p = 0 ELSE p > 0 /\ queue[p] = marker

LastAfterInsert(e, p) == IF p = Len(queue) THEN e ELSE last

QueueEvent(e, pos) ==
    /\ MutexFree
    /\ e \notin InQueue \union InService
    /\ clock < MaxPosts
    /\ \E p \in 0 .. Len(queue) :
        /\ Slot(pos, p)
        /\ queue' = InsertAt(queue, p + 1, e)
        /\ last' = LastAfterInsert(e, p)
    /\ marker' = IF pos = "MARK" THEN e ELSE marker
    /\ clock' = clock + 1
    /\ kind' = [kind EXCEPT ![e] = pos]
    /\ born' = [born EXCEPT ![e] = clock + 1]
    /\ IF delim = NULL
       THEN delim' = last' /\ roundFinished' = FALSE /\ roundClock' = clock + 1
       ELSE UNCHANGED round
    /\ UNCHANGED <<sample, service, walk>>

-----------------------------------------------------------------------------
(***************************************************************************)
(* Unlinking the p-th event, as Tcl_DeleteEvents and Tcl_ServiceEvent do:  *)
(* a pointer to it falls back to its predecessor.                          *)
(***************************************************************************)
Pred(p) == IF p = 1 THEN NULL ELSE queue[p - 1]
Succ(p) == IF p = Len(queue) THEN NULL ELSE queue[p + 1]

MarkerToNull(p) == IF marker = queue[p] THEN NULL ELSE marker
MarkerAfterUnlink(p) == IF marker = queue[p] THEN Pred(p) ELSE marker

Unlink(p) ==
    /\ queue' = RemoveAt(queue, p)
    /\ last' = IF p = Len(queue) THEN Pred(p) ELSE last
    /\ marker' = MarkerAfterUnlink(p)

(***************************************************************************)
(* Tcl_DeleteEvents, one iteration of its loop at a time.                  *)
(***************************************************************************)
DeleteEvents ==
    /\ OwnerRuns
    /\ walk' = 1
    /\ UNCHANGED <<list, round, sample, service, history>>

DelimToNext == IF delim = queue[walk] THEN Succ(walk) ELSE delim
DelimKept == delim
DelimAfterDelete == IF delim = queue[walk] THEN Pred(walk) ELSE delim

DeleteThisAdvances ==
    /\ walk \in 1 .. Len(queue)
    /\ DeleteInService \/ queue[walk] \notin busy
    /\ Unlink(walk)
    /\ delim' = DelimAfterDelete
    /\ walk' = walk + 1
    /\ roundFinished' = (roundFinished /\ delim # queue[walk])
    /\ busy' = busy \ {queue[walk]}
    /\ UNCHANGED <<roundClock, sample, stack, history>>
DeleteThis ==
    /\ walk \in 1 .. Len(queue)
    /\ DeleteInService \/ queue[walk] \notin busy
    /\ Unlink(walk)
    /\ delim' = DelimAfterDelete
    /\ roundFinished' = (roundFinished /\ delim # queue[walk])
    /\ busy' = busy \ {queue[walk]}
    /\ UNCHANGED <<walk, roundClock, sample, stack, history>>

RetainThis ==
    /\ walk \in 1 .. Len(queue)
    /\ walk' = walk + 1
    /\ UNCHANGED <<list, round, sample, service, history>>

DeleteEventsReturns ==
    /\ walk = Len(queue) + 1
    /\ walk' = 0
    /\ UNCHANGED <<list, round, sample, service, history>>

-----------------------------------------------------------------------------
(***************************************************************************)
(* Tcl_ServiceEvent.  A scan that starts after index p reaches q.          *)
(***************************************************************************)
ScanReachesBusy(p, q) ==
    /\ q \in p + 1 .. Len(queue)
    /\ \A i \in p + 1 .. q - 1 : queue[i] \in busy
ScanReaches(p, q) ==
    /\ q \in p + 1 .. Len(queue)
    /\ queue[q] \notin busy
    /\ \A i \in p + 1 .. q - 1 : queue[i] \in busy

\* The first event that is not in service is marked and its proc called.
ServiceEvent ==
    /\ OwnerRuns
    /\ Len(stack) < MaxDepth
    /\ \E q \in 1 .. Len(queue) :
        /\ ScanReaches(0, q)
        /\ busy' = busy \union {queue[q]}
        /\ stack' = Append(stack, queue[q])
    /\ UNCHANGED <<list, round, sample, walk, history>>

\* The proc returned 1: end the round if this was its last event, and look
\* for the event again from the front, for the list may have changed.
HandlerReturnsOne ==
    /\ OwnerRuns
    /\ stack # <<>>
    /\ LET e == Last(stack) IN
        /\ IF e = delim
           THEN delim' = NULL /\ roundFinished' = TRUE /\ UNCHANGED roundClock
           ELSE UNCHANGED round
        /\ IF e \in InQueue
           THEN \E p \in 1 .. Len(queue) : queue[p] = e /\ Unlink(p)
           ELSE UNCHANGED list
        /\ busy' = busy \ {e}
    /\ stack' = Front(stack)
    /\ UNCHANGED <<sample, walk, history>>

\* The proc returned 0, so the event is still in the list: it can be serviced
\* again, and the same scan goes on behind it.
HandlerReturnsZero ==
    /\ OwnerRuns
    /\ stack # <<>>
    /\ \E p \in 1 .. Len(queue) :
        /\ queue[p] = Last(stack)
        /\ \/ \E q \in 1 .. Len(queue) :
                /\ ScanReaches(p, q)
                /\ busy' = (busy \ {queue[p]}) \union {queue[q]}
                /\ stack' = Append(Front(stack), queue[q])
           \/ /\ \A q \in 1 .. Len(queue) : ~ScanReaches(p, q)
              /\ busy' = busy \ {queue[p]}
              /\ stack' = Front(stack)
    /\ UNCHANGED <<list, round, sample, walk, history>>

-----------------------------------------------------------------------------
(***************************************************************************)
(* roundDelimPtr = lastEventPtr in Tcl_DoOneEvent and Tcl_ServiceAll: a    *)
(* read and a write without queueMutex, between which other threads may    *)
(* queue events.                                                           *)
(***************************************************************************)
SampleLast ==
    /\ OwnerRuns
    /\ sampling' = TRUE
    /\ sampleEv' = last
    /\ sampleClock' = clock
    /\ UNCHANGED <<list, round, service, walk, history>>

OpenRound ==
    /\ sampling
    /\ sampling' = FALSE
    /\ delim' = sampleEv
    /\ roundFinished' = FALSE
    /\ roundClock' = sampleClock
    /\ sampleEv' = NULL /\ sampleClock' = 0
    /\ UNCHANGED <<list, service, walk, history>>

-----------------------------------------------------------------------------
Next ==
    \/ \E e \in Events, pos \in Positions : QueueEvent(e, pos)
    \/ DeleteEvents \/ DeleteThis \/ RetainThis \/ DeleteEventsReturns
    \/ ServiceEvent \/ HandlerReturnsOne \/ HandlerReturnsZero
    \/ SampleLast \/ OpenRound

Spec == Init /\ [][Next]_vars

-----------------------------------------------------------------------------
(***************************************************************************)
(* The list and its pointers agree: no event is linked twice,              *)
(* lastEventPtr is the end of the list, and neither the marker nor the     *)
(* round delimiter points to an event that has been freed, whatever was    *)
(* deleted or serviced by nested loops in between.                         *)
(***************************************************************************)
NoneLinkedTwice == \A i, j \in 1 .. Len(queue) : queue[i] = queue[j] => i = j
LastIsLast == last = IF queue = <<>> THEN NULL ELSE queue[Len(queue)]
MarkerLinked == marker \in InQueue \union {NULL}
DelimLinked == delim \in InQueue \union {NULL}

PointersOK == NoneLinkedTwice /\ LastIsLast /\ MarkerLinked /\ DelimLinked

(***************************************************************************)
(* proc is NULL in exactly the linked events that some frame is servicing, *)
(* and no event is in two frames: a handler is never re-entered for the    *)
(* event it is handling, and none is left marked with nobody to unmark it. *)
(***************************************************************************)
FramesDistinct == \A i, j \in 1 .. Len(stack) : stack[i] = stack[j] => i = j
BusyIffInService == busy = InQueue \intersect InService

ServicedOnce == FramesDistinct /\ BusyIffInService

(***************************************************************************)
(* The order of service that the header of QueueEvent promises: marked     *)
(* events in the order they were queued and before every event queued at   *)
(* the tail, those first in first out, and events pushed at the head last  *)
(* in first out, however many of them have been removed from the middle.   *)
(***************************************************************************)
MarkerIsFront ==
    \A i, m \in 1 .. Len(queue) : queue[m] = marker =>
        /\ i <= m => kind[queue[i]] # "TAIL"
        /\ i > m => kind[queue[i]] # "MARK"
NoMarkerNoMarked ==
    marker = NULL => \A i \in 1 .. Len(queue) : kind[queue[i]] # "MARK"
InOrder(e, f) ==
    /\ kind[e] = "TAIL" => kind[f] = "TAIL" /\ born[e] < born[f]
    /\ kind[e] = "MARK" /\ kind[f] = "MARK" => born[e] < born[f]
    /\ kind[e] = "HEAD" /\ kind[f] = "HEAD" => born[e] > born[f]
QueueInOrder ==
    \A i, j \in 1 .. Len(queue) : i < j => InOrder(queue[i], queue[j])

PriorityOrder == MarkerIsFront /\ NoMarkerNoMarked /\ QueueInOrder

(***************************************************************************)
(* The delimiter separates the events that were in the queue when the      *)
(* round was opened from those appended since, also after the delimiter    *)
(* itself has been deleted: a round neither loses an event it should       *)
(* service nor is stretched by the events its own handlers append.         *)
(***************************************************************************)
SplitsAt(e, t) ==
    \A i, d \in 1 .. Len(queue) :
        queue[d] = e /\ kind[queue[i]] = "TAIL" =>
            (i <= d <=> born[queue[i]] <= t)

RoundSplit == SplitsAt(delim, roundClock)

-----------------------------------------------------------------------------
(***************************************************************************)
(* Every step of the list and its pointers is a step of Dispatch: an event *)
(* that is linked and not being serviced waits, one that a frame services  *)
(* runs.  Unlinking an event that runs, and the pointers of the round,     *)
(* are invisible.                                                          *)
(***************************************************************************)
D == INSTANCE Dispatch WITH pending <- InQueue \ busy, running <- stack

ImplementsDispatch == D!Spec
=============================================================================

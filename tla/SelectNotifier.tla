--------------------------- MODULE SelectNotifier ---------------------------
(***************************************************************************)
(* The select notifier (unix/tclSelectNotfy.c, unix/tclUnixNotfy.c).  The  *)
(* threads of Tcl do not call select themselves: a thread that waits puts  *)
(* itself on the waiting list and sleeps on a condition variable, and one  *)
(* notifier thread selects over the files of all of them.  A byte in the   *)
(* trigger pipe makes it start again with another list.                    *)
(*                                                                         *)
(* A step is what is done under notifierMutex, which a sleeping thread has *)
(* released; select and the reading of the pipe are done without it.       *)
(* Files are watched for being readable.                                   *)
(***************************************************************************)
EXTENDS Naturals, Sequences, FiniteSets, SequencesExt, FiniteSetsExt,
        Lists

CONSTANTS
    Threads,        \* threads that may use the notifier
    Files,          \* file descriptors
    NULL,
    MaxEvents       \* bound: events queued for one file

ASSUME MaxEventsAssumption == MaxEvents \in Nat \ {0}

VARIABLES
    using,          \* the threads between Init- and FinalizeNotifier
    finalizing,     \* the thread that holds notifierInitMutex until the
                    \*   notifier thread is joined, or NULL
    handlers,       \* checkMasks: the files that a thread has handlers for
    readyMask,      \* the handlers whose readyMask is set
    events,         \* file events in the queue of a thread
    sleep,          \* how a thread waits on its condition variable
    signalled,      \* the condition variable was broadcast
    eventReady,
    pollState,
    readyMasks,     \* what the last select found for a thread
    waitingList,
    pipe,           \* what is in the trigger pipe
    notifier,       \* the notifier thread: where it is, its masks
    readyFiles,     \* the files that are readable now
    asked           \* history: files readable since the thread began to poll

threadVars == <<using, finalizing, handlers, readyMask, events>>
waitVars == <<sleep, signalled, eventReady, pollState, readyMasks, waitingList>>
selectVars == <<threadVars, waitVars, pipe, notifier, readyFiles, asked>>

OnList(t) == t \in ToSet(waitingList)
Runs(t) == t \in using /\ sleep[t] = "no" /\ finalizing # t
Readable(t) == handlers[t] \intersect readyFiles
Absent == [pc |-> "absent", masks |-> {}, poll |-> FALSE]

-----------------------------------------------------------------------------
(* Starting and ending.                                                    *)

TclpInitNotifier(t) ==
    /\ t \notin using /\ finalizing = NULL
    /\ using' = using \union {t}
    /\ eventReady' = [eventReady EXCEPT ![t] = FALSE]
    /\ UNCHANGED <<finalizing, handlers, readyMask, events, sleep, signalled,
                   pollState, readyMasks, waitingList, pipe, notifier,
                   readyFiles, asked>>

\* The last thread asks the notifier thread to quit and waits until it has.
\* A thread that ends leaves its handlers and its queue behind.
QuitUnasked == pipe
Quit == pipe \union {"q"}

TclpFinalizeNotifier(t) ==
    /\ Runs(t) /\ finalizing = NULL
    /\ using' = using \ {t}
    /\ IF using' = {} /\ notifier.pc # "absent"
       THEN finalizing' = t /\ pipe' = Quit
       ELSE UNCHANGED <<finalizing, pipe>>
    /\ handlers' = [handlers EXCEPT ![t] = {}]
    /\ readyMask' = [readyMask EXCEPT ![t] = {}]
    /\ events' = [events EXCEPT ![t] = [f \in Files |-> 0]]
    /\ UNCHANGED <<waitVars, notifier, readyFiles, asked>>

NotifierJoined ==
    /\ finalizing # NULL /\ notifier.pc = "absent"
    /\ finalizing' = NULL
    /\ UNCHANGED <<using, handlers, readyMask, events, waitVars, pipe, notifier,
                   readyFiles, asked>>

-----------------------------------------------------------------------------
(* File handlers.                                                          *)

TclpCreateFileHandler(t, f) ==
    /\ Runs(t) /\ f \notin handlers[t]
    /\ events[t][f] < MaxEvents
    /\ handlers' = [handlers EXCEPT ![t] = @ \union {f}]
    /\ readyMask' = [readyMask EXCEPT ![t] = @ \ {f}]
    /\ UNCHANGED <<using, finalizing, events, waitVars, pipe, notifier,
                   readyFiles, asked>>

\* An event that is queued for the handler stays where it is.
TclpDeleteFileHandler(t, f) ==
    /\ Runs(t) /\ f \in handlers[t]
    /\ handlers' = [handlers EXCEPT ![t] = @ \ {f}]
    /\ readyMask' = [readyMask EXCEPT ![t] = @ \ {f}]
    /\ UNCHANGED <<using, finalizing, events, waitVars, pipe, notifier,
                   readyFiles, asked>>

\* The event finds the handler by its file.  It is called if its readyMask is
\* set, and reads some or all of what there is.
NotCleared(t, f) == readyMask[t]
Cleared(t, f) == readyMask[t] \ {f}

FileHandlerEventProc(t, f) ==
    /\ Runs(t) /\ events[t][f] > 0
    /\ events' = [events EXCEPT ![t][f] = @ - 1]
    /\ readyMask' = [readyMask EXCEPT ![t] = Cleared(t, f)]
    /\ \/ UNCHANGED <<readyFiles, asked>>
       \/ /\ f \in readyMask[t]
          /\ readyFiles' = readyFiles \ {f}
          /\ asked' = [u \in Threads |-> asked[u] \ {f}]
    /\ UNCHANGED <<using, finalizing, handlers, waitVars, pipe, notifier>>

-----------------------------------------------------------------------------
(* TclpWaitForEvent, from the lock to the wait and from there to the end.  *)

\* Events are queued for what select found, and only for a handler that has
\* none in the queue.
QueueFileEvents(t) ==
    LET found == handlers[t] \intersect readyMasks[t]
    IN /\ events' = [events EXCEPT ![t] =
                       [f \in Files |-> IF f \in found \ readyMask[t]
                                        THEN @[f] + 1 ELSE @[f]]]
       /\ readyMask' = [readyMask EXCEPT ![t] = @ \union found]

\* The notifier thread is told of a change of the list.
NoTrigger == pipe
Trigger == pipe \union {"byte"}

Join(t) == pipe' = Trigger
LeaveQuietly(t) == pipe' = pipe
Leave(t) == pipe' = IF OnList(t) THEN Trigger ELSE pipe

\* A poll waits for files too, until the notifier thread has been through
\* select once.  A thread alerted before does not sleep at all: it leaves
\* the list at once and finds no files.
TclpWaitForEvent(t, how) ==
    LET waitForFiles == how = "poll" \/ handlers[t] # {} IN
    /\ Runs(t)
    /\ notifier' = IF notifier.pc = "absent"
                   THEN [notifier EXCEPT !.pc = "compute"] ELSE notifier
    /\ pollState' = [pollState EXCEPT ![t] =
                        IF how = "poll" THEN {"WANT"} ELSE {}]
    /\ IF waitForFiles THEN Join(t) ELSE UNCHANGED pipe
    /\ readyMasks' = [readyMasks EXCEPT ![t] = {}]
    /\ IF eventReady[t]
       THEN /\ eventReady' = [eventReady EXCEPT ![t] = FALSE]
            /\ UNCHANGED <<sleep, waitingList, asked>>
       ELSE /\ sleep' = [sleep EXCEPT ![t] = how]
            /\ waitingList' = IF waitForFiles THEN <<t>> \o waitingList
                              ELSE waitingList
            /\ asked' = [asked EXCEPT ![t] =
                            IF how = "poll" THEN Readable(t) ELSE {}]
            /\ UNCHANGED eventReady
    /\ UNCHANGED <<threadVars, signalled, readyFiles>>

\* The wait is over: a broadcast, or the time of a limited one.
WaitReturns(t) ==
    /\ sleep[t] # "no"
    /\ signalled[t] \/ sleep[t] = "limited"
    /\ sleep' = [sleep EXCEPT ![t] = "no"]
    /\ signalled' = [signalled EXCEPT ![t] = FALSE]
    /\ eventReady' = [eventReady EXCEPT ![t] = FALSE]
    /\ waitingList' = Unlinked(waitingList, {t})
    /\ Leave(t)
    /\ QueueFileEvents(t)
    /\ asked' = [asked EXCEPT ![t] = {}]
    /\ UNCHANGED <<using, finalizing, handlers, pollState, readyMasks, notifier,
                   readyFiles>>

\* Tcl_ThreadAlert, by another thread that queued an event for t.
TclpAlertNotifier(t) ==
    /\ t \in using
    /\ eventReady' = [eventReady EXCEPT ![t] = TRUE]
    /\ signalled' = [signalled EXCEPT ![t] = sleep[t] # "no"]
    /\ asked' = [asked EXCEPT ![t] = {}]
    /\ UNCHANGED <<threadVars, sleep, pollState, readyMasks, waitingList, pipe,
                   notifier, readyFiles>>

-----------------------------------------------------------------------------
(* NotifierThreadProc.                                                     *)

NotifierAt(pc) == notifier.pc = pc

\* The masks of all waiting threads, and whether one of them polls.
ComputeMasks ==
    LET polls == { t \in ToSet(waitingList) : "WANT" \in pollState[t] } IN
    /\ NotifierAt("compute")
    /\ pollState' = [t \in Threads |-> IF t \in polls
                        THEN pollState[t] \union {"DONE"} ELSE pollState[t]]
    /\ notifier' = [ pc |-> "select", poll |-> polls # {},
                     masks |-> UNION { handlers[t] : t \in ToSet(waitingList) } ]
    /\ UNCHANGED <<threadVars, sleep, signalled, eventReady, readyMasks,
                   waitingList, pipe, readyFiles, asked>>

Select ==
    LET found == notifier.masks \intersect readyFiles IN
    /\ NotifierAt("select")
    /\ notifier.poll \/ pipe # {} \/ found # {}
    /\ notifier' = [pc |-> "alert", masks |-> found, poll |-> FALSE]
    /\ UNCHANGED <<threadVars, waitVars, pipe, readyFiles, asked>>

Found(t) == handlers[t] \intersect notifier.masks
PolledOrWants(t) == pollState[t] # {}
Polled(t) == "DONE" \in pollState[t]

\* AlertSingleThread takes the thread off the list, and with it the link by
\* which the loop over the list goes on: one thread is alerted at most.
AlertThreads ==
    LET due == { k \in DOMAIN waitingList :
                    Found(waitingList[k]) # {} \/ Polled(waitingList[k]) }
    IN
    /\ NotifierAt("alert")
    /\ notifier' = [notifier EXCEPT !.pc = "read", !.masks = {}]
    /\ IF due = {} THEN UNCHANGED waitVars
       ELSE LET t == waitingList[Min(due)] IN
            /\ readyMasks' = [readyMasks EXCEPT ![t] = @ \union Found(t)]
            /\ eventReady' = [eventReady EXCEPT ![t] = TRUE]
            /\ signalled' = [signalled EXCEPT ![t] = TRUE]
            /\ pollState' = [pollState EXCEPT ![t] = {}]
            /\ waitingList' = RemoveAt(waitingList, Min(due))
            /\ UNCHANGED sleep
    /\ UNCHANGED <<threadVars, pipe, readyFiles, asked>>

\* All bytes are read up to a "q"; then the thread goes on or quits.
ReadPipe ==
    /\ NotifierAt("read")
    /\ pipe' = {}
    /\ notifier' = [notifier EXCEPT
                      !.pc = IF "q" \in pipe THEN "quit" ELSE "compute"]
    /\ UNCHANGED <<threadVars, waitVars, readyFiles, asked>>

NotifierQuits ==
    /\ NotifierAt("quit")
    /\ notifier' = Absent
    /\ UNCHANGED <<threadVars, waitVars, pipe, readyFiles, asked>>

-----------------------------------------------------------------------------
FileBecomesReadable(f) ==
    /\ readyFiles' = readyFiles \union {f}
    /\ UNCHANGED <<threadVars, waitVars, pipe, notifier, asked>>

SelectInit ==
    /\ using = {} /\ finalizing = NULL
    /\ handlers = [t \in Threads |-> {}]
    /\ readyMask = [t \in Threads |-> {}]
    /\ events = [t \in Threads |-> [f \in Files |-> 0]]
    /\ sleep = [t \in Threads |-> "no"]
    /\ signalled = [t \in Threads |-> FALSE]
    /\ eventReady = [t \in Threads |-> FALSE]
    /\ pollState = [t \in Threads |-> {}]
    /\ readyMasks = [t \in Threads |-> {}]
    /\ waitingList = <<>> /\ pipe = {} /\ notifier = Absent
    /\ readyFiles = {} /\ asked = [t \in Threads |-> {}]

ThreadStep(t) ==
    \/ TclpInitNotifier(t) \/ TclpFinalizeNotifier(t)
    \/ \E f \in Files : \/ TclpCreateFileHandler(t, f)
                        \/ TclpDeleteFileHandler(t, f)
                        \/ FileHandlerEventProc(t, f)
    \/ \E how \in {"poll", "limited", "forever"} : TclpWaitForEvent(t, how)
    \/ WaitReturns(t) \/ TclpAlertNotifier(t)

NotifierStep ==
    ComputeMasks \/ Select \/ AlertThreads \/ ReadPipe \/ NotifierQuits

SelectNext ==
    \/ \E t \in Threads : ThreadStep(t)
    \/ NotifierStep \/ NotifierJoined
    \/ \E f \in Files : FileBecomesReadable(f)

SelectSpec == SelectInit /\ [][SelectNext]_selectVars

\* The notifier thread runs, and so does the one that waits for its end.
\* Nothing else is fair: no thread has to wait or to return from a wait, to
\* alert another one or to serve its events.
SelectFairSpec ==
    SelectSpec /\ WF_selectVars(NotifierStep) /\ WF_selectVars(NotifierJoined)

-----------------------------------------------------------------------------
(* Properties.                                                             *)

\* Types; the waiting list holds sleeping threads, each once; a readyMask is
\* set only while an event is in the queue, without which the handler would
\* never be called again; a sleeping thread that was alerted will wake.
SelectTypeOK ==
    /\ using \subseteq Threads /\ finalizing \in Threads \union {NULL}
    /\ handlers \in [Threads -> SUBSET Files]
    /\ events \in [Threads -> [Files -> 0 .. MaxEvents]]
    /\ sleep \in [Threads -> {"no", "poll", "limited", "forever"}]
    /\ pollState \in [Threads -> SUBSET {"WANT", "DONE"}]
    /\ readyMasks \in [Threads -> SUBSET Files]
    /\ pipe \subseteq {"byte", "q"}
    /\ notifier.pc \in {"absent", "compute", "select", "alert", "read", "quit"}
    /\ notifier.masks \subseteq Files /\ notifier.poll \in BOOLEAN
    /\ readyFiles \subseteq Files /\ asked \in [Threads -> SUBSET Files]
    /\ IsInjective(waitingList)
    /\ \A t \in Threads :
        /\ OnList(t) => sleep[t] # "no"
        /\ readyMask[t] \subseteq { f \in handlers[t] : events[t][f] > 0 }
        /\ sleep[t] # "no" /\ eventReady[t] => signalled[t]

\* TclpWaitForEvent and the comment on triggerPipe: while the notifier thread
\* blocks in select, it watches the files of exactly the threads on the list,
\* and has been through select for each that polls.  It neither misses the
\* file of a sleeping thread nor keeps one that a thread may close
\* ("skipping this caused a hang").
SelectsForTheList ==
    NotifierAt("select") /\ pipe = {} /\ ~notifier.poll =>
        /\ notifier.masks = UNION { handlers[t] : t \in ToSet(waitingList) }
        /\ \A t \in ToSet(waitingList) : "WANT" \notin pollState[t]

\* The handshake of POLL_WANT and POLL_DONE: a poll that was not cut short by
\* an alert of another thread finds a file, if one was readable from the
\* beginning of the poll to its end.
PollFinds ==
    [][\A t \in Threads :
        sleep[t] = "poll" /\ sleep'[t] = "no" /\ asked[t] # {} =>
            readyMasks[t] # {}]_selectVars

\* No file stays readable with a thread asleep over it and nobody alerted;
\* and the last thread does not wait for the notifier thread for ever.
Progress ==
    /\ (\E t \in Threads : OnList(t) /\ Readable(t) # {})
          ~> \/ \E t \in Threads : signalled[t]
             \/ ~ \E t \in Threads : OnList(t) /\ Readable(t) # {}
    /\ finalizing # NULL ~> finalizing = NULL
=============================================================================

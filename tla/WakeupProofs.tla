---------------------------- MODULE WakeupProofs ----------------------------
(***************************************************************************)
(* The two ways in which a sleeping thread is woken, for any number of     *)
(* handlers, threads and files.                                            *)
(*                                                                         *)
(* Asynchronous handlers and the epoll notifier: no thread sleeps over a   *)
(* mark that nobody has alerted it of, and the mark of a signal handler is *)
(* remembered until the notifier has seen it.                              *)
(*                                                                         *)
(* The select notifier: it watches the files of exactly the threads that   *)
(* wait, and a poll finds a file that was readable all the time.           *)
(***************************************************************************)
EXTENDS Async, SelectNotifier, SeqLemmas

(***************************************************************************)
(* The asynchronous handlers.                                              *)
(*                                                                         *)
(* The inductive invariant.  The three flags agree with the marks: at the  *)
(* end of an invocation no mark of a thread is left, so that clearing      *)
(* asyncActive hides none; a mark that no invocation will find is          *)
(* announced by asyncReady; and while the thread is on its way to sleep,   *)
(* which it starts only with asyncReady clear, asyncReady is set together  *)
(* with the event fd.                                                      *)
(***************************************************************************)
WaitsInProgram == wait # "no" => invokes = <<>> \/ InProc
NoneLeftAtEnd ==
    invokes # <<>> /\ Last(invokes) = "end" => \A h \in live : ready[h] # 1
MarkAnnounced == ~asyncActive /\ (\E h \in live : ready[h] = 1) => asyncReady
AnnouncedWithAlert == wait \in {"about", "blocked"} /\ asyncReady => eventFd

\* Where a frame of Tcl_AsyncInvoke may be.
Pcs == {"find", "proc", "end"}

IInv ==
    /\ TypeOK /\ WaitsInProgram
    /\ NoneLeftAtEnd /\ MarkAnnounced /\ AnnouncedWithAlert
    /\ SignalRemembered

USE AsyncAssumption

LEMMA InitIInv == Init => IInv
  BY EmptySeq DEF Init, IInv, TypeOK, WaitsInProgram, NoneLeftAtEnd, MarkAnnounced,
                  AnnouncedWithAlert, SignalRemembered

-----------------------------------------------------------------------------
(***************************************************************************)
(* The program and the marks of other threads leave the stack alone.       *)
(***************************************************************************)
LEMMA CreateStep ==
  ASSUME IInv, NEW h \in Handlers, AsyncCreate(h) \/ AsyncDelete(h)
  PROVE  IInv'
  <1> USE DEF IInv, AsyncCreate, AsyncDelete, ProgramRuns
  <1>1. TypeOK'
    BY DEF TypeOK
  <1>2. WaitsInProgram'
    BY DEF WaitsInProgram
  <1>3. NoneLeftAtEnd'
    BY DEF TypeOK, NoneLeftAtEnd
  <1>4. MarkAnnounced'
    BY DEF TypeOK, MarkAnnounced
  <1>5. AnnouncedWithAlert'
    BY DEF AnnouncedWithAlert
  <1>6. SignalRemembered'
    BY DEF TypeOK, SignalRemembered
  <1> QED
    BY <1>1, <1>2, <1>3, <1>4, <1>5, <1>6

LEMMA MarkStep ==
  ASSUME IInv, NEW h \in Handlers, AsyncMark(h)
  PROVE  IInv'
  <1> USE DEF IInv, AsyncMark, Notify
  <1>1. TypeOK'
    BY DEF TypeOK
  <1>2. WaitsInProgram'
    BY DEF WaitsInProgram, InProc
  <1>3. NoneLeftAtEnd'
    BY DEF NoneLeftAtEnd, MutexFree, InProc
  <1>4. MarkAnnounced'
    BY DEF TypeOK, MarkAnnounced
  <1>5. AnnouncedWithAlert'
    BY DEF AnnouncedWithAlert
  <1>6. SignalRemembered'
    BY DEF TypeOK, SignalRemembered
  <1> QED
    BY <1>1, <1>2, <1>3, <1>4, <1>5, <1>6

LEMMA SignalStep ==
  ASSUME IInv, NEW h \in Handlers, AsyncMarkFromSignal(h)
  PROVE  IInv'
  <1> USE DEF IInv, AsyncMarkFromSignal
  <1>1. TypeOK'
    BY DEF TypeOK
  <1>2. WaitsInProgram'
    BY DEF WaitsInProgram, InProc
  <1>3. NoneLeftAtEnd'
    BY DEF TypeOK, NoneLeftAtEnd
  <1>4. MarkAnnounced'
    BY DEF TypeOK, MarkAnnounced
  <1>5. AnnouncedWithAlert'
    BY DEF AnnouncedWithAlert
  <1>6. SignalRemembered'
    BY DEF TypeOK, SignalRemembered
  <1> QED
    BY <1>1, <1>2, <1>3, <1>4, <1>5, <1>6

LEMMA AlertStep ==
  ASSUME IInv, ThreadAlert
  PROVE  IInv'
  BY DEF IInv, ThreadAlert, TypeOK, WaitsInProgram, InProc, NoneLeftAtEnd, MarkAnnounced,
         AnnouncedWithAlert, SignalRemembered

-----------------------------------------------------------------------------
(***************************************************************************)
(* The frames of Tcl_AsyncInvoke.                                          *)
(***************************************************************************)
LEMMA InvokeStep ==
  ASSUME IInv, AsyncInvoke
  PROVE  IInv'
  <1> USE DEF IInv, AsyncInvoke, ProgramRuns
  <1>1. invokes' \in Seq(Pcs) /\ Last(invokes') = "find"
    <2>1. invokes \in Seq(Pcs) /\ "find" \in Pcs
      BY DEF TypeOK, Pcs
    <2>2. invokes' = Append(invokes, "find")
      OBVIOUS
    <2> HIDE DEF IInv, AsyncInvoke, ProgramRuns
    <2>3. invokes' \in Seq(Pcs) /\ invokes'[Len(invokes')] = "find"
      BY <2>1, <2>2, PushFacts
    <2> QED
      BY <2>3, Zenon DEF Last
  <1>2. TypeOK'
    BY <1>1 DEF TypeOK, Pcs
  <1>3. WaitsInProgram' /\ NoneLeftAtEnd'
    BY <1>1 DEF WaitsInProgram, NoneLeftAtEnd
  <1>4. MarkAnnounced' /\ AnnouncedWithAlert' /\ SignalRemembered'
    BY DEF MarkAnnounced, AnnouncedWithAlert, SignalRemembered
  <1> QED
    BY <1>2, <1>3, <1>4

\* Only the top of the stack changes.
LEMMA GotoFacts ==
  ASSUME TypeOK, invokes # <<>>, NEW pc \in Pcs, Goto(pc)
  PROVE  invokes' \in Seq(Pcs) /\ invokes' # <<>> /\ Last(invokes') = pc
  <1>1. invokes \in Seq(Pcs)
    BY DEF TypeOK, Pcs
  <1>2. invokes' = [invokes EXCEPT ![Len(invokes)] = pc]
    BY DEF Goto
  <1>3. /\ invokes' \in Seq(Pcs) /\ invokes' # <<>>
        /\ invokes'[Len(invokes')] = pc
    BY <1>1, <1>2, TopFacts
  <1> QED
    BY <1>3, Zenon DEF Last

LEMMA FindStep ==
  ASSUME IInv, Find
  PROVE  IInv'
  <1> USE DEF IInv, Find, At
  <1>1. CASE Marked = {}
    <2>1. invokes' \in Seq(Pcs) /\ Last(invokes') = "end"
      BY <1>1, GotoFacts DEF Pcs
    <2>2. \A h \in live : ready[h] = 0
      BY <1>1 DEF Marked
    <2> QED
      BY <1>1, <2>1, <2>2 DEF TypeOK, Pcs, WaitsInProgram, NoneLeftAtEnd, MarkAnnounced,
         AnnouncedWithAlert, SignalRemembered
  <1>2. CASE Marked # {}
    <2>1. invokes' \in Seq(Pcs) /\ Last(invokes') = "proc"
      BY <1>2, GotoFacts DEF Pcs
    <2>2. /\ ready' \in [Handlers -> {-1, 0, 1}]
          /\ \A h \in Handlers : ready'[h] = ready[h] \/ ready'[h] = 0
      BY <1>2 DEF TypeOK
    <2> QED
      BY <2>1, <2>2 DEF TypeOK, Pcs, WaitsInProgram, NoneLeftAtEnd, MarkAnnounced,
         AnnouncedWithAlert, SignalRemembered
  <1> QED
    BY <1>1, <1>2

LEMMA ProcReturnsStep ==
  ASSUME IInv, ProcReturns
  PROVE  IInv'
  <1> USE DEF IInv, ProcReturns, At
  <1>1. invokes' \in Seq(Pcs) /\ Last(invokes') = "find"
    BY GotoFacts DEF Pcs
  <1> QED
    BY <1>1 DEF TypeOK, Pcs, WaitsInProgram, NoneLeftAtEnd, MarkAnnounced, AnnouncedWithAlert,
       SignalRemembered

LEMMA EndInvokeStep ==
  ASSUME IInv, EndInvoke
  PROVE  IInv'
  <1> USE DEF IInv, EndInvoke, At
  <1>1. invokes' \in Seq(Pcs)
    BY FrontFacts DEF TypeOK, Pcs
  <1>2. \A h \in live : ready[h] # 1
    BY DEF NoneLeftAtEnd
  <1> QED
    BY <1>1, <1>2 DEF TypeOK, Pcs, WaitsInProgram, NoneLeftAtEnd, MarkAnnounced,
       AnnouncedWithAlert, SignalRemembered

-----------------------------------------------------------------------------
(***************************************************************************)
(* Tcl_WaitForEvent.                                                       *)
(***************************************************************************)
LEMMA WaitStep ==
  ASSUME IInv, WaitForEvent \/ EpollWait \/ EpollReturns \/ TakePending \/ ReadTrigger
  PROVE  IInv'
  <1> USE DEF IInv, WaitForEvent, EpollWait, EpollReturns, TakePending, ReadTrigger,
              ProgramRuns
  <1>1. TypeOK'
    BY DEF TypeOK
  <1>2. WaitsInProgram'
    BY DEF WaitsInProgram, InProc
  <1>3. NoneLeftAtEnd' /\ MarkAnnounced'
    BY DEF NoneLeftAtEnd, MarkAnnounced
  <1>4. AnnouncedWithAlert'
    BY DEF AnnouncedWithAlert
  <1>5. SignalRemembered'
    BY DEF SignalRemembered
  <1> QED
    BY <1>1, <1>2, <1>3, <1>4, <1>5

LEMMA MarkPendingStep ==
  ASSUME IInv, MarkPending
  PROVE  IInv'
  <1> USE DEF IInv, MarkPending, Notify
  <1>1. \A h \in Handlers : /\ ready'[h] = IF ready[h] = -1 THEN 1 ELSE ready[h]
                            /\ ready'[h] \in {0, 1}
    BY DEF TypeOK
  <1>2. TypeOK'
    BY DEF TypeOK
  <1>3. WaitsInProgram'
    BY DEF WaitsInProgram, InProc
  <1>4. NoneLeftAtEnd'
    BY DEF NoneLeftAtEnd, WaitsInProgram, InProc
  <1>5. MarkAnnounced'
    BY <1>1 DEF TypeOK, MarkAnnounced
  <1>6. AnnouncedWithAlert'
    BY DEF AnnouncedWithAlert
  <1>7. SignalRemembered'
    BY <1>1 DEF TypeOK, SignalRemembered
  <1> QED
    BY <1>2, <1>3, <1>4, <1>5, <1>6, <1>7

-----------------------------------------------------------------------------
LEMMA NextIInv == IInv /\ [Next]_vars => IInv'
  <1> SUFFICES ASSUME IInv, [Next]_vars PROVE IInv'
    OBVIOUS
  <1>1. ASSUME NEW h \in Handlers, AsyncCreate(h) \/ AsyncDelete(h) PROVE IInv'
    BY <1>1, CreateStep
  <1>2. ASSUME NEW h \in Handlers, AsyncMark(h) \/ AsyncMarkFromSignal(h) PROVE IInv'
    BY <1>2, MarkStep, SignalStep
  <1>3. CASE UNCHANGED vars
    BY <1>3 DEF vars, IInv, TypeOK, WaitsInProgram, InProc, NoneLeftAtEnd, MarkAnnounced,
       AnnouncedWithAlert, SignalRemembered
  <1> QED
    BY <1>1, <1>2, <1>3, AlertStep, InvokeStep, FindStep, ProcReturnsStep, EndInvokeStep,
       WaitStep, MarkPendingStep DEF Next

LEMMA IInvIsInvariant == Spec => []IInv
  BY InitIInv, NextIInv, PTL DEF Spec

(***************************************************************************)
(* Every variable keeps its type.                                          *)
(***************************************************************************)
THEOREM TypeCorrect == Spec => []TypeOK
  <1>1. IInv => TypeOK
    BY DEF IInv
  <1> QED
    BY <1>1, IInvIsInvariant, PTL

(***************************************************************************)
(* Tcl_AsyncMark: the thread does not sleep over the mark of another       *)
(* thread unless an alert is under way or an invocation will find it.      *)
(***************************************************************************)
THEOREM NeverSleepsOverMark == Spec => []NoSleepOverMark
  <1>1. IInv => NoSleepOverMark
    BY DEF IInv, MarkAnnounced, AnnouncedWithAlert, NoSleepOverMark, Asleep
  <1> QED
    BY <1>1, IInvIsInvariant, PTL

(***************************************************************************)
(* Tcl_AsyncMarkFromSignal: until TclAsyncMarkFromNotifier has seen the    *)
(* mark, asyncPending says that there is one to see.                       *)
(***************************************************************************)
THEOREM SignalsRemembered == Spec => []SignalRemembered
  <1>1. IInv => SignalRemembered
    BY DEF IInv
  <1> QED
    BY <1>1, IInvIsInvariant, PTL
-----------------------------------------------------------------------------
(***************************************************************************)
(* The select notifier.                                                    *)
(*                                                                         *)
(* What a thread on the waiting list asked for stays as it was while it    *)
(* sleeps.  So the masks that the notifier thread selects with cover every *)
(* thread that has been marked POLL_DONE, and what select found covers all *)
(* that stayed readable for it; then the alert that ends its poll, unless  *)
(* it is one of another thread, comes with a file.                         *)
(***************************************************************************)
NotifierStates ==
    [pc : {"absent", "compute", "select", "alert", "read", "quit"},
     masks : SUBSET Files, poll : BOOLEAN]

MoreTypes ==
    /\ readyMask \in [Threads -> SUBSET Files]
    /\ signalled \in [Threads -> BOOLEAN] /\ eventReady \in [Threads -> BOOLEAN]
    /\ waitingList \in Seq(Threads)
    /\ notifier \in NotifierStates

RoomForEvents ==
    \A t \in Threads : \A f \in handlers[t] \ readyMask[t] : events[t][f] < MaxEvents

SignalledAsleep == \A t \in Threads : signalled[t] => sleep[t] # "no"

AskedIsReadable ==
    \A t \in Threads : /\ asked[t] \subseteq Readable(t)
                       /\ asked[t] # {} => sleep[t] = "poll"

PolledIsSelected ==
    \A t \in ToSet(waitingList) : Polled(t) =>
        /\ NotifierAt("select") => handlers[t] \subseteq notifier.masks
        /\ NotifierAt("alert") => asked[t] \subseteq notifier.masks

FoundIfSignalled ==
    \A t \in Threads : signalled[t] /\ asked[t] # {} => readyMasks[t] # {}

ThreadInv == RoomForEvents /\ SignalledAsleep /\ AskedIsReadable
PollInv == SelectsForTheList /\ PolledIsSelected /\ FoundIfSignalled
SelectIInv == SelectTypeOK /\ MoreTypes /\ ThreadInv /\ PollInv

LEMMA ListFacts ==
  ASSUME SelectTypeOK, MoreTypes
  PROVE  /\ waitingList \in Seq(Threads) /\ Len(waitingList) \in Nat
         /\ ToSet(waitingList) \subseteq Threads
         /\ \A i \in 1 .. Len(waitingList) :
               waitingList[i] \in Threads /\ waitingList[i] \in ToSet(waitingList)
         /\ \A u : u \in ToSet(waitingList) => \E i \in 1 .. Len(waitingList) : waitingList[i] = u
         /\ \A i, j \in 1 .. Len(waitingList) : waitingList[i] = waitingList[j] => i = j
         /\ \A t \in ToSet(waitingList) : sleep[t] # "no"
  <1>1. waitingList \in Seq(Threads) /\ Len(waitingList) \in Nat
    BY LenProperties DEF MoreTypes
  <1>2. DOMAIN waitingList = 1 .. Len(waitingList)
    BY <1>1
  <1>3. \A i, j \in 1 .. Len(waitingList) : waitingList[i] = waitingList[j] => i = j
    BY <1>2 DEF SelectTypeOK, IsInjective
  <1>4. ToSet(waitingList) \subseteq Threads
    BY <1>1, ToSetFacts
  <1>5. \A u : u \in ToSet(waitingList) <=> \E i \in 1 .. Len(waitingList) : waitingList[i] = u
    BY <1>1, ToSetFacts
  <1>6. \A t \in ToSet(waitingList) : sleep[t] # "no"
    BY <1>4 DEF SelectTypeOK, OnList
  <1> QED
    BY <1>1, <1>3, <1>4, <1>5, <1>6, ElementOfSeq

\* A list that keeps some of its members, each once.
LEMMA SublistFacts ==
  ASSUME SelectTypeOK, MoreTypes, NEW w \in Seq(Threads), NEW n \in Nat, n = Len(w),
         NEW e \in [1 .. n -> 1 .. Len(waitingList)],
         \A i, j \in 1 .. n : i < j => e[i] < e[j],
         \A i \in 1 .. n : w[i] = waitingList[e[i]]
  PROVE  IsInjective(w) /\ ToSet(w) \subseteq ToSet(waitingList)
  <1>1. /\ \A i, j \in 1 .. Len(waitingList) : waitingList[i] = waitingList[j] => i = j
        /\ \A i \in 1 .. Len(waitingList) : waitingList[i] \in ToSet(waitingList)
        /\ Len(waitingList) \in Nat
    BY ListFacts
  <1>2. ASSUME NEW i \in 1 .. n, NEW j \in 1 .. n, w[i] = w[j] PROVE i = j
    <2>1. e[i] \in 1 .. Len(waitingList) /\ e[j] \in 1 .. Len(waitingList)
      OBVIOUS
    <2>2. e[i] = e[j]
      BY <1>1, <1>2, <2>1
    <2>3. ~(e[i] < e[j]) /\ ~(e[j] < e[i])
      BY <1>1, <2>1, <2>2
    <2>4. ~(i < j) /\ ~(j < i)
      BY <2>3
    <2> QED
      BY <2>4
  <1>3. DOMAIN w = 1 .. n
    BY LenProperties
  <1>4. IsInjective(w)
    BY <1>2, <1>3 DEF IsInjective
  <1>5. ASSUME NEW u \in ToSet(w) PROVE u \in ToSet(waitingList)
    <2>1. PICK i \in 1 .. n : w[i] = u
      BY <1>5, ToSetFacts
    <2> QED
      BY <1>1, <2>1
  <1> QED
    BY <1>4, <1>5

LEMMA SameUnion ==
  ASSUME NEW S, NEW f, NEW g, \A t \in S : f[t] = g[t]
  PROVE  UNION {f[t] : t \in S} = UNION {g[t] : t \in S}
  OBVIOUS

(***************************************************************************)
(* A step of a thread that takes nothing out of the trigger pipe, and no   *)
(* masks from the notifier thread: what holds of the threads on the list   *)
(* still does if they are the same ones, and were not disturbed.           *)
(***************************************************************************)
LEMMA PolledKept ==
  ASSUME SelectIInv, notifier' = notifier,
         \A u \in ToSet(waitingList') : \/ "DONE" \notin pollState'[u]
                                        \/ /\ u \in ToSet(waitingList)
                                           /\ handlers'[u] = handlers[u]
                                           /\ pollState'[u] = pollState[u]
                                           /\ asked'[u] \subseteq asked[u]
  PROVE  PolledIsSelected'
  <1> SUFFICES ASSUME NEW t \in ToSet(waitingList'), "DONE" \in pollState'[t]
               PROVE  /\ NotifierAt("select") => handlers'[t] \subseteq notifier.masks
                      /\ NotifierAt("alert") => asked'[t] \subseteq notifier.masks
    BY DEF PolledIsSelected, NotifierAt, Polled
  <1>1. /\ t \in ToSet(waitingList) /\ "DONE" \in pollState[t]
        /\ handlers'[t] = handlers[t] /\ asked'[t] \subseteq asked[t]
    OBVIOUS
  <1>2. /\ NotifierAt("select") => handlers[t] \subseteq notifier.masks
        /\ NotifierAt("alert") => asked[t] \subseteq notifier.masks
    BY <1>1 DEF SelectIInv, PollInv, PolledIsSelected, Polled
  <1> QED
    BY <1>1, <1>2

LEMMA ListLeftAlone ==
  ASSUME SelectIInv, ToSet(waitingList') = ToSet(waitingList), notifier' = notifier,
         pipe \subseteq pipe',
         \A u \in ToSet(waitingList) :
            /\ handlers'[u] = handlers[u] /\ pollState'[u] = pollState[u]
            /\ asked'[u] \subseteq asked[u]
  PROVE  SelectsForTheList' /\ PolledIsSelected'
  <1>1. SelectsForTheList'
    <2> SUFFICES ASSUME NotifierAt("select"), pipe' = {}, ~notifier.poll
                 PROVE  /\ notifier.masks = UNION { handlers'[t] : t \in ToSet(waitingList) }
                        /\ \A t \in ToSet(waitingList) : "WANT" \notin pollState'[t]
      BY DEF SelectsForTheList, NotifierAt
    <2>1. /\ notifier.masks = UNION { handlers[t] : t \in ToSet(waitingList) }
          /\ \A t \in ToSet(waitingList) : "WANT" \notin pollState[t]
      BY DEF SelectIInv, PollInv, SelectsForTheList
    <2>2. UNION { handlers'[t] : t \in ToSet(waitingList) } =
            UNION { handlers[t] : t \in ToSet(waitingList) }
      BY SameUnion
    <2> QED
      BY <2>1, <2>2
  <1>2. PolledIsSelected'
    BY PolledKept
  <1> QED
    BY <1>1, <1>2

\* The notifier thread neither selects nor alerts.
LEMMA Elsewhere ==
  ASSUME notifier'.pc \notin {"select", "alert"}
  PROVE  SelectsForTheList' /\ PolledIsSelected'
  BY DEF SelectsForTheList, PolledIsSelected, NotifierAt

LEMMA SelectInitIInv == SelectInit => SelectIInv
  <1> SUFFICES ASSUME SelectInit PROVE SelectIInv
    OBVIOUS
  <1> USE MaxEventsAssumption
  <1>1. waitingList \in Seq(Threads) /\ IsInjective(waitingList) /\ ToSet(waitingList) = {}
    BY EmptySeq DEF SelectInit, IsInjective, ToSet
  <1>2. SelectTypeOK
    BY <1>1 DEF SelectInit, SelectTypeOK, Absent, OnList
  <1>3. MoreTypes
    BY <1>1 DEF SelectInit, MoreTypes, NotifierStates, Absent
  <1>4. ThreadInv
    BY DEF SelectInit, ThreadInv, RoomForEvents, SignalledAsleep, AskedIsReadable, Readable
  <1>5. PollInv
    BY <1>1 DEF SelectInit, PollInv, SelectsForTheList, PolledIsSelected, FoundIfSignalled,
                NotifierAt, Absent
  <1> QED
    BY <1>2, <1>3, <1>4, <1>5 DEF SelectIInv

-----------------------------------------------------------------------------
(***************************************************************************)
(* A thread that does not wait changes its handlers and its events.        *)
(***************************************************************************)
LEMMA AwakeFacts ==
  ASSUME SelectIInv, NEW t \in Threads, sleep[t] = "no"
  PROVE  /\ t \notin ToSet(waitingList) /\ ~signalled[t] /\ asked[t] = {}
         /\ \A u \in ToSet(waitingList) : u \in Threads /\ u # t
  <1>1. t \notin ToSet(waitingList) /\ ToSet(waitingList) \subseteq Threads
    BY ListFacts DEF SelectIInv
  <1>2. ~signalled[t] /\ asked[t] = {}
    BY DEF SelectIInv, ThreadInv, SignalledAsleep, AskedIsReadable
  <1> QED
    BY <1>1, <1>2

LEMMA HandlerStep ==
  ASSUME SelectIInv, NEW t \in Threads, NEW f \in Files,
         TclpCreateFileHandler(t, f) \/ TclpDeleteFileHandler(t, f)
  PROVE  SelectIInv'
  <1>0. SelectTypeOK /\ MoreTypes /\ ThreadInv /\ PollInv
    BY DEF SelectIInv
  <1>1. /\ sleep[t] = "no"
        /\ UNCHANGED <<using, finalizing, events, waitVars, pipe, notifier, readyFiles, asked>>
    BY DEF TclpCreateFileHandler, TclpDeleteFileHandler, Runs
  <1>2. /\ t \notin ToSet(waitingList) /\ ~signalled[t] /\ asked[t] = {}
        /\ \A u \in ToSet(waitingList) : u \in Threads /\ u # t
    BY <1>1, AwakeFacts
  <1>3. /\ handlers' \in [Threads -> SUBSET Files] /\ readyMask' \in [Threads -> SUBSET Files]
        /\ \A u \in Threads : u # t => handlers'[u] = handlers[u] /\ readyMask'[u] = readyMask[u]
        /\ readyMask'[t] = readyMask[t] \ {f}
        /\ \/ handlers'[t] = handlers[t] \union {f} /\ events[t][f] < MaxEvents
           \/ handlers'[t] = handlers[t] \ {f}
    <2>0. /\ handlers \in [Threads -> SUBSET Files] /\ readyMask \in [Threads -> SUBSET Files]
          /\ readyMask' = [readyMask EXCEPT ![t] = @ \ {f}]
      BY <1>0 DEF TclpCreateFileHandler, TclpDeleteFileHandler, SelectTypeOK, MoreTypes
    <2>1. CASE TclpCreateFileHandler(t, f)
      <3>1. handlers' = [handlers EXCEPT ![t] = @ \union {f}] /\ events[t][f] < MaxEvents
        BY <2>1 DEF TclpCreateFileHandler
      <3> QED
        BY <2>0, <3>1
    <2>2. CASE TclpDeleteFileHandler(t, f)
      <3>1. handlers' = [handlers EXCEPT ![t] = @ \ {f}]
        BY <2>2 DEF TclpDeleteFileHandler
      <3> QED
        BY <2>0, <3>1
    <2> QED
      BY <2>1, <2>2
  <1>4. SelectTypeOK'
    <2>1. \A u \in Threads : readyMask'[u] \subseteq { g \in handlers'[u] : events[u][g] > 0 }
      <3>1. \A u \in Threads : readyMask[u] \subseteq { g \in handlers[u] : events[u][g] > 0 }
        BY <1>0 DEF SelectTypeOK
      <3> QED
        BY <1>3, <3>1
    <2> QED
      BY <1>0, <1>1, <1>3, <2>1 DEF SelectTypeOK, waitVars, OnList
  <1>5. MoreTypes'
    BY <1>0, <1>1, <1>3 DEF MoreTypes, waitVars
  <1>6. ThreadInv'
    <2>1. RoomForEvents'
      BY <1>0, <1>1, <1>3 DEF ThreadInv, RoomForEvents
    <2>2. SignalledAsleep'
      BY <1>0, <1>1 DEF ThreadInv, SignalledAsleep, waitVars
    <2>3. AskedIsReadable'
      BY <1>0, <1>1, <1>2, <1>3 DEF ThreadInv, AskedIsReadable, Readable, waitVars
    <2> QED
      BY <2>1, <2>2, <2>3 DEF ThreadInv
  <1>7. SelectsForTheList' /\ PolledIsSelected'
    BY <1>1, <1>2, <1>3, ListLeftAlone DEF waitVars
  <1>8. FoundIfSignalled'
    BY <1>0, <1>1 DEF PollInv, FoundIfSignalled, waitVars
  <1> QED
    BY <1>4, <1>5, <1>6, <1>7, <1>8 DEF SelectIInv, PollInv

LEMMA EventProcStep ==
  ASSUME SelectIInv, NEW t \in Threads, NEW f \in Files, FileHandlerEventProc(t, f)
  PROVE  SelectIInv'
  <1>0. SelectTypeOK /\ MoreTypes /\ ThreadInv /\ PollInv
    BY DEF SelectIInv
  <1>1. /\ sleep[t] = "no" /\ events[t][f] > 0
        /\ UNCHANGED <<using, finalizing, handlers, waitVars, pipe, notifier>>
    BY DEF FileHandlerEventProc, Runs
  <1>2. /\ events \in [Threads -> [Files -> 0 .. MaxEvents]]
        /\ readyMask \in [Threads -> SUBSET Files]
        /\ readyFiles \subseteq Files /\ asked \in [Threads -> SUBSET Files]
    BY <1>0 DEF SelectTypeOK, MoreTypes
  <1>3. /\ readyMask' \in [Threads -> SUBSET Files]
        /\ readyMask'[t] = readyMask[t] \ {f}
        /\ \A u \in Threads : u # t => readyMask'[u] = readyMask[u]
    BY <1>2 DEF FileHandlerEventProc, Cleared
  <1>4. PICK k \in 0 .. MaxEvents : k = events[t][f] - 1 /\ k < MaxEvents
    <2>1. events[t][f] \in 0 .. MaxEvents
      BY <1>2
    <2> QED
      BY <1>1, <2>1, MaxEventsAssumption
  <1>5. PICK q \in [Files -> 0 .. MaxEvents] : q = [events[t] EXCEPT ![f] = k]
    <2>1. events[t] \in [Files -> 0 .. MaxEvents]
      BY <1>2
    <2> QED
      BY <2>1
  <1>6. events' = [events EXCEPT ![t] = q]
    <2>1. events' = [events EXCEPT ![t][f] = @ - 1]
      BY DEF FileHandlerEventProc
    <2> QED
      BY <1>4, <1>5, <2>1
  <1>7. /\ events' \in [Threads -> [Files -> 0 .. MaxEvents]]
        /\ events'[t] = q /\ \A u \in Threads : u # t => events'[u] = events[u]
    BY <1>2, <1>6
  <1>8. /\ q[f] = k /\ \A g \in Files : g # f => q[g] = events[t][g]
    BY <1>2, <1>5
  <1>9. /\ readyFiles' \subseteq Files /\ asked' \in [Threads -> SUBSET Files]
        /\ \A u \in Threads : \/ asked'[u] = asked[u] /\ readyFiles' = readyFiles
                              \/ asked'[u] = asked[u] \ {f} /\ readyFiles' = readyFiles \ {f}
    <2>1. \/ UNCHANGED <<readyFiles, asked>>
          \/ readyFiles' = readyFiles \ {f} /\ asked' = [u \in Threads |-> asked[u] \ {f}]
      BY DEF FileHandlerEventProc
    <2>2. CASE UNCHANGED <<readyFiles, asked>>
      BY <1>2, <2>2
    <2>3. CASE readyFiles' = readyFiles \ {f} /\ asked' = [u \in Threads |-> asked[u] \ {f}]
      BY <1>2, <2>3
    <2> QED
      BY <2>1, <2>2, <2>3
  <1>10. SelectTypeOK'
    <2>1. ASSUME NEW u \in Threads
          PROVE  readyMask'[u] \subseteq { g \in handlers[u] : events'[u][g] > 0 }
      <3>1. readyMask[u] \subseteq { g \in handlers[u] : events[u][g] > 0 }
            /\ readyMask[u] \subseteq Files
        BY <1>0, <1>2 DEF SelectTypeOK
      <3>2. CASE u = t
        BY <1>3, <1>7, <1>8, <3>1, <3>2
      <3>3. CASE u # t
        BY <1>3, <1>7, <3>1, <3>3
      <3> QED
        BY <3>2, <3>3
    <2> QED
      BY <1>0, <1>1, <1>7, <1>9, <2>1 DEF SelectTypeOK, waitVars, OnList
  <1>11. MoreTypes'
    BY <1>0, <1>1, <1>3 DEF MoreTypes, waitVars
  <1>12. ThreadInv'
    <2>1. RoomForEvents'
      <3>1. ASSUME NEW u \in Threads, NEW g \in handlers[u] \ readyMask'[u]
            PROVE  events'[u][g] < MaxEvents
        <4>1. g \in Files
          BY <1>0, <3>1 DEF SelectTypeOK
        <4>2. g \in handlers[u] \ readyMask[u] => events[u][g] < MaxEvents
          BY <1>0 DEF ThreadInv, RoomForEvents
        <4>3. CASE u = t /\ g = f
          BY <1>4, <1>7, <1>8, <4>3
        <4>4. CASE u = t /\ g # f
          BY <1>3, <1>7, <1>8, <3>1, <4>1, <4>2, <4>4
        <4>5. CASE u # t
          BY <1>3, <1>7, <3>1, <4>2, <4>5
        <4> QED
          BY <4>3, <4>4, <4>5
      <3> QED
        BY <1>1, <3>1 DEF RoomForEvents
    <2>2. SignalledAsleep'
      BY <1>0, <1>1 DEF ThreadInv, SignalledAsleep, waitVars
    <2>3. AskedIsReadable'
      <3>1. ASSUME NEW u \in Threads
            PROVE  /\ asked'[u] \subseteq handlers[u] \intersect readyFiles'
                   /\ asked'[u] # {} => sleep[u] = "poll"
        <4>1. /\ asked[u] \subseteq handlers[u] \intersect readyFiles
              /\ asked[u] # {} => sleep[u] = "poll"
          BY <1>0 DEF ThreadInv, AskedIsReadable, Readable
        <4> QED
          BY <1>9, <4>1
      <3> QED
        BY <1>1, <3>1 DEF AskedIsReadable, Readable, waitVars
    <2> QED
      BY <2>1, <2>2, <2>3 DEF ThreadInv
  <1>13. SelectsForTheList' /\ PolledIsSelected'
    <2>1. \A u \in ToSet(waitingList) : u \in Threads
      BY <1>0, ListFacts
    <2>2. \A u \in ToSet(waitingList) : asked'[u] \subseteq asked[u]
      BY <1>9, <2>1
    <2> QED
      BY <1>1, <2>2, ListLeftAlone DEF waitVars
  <1>14. FoundIfSignalled'
    <2>1. \A u \in Threads : asked'[u] # {} => asked[u] # {}
      BY <1>9
    <2> QED
      BY <1>0, <1>1, <2>1 DEF PollInv, FoundIfSignalled, waitVars
  <1> QED
    BY <1>10, <1>11, <1>12, <1>13, <1>14 DEF SelectIInv, PollInv

\* Init and Finalize, and the end of the join.
LEMMA BeginEndStep ==
  ASSUME SelectIInv, NEW t \in Threads, TclpInitNotifier(t) \/ TclpFinalizeNotifier(t)
  PROVE  SelectIInv'
  <1>0. SelectTypeOK /\ MoreTypes /\ ThreadInv /\ PollInv
    BY DEF SelectIInv
  <1>1. CASE TclpInitNotifier(t)
    <2>1. /\ using' = using \union {t} /\ eventReady' = [eventReady EXCEPT ![t] = FALSE]
          /\ UNCHANGED <<finalizing, handlers, readyMask, events, sleep, signalled,
                         pollState, readyMasks, waitingList, pipe, notifier,
                         readyFiles, asked>>
      BY <1>1 DEF TclpInitNotifier
    <2>2. /\ eventReady' \in [Threads -> BOOLEAN]
          /\ \A u \in Threads : eventReady'[u] => eventReady[u]
      BY <1>0, <2>1 DEF MoreTypes
    <2>3. SelectTypeOK'
      BY <1>0, <2>1, <2>2 DEF SelectTypeOK, OnList
    <2>4. MoreTypes'
      BY <1>0, <2>1, <2>2 DEF MoreTypes
    <2>5. ThreadInv'
      BY <1>0, <2>1 DEF ThreadInv, RoomForEvents, SignalledAsleep, AskedIsReadable, Readable
    <2>6. SelectsForTheList' /\ PolledIsSelected'
      BY <2>1, ListLeftAlone
    <2>7. FoundIfSignalled'
      BY <1>0, <2>1 DEF PollInv, FoundIfSignalled
    <2> QED
      BY <2>3, <2>4, <2>5, <2>6, <2>7 DEF SelectIInv, PollInv
  <1>2. CASE TclpFinalizeNotifier(t)
    <2>1. /\ sleep[t] = "no" /\ using' = using \ {t}
          /\ handlers' = [handlers EXCEPT ![t] = {}]
          /\ readyMask' = [readyMask EXCEPT ![t] = {}]
          /\ events' = [events EXCEPT ![t] = [f \in Files |-> 0]]
          /\ UNCHANGED <<waitVars, notifier, readyFiles, asked>>
          /\ finalizing' \in Threads \union {NULL}
          /\ pipe \subseteq pipe' /\ pipe' \subseteq {"byte", "q"}
      BY <1>0, <1>2 DEF TclpFinalizeNotifier, Runs, Quit, SelectTypeOK
    <2>2. /\ t \notin ToSet(waitingList) /\ ~signalled[t] /\ asked[t] = {}
          /\ \A u \in ToSet(waitingList) : u \in Threads /\ u # t
      BY <2>1, AwakeFacts
    <2>3. /\ handlers' \in [Threads -> SUBSET Files] /\ readyMask' \in [Threads -> SUBSET Files]
          /\ handlers'[t] = {} /\ readyMask'[t] = {}
          /\ \A u \in Threads : u # t => handlers'[u] = handlers[u] /\ readyMask'[u] = readyMask[u]
      BY <1>0, <2>1 DEF SelectTypeOK, MoreTypes
    <2>4. /\ events' \in [Threads -> [Files -> 0 .. MaxEvents]]
          /\ \A u \in Threads : u # t => events'[u] = events[u]
      BY <1>0, <2>1, MaxEventsAssumption DEF SelectTypeOK
    <2>5. SelectTypeOK'
      <3>1. ASSUME NEW u \in Threads
            PROVE  readyMask'[u] \subseteq { g \in handlers'[u] : events'[u][g] > 0 }
        <4>1. readyMask[u] \subseteq { g \in handlers[u] : events[u][g] > 0 }
          BY <1>0 DEF SelectTypeOK
        <4> QED
          BY <2>3, <2>4, <4>1
      <3>2. using' \subseteq Threads
        BY <1>0, <2>1 DEF SelectTypeOK
      <3> QED
        BY <1>0, <2>1, <2>3, <2>4, <3>1, <3>2 DEF SelectTypeOK, waitVars, OnList
    <2>6. MoreTypes'
      BY <1>0, <2>1, <2>3 DEF MoreTypes, waitVars
    <2>7. ThreadInv'
      <3>1. RoomForEvents'
        BY <1>0, <2>3, <2>4 DEF ThreadInv, RoomForEvents
      <3>2. SignalledAsleep'
        BY <1>0, <2>1 DEF ThreadInv, SignalledAsleep, waitVars
      <3>3. AskedIsReadable'
        BY <1>0, <2>1, <2>2, <2>3 DEF ThreadInv, AskedIsReadable, Readable, waitVars
      <3> QED
        BY <3>1, <3>2, <3>3 DEF ThreadInv
    <2>8. SelectsForTheList' /\ PolledIsSelected'
      BY <2>1, <2>2, <2>3, ListLeftAlone DEF waitVars
    <2>9. FoundIfSignalled'
      BY <1>0, <2>1 DEF PollInv, FoundIfSignalled, waitVars
    <2> QED
      BY <2>5, <2>6, <2>7, <2>8, <2>9 DEF SelectIInv, PollInv
  <1> QED
    BY <1>1, <1>2

-----------------------------------------------------------------------------
(***************************************************************************)
(* TclpWaitForEvent.                                                       *)
(***************************************************************************)
\* The list w is the waiting list with t before its n members.
LedBy(w, t, n) ==
    /\ Len(w) = 1 + n
    /\ \A i \in 1 .. 1 + n : w[i] = IF i <= 1 THEN t ELSE waitingList[i - 1]

LEMMA LedListFacts ==
  ASSUME SelectTypeOK, MoreTypes, NEW t \in Threads \ ToSet(waitingList),
         NEW n \in Nat, n = Len(waitingList),
         NEW w \in Seq(Threads), LedBy(w, t, n)
  PROVE  /\ IsInjective(w)
         /\ ToSet(w) = ToSet(waitingList) \union {t}
  <1>1. /\ waitingList \in Seq(Threads)
        /\ \A i \in 1 .. n : waitingList[i] \in ToSet(waitingList)
        /\ \A u : u \in ToSet(waitingList) => \E i \in 1 .. n : waitingList[i] = u
        /\ \A i, j \in 1 .. n : waitingList[i] = waitingList[j] => i = j
    BY ListFacts
  <1>2. /\ Len(w) = 1 + n
        /\ \A i \in 1 .. 1 + n : w[i] = IF i <= 1 THEN t ELSE waitingList[i - 1]
    BY DEF LedBy
  <1>3. w[1] = t /\ \A i \in 2 .. 1 + n : i - 1 \in 1 .. n /\ w[i] = waitingList[i - 1]
    BY <1>2
  <1>4. \A i \in 1 .. 1 + n : i = 1 \/ i \in 2 .. 1 + n
    OBVIOUS
  <1>5. ASSUME NEW i \in 1 .. 1 + n, NEW j \in 1 .. 1 + n, w[i] = w[j] PROVE i = j
    <2>1. CASE i = 1 /\ j = 1
      BY <2>1
    <2>2. CASE i \in 2 .. 1 + n /\ j \in 2 .. 1 + n
      <3>1. i - 1 \in 1 .. n /\ j - 1 \in 1 .. n /\ waitingList[i - 1] = waitingList[j - 1]
        BY <1>3, <1>5, <2>2
      <3>2. i - 1 = j - 1
        BY <1>1, <3>1
      <3> QED
        BY <3>2
    <2>3. CASE i = 1 /\ j \in 2 .. 1 + n
      <3>1. j - 1 \in 1 .. n /\ w[j] = waitingList[j - 1]
        BY <1>3, <2>3
      <3>2. waitingList[j - 1] \in ToSet(waitingList)
        BY <1>1, <3>1
      <3>3. w[i] = t
        BY <1>3, <2>3
      <3> QED
        BY <1>5, <3>1, <3>2, <3>3
    <2>4. CASE j = 1 /\ i \in 2 .. 1 + n
      <3>1. i - 1 \in 1 .. n /\ w[i] = waitingList[i - 1]
        BY <1>3, <2>4
      <3>2. waitingList[i - 1] \in ToSet(waitingList)
        BY <1>1, <3>1
      <3>3. w[j] = t
        BY <1>3, <2>4
      <3> QED
        BY <1>5, <3>1, <3>2, <3>3
    <2> QED
      BY <1>4, <2>1, <2>2, <2>3, <2>4
  <1>6. IsInjective(w)
    <2>1. DOMAIN w = 1 .. 1 + n
      BY <1>2
    <2> QED
      BY <1>5, <2>1 DEF IsInjective
  <1>7. \A u : u \in ToSet(w) <=> \E i \in 1 .. 1 + n : w[i] = u
    <2>1. \A u : u \in ToSet(w) <=> \E i \in 1 .. Len(w) : w[i] = u
      BY ToSetFacts
    <2>2. 1 .. Len(w) = 1 .. 1 + n
      BY <1>2
    <2> QED
      BY <2>1, <2>2
  <1>8. ASSUME NEW u PROVE u \in ToSet(w) <=> u \in ToSet(waitingList) \union {t}
    <2>1. ASSUME u \in ToSet(w) PROVE u \in ToSet(waitingList) \union {t}
      <3>1. PICK i \in 1 .. 1 + n : w[i] = u
        BY <1>7, <2>1
      <3> QED
        BY <1>1, <1>3, <1>4, <3>1
    <2>2. ASSUME u = t PROVE u \in ToSet(w)
      <3>1. 1 \in 1 .. 1 + n
        OBVIOUS
      <3> QED
        BY <1>3, <1>7, <2>2, <3>1
    <2>3. ASSUME u \in ToSet(waitingList) PROVE u \in ToSet(w)
      <3>1. PICK i \in 1 .. n : waitingList[i] = u
        BY <1>1, <2>3
      <3>2. i + 1 \in 2 .. 1 + n /\ i + 1 \in 1 .. 1 + n /\ (i + 1) - 1 = i
        OBVIOUS
      <3>3. w[i + 1] = u
        BY <1>3, <3>1, <3>2
      <3> QED
        BY <1>7, <3>2, <3>3
    <2> QED
      BY <2>1, <2>2, <2>3
  <1> QED
    BY <1>6, <1>8

LEMMA JoinedListFacts ==
  ASSUME SelectTypeOK, MoreTypes, NEW t \in Threads \ ToSet(waitingList),
         NEW w, w = <<t>> \o waitingList
  PROVE  /\ w \in Seq(Threads) /\ IsInjective(w)
         /\ ToSet(w) = ToSet(waitingList) \union {t}
  <1>1. PICK n \in Nat : n = Len(waitingList)
    BY ListFacts
  <1>2. waitingList \in Seq(Threads)
    BY ListFacts
  <1>3. w \in Seq(Threads) /\ LedBy(w, t, n)
    <2>1. PICK one : one = <<t>>
      OBVIOUS
    <2>2. one \in Seq(Threads) /\ Len(one) = 1 /\ one[1] = t
      BY <2>1
    <2>3. /\ w \in Seq(Threads) /\ Len(w) = Len(one) + Len(waitingList)
          /\ \A i \in 1 .. Len(one) + Len(waitingList) :
                w[i] = IF i <= Len(one) THEN one[i] ELSE waitingList[i - Len(one)]
      BY <1>2, <2>1, <2>2, ConcatFacts
    <2> QED
      BY <1>1, <2>2, <2>3 DEF LedBy
  <1> QED
    BY <1>1, <1>3, LedListFacts

LEMMA WaitBeginStep ==
  ASSUME SelectIInv, NEW t \in Threads, NEW how \in {"poll", "limited", "forever"},
         TclpWaitForEvent(t, how)
  PROVE  SelectIInv'
  <1>0. SelectTypeOK /\ MoreTypes /\ ThreadInv /\ PollInv
    BY DEF SelectIInv
  <1> DEFINE waitForFiles == how = "poll" \/ handlers[t] # {}
  <1>1. /\ sleep[t] = "no"
        /\ notifier' = IF notifier.pc = "absent"
                       THEN [notifier EXCEPT !.pc = "compute"] ELSE notifier
        /\ pollState' = [pollState EXCEPT ![t] = IF how = "poll" THEN {"WANT"} ELSE {}]
        /\ pipe' = IF waitForFiles THEN pipe \union {"byte"} ELSE pipe
        /\ readyMasks' = [readyMasks EXCEPT ![t] = {}]
        /\ UNCHANGED <<threadVars, signalled, readyFiles>>
    BY DEF TclpWaitForEvent, Runs, Join, Trigger
  <1>2. /\ t \notin ToSet(waitingList) /\ ~signalled[t] /\ asked[t] = {}
        /\ \A u \in ToSet(waitingList) : u \in Threads /\ u # t
    BY <1>0, <1>1, AwakeFacts
  <1>3. \/ /\ eventReady[t] /\ eventReady' = [eventReady EXCEPT ![t] = FALSE]
           /\ UNCHANGED <<sleep, waitingList, asked>>
        \/ /\ ~eventReady[t] /\ UNCHANGED eventReady
           /\ sleep' = [sleep EXCEPT ![t] = how]
           /\ waitingList' = IF waitForFiles THEN <<t>> \o waitingList ELSE waitingList
           /\ asked' = [asked EXCEPT ![t] = IF how = "poll" THEN Readable(t) ELSE {}]
    BY <1>0 DEF TclpWaitForEvent, MoreTypes
  <1>4. /\ waitingList' \in Seq(Threads) /\ IsInjective(waitingList')
        /\ \/ ToSet(waitingList') = ToSet(waitingList)
           \/ /\ ToSet(waitingList') = ToSet(waitingList) \union {t}
              /\ waitForFiles /\ sleep'[t] = how
    <2>1. waitingList \in Seq(Threads) /\ IsInjective(waitingList)
      BY <1>0 DEF SelectTypeOK, MoreTypes
    <2>2. CASE waitingList' = waitingList
      BY <2>1, <2>2
    <2>3. CASE waitingList' = <<t>> \o waitingList /\ waitForFiles /\ sleep'[t] = how
      BY <1>0, <1>2, <2>3, JoinedListFacts
    <2>4. sleep' = [sleep EXCEPT ![t] = how] => sleep'[t] = how
      BY <1>0 DEF SelectTypeOK
    <2> QED
      BY <1>3, <2>2, <2>3, <2>4
  <1>5. /\ sleep' \in [Threads -> {"no", "poll", "limited", "forever"}]
        /\ asked' \in [Threads -> SUBSET Files] /\ eventReady' \in [Threads -> BOOLEAN]
        /\ \A u \in Threads : u # t => /\ sleep'[u] = sleep[u] /\ asked'[u] = asked[u]
                                       /\ eventReady'[u] = eventReady[u]
        /\ \/ sleep'[t] = "no" /\ asked'[t] = {}
           \/ /\ sleep'[t] = how /\ ~eventReady'[t]
              /\ asked'[t] = IF how = "poll" THEN Readable(t) ELSE {}
    <2>1. /\ sleep \in [Threads -> {"no", "poll", "limited", "forever"}]
          /\ asked \in [Threads -> SUBSET Files] /\ eventReady \in [Threads -> BOOLEAN]
          /\ Readable(t) \subseteq Files
      BY <1>0 DEF SelectTypeOK, MoreTypes, Readable
    <2>2. CASE /\ eventReady' = [eventReady EXCEPT ![t] = FALSE]
               /\ UNCHANGED <<sleep, waitingList, asked>>
      BY <1>1, <1>2, <2>1, <2>2
    <2>3. CASE /\ ~eventReady[t] /\ UNCHANGED eventReady
               /\ sleep' = [sleep EXCEPT ![t] = how]
               /\ asked' = [asked EXCEPT ![t] = IF how = "poll" THEN Readable(t) ELSE {}]
      BY <2>1, <2>3
    <2> QED
      BY <1>3, <2>2, <2>3
  <1>6. /\ pollState' \in [Threads -> SUBSET {"WANT", "DONE"}]
        /\ readyMasks' \in [Threads -> SUBSET Files]
        /\ "DONE" \notin pollState'[t]
        /\ \A u \in Threads : u # t => /\ pollState'[u] = pollState[u]
                                       /\ readyMasks'[u] = readyMasks[u]
    BY <1>0, <1>1 DEF SelectTypeOK
  <1>7. notifier' \in NotifierStates /\ (notifier' = notifier \/ notifier'.pc = "compute")
    BY <1>0, <1>1 DEF MoreTypes, NotifierStates
  <1>8. /\ pipe \subseteq pipe' /\ pipe' \subseteq {"byte", "q"}
        /\ waitForFiles => pipe' # {}
    BY <1>0, <1>1 DEF SelectTypeOK
  <1> HIDE DEF waitForFiles
  <1>9. SelectTypeOK'
    <2>1. ASSUME NEW u \in Threads
          PROVE  /\ u \in ToSet(waitingList') => sleep'[u] # "no"
                 /\ sleep'[u] # "no" /\ eventReady'[u] => signalled[u]
      <3>1. /\ u \in ToSet(waitingList) => sleep[u] # "no"
            /\ sleep[u] # "no" /\ eventReady[u] => signalled[u]
        BY <1>0 DEF SelectTypeOK, OnList
      <3>2. CASE u # t
        BY <1>4, <1>5, <3>1, <3>2
      <3>3. CASE u = t
        BY <1>2, <1>4, <1>5, <3>3
      <3> QED
        BY <3>2, <3>3
    <2> QED
      BY <1>0, <1>1, <1>4, <1>5, <1>6, <1>7, <1>8, <2>1
         DEF SelectTypeOK, MoreTypes, NotifierStates, threadVars, OnList
  <1>10. MoreTypes'
    BY <1>0, <1>1, <1>4, <1>5, <1>7 DEF MoreTypes, threadVars
  <1>11. ThreadInv'
    <2>1. RoomForEvents'
      BY <1>0, <1>1 DEF ThreadInv, RoomForEvents, threadVars
    <2>2. SignalledAsleep'
      BY <1>0, <1>1, <1>2, <1>5 DEF ThreadInv, SignalledAsleep
    <2>3. AskedIsReadable'
      <3>1. ASSUME NEW u \in Threads
            PROVE  asked'[u] \subseteq Readable(u) /\ (asked'[u] # {} => sleep'[u] = "poll")
        <4>1. asked[u] \subseteq Readable(u) /\ (asked[u] # {} => sleep[u] = "poll")
          BY <1>0 DEF ThreadInv, AskedIsReadable
        <4> QED
          BY <1>5, <4>1
      <3>2. \A u : Readable(u)' = Readable(u)
        BY <1>1 DEF Readable, threadVars
      <3> QED
        BY <3>1, <3>2 DEF AskedIsReadable
    <2> QED
      BY <2>1, <2>2, <2>3 DEF ThreadInv
  <1>12. FoundIfSignalled'
    BY <1>0, <1>1, <1>2, <1>5, <1>6 DEF PollInv, FoundIfSignalled
  <1>13. SelectsForTheList' /\ PolledIsSelected'
    <2>1. CASE notifier' # notifier
      BY <1>7, <2>1, Elsewhere
    <2>2. CASE notifier' = notifier /\ ToSet(waitingList') = ToSet(waitingList)
      BY <1>1, <1>2, <1>5, <1>6, <1>8, <2>2, ListLeftAlone DEF threadVars
    <2>3. CASE notifier' = notifier /\ ToSet(waitingList') = ToSet(waitingList) \union {t}
               /\ waitForFiles
      <3>1. SelectsForTheList'
        BY <1>8, <2>3 DEF SelectsForTheList
      <3>2. PolledIsSelected'
        BY <1>1, <1>2, <1>5, <1>6, <2>3, PolledKept DEF threadVars
      <3> QED
        BY <3>1, <3>2
    <2> QED
      BY <1>4, <2>1, <2>2, <2>3
  <1> QED
    BY <1>9, <1>10, <1>11, <1>12, <1>13 DEF SelectIInv, PollInv

LEMMA LeftListFacts ==
  ASSUME SelectTypeOK, MoreTypes, NEW t, NEW w, w = Unlinked(waitingList, {t})
  PROVE  /\ w \in Seq(Threads) /\ IsInjective(w)
         /\ ToSet(w) = ToSet(waitingList) \ {t}
  <1>1. PICK m \in Nat : m = Len(waitingList)
    BY ListFacts
  <1>2. waitingList \in Seq(Threads)
    BY ListFacts
  <1>3. w \in Seq(Threads) /\ Selects(waitingList, {t}, w, m)
    BY <1>1, <1>2, UnlinkedSelects
  <1>4. PICK n \in Nat : n = Len(w)
    BY <1>3, LenProperties
  <1>5. PICK e \in [1 .. n -> 1 .. m] : Embeds(waitingList, {t}, w, m, n, e)
    BY <1>3, <1>4 DEF Selects
  <1>6. /\ \A i, j \in 1 .. n : i < j => e[i] < e[j]
        /\ \A i \in 1 .. n : w[i] = waitingList[e[i]] /\ waitingList[e[i]] # t
        /\ \A p \in 1 .. m : waitingList[p] # t => \E i \in 1 .. n : e[i] = p
    BY <1>5 DEF Embeds
  <1>7. IsInjective(w) /\ ToSet(w) \subseteq ToSet(waitingList)
    <2>1. e \in [1 .. n -> 1 .. Len(waitingList)]
      BY <1>1
    <2>2. \A i \in 1 .. n : w[i] = waitingList[e[i]]
      BY <1>6
    <2>3. \A i, j \in 1 .. n : i < j => e[i] < e[j]
      BY <1>6
    <2>4. w \in Seq(Threads)
      BY <1>3
    <2> QED
      BY <1>4, <2>1, <2>2, <2>3, <2>4, SublistFacts
  <1>8. \A u : u \in ToSet(w) <=> \E i \in 1 .. n : w[i] = u
    BY <1>3, <1>4, ToSetFacts
  <1>9. t \notin ToSet(w)
    BY <1>6, <1>8
  <1>10. ASSUME NEW u \in ToSet(waitingList), u # t PROVE u \in ToSet(w)
    <2>1. PICK p \in 1 .. m : waitingList[p] = u
      BY <1>1, <1>10, ListFacts
    <2>2. PICK i \in 1 .. n : e[i] = p
      BY <1>6, <1>10, <2>1
    <2> QED
      BY <1>6, <1>8, <2>1, <2>2
  <1> QED
    BY <1>3, <1>7, <1>9, <1>10

\* An event is queued for a file only if there is none: one fits.
LEMMA QueueFacts ==
  ASSUME SelectTypeOK, MoreTypes, RoomForEvents, NEW t \in Threads, QueueFileEvents(t)
  PROVE  /\ events' \in [Threads -> [Files -> 0 .. MaxEvents]]
         /\ readyMask' \in [Threads -> SUBSET Files]
         /\ \A u \in Threads :
               /\ readyMask'[u] \subseteq { f \in handlers[u] : events'[u][f] > 0 }
               /\ \A f \in handlers[u] \ readyMask'[u] : events'[u][f] < MaxEvents
  <1>1. PICK found : found = handlers[t] \intersect readyMasks[t]
    OBVIOUS
  <1>2. /\ readyMask' = [readyMask EXCEPT ![t] = @ \union found]
        /\ events' = [events EXCEPT ![t] = [f \in Files |->
                         IF f \in found \ readyMask[t] THEN events[t][f] + 1
                         ELSE events[t][f]]]
    BY <1>1 DEF QueueFileEvents, SelectTypeOK
  <1>3. /\ events \in [Threads -> [Files -> 0 .. MaxEvents]]
        /\ readyMask \in [Threads -> SUBSET Files] /\ handlers \in [Threads -> SUBSET Files]
        /\ \A u \in Threads :
               /\ readyMask[u] \subseteq { f \in handlers[u] : events[u][f] > 0 }
               /\ \A f \in handlers[u] \ readyMask[u] : events[u][f] < MaxEvents
    BY DEF SelectTypeOK, MoreTypes, RoomForEvents
  <1>4. PICK q : q = [f \in Files |-> IF f \in found \ readyMask[t] THEN events[t][f] + 1
                                      ELSE events[t][f]]
    OBVIOUS
  <1>5. found \subseteq handlers[t] /\ found \subseteq Files
    BY <1>1, <1>3
  <1>6. ASSUME NEW f \in Files
        PROVE  /\ q[f] \in 0 .. MaxEvents
               /\ f \in found \ readyMask[t] => q[f] > 0
               /\ f \notin found \ readyMask[t] => q[f] = events[t][f]
    <2>1. events[t][f] \in 0 .. MaxEvents
      BY <1>3
    <2>2. CASE f \in found \ readyMask[t]
      <3>1. events[t][f] < MaxEvents
        BY <1>3, <1>5, <2>2
      <3>2. q[f] = events[t][f] + 1
        BY <1>4, <2>2
      <3> QED
        BY <2>1, <2>2, <3>1, <3>2, MaxEventsAssumption
    <2>3. CASE f \notin found \ readyMask[t]
      BY <1>4, <2>1, <2>3
    <2> QED
      BY <2>2, <2>3
  <1>7. q \in [Files -> 0 .. MaxEvents]
    BY <1>4, <1>6
  <1>8. /\ events' \in [Threads -> [Files -> 0 .. MaxEvents]]
        /\ events'[t] = q /\ \A u \in Threads : u # t => events'[u] = events[u]
    BY <1>2, <1>3, <1>4, <1>7
  <1>9. /\ readyMask' \in [Threads -> SUBSET Files]
        /\ readyMask'[t] = readyMask[t] \union found
        /\ \A u \in Threads : u # t => readyMask'[u] = readyMask[u]
    BY <1>2, <1>3, <1>5
  <1>10. ASSUME NEW u \in Threads
         PROVE  /\ readyMask'[u] \subseteq { f \in handlers[u] : events'[u][f] > 0 }
                /\ \A f \in handlers[u] \ readyMask'[u] : events'[u][f] < MaxEvents
    <2>1. CASE u # t
      BY <1>3, <1>8, <1>9, <2>1
    <2>2. CASE u = t
      <3>1. ASSUME NEW f \in readyMask'[t] PROVE f \in handlers[t] /\ q[f] > 0
        <4>1. CASE f \in readyMask[t]
          BY <1>3, <1>6, <4>1
        <4>2. CASE f \in found \ readyMask[t]
          BY <1>5, <1>6, <4>2
        <4> QED
          BY <1>9, <3>1, <4>1, <4>2
      <3>2. ASSUME NEW f \in handlers[t] \ readyMask'[t] PROVE q[f] < MaxEvents
        <4>1. f \notin found /\ f \notin readyMask[t] /\ f \in Files
          BY <1>3, <1>9, <3>2
        <4> QED
          BY <1>3, <1>6, <3>2, <4>1
      <3> QED
        BY <1>8, <2>2, <3>1, <3>2
    <2> QED
      BY <2>1, <2>2
  <1> QED
    BY <1>8, <1>9, <1>10

LEMMA ReturnStep ==
  ASSUME SelectIInv, NEW t \in Threads, WaitReturns(t)
  PROVE  SelectIInv'
  <1>0. SelectTypeOK /\ MoreTypes /\ ThreadInv /\ PollInv
    BY DEF SelectIInv
  <1>1. /\ sleep' = [sleep EXCEPT ![t] = "no"] /\ signalled' = [signalled EXCEPT ![t] = FALSE]
        /\ eventReady' = [eventReady EXCEPT ![t] = FALSE]
        /\ asked' = [asked EXCEPT ![t] = {}]
        /\ waitingList' = Unlinked(waitingList, {t})
        /\ pipe' = IF OnList(t) THEN pipe \union {"byte"} ELSE pipe
        /\ QueueFileEvents(t)
        /\ UNCHANGED <<using, finalizing, handlers, pollState, readyMasks, notifier,
                       readyFiles>>
    BY DEF WaitReturns, Leave, Trigger
  <1>2. /\ waitingList' \in Seq(Threads) /\ IsInjective(waitingList')
        /\ ToSet(waitingList') = ToSet(waitingList) \ {t}
    BY <1>0, <1>1, LeftListFacts
  <1>3. /\ events' \in [Threads -> [Files -> 0 .. MaxEvents]]
        /\ readyMask' \in [Threads -> SUBSET Files]
        /\ \A u \in Threads :
               /\ readyMask'[u] \subseteq { f \in handlers[u] : events'[u][f] > 0 }
               /\ \A f \in handlers[u] \ readyMask'[u] : events'[u][f] < MaxEvents
    BY <1>0, <1>1, QueueFacts DEF ThreadInv
  <1>4. /\ sleep' \in [Threads -> {"no", "poll", "limited", "forever"}]
        /\ signalled' \in [Threads -> BOOLEAN] /\ eventReady' \in [Threads -> BOOLEAN]
        /\ asked' \in [Threads -> SUBSET Files]
        /\ sleep'[t] = "no" /\ ~signalled'[t] /\ ~eventReady'[t] /\ asked'[t] = {}
        /\ \A u \in Threads : u # t =>
              /\ sleep'[u] = sleep[u] /\ signalled'[u] = signalled[u]
              /\ eventReady'[u] = eventReady[u] /\ asked'[u] = asked[u]
    BY <1>0, <1>1 DEF SelectTypeOK, MoreTypes
  <1>5. SelectTypeOK'
    <2>1. ASSUME NEW u \in Threads
          PROVE  /\ u \in ToSet(waitingList') => sleep'[u] # "no"
                 /\ sleep'[u] # "no" /\ eventReady'[u] => signalled'[u]
      <3>1. /\ u \in ToSet(waitingList) => sleep[u] # "no"
            /\ sleep[u] # "no" /\ eventReady[u] => signalled[u]
        BY <1>0 DEF SelectTypeOK, OnList
      <3> QED
        BY <1>2, <1>4, <3>1
    <2>2. pipe' \subseteq {"byte", "q"}
      BY <1>0, <1>1 DEF SelectTypeOK
    <2> QED
      BY <1>0, <1>1, <1>2, <1>3, <1>4, <2>1, <2>2 DEF SelectTypeOK, OnList
  <1>6. MoreTypes'
    BY <1>0, <1>1, <1>2, <1>3, <1>4 DEF MoreTypes
  <1>7. ThreadInv'
    <2>1. RoomForEvents'
      BY <1>1, <1>3 DEF RoomForEvents
    <2>2. SignalledAsleep'
      BY <1>0, <1>4 DEF ThreadInv, SignalledAsleep
    <2>3. AskedIsReadable'
      <3>1. ASSUME NEW u \in Threads
            PROVE  asked'[u] \subseteq Readable(u) /\ (asked'[u] # {} => sleep'[u] = "poll")
        <4>1. asked[u] \subseteq Readable(u) /\ (asked[u] # {} => sleep[u] = "poll")
          BY <1>0 DEF ThreadInv, AskedIsReadable
        <4> QED
          BY <1>4, <4>1
      <3>2. \A u : Readable(u)' = Readable(u)
        BY <1>1 DEF Readable
      <3> QED
        BY <3>1, <3>2 DEF AskedIsReadable
    <2> QED
      BY <2>1, <2>2, <2>3 DEF ThreadInv
  <1>8. FoundIfSignalled'
    BY <1>0, <1>1, <1>4 DEF PollInv, FoundIfSignalled
  <1>9. SelectsForTheList' /\ PolledIsSelected'
    <2>1. \A u \in ToSet(waitingList) : asked'[u] \subseteq asked[u]
      <3>1. \A u \in ToSet(waitingList) : u \in Threads
        BY <1>0, ListFacts
      <3> QED
        BY <1>4, <3>1
    <2>2. CASE t \notin ToSet(waitingList)
      <3>1. ToSet(waitingList') = ToSet(waitingList) /\ pipe' = pipe
        BY <1>1, <1>2, <2>2 DEF OnList
      <3> QED
        BY <1>1, <2>1, <3>1, ListLeftAlone
    <2>3. CASE t \in ToSet(waitingList)
      <3>1. SelectsForTheList'
        BY <1>1, <2>3 DEF SelectsForTheList, OnList
      <3>2. PolledIsSelected'
        BY <1>1, <1>2, <2>1, PolledKept
      <3> QED
        BY <3>1, <3>2
    <2> QED
      BY <2>2, <2>3
  <1> QED
    BY <1>5, <1>6, <1>7, <1>8, <1>9 DEF SelectIInv, PollInv

LEMMA NotifyStep ==
  ASSUME SelectIInv, NEW t \in Threads, TclpAlertNotifier(t)
  PROVE  SelectIInv'
  <1>0. SelectTypeOK /\ MoreTypes /\ ThreadInv /\ PollInv
    BY DEF SelectIInv
  <1>1. /\ eventReady' = [eventReady EXCEPT ![t] = TRUE]
        /\ signalled' = [signalled EXCEPT ![t] = sleep[t] # "no"]
        /\ asked' = [asked EXCEPT ![t] = {}]
        /\ UNCHANGED <<threadVars, sleep, pollState, readyMasks, waitingList, pipe,
                       notifier, readyFiles>>
    BY DEF TclpAlertNotifier
  <1>2. /\ signalled' \in [Threads -> BOOLEAN] /\ eventReady' \in [Threads -> BOOLEAN]
        /\ asked' \in [Threads -> SUBSET Files]
        /\ signalled'[t] <=> sleep[t] # "no"
        /\ asked'[t] = {}
        /\ \A u \in Threads : u # t =>
              /\ signalled'[u] = signalled[u] /\ eventReady'[u] = eventReady[u]
              /\ asked'[u] = asked[u]
    BY <1>0, <1>1 DEF SelectTypeOK, MoreTypes
  <1>3. SelectTypeOK'
    <2>1. ASSUME NEW u \in Threads, sleep[u] # "no", eventReady'[u] PROVE signalled'[u]
      <3>1. CASE u = t
        BY <1>2, <2>1, <3>1
      <3>2. CASE u # t
        BY <1>0, <1>2, <2>1, <3>2 DEF SelectTypeOK
      <3> QED
        BY <3>1, <3>2
    <2> QED
      BY <1>0, <1>1, <1>2, <2>1 DEF SelectTypeOK, threadVars, OnList
  <1>4. MoreTypes'
    BY <1>0, <1>1, <1>2 DEF MoreTypes, threadVars
  <1>5. ThreadInv'
    <2>1. RoomForEvents'
      BY <1>0, <1>1 DEF ThreadInv, RoomForEvents, threadVars
    <2>2. SignalledAsleep'
      BY <1>0, <1>1, <1>2 DEF ThreadInv, SignalledAsleep
    <2>3. AskedIsReadable'
      BY <1>0, <1>1, <1>2 DEF ThreadInv, AskedIsReadable, Readable, threadVars
    <2> QED
      BY <2>1, <2>2, <2>3 DEF ThreadInv
  <1>6. FoundIfSignalled'
    BY <1>0, <1>1, <1>2 DEF PollInv, FoundIfSignalled
  <1>7. SelectsForTheList' /\ PolledIsSelected'
    <2>1. \A u \in ToSet(waitingList) : u \in Threads
      BY <1>0, ListFacts
    <2>2. \A u \in ToSet(waitingList) : asked'[u] \subseteq asked[u]
      BY <1>2, <2>1
    <2> QED
      BY <1>1, <2>2, ListLeftAlone DEF threadVars
  <1> QED
    BY <1>3, <1>4, <1>5, <1>6, <1>7 DEF SelectIInv, PollInv

-----------------------------------------------------------------------------
(***************************************************************************)
(* The steps of the notifier thread.                                       *)
(***************************************************************************)
LEMMA ComputeStep ==
  ASSUME SelectIInv, ComputeMasks
  PROVE  SelectIInv'
  <1>0. SelectTypeOK /\ MoreTypes /\ ThreadInv /\ PollInv
    BY DEF SelectIInv
  <1>1. PICK polls : polls = { t \in ToSet(waitingList) : "WANT" \in pollState[t] }
    OBVIOUS
  <1>2. /\ pollState' = [t \in Threads |-> IF t \in polls
                            THEN pollState[t] \union {"DONE"} ELSE pollState[t]]
        /\ notifier' = [ pc |-> "select", poll |-> polls # {},
                         masks |-> UNION { handlers[t] : t \in ToSet(waitingList) } ]
        /\ UNCHANGED <<threadVars, sleep, signalled, eventReady, readyMasks,
                       waitingList, pipe, readyFiles, asked>>
    BY <1>1 DEF ComputeMasks
  <1>3. \A t \in ToSet(waitingList) : t \in Threads
    BY <1>0, ListFacts
  <1>4. /\ pollState' \in [Threads -> SUBSET {"WANT", "DONE"}]
        /\ \A t \in Threads : "WANT" \in pollState'[t] => "WANT" \in pollState[t]
    BY <1>0, <1>2 DEF SelectTypeOK
  <1>5. notifier'.masks \subseteq Files
    BY <1>0, <1>2, <1>3 DEF SelectTypeOK
  <1>6. notifier' \in NotifierStates
    BY <1>2, <1>5 DEF NotifierStates
  <1>7. SelectTypeOK'
    BY <1>0, <1>2, <1>4, <1>6 DEF SelectTypeOK, NotifierStates, threadVars, OnList
  <1>8. MoreTypes'
    BY <1>0, <1>2, <1>6 DEF MoreTypes, threadVars
  <1>9. ThreadInv'
    BY <1>0, <1>2 DEF ThreadInv, RoomForEvents, SignalledAsleep, AskedIsReadable, Readable,
                      threadVars
  <1>10. SelectsForTheList'
    <2> SUFFICES ASSUME ~notifier'.poll
                 PROVE  /\ notifier'.masks = UNION { handlers'[t] : t \in ToSet(waitingList') }
                        /\ \A t \in ToSet(waitingList') : "WANT" \notin pollState'[t]
      BY DEF SelectsForTheList
    <2>1. handlers' = handlers /\ waitingList' = waitingList
      BY <1>2 DEF threadVars
    <2>2. \A t \in ToSet(waitingList) : "WANT" \notin pollState[t]
      BY <1>1, <1>2
    <2> QED
      BY <1>2, <1>3, <1>4, <2>1, <2>2
  <1>11. PolledIsSelected'
    <2>1. notifier'.pc = "select"
      BY <1>2
    <2>2. \A t \in ToSet(waitingList) : handlers[t] \subseteq notifier'.masks
      BY <1>2
    <2> QED
      BY <1>2, <2>1, <2>2 DEF PolledIsSelected, NotifierAt, threadVars
  <1>12. FoundIfSignalled'
    BY <1>0, <1>2 DEF PollInv, FoundIfSignalled
  <1> QED
    BY <1>7, <1>8, <1>9, <1>10, <1>11, <1>12 DEF SelectIInv, PollInv

\* What was readable all the time for a thread marked POLL_DONE is found.
LEMMA SelectStep ==
  ASSUME SelectIInv, Select
  PROVE  SelectIInv'
  <1>0. SelectTypeOK /\ MoreTypes /\ ThreadInv /\ PollInv
    BY DEF SelectIInv
  <1>1. /\ notifier.pc = "select"
        /\ notifier' = [pc |-> "alert", masks |-> notifier.masks \intersect readyFiles,
                        poll |-> FALSE]
        /\ UNCHANGED <<threadVars, waitVars, pipe, readyFiles, asked>>
    BY DEF Select, NotifierAt
  <1>2. notifier' \in NotifierStates
    BY <1>0, <1>1 DEF NotifierStates, MoreTypes
  <1>3. SelectTypeOK'
    BY <1>0, <1>1, <1>2 DEF SelectTypeOK, NotifierStates, threadVars, waitVars, OnList
  <1>4. MoreTypes'
    BY <1>0, <1>1, <1>2 DEF MoreTypes, threadVars, waitVars
  <1>5. ThreadInv'
    BY <1>0, <1>1 DEF ThreadInv, RoomForEvents, SignalledAsleep, AskedIsReadable, Readable,
                      threadVars, waitVars
  <1>6. SelectsForTheList'
    BY <1>1 DEF SelectsForTheList, NotifierAt
  <1>7. PolledIsSelected'
    <2>1. ASSUME NEW t \in ToSet(waitingList), "DONE" \in pollState[t]
          PROVE  asked[t] \subseteq notifier.masks \intersect readyFiles
      <3>1. t \in Threads
        BY <1>0, ListFacts
      <3>2. asked[t] \subseteq handlers[t] \intersect readyFiles
        BY <1>0, <3>1 DEF ThreadInv, AskedIsReadable, Readable
      <3>3. handlers[t] \subseteq notifier.masks
        BY <1>0, <1>1, <2>1 DEF PollInv, PolledIsSelected, Polled, NotifierAt
      <3> QED
        BY <3>2, <3>3
    <2> QED
      BY <1>1, <2>1 DEF PolledIsSelected, Polled, NotifierAt, waitVars
  <1>8. FoundIfSignalled'
    BY <1>0, <1>1 DEF PollInv, FoundIfSignalled, waitVars
  <1> QED
    BY <1>3, <1>4, <1>5, <1>6, <1>7, <1>8 DEF SelectIInv, PollInv

\* The list without the thread that is alerted.
LEMMA AlertedListFacts ==
  ASSUME SelectTypeOK, MoreTypes, NEW p \in 1 .. Len(waitingList),
         NEW w, w = RemoveAt(waitingList, p)
  PROVE  /\ w \in Seq(Threads) /\ IsInjective(w)
         /\ ToSet(w) \subseteq ToSet(waitingList) \ {waitingList[p]}
  <1>1. PICK m \in Nat : m = Len(waitingList)
    BY ListFacts
  <1>2. /\ waitingList \in Seq(Threads) /\ p \in 1 .. m
        /\ \A i, j \in 1 .. m : waitingList[i] = waitingList[j] => i = j
    BY <1>1, ListFacts
  <1>3. PICK n \in Nat : n = m - 1
    BY <1>2
  <1>4. /\ w \in Seq(Threads) /\ Len(w) = n
        /\ \A i \in 1 .. n : w[i] = IF i < p THEN waitingList[i] ELSE waitingList[i + 1]
    <2>1. w \in Seq(Threads) /\ Len(w) = Len(waitingList) - 1
      BY <1>2, RemovedFacts
    <2>2. ASSUME NEW i \in 1 .. Len(waitingList) - 1
          PROVE  w[i] = IF i < p THEN waitingList[i] ELSE waitingList[i + 1]
      <3>1. waitingList \in Seq(Threads)
        BY <1>2
      <3> QED
        BY <3>1, RemovedFacts
    <2> QED
      BY <1>1, <1>3, <2>1, <2>2
  <1>5. PICK e : e = [i \in 1 .. n |-> IF i < p THEN i ELSE i + 1]
    OBVIOUS
  <1>6. e \in [1 .. n -> 1 .. Len(waitingList)]
    BY <1>1, <1>2, <1>3, <1>5
  <1>7. /\ \A i, j \in 1 .. n : i < j => e[i] < e[j]
        /\ \A i \in 1 .. n : w[i] = waitingList[e[i]] /\ e[i] # p
    BY <1>2, <1>3, <1>4, <1>5
  <1>8. IsInjective(w) /\ ToSet(w) \subseteq ToSet(waitingList)
    <2>1. \A i, j \in 1 .. n : i < j => e[i] < e[j]
      BY <1>7
    <2>2. \A i \in 1 .. n : w[i] = waitingList[e[i]]
      BY <1>7
    <2>3. w \in Seq(Threads) /\ n = Len(w)
      BY <1>4
    <2> QED
      BY <1>6, <2>1, <2>2, <2>3, SublistFacts
  <1>9. waitingList[p] \notin ToSet(w)
    <2>1. ASSUME waitingList[p] \in ToSet(w) PROVE FALSE
      <3>1. w \in Seq(Threads)
        BY <1>4
      <3>2. PICK i \in 1 .. Len(w) : w[i] = waitingList[p]
        BY <2>1, <3>1, ToSetFacts
      <3>3. i \in 1 .. n
        BY <1>4, <3>2
      <3>4. e[i] \in 1 .. m /\ e[i] # p /\ waitingList[e[i]] = waitingList[p]
        BY <1>1, <1>6, <1>7, <3>2, <3>3
      <3> QED
        BY <1>2, <3>4
    <2> QED
      BY <2>1
  <1> QED
    BY <1>4, <1>8, <1>9

LEMMA FirstDue ==
  ASSUME SelectTypeOK, MoreTypes, NEW due, due \subseteq DOMAIN waitingList, due # {}
  PROVE  Min(due) \in due /\ Min(due) \in 1 .. Len(waitingList)
  <1>1. waitingList \in Seq(Threads)
    BY ListFacts
  <1>2. DOMAIN waitingList = 1 .. Len(waitingList)
    BY <1>1, LenProperties
  <1>3. due \in SUBSET Nat
    BY <1>2
  <1>4. \E m \in due : \A k \in due : m <= k
    BY <1>3, SmallestOf
  <1>5. Min(due) \in due
    BY <1>4 DEF Min
  <1> QED
    BY <1>2, <1>5

LEMMA AlertFirstStep ==
  ASSUME SelectIInv, AlertThreads
  PROVE  SelectIInv'
  <1>0. SelectTypeOK /\ MoreTypes /\ ThreadInv /\ PollInv
    BY DEF SelectIInv
  <1>1. PICK due : due = { k \in DOMAIN waitingList :
                             Found(waitingList[k]) # {} \/ Polled(waitingList[k]) }
    OBVIOUS
  <1>2. /\ notifier.pc = "alert"
        /\ notifier' = [notifier EXCEPT !.pc = "read", !.masks = {}]
        /\ UNCHANGED <<threadVars, pipe, readyFiles, asked, sleep>>
    BY DEF AlertThreads, NotifierAt, waitVars
  <1>3. notifier' \in NotifierStates /\ notifier'.pc = "read"
    BY <1>0, <1>2 DEF MoreTypes, NotifierStates
  <1>4. SelectsForTheList' /\ PolledIsSelected'
    BY <1>3, Elsewhere
  <1>5. AskedIsReadable' /\ RoomForEvents'
    BY <1>0, <1>2 DEF ThreadInv, AskedIsReadable, RoomForEvents, Readable, threadVars
  <1>6. CASE UNCHANGED waitVars
    <2>1. SelectTypeOK'
      BY <1>0, <1>2, <1>3, <1>6 DEF SelectTypeOK, NotifierStates, threadVars, waitVars, OnList
    <2>2. MoreTypes'
      BY <1>0, <1>2, <1>3, <1>6 DEF MoreTypes, threadVars, waitVars
    <2>3. SignalledAsleep' /\ FoundIfSignalled'
      BY <1>0, <1>2, <1>6 DEF ThreadInv, PollInv, SignalledAsleep, FoundIfSignalled, waitVars
    <2> QED
      BY <1>4, <1>5, <2>1, <2>2, <2>3 DEF SelectIInv, ThreadInv, PollInv
  <1>7. CASE due # {}
    <2>1. PICK p \in 1 .. Len(waitingList) : p = Min(due) /\ p \in due
      BY <1>0, <1>1, <1>7, FirstDue
    <2>2. PICK t \in Threads : t = waitingList[p] /\ t \in ToSet(waitingList) /\ sleep[t] # "no"
      BY <1>0, ListFacts
    <2>3. Found(t) # {} \/ Polled(t)
      BY <1>1, <2>1, <2>2
    <2>4. /\ readyMasks' = [readyMasks EXCEPT ![t] = @ \union Found(t)]
          /\ eventReady' = [eventReady EXCEPT ![t] = TRUE]
          /\ signalled' = [signalled EXCEPT ![t] = TRUE]
          /\ pollState' = [pollState EXCEPT ![t] = {}]
          /\ waitingList' = RemoveAt(waitingList, p)
      BY <1>1, <1>7, <2>1, <2>2 DEF AlertThreads
    <2>5. /\ waitingList' \in Seq(Threads) /\ IsInjective(waitingList')
          /\ ToSet(waitingList') \subseteq ToSet(waitingList)
      BY <1>0, <2>4, AlertedListFacts
    <2>6. Found(t) \subseteq Files /\ (asked[t] # {} => Found(t) # {})
      <3>1. asked[t] \subseteq handlers[t] /\ handlers[t] \subseteq Files
        BY <1>0 DEF ThreadInv, AskedIsReadable, Readable, SelectTypeOK
      <3>2. Polled(t) => asked[t] \subseteq notifier.masks
        BY <1>0, <1>2, <2>2 DEF PollInv, PolledIsSelected, NotifierAt
      <3> QED
        BY <2>3, <3>1, <3>2 DEF Found
    <2>7. /\ readyMasks' \in [Threads -> SUBSET Files]
          /\ eventReady' \in [Threads -> BOOLEAN] /\ signalled' \in [Threads -> BOOLEAN]
          /\ pollState' \in [Threads -> SUBSET {"WANT", "DONE"}]
          /\ readyMasks'[t] = readyMasks[t] \union Found(t)
          /\ signalled'[t]
          /\ \A u \in Threads : u # t =>
                /\ readyMasks'[u] = readyMasks[u] /\ eventReady'[u] = eventReady[u]
                /\ signalled'[u] = signalled[u]
      BY <1>0, <2>4, <2>6 DEF SelectTypeOK, MoreTypes
    <2>8. SelectTypeOK'
      <3>1. ASSUME NEW u \in Threads
            PROVE  /\ u \in ToSet(waitingList') => sleep[u] # "no"
                   /\ sleep[u] # "no" /\ eventReady'[u] => signalled'[u]
        <4>1. /\ u \in ToSet(waitingList) => sleep[u] # "no"
              /\ sleep[u] # "no" /\ eventReady[u] => signalled[u]
          BY <1>0 DEF SelectTypeOK, OnList
        <4> QED
          BY <2>5, <2>7, <4>1
      <3> QED
        BY <1>0, <1>2, <1>3, <2>5, <2>7, <3>1
           DEF SelectTypeOK, NotifierStates, threadVars, OnList
    <2>9. MoreTypes'
      BY <1>0, <1>2, <1>3, <2>5, <2>7 DEF MoreTypes, threadVars
    <2>10. SignalledAsleep'
      BY <1>0, <1>2, <2>2, <2>7 DEF ThreadInv, SignalledAsleep
    <2>11. FoundIfSignalled'
      BY <1>0, <1>2, <2>6, <2>7 DEF PollInv, FoundIfSignalled
    <2> QED
      BY <1>4, <1>5, <2>8, <2>9, <2>10, <2>11 DEF SelectIInv, ThreadInv, PollInv
  <1>8. due = {} => UNCHANGED waitVars
    BY <1>1 DEF AlertThreads
  <1> QED
    BY <1>6, <1>7, <1>8

\* The steps that change no thread.
LEMMA RestStep ==
  ASSUME SelectIInv, ReadPipe \/ NotifierQuits \/ NotifierJoined
  PROVE  SelectIInv'
  <1>0. SelectTypeOK /\ MoreTypes /\ ThreadInv /\ PollInv
    BY DEF SelectIInv
  <1>1. UNCHANGED <<using, handlers, readyMask, events, waitVars, readyFiles, asked>>
    BY DEF ReadPipe, NotifierQuits, NotifierJoined, threadVars
  <1>2. /\ finalizing' \in Threads \union {NULL} /\ pipe' \subseteq {"byte", "q"}
        /\ notifier' \in NotifierStates
        /\ \/ notifier'.pc \in {"absent", "compute", "quit"}
           \/ notifier' = notifier /\ pipe' = pipe
    <2>1. /\ finalizing \in Threads \union {NULL} /\ pipe \subseteq {"byte", "q"}
          /\ notifier \in NotifierStates
      BY <1>0 DEF SelectTypeOK, MoreTypes
    <2>2. CASE ReadPipe
      <3>1. /\ pipe' = {} /\ finalizing' = finalizing
            /\ \/ notifier' = [notifier EXCEPT !.pc = "quit"]
               \/ notifier' = [notifier EXCEPT !.pc = "compute"]
        BY <2>2 DEF ReadPipe, threadVars
      <3> QED
        BY <2>1, <3>1 DEF NotifierStates
    <2>3. CASE NotifierQuits
      <3>1. notifier' = Absent /\ pipe' = pipe /\ finalizing' = finalizing
        BY <2>3 DEF NotifierQuits, threadVars
      <3> QED
        BY <2>1, <3>1 DEF NotifierStates, Absent
    <2>4. CASE NotifierJoined
      BY <2>1, <2>4 DEF NotifierJoined
    <2> QED
      BY <2>2, <2>3, <2>4
  <1>3. SelectTypeOK'
    BY <1>0, <1>1, <1>2 DEF SelectTypeOK, NotifierStates, waitVars, OnList
  <1>4. MoreTypes'
    BY <1>0, <1>1, <1>2 DEF MoreTypes, waitVars
  <1>5. ThreadInv'
    BY <1>0, <1>1 DEF ThreadInv, RoomForEvents, SignalledAsleep, AskedIsReadable, Readable,
                      waitVars
  <1>6. SelectsForTheList' /\ PolledIsSelected'
    <2>1. CASE notifier'.pc \in {"absent", "compute", "quit"}
      BY <2>1, Elsewhere
    <2>2. CASE notifier' = notifier /\ pipe' = pipe
      BY <1>1, <2>2, ListLeftAlone DEF waitVars
    <2> QED
      BY <1>2, <2>1, <2>2
  <1>7. FoundIfSignalled'
    BY <1>0, <1>1 DEF PollInv, FoundIfSignalled, waitVars
  <1> QED
    BY <1>3, <1>4, <1>5, <1>6, <1>7 DEF SelectIInv, PollInv

LEMMA ReadableStep ==
  ASSUME SelectIInv, NEW f \in Files, FileBecomesReadable(f)
  PROVE  SelectIInv'
  <1>0. SelectTypeOK /\ MoreTypes /\ ThreadInv /\ PollInv
    BY DEF SelectIInv
  <1>1. /\ readyFiles' = readyFiles \union {f}
        /\ UNCHANGED <<threadVars, waitVars, pipe, notifier, asked>>
    BY DEF FileBecomesReadable
  <1>2. SelectTypeOK' /\ MoreTypes'
    BY <1>0, <1>1 DEF SelectTypeOK, MoreTypes, threadVars, waitVars, OnList
  <1>3. ThreadInv'
    BY <1>0, <1>1 DEF ThreadInv, RoomForEvents, SignalledAsleep, AskedIsReadable, Readable,
                      threadVars, waitVars
  <1>4. SelectsForTheList' /\ PolledIsSelected'
    BY <1>1, ListLeftAlone DEF threadVars, waitVars
  <1>5. FoundIfSignalled'
    BY <1>0, <1>1 DEF PollInv, FoundIfSignalled, waitVars
  <1> QED
    BY <1>2, <1>3, <1>4, <1>5 DEF SelectIInv, PollInv

LEMMA SelectStutters ==
  ASSUME SelectIInv, UNCHANGED selectVars
  PROVE  SelectIInv'
  <1>0. SelectTypeOK /\ MoreTypes /\ ThreadInv /\ PollInv
    BY DEF SelectIInv
  <1>1. UNCHANGED <<threadVars, waitVars, pipe, notifier, readyFiles, asked>>
    BY DEF selectVars
  <1>2. SelectTypeOK' /\ MoreTypes'
    BY <1>0, <1>1 DEF SelectTypeOK, MoreTypes, threadVars, waitVars, OnList
  <1>3. ThreadInv'
    BY <1>0, <1>1 DEF ThreadInv, RoomForEvents, SignalledAsleep, AskedIsReadable, Readable,
                      threadVars, waitVars
  <1>4. SelectsForTheList' /\ PolledIsSelected'
    BY <1>1, ListLeftAlone DEF threadVars, waitVars
  <1>5. FoundIfSignalled'
    BY <1>0, <1>1 DEF PollInv, FoundIfSignalled, waitVars
  <1> QED
    BY <1>2, <1>3, <1>4, <1>5 DEF SelectIInv, PollInv

LEMMA SelectNextIInv == SelectIInv /\ [SelectNext]_selectVars => SelectIInv'
  <1> SUFFICES ASSUME SelectIInv, [SelectNext]_selectVars PROVE SelectIInv'
    OBVIOUS
  <1>1. ASSUME NEW t \in Threads, ThreadStep(t) PROVE SelectIInv'
    <2>1. CASE TclpInitNotifier(t) \/ TclpFinalizeNotifier(t)
      BY <2>1, BeginEndStep
    <2>2. CASE \E f \in Files : \/ TclpCreateFileHandler(t, f)
                                \/ TclpDeleteFileHandler(t, f)
                                \/ FileHandlerEventProc(t, f)
      BY <2>2, HandlerStep, EventProcStep
    <2>3. CASE \E how \in {"poll", "limited", "forever"} : TclpWaitForEvent(t, how)
      BY <2>3, WaitBeginStep
    <2>4. CASE WaitReturns(t)
      BY <2>4, ReturnStep
    <2>5. CASE TclpAlertNotifier(t)
      BY <2>5, NotifyStep
    <2> QED
      BY <1>1, <2>1, <2>2, <2>3, <2>4, <2>5 DEF ThreadStep
  <1>2. CASE NotifierStep
    BY <1>2, ComputeStep, SelectStep, AlertFirstStep, RestStep DEF NotifierStep
  <1>3. CASE NotifierJoined
    BY <1>3, RestStep
  <1>4. CASE \E f \in Files : FileBecomesReadable(f)
    BY <1>4, ReadableStep
  <1>5. CASE UNCHANGED selectVars
    BY <1>5, SelectStutters
  <1> QED
    BY <1>1, <1>2, <1>3, <1>4, <1>5 DEF SelectNext

\* The strengthening holds in every state.
LEMMA SelectIInvIsInvariant == SelectSpec => []SelectIInv
  BY SelectInitIInv, SelectNextIInv, PTL DEF SelectSpec

\* The types; the waiting list holds sleeping threads, each once; a readyMask
\* is set only while an event for the file is queued; an alert that comes while
\* a thread sleeps is never lost.
THEOREM SelectTypeCorrect == SelectSpec => []SelectTypeOK
  <1>1. SelectIInv => SelectTypeOK
    BY DEF SelectIInv
  <1> QED
    BY <1>1, SelectIInvIsInvariant, PTL

\* While the notifier thread blocks in select with nothing in its pipe, it
\* watches the files of exactly the threads on the waiting list, and none of
\* them waits for its first pass.
THEOREM WatchesTheWaiting == SelectSpec => []SelectsForTheList
  <1>1. SelectIInv => SelectsForTheList
    BY DEF SelectIInv, PollInv
  <1> QED
    BY <1>1, SelectIInvIsInvariant, PTL

\* A poll that no other thread cuts short finds a file, if one was readable
\* from its beginning to its end.
PollFindsStep ==
    \A t \in Threads :
        sleep[t] = "poll" /\ sleep'[t] = "no" /\ asked[t] # {} => readyMasks[t] # {}

\* Only the return from the wait wakes a thread.
LEMMA WakesByReturn ==
  ASSUME SelectIInv, [SelectNext]_selectVars, NEW t \in Threads,
         sleep[t] = "poll", sleep'[t] = "no"
  PROVE  signalled[t]
  <1>0. sleep \in [Threads -> {"no", "poll", "limited", "forever"}]
    BY DEF SelectIInv, SelectTypeOK
  <1>1. ASSUME NEW u \in Threads, ThreadStep(u) PROVE WaitReturns(t)
    <2>1. CASE WaitReturns(u)
      <3>1. sleep' = [sleep EXCEPT ![u] = "no"]
        BY <2>1 DEF WaitReturns
      <3>2. u = t
        BY <1>0, <3>1
      <3> QED
        BY <2>1, <3>2
    <2>2. CASE \E how \in {"poll", "limited", "forever"} : TclpWaitForEvent(u, how)
      <3>1. PICK how \in {"poll", "limited", "forever"} : TclpWaitForEvent(u, how)
        BY <2>2
      <3>2. sleep[u] = "no" /\ (sleep' = sleep \/ sleep' = [sleep EXCEPT ![u] = how])
        BY <3>1 DEF TclpWaitForEvent, Runs
      <3> QED
        BY <1>0, <3>2
    <2>3. CASE \/ TclpInitNotifier(u) \/ TclpFinalizeNotifier(u)
               \/ \E f \in Files : \/ TclpCreateFileHandler(u, f)
                                   \/ TclpDeleteFileHandler(u, f)
                                   \/ FileHandlerEventProc(u, f)
               \/ TclpAlertNotifier(u)
      <3>1. sleep' = sleep
        BY <2>3 DEF TclpInitNotifier, TclpFinalizeNotifier, TclpCreateFileHandler,
                    TclpDeleteFileHandler, FileHandlerEventProc, TclpAlertNotifier, waitVars
      <3> QED
        BY <3>1
    <2> QED
      BY <1>1, <2>1, <2>2, <2>3 DEF ThreadStep
  <1>2. ASSUME \/ NotifierStep \/ NotifierJoined
               \/ \E f \in Files : FileBecomesReadable(f)
               \/ UNCHANGED selectVars
        PROVE  FALSE
    <2>1. sleep' = sleep
      BY <1>2 DEF NotifierStep, ComputeMasks, Select, AlertThreads, ReadPipe, NotifierQuits,
                  NotifierJoined, FileBecomesReadable, selectVars, waitVars
    <2> QED
      BY <2>1
  <1>3. WaitReturns(t)
    <2>1. CASE \E u \in Threads : ThreadStep(u)
      BY <1>1, <2>1
    <2>2. CASE ~ \E u \in Threads : ThreadStep(u)
      BY <1>2, <2>2 DEF SelectNext
    <2> QED
      BY <2>1, <2>2
  <1> QED
    BY <1>3 DEF WaitReturns

LEMMA PollFindsByStep == SelectIInv /\ [SelectNext]_selectVars => PollFindsStep
  <1> SUFFICES ASSUME SelectIInv, [SelectNext]_selectVars, NEW t \in Threads,
                      sleep[t] = "poll", sleep'[t] = "no", asked[t] # {}
               PROVE  readyMasks[t] # {}
    BY DEF PollFindsStep
  <1>1. signalled[t]
    BY WakesByReturn
  <1> QED
    BY <1>1 DEF SelectIInv, PollInv, FoundIfSignalled

THEOREM PollsFind == SelectSpec => PollFinds
  <1>1. SelectSpec => [][PollFindsStep]_selectVars
    BY PollFindsByStep, SelectIInvIsInvariant, PTL DEF SelectSpec
  <1>2. PollFinds <=> [][PollFindsStep]_selectVars
    BY PTL DEF PollFinds, PollFindsStep
  <1> QED
    BY <1>1, <1>2, PTL
=============================================================================

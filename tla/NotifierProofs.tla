--------------------------- MODULE NotifierProofs ---------------------------
(***************************************************************************)
(* For every set of events and sources, every program and any depth of     *)
(* nested calls: the thread never sleeps over work; between two rounds the *)
(* sources are polled; servicing is not re-entered unless it was asked     *)
(* for; and all that is proved of the queue holds under the loop.          *)
(***************************************************************************)
EXTENDS Notifier, SeqLemmas

EQ == INSTANCE EventQueueProofs

(***************************************************************************)
(* The inductive invariant, besides that of the queue.  Below the top of   *)
(* the C stack every frame is in a handler; the frames of Tcl_ServiceEvent *)
(* belong to the calls at "event", in order, and the outer ones run events *)
(* that their calls want; a marked async handler of which no alert is      *)
(* left was marked behind the sleep of a call that will return without     *)
(* another; and a finished round that nothing has opened again is not      *)
(* serviced before the sources are polled.                                 *)
(***************************************************************************)
HandlerPcs == AsyncPcs \union {"event", "idleProc", "oneIdle"}
OuterInHandlers ==
    \A i \in 1 .. Len(calls) - 1 : calls[i].pc \in HandlerPcs

IncreasingAt(at) == \A j, k \in 1 .. Len(stack) : j < k => at[j] < at[k]
AreEventFrames(at) ==
    \A i \in 1 .. Len(calls) :
        calls[i].pc = "event" <=> \E k \in 1 .. Len(stack) : at[k] = i
OuterWanted(at) ==
    \A k \in 1 .. Len(stack) :
        at[k] < Len(calls) => Wanted(stack[k], calls[at[k]].flags)
EventFrames ==
    \E at \in [1 .. Len(stack) -> 1 .. Len(calls)] :
        IncreasingAt(at) /\ AreEventFrames(at) /\ OuterWanted(at)

LeftOK == \A i \in 1 .. Len(calls) : calls[i].left <= idle

ServiceAllPolled ==
    \A i \in 1 .. Len(calls) :
        calls[i].fn = "ServiceAll" =>
            calls[i].second = TRUE /\ calls[i].pc \notin {"setup", "wait", "gather"}

BlocksIfIdle ==
    At("wait") /\ top.zero = FALSE =>
        /\ queue = <<>> \/ alerting \/ alerted
        /\ "IDLE" \in top.flags => idle = 0

MarkSeen ==
    asyncReady /\ ~alerted /\ calls # <<>> =>
        /\ top.pc \notin {"setup", "wait"}
        /\ top.pc = "scan" => top.second = TRUE
        /\ top.pc = "idle" => top.fn = "ServiceAll"
        /\ top.pc = "event" => Wanted(Last(stack), top.flags)

RoundClosed ==
    ~roundOpen =>
        /\ roundFinished /\ delim = NULL
        /\ At("sample") \/ At("open") => FALSE
        /\ At("scan") /\ top.fn = "DoOneEvent" => top.second = FALSE

Framed == OuterInHandlers /\ EventFrames /\ LeftOK /\ ServiceAllPolled
LoopInv == Framed /\ BlocksIfIdle /\ MarkSeen /\ RoundClosed
IInv == EQ!IInv /\ TypeOK /\ LoopInv

USE QueueAssumption, SourcesAssumption, FlagSetsAssumption, PostersAssumption,
    ScenarioAssumption, CallsAssumption DEF AsyncPcs, HandlerPcs

-----------------------------------------------------------------------------
(***************************************************************************)
(* The steps of the queue, and what the loop needs to know of them.        *)
(***************************************************************************)
LEMMA QueueEventFacts ==
  ASSUME NEW e \in Events, NEW pos \in {"TAIL", "HEAD", "MARK"}, Q!QueueEvent(e, pos)
  PROVE  EQ!Next /\ stack' = stack
  <1>1. EQ!QueueEvent(e, pos)
    BY Zenon DEF Q!QueueEvent, Q!MutexFree, Q!InQueue, Q!InService, Q!Slot,
       Q!LastAfterInsert, Q!round, Q!sample, Q!service, Q!InsertAt, Q!ToSet,
       EQ!QueueEvent, EQ!MutexFree, EQ!InQueue, EQ!InService, EQ!Slot,
       EQ!LastAfterInsert, EQ!round, EQ!sample, EQ!service, EQ!InsertAt, EQ!ToSet
  <1>2. EQ!Next
    BY <1>1 DEF EQ!Next, EQ!Positions
  <1>3. stack' = stack
    BY DEF Q!QueueEvent, Q!service
  <1> QED
    BY <1>2, <1>3

LEMMA ServiceEventFacts ==
  ASSUME Q!TypeOK, Q!ServiceEvent
  PROVE  /\ EQ!Next
         /\ \E e \in Events : stack' = Append(stack, e)
         /\ UNCHANGED <<queue, roundFinished, delim>>
  <1>1. EQ!ServiceEvent
    BY Zenon DEF Q!ServiceEvent, Q!OwnerRuns, Q!MutexFree, Q!ScanReaches, Q!list,
       Q!round, Q!sample, Q!history, EQ!ServiceEvent, EQ!OwnerRuns, EQ!MutexFree,
       EQ!ScanReaches, EQ!list, EQ!round, EQ!sample, EQ!history
  <1>2. \E e \in Events : stack' = Append(stack, e)
    <2>1. PICK q \in 1 .. Len(queue) : stack' = Append(stack, queue[q])
      BY DEF Q!ServiceEvent
    <2>2. queue[q] \in Events
      BY ElementOfSeq DEF Q!TypeOK
    <2> QED
      BY <2>1, <2>2
  <1>3. UNCHANGED <<queue, roundFinished, delim>>
    BY DEF Q!ServiceEvent, Q!list, Q!round
  <1> QED
    BY <1>1, <1>2, <1>3 DEF EQ!Next

LEMMA ReturnsOneFacts ==
  ASSUME Q!HandlerReturnsOne
  PROVE  /\ EQ!Next /\ stack # <<>> /\ stack' = Front(stack)
         /\ Last(stack) = delim => roundFinished' = TRUE /\ delim' = NULL
         /\ Last(stack) # delim => UNCHANGED <<roundFinished, delim>>
  <1>1. EQ!HandlerReturnsOne
    BY Zenon DEF Q!HandlerReturnsOne, Q!OwnerRuns, Q!MutexFree, Q!InQueue, Q!Unlink,
       Q!Pred, Q!MarkerAfterUnlink, Q!list, Q!round, Q!sample, Q!history, Q!ToSet,
       Q!Last, Q!Front, Q!RemoveAt, EQ!HandlerReturnsOne, EQ!OwnerRuns, EQ!MutexFree,
       EQ!InQueue, EQ!Unlink, EQ!Pred, EQ!MarkerAfterUnlink, EQ!list, EQ!round,
       EQ!sample, EQ!history, EQ!ToSet, EQ!Last, EQ!Front, EQ!RemoveAt
  <1>2. /\ stack # <<>> /\ stack' = Front(stack)
        /\ Last(stack) = delim => roundFinished' = TRUE /\ delim' = NULL
        /\ Last(stack) # delim => UNCHANGED <<roundFinished, delim>>
    BY Zenon DEF Q!HandlerReturnsOne, Q!round, Q!Last, Q!Front, Last, Front
  <1> QED
    BY <1>1, <1>2 DEF EQ!Next

LEMMA ReturnsZeroFacts ==
  ASSUME Q!TypeOK, Q!HandlerReturnsZero
  PROVE  /\ EQ!Next /\ stack # <<>>
         /\ \/ stack' = Front(stack)
            \/ \E e \in Events : stack' = Append(Front(stack), e)
         /\ UNCHANGED <<queue, roundFinished, delim>>
  <1>1. EQ!HandlerReturnsZero
    BY Zenon DEF Q!HandlerReturnsZero, Q!OwnerRuns, Q!MutexFree, Q!ScanReaches, Q!list,
       Q!round, Q!sample, Q!history, Q!Last, Q!Front, EQ!HandlerReturnsZero,
       EQ!OwnerRuns, EQ!MutexFree, EQ!ScanReaches, EQ!list, EQ!round, EQ!sample,
       EQ!history, EQ!Last, EQ!Front
  <1>2. \/ stack' = Front(stack)
        \/ \E q \in 1 .. Len(queue) : stack' = Append(Front(stack), queue[q])
    BY Zenon DEF Q!HandlerReturnsZero, Q!Front, Front
  <1>3. \A q \in 1 .. Len(queue) : queue[q] \in Events
    BY ElementOfSeq DEF Q!TypeOK
  <1>4. stack # <<>> /\ UNCHANGED <<queue, roundFinished, delim>>
    BY DEF Q!HandlerReturnsZero, Q!list, Q!round
  <1> QED
    BY <1>1, <1>2, <1>3, <1>4 DEF EQ!Next

LEMMA SampleFacts ==
  ASSUME Q!SampleLast
  PROVE  EQ!Next /\ UNCHANGED <<stack, queue, roundFinished, delim>>
  <1>1. EQ!SampleLast
    BY Zenon DEF Q!SampleLast, Q!OwnerRuns, Q!MutexFree, Q!list, Q!round, Q!service,
       Q!history, EQ!SampleLast, EQ!OwnerRuns, EQ!MutexFree, EQ!list, EQ!round,
       EQ!service, EQ!history
  <1> QED
    BY <1>1 DEF EQ!Next, Q!SampleLast, Q!service, Q!list, Q!round

LEMMA OpenFacts ==
  ASSUME Q!OpenRound
  PROVE  EQ!Next /\ UNCHANGED <<stack, queue>>
  <1>1. EQ!OpenRound
    BY Zenon DEF Q!OpenRound, Q!list, Q!service, Q!history, EQ!OpenRound, EQ!list,
       EQ!service, EQ!history
  <1> QED
    BY <1>1 DEF EQ!Next, Q!OpenRound, Q!service, Q!list

LEMMA DeleteEventsFacts ==
  ASSUME Q!DeleteEvents
  PROVE  EQ!Next /\ UNCHANGED <<stack, queue, roundFinished, delim>>
  <1>1. EQ!DeleteEvents
    BY Zenon DEF Q!DeleteEvents, Q!OwnerRuns, Q!MutexFree, Q!list, Q!round, Q!sample,
       Q!service, Q!history, EQ!DeleteEvents, EQ!OwnerRuns, EQ!MutexFree, EQ!list,
       EQ!round, EQ!sample, EQ!service, EQ!history
  <1> QED
    BY <1>1 DEF EQ!Next, Q!DeleteEvents, Q!service, Q!list, Q!round

\* A step of Tcl_DeleteEvents takes an event out of the list or none.
LEMMA DeleteStepFacts ==
  ASSUME Q!TypeOK, DeleteStep
  PROVE  /\ EQ!Next /\ stack' = stack
         /\ queue = <<>> => queue' = <<>>
         /\ delim = NULL => UNCHANGED <<roundFinished, delim>>
  <1>1. CASE Q!DeleteThis
    <2>1. EQ!DeleteThis
      BY <1>1, Zenon DEF Q!DeleteThis, Q!Unlink, Q!Pred, Q!MarkerAfterUnlink,
         Q!DelimAfterDelete, Q!sample, Q!history, Q!RemoveAt, EQ!DeleteThis, EQ!Unlink,
         EQ!Pred, EQ!MarkerAfterUnlink, EQ!DelimAfterDelete, EQ!sample, EQ!history,
         EQ!RemoveAt
    <2>2. /\ walk \in 1 .. Len(queue) /\ stack' = stack
          /\ roundFinished' = (roundFinished /\ delim # queue[walk])
          /\ delim' = IF delim = queue[walk] THEN Q!Pred(walk) ELSE delim
      BY <1>1 DEF Q!DeleteThis, Q!DelimAfterDelete
    <2>3. queue[walk] \in Events /\ queue # <<>>
      BY <2>2, ElementOfSeq, EmptySeq DEF Q!TypeOK
    <2>4. roundFinished \in BOOLEAN
      BY DEF Q!TypeOK
    <2> QED
      BY <2>1, <2>2, <2>3, <2>4 DEF EQ!Next
  <1>2. CASE Q!RetainThis
    <2>1. EQ!RetainThis
      BY <1>2, Zenon DEF Q!RetainThis, Q!list, Q!round, Q!sample, Q!service, Q!history,
         EQ!RetainThis, EQ!list, EQ!round, EQ!sample, EQ!service, EQ!history
    <2> QED
      BY <1>2, <2>1 DEF EQ!Next, Q!RetainThis, Q!service, Q!list, Q!round
  <1>3. CASE Q!DeleteEventsReturns
    <2>1. EQ!DeleteEventsReturns
      BY <1>3, Zenon DEF Q!DeleteEventsReturns, Q!list, Q!round, Q!sample, Q!service,
         Q!history, EQ!DeleteEventsReturns, EQ!list, EQ!round, EQ!sample, EQ!service,
         EQ!history
    <2> QED
      BY <1>3, <2>1 DEF EQ!Next, Q!DeleteEventsReturns, Q!service, Q!list, Q!round
  <1> QED
    BY <1>1, <1>2, <1>3 DEF DeleteStep

LEMMA SameQueueTypes == EQ!TypeOK <=> Q!TypeOK
  BY Zenon DEF EQ!TypeOK, Q!TypeOK, EQ!Pointers, Q!Pointers, EQ!Positions, Q!Positions

LEMMA SameQueueVars ==
  UNCHANGED queueVars => UNCHANGED Q!vars /\ UNCHANGED EQ!vars
  BY DEF queueVars, Q!vars, EQ!vars, Q!list, Q!round, Q!sample, Q!service, Q!history,
     EQ!list, EQ!round, EQ!sample, EQ!service, EQ!history

-----------------------------------------------------------------------------
(***************************************************************************)
(* Frames, and the stack of calls.                                         *)
(***************************************************************************)
LEMMA FieldFacts ==
  ASSUME NEW c \in Frames
  PROVE  /\ c.fn \in {"DoOneEvent", "ServiceAll"}
         /\ c.flags \in SUBSET (Kinds \union {"DONT_WAIT"})
         /\ c.old \in {"NONE", "ALL"} /\ c.pc \in Pcs
         /\ c.second \in BOOLEAN /\ c.zero \in BOOLEAN
         /\ c.found \in SUBSET Events /\ c.left \in Nat
         /\ c.asked \in BOOLEAN
  BY DEF Frames

LEMMA CallsFacts ==
  ASSUME TypeOK
  PROVE  /\ calls \in Seq(Frames) /\ Len(calls) \in Nat
         /\ calls = <<>> <=> Len(calls) = 0
         /\ \A i \in 1 .. Len(calls) : calls[i] \in Frames
         /\ top = calls[Len(calls)]
         /\ calls # <<>> => /\ Len(calls) \in 1 .. Len(calls)
                            /\ top \in Frames
  <1>1. calls \in Seq(Frames)
    BY DEF TypeOK
  <1>2. top = calls[Len(calls)]
    BY Zenon DEF top, Last
  <1> QED
    BY <1>1, <1>2, EmptySeq, LenProperties, ElementOfSeq

\* Replacing the top.
LEMMA NewTop ==
  ASSUME TypeOK, calls # <<>>, NEW c \in Frames,
         calls' = [calls EXCEPT ![Len(calls)] = c]
  PROVE  /\ calls' \in Seq(Frames) /\ Len(calls') = Len(calls) /\ calls' # <<>>
         /\ \A i \in 1 .. Len(calls) - 1 : calls'[i] = calls[i]
         /\ calls'[Len(calls)] = c /\ top' = c
  <1>1. calls \in Seq(Frames)
    BY CallsFacts
  <1>2. /\ calls' \in Seq(Frames) /\ Len(calls') = Len(calls) /\ calls' # <<>>
        /\ \A i \in 1 .. Len(calls) - 1 : calls'[i] = calls[i]
        /\ calls'[Len(calls)] = c /\ calls'[Len(calls')] = c
    BY <1>1, TopFacts
  <1>3. top' = calls'[Len(calls')]
    BY Zenon DEF top, Last
  <1> QED
    BY <1>2, <1>3

LEMMA GotoFacts ==
  ASSUME TypeOK, calls # <<>>, NEW pc \in Pcs, Goto(pc)
  PROVE  /\ calls' \in Seq(Frames) /\ Len(calls') = Len(calls) /\ calls' # <<>>
         /\ \A i \in 1 .. Len(calls) - 1 : calls'[i] = calls[i]
         /\ calls'[Len(calls)] = top'
         /\ top' = [top EXCEPT !.pc = pc]
         /\ top' \in Frames
  <1>1. top \in Frames /\ top = calls[Len(calls)]
    BY CallsFacts
  <1>2. [top EXCEPT !.pc = pc] \in Frames
    BY <1>1 DEF Frames
  <1>3. calls' = [calls EXCEPT ![Len(calls)] = [top EXCEPT !.pc = pc]]
    BY <1>1 DEF Goto
  <1> QED
    BY <1>2, <1>3, NewTop

LEMMA PushFrame ==
  ASSUME TypeOK, NEW c \in Frames, calls' = Append(calls, c)
  PROVE  /\ calls' \in Seq(Frames) /\ Len(calls') = Len(calls) + 1 /\ calls' # <<>>
         /\ \A i \in 1 .. Len(calls) : calls'[i] = calls[i]
         /\ calls'[Len(calls) + 1] = c /\ top' = c
  <1>1. calls \in Seq(Frames)
    BY CallsFacts
  <1>2. /\ calls' \in Seq(Frames) /\ Len(calls') = Len(calls) + 1 /\ calls' # <<>>
        /\ \A i \in 1 .. Len(calls) : calls'[i] = calls[i]
        /\ calls'[Len(calls) + 1] = c /\ calls'[Len(calls')] = c
    BY <1>1, PushFacts
  <1>3. top' = calls'[Len(calls')]
    BY Zenon DEF top, Last
  <1> QED
    BY <1>2, <1>3

Alike(c, d) ==
    /\ c.fn = d.fn /\ c.flags = d.flags /\ c.old = d.old /\ c.pc = d.pc
    /\ c.second = d.second /\ c.zero = d.zero /\ c.left = d.left
Popped ==
    /\ calls' \in Seq(Frames) /\ Len(calls') = Len(calls) - 1
    /\ \A i \in 1 .. Len(calls) - 1 : Alike(calls'[i], calls[i])

LEMMA PopFrame ==
  ASSUME TypeOK, calls # <<>>, Popped
  PROVE  /\ calls' \in Seq(Frames) /\ Len(calls') = Len(calls) - 1
         /\ calls' # <<>> => /\ Len(calls) - 1 \in 1 .. Len(calls) - 1
                             /\ Alike(top', calls[Len(calls) - 1])
  <1>1. calls \in Seq(Frames) /\ Len(calls) \in Nat
    BY CallsFacts
  <1>2. calls' \in Seq(Frames) /\ Len(calls') = Len(calls) - 1
    BY DEF Popped
  <1>3. top' = calls'[Len(calls')]
    BY Zenon DEF top, Last
  <1>4. calls' # <<>> => Len(calls) - 1 \in 1 .. Len(calls) - 1
    BY <1>1, <1>2, EmptySeq
  <1> QED
    BY <1>2, <1>3, <1>4 DEF Popped

LEMMA FrontPops ==
  ASSUME TypeOK, calls # <<>>, calls' = Front(calls)
  PROVE  Popped
  <1>1. calls \in Seq(Frames)
    BY CallsFacts
  <1>2. /\ calls' \in Seq(Frames) /\ Len(calls') = Len(calls) - 1
        /\ \A i \in 1 .. Len(calls) - 1 : calls'[i] = calls[i]
    BY <1>1, FrontFacts
  <1> QED
    BY <1>2 DEF Popped, Alike

LEMMA LeaveModePops ==
  ASSUME TypeOK, calls # <<>>, LeaveMode
  PROVE  /\ Popped
         /\ \A i \in 1 .. Len(calls) - 1 :
               calls'[i].asked = IF i = Len(calls) - 1 THEN top.asked ELSE calls[i].asked
  <1> DEFINE n == Len(calls)
             as(i) == IF i = n - 1 THEN top.asked ELSE calls[i].asked
             g(i) == [calls[i] EXCEPT !.asked = as(i)]
  <1>1. /\ n \in Nat /\ n \in 1 .. n /\ n - 1 \in Nat /\ top \in Frames
        /\ \A i \in 1 .. n - 1 : calls[i] \in Frames /\ as(i) \in BOOLEAN
    BY CallsFacts, FieldFacts
  <1>2. calls' = [i \in 1 .. n - 1 |-> g(i)]
    BY DEF LeaveMode
  <1>3. \A i \in 1 .. n - 1 : g(i) \in Frames /\ Alike(g(i), calls[i]) /\ g(i).asked = as(i)
    <2> SUFFICES ASSUME NEW i \in 1 .. n - 1
                 PROVE  g(i) \in Frames /\ Alike(g(i), calls[i]) /\ g(i).asked = as(i)
      OBVIOUS
    <2>1. calls[i] \in Frames /\ as(i) \in BOOLEAN
      BY <1>1
    <2> HIDE DEF as
    <2> QED
      BY <2>1 DEF Frames, Alike
  <1> HIDE DEF g
  <1>4. /\ calls' \in Seq(Frames) /\ Len(calls') = n - 1
        /\ \A i \in 1 .. n - 1 : calls'[i] = g(i)
    BY <1>1, <1>2, <1>3, IsASeq
  <1> QED
    BY <1>3, <1>4 DEF Popped

SameCall(c, d) == c.fn = d.fn /\ c.old = d.old /\ c.asked = d.asked
SameCalls ==
    /\ calls' \in Seq(Frames) /\ Len(calls') = Len(calls)
    /\ \A i \in 1 .. Len(calls) : SameCall(calls'[i], calls[i])

\* The lists of idle handlers left to the calls shrink with the list itself.
LEMMA RunIdleFacts ==
  ASSUME TypeOK, LeftOK, calls # <<>>, idle > 0, NEW pc \in Pcs, RunIdle(pc)
  PROVE  /\ calls' \in Seq(Frames) /\ Len(calls') = Len(calls) /\ calls' # <<>>
         /\ \A i \in 1 .. Len(calls) - 1 :
               /\ calls'[i].fn = calls[i].fn /\ calls'[i].flags = calls[i].flags
               /\ calls'[i].pc = calls[i].pc /\ calls'[i].second = calls[i].second
         /\ \A i \in 1 .. Len(calls) : calls'[i].left <= idle'
         /\ top'.pc = pc /\ top'.fn = top.fn /\ top'.second = top.second
         /\ top'.flags = top.flags
         /\ calls'[Len(calls)] = top'
         /\ idle' \in 0 .. MaxIdle /\ SameCalls
  <1> DEFINE n == Len(calls)
             lf(i) == IF calls[i].left > 0 THEN calls[i].left - 1 ELSE 0
             g(i) == [calls[i] EXCEPT !.left = lf(i),
                                      !.pc = IF i = n THEN pc ELSE calls[i].pc]
  <1>1. /\ n \in Nat /\ n \in 1 .. n /\ top = calls[n]
        /\ \A i \in 1 .. n : calls[i] \in Frames /\ calls[i].left \in Nat /\ calls[i].pc \in Pcs
    BY CallsFacts, FieldFacts
  <1>2. calls' = [i \in 1 .. n |-> g(i)]
    BY DEF RunIdle
  <1>3. \A i \in 1 .. n : /\ g(i) \in Frames /\ g(i).left = lf(i)
                          /\ g(i).pc = IF i = n THEN pc ELSE calls[i].pc
                          /\ g(i).fn = calls[i].fn /\ g(i).flags = calls[i].flags
                          /\ g(i).second = calls[i].second
                          /\ SameCall(g(i), calls[i])
    <2> SUFFICES ASSUME NEW i \in 1 .. n
                 PROVE  /\ g(i) \in Frames /\ g(i).left = lf(i)
                        /\ g(i).pc = IF i = n THEN pc ELSE calls[i].pc
                        /\ g(i).fn = calls[i].fn /\ g(i).flags = calls[i].flags
                        /\ g(i).second = calls[i].second
                        /\ SameCall(g(i), calls[i])
      OBVIOUS
    <2>1. calls[i] \in Frames /\ lf(i) \in Nat
      BY <1>1
    <2>2. (IF i = n THEN pc ELSE calls[i].pc) \in Pcs
      BY <1>1
    <2> HIDE DEF lf
    <2> QED
      BY <2>1, <2>2 DEF Frames, SameCall
  <1>4. \A i \in 1 .. n : lf(i) <= idle - 1
    BY <1>1 DEF LeftOK, TypeOK
  <1> HIDE DEF g, lf
  <1>5. /\ calls' \in Seq(Frames) /\ Len(calls') = n /\ calls' # <<>>
        /\ \A i \in 1 .. n : calls'[i] = g(i)
    BY <1>1, <1>2, <1>3, IsASeq, LenProperties, EmptySeq
  <1>6. top' = calls'[Len(calls')]
    BY Zenon DEF top, Last
  <1>7. idle' = idle - 1 /\ idle' \in 0 .. MaxIdle
    <2>1. idle \in 0 .. MaxIdle
      BY DEF TypeOK
    <2>2. idle' = idle - 1
      BY DEF RunIdle
    <2> QED
      BY <2>1, <2>2
  <1>8. \A i \in 1 .. n - 1 : i \in 1 .. n /\ i # n
    BY <1>1
  <1>9. \A i \in 1 .. n - 1 :
           /\ calls'[i].fn = calls[i].fn /\ calls'[i].flags = calls[i].flags
           /\ calls'[i].pc = calls[i].pc /\ calls'[i].second = calls[i].second
    BY <1>3, <1>5, <1>8
  <1>10. \A i \in 1 .. n : calls'[i].left <= idle'
    BY <1>3, <1>4, <1>5, <1>7
  <1>11. top' = calls'[n] /\ calls'[n] = g(n)
    BY <1>1, <1>5, <1>6
  <1>12. /\ top'.pc = pc /\ top'.fn = top.fn /\ top'.second = top.second
         /\ top'.flags = top.flags
    BY <1>1, <1>3, <1>11
  <1>13. SameCalls
    BY <1>3, <1>5 DEF SameCalls
  <1> QED
    BY <1>5, <1>7, <1>9, <1>10, <1>11, <1>12, <1>13

LEMMA ServiceIdleFacts ==
  ASSUME TypeOK, LeftOK, ServiceIdle
  PROVE  /\ calls' \in Seq(Frames) /\ Len(calls') = Len(calls) /\ calls' # <<>>
         /\ \A i \in 1 .. Len(calls) - 1 :
               /\ calls'[i].fn = calls[i].fn /\ calls'[i].flags = calls[i].flags
               /\ calls'[i].pc = calls[i].pc /\ calls'[i].second = calls[i].second
         /\ \A i \in 1 .. Len(calls) : calls'[i].left <= idle'
         /\ top'.pc = "idleProc" /\ top'.fn = top.fn /\ top'.second = top.second
         /\ top'.flags = top.flags
         /\ calls'[Len(calls)] = top'
         /\ idle' \in 0 .. MaxIdle /\ SameCalls
  <1> DEFINE n == Len(calls)
             lf(i) == IF calls[i].left > 0 THEN calls[i].left - 1 ELSE 0
             g(i) == IF i = n THEN [calls[i] EXCEPT !.left = idle - 1, !.pc = "idleProc"]
                     ELSE [calls[i] EXCEPT !.left = lf(i)]
  <1>0. calls # <<>> /\ idle > 0 /\ idle' = idle - 1
    BY DEF ServiceIdle, At, Serves
  <1>1. /\ n \in Nat /\ n \in 1 .. n /\ top = calls[n]
        /\ \A i \in 1 .. n : calls[i] \in Frames /\ calls[i].left \in Nat
    BY <1>0, CallsFacts, FieldFacts
  <1>2. idle \in 0 .. MaxIdle /\ idle - 1 \in 0 .. MaxIdle
    <2>1. idle \in 0 .. MaxIdle
      BY DEF TypeOK
    <2> QED
      BY <1>0, <2>1
  <1>3. calls' = [i \in 1 .. n |-> g(i)]
    BY DEF ServiceIdle
  <1>4. \A i \in 1 .. n : /\ g(i) \in Frames
                          /\ g(i).left = IF i = n THEN idle - 1 ELSE lf(i)
                          /\ g(i).pc = IF i = n THEN "idleProc" ELSE calls[i].pc
                          /\ g(i).fn = calls[i].fn /\ g(i).flags = calls[i].flags
                          /\ g(i).second = calls[i].second
                          /\ SameCall(g(i), calls[i])
    <2> SUFFICES ASSUME NEW i \in 1 .. n
                 PROVE  /\ g(i) \in Frames
                        /\ g(i).left = IF i = n THEN idle - 1 ELSE lf(i)
                        /\ g(i).pc = IF i = n THEN "idleProc" ELSE calls[i].pc
                        /\ g(i).fn = calls[i].fn /\ g(i).flags = calls[i].flags
                        /\ g(i).second = calls[i].second
                        /\ SameCall(g(i), calls[i])
      OBVIOUS
    <2>1. calls[i] \in Frames /\ lf(i) \in Nat /\ idle - 1 \in Nat /\ "idleProc" \in Pcs
      BY <1>1, <1>2 DEF Pcs
    <2> HIDE DEF lf
    <2>2. CASE i = n
      BY <2>1, <2>2 DEF Frames, SameCall
    <2>3. CASE i # n
      BY <2>1, <2>3 DEF Frames, SameCall
    <2> QED
      BY <2>2, <2>3
  <1>5. \A i \in 1 .. n : lf(i) <= idle - 1
    BY <1>0, <1>1, <1>2 DEF LeftOK
  <1> HIDE DEF g, lf
  <1>6. /\ calls' \in Seq(Frames) /\ Len(calls') = n /\ calls' # <<>>
        /\ \A i \in 1 .. n : calls'[i] = g(i)
    BY <1>1, <1>3, <1>4, IsASeq, LenProperties, EmptySeq
  <1>7. top' = calls'[Len(calls')]
    BY Zenon DEF top, Last
  <1>8. \A i \in 1 .. n - 1 : i \in 1 .. n /\ i # n
    BY <1>1
  <1>9. SameCalls
    BY <1>4, <1>6 DEF SameCalls
  <1>10. \A i \in 1 .. n - 1 :
            /\ calls'[i].fn = calls[i].fn /\ calls'[i].flags = calls[i].flags
            /\ calls'[i].pc = calls[i].pc /\ calls'[i].second = calls[i].second
    BY <1>4, <1>6, <1>8
  <1>11. \A i \in 1 .. n : calls'[i].left <= idle'
    <2>1. \A i \in 1 .. n : g(i).left <= idle - 1
      BY <1>2, <1>4, <1>5
    <2> QED
      BY <1>0, <1>6, <2>1
  <1>12. top' = calls'[n] /\ calls'[n] = g(n)
    BY <1>1, <1>6, <1>7
  <1>13. /\ top'.pc = "idleProc" /\ top'.fn = top.fn /\ top'.second = top.second
         /\ top'.flags = top.flags
    BY <1>1, <1>4, <1>12
  <1> QED
    BY <1>0, <1>2, <1>6, <1>9, <1>10, <1>11, <1>12, <1>13

-----------------------------------------------------------------------------
(***************************************************************************)
(* The calls at "event" and the frames of Tcl_ServiceEvent.                *)
(***************************************************************************)
LEMMA StackFacts ==
  ASSUME Q!TypeOK
  PROVE  /\ stack \in Seq(Events) /\ Len(stack) \in Nat
         /\ stack = <<>> <=> Len(stack) = 0
         /\ Last(stack) = stack[Len(stack)]
  <1>1. stack \in Seq(Events)
    BY DEF Q!TypeOK
  <1>2. Last(stack) = stack[Len(stack)]
    BY Zenon DEF Last
  <1> QED
    BY <1>1, <1>2, EmptySeq, LenProperties

IsFrameMap(at) ==
    /\ at \in [1 .. Len(stack) -> 1 .. Len(calls)]
    /\ IncreasingAt(at) /\ AreEventFrames(at) /\ OuterWanted(at)

\* The call on top is at "event" for the event on top.
LEMMA TopEvent ==
  ASSUME TypeOK, NEW at, IsFrameMap(at), At("event")
  PROVE  /\ Len(stack) \in 1 .. Len(stack)
         /\ at[Len(stack)] = Len(calls)
         /\ \A k \in 1 .. Len(stack) : k < Len(stack) => at[k] < Len(calls)
  <1>1. /\ Len(stack) \in Nat /\ Len(calls) \in Nat /\ Len(calls) \in 1 .. Len(calls)
        /\ calls[Len(calls)].pc = "event"
    BY CallsFacts, StackFacts DEF At, TypeOK
  <1>2. PICK k \in 1 .. Len(stack) : at[k] = Len(calls)
    BY <1>1 DEF IsFrameMap, AreEventFrames
  <1>3. \A j \in 1 .. Len(stack) : at[j] \in 1 .. Len(calls)
    BY DEF IsFrameMap
  <1>4. Len(stack) \in 1 .. Len(stack)
    BY <1>1, <1>2
  <1>5. ~(k < Len(stack))
    BY <1>1, <1>2, <1>3, <1>4 DEF IsFrameMap, IncreasingAt
  <1>6. k = Len(stack)
    BY <1>1, <1>2, <1>5
  <1>7. ASSUME NEW j \in 1 .. Len(stack), j < Len(stack) PROVE at[j] < Len(calls)
    <2>1. at[j] < at[Len(stack)]
      BY <1>4, <1>7 DEF IsFrameMap, IncreasingAt
    <2> QED
      BY <1>2, <1>6, <2>1
  <1> QED
    BY <1>2, <1>4, <1>6, <1>7

LEMMA TopNoEvent ==
  ASSUME TypeOK, NEW at, IsFrameMap(at), calls # <<>>, top.pc # "event"
  PROVE  \A k \in 1 .. Len(stack) : at[k] < Len(calls) /\ at[k] \in 1 .. Len(calls) - 1
  <1>1. /\ Len(stack) \in Nat /\ Len(calls) \in Nat /\ Len(calls) \in 1 .. Len(calls)
        /\ calls[Len(calls)].pc # "event"
    BY CallsFacts, StackFacts DEF TypeOK
  <1> SUFFICES ASSUME NEW k \in 1 .. Len(stack)
               PROVE  at[k] < Len(calls) /\ at[k] \in 1 .. Len(calls) - 1
    OBVIOUS
  <1>2. at[k] \in 1 .. Len(calls)
    BY DEF IsFrameMap
  <1>3. at[k] # Len(calls)
    BY <1>1, <1>2 DEF IsFrameMap, AreEventFrames
  <1> QED
    BY <1>1, <1>2, <1>3

\* The stacks do not change, but for where the top is.
LEMMA SameStack ==
  ASSUME TypeOK, OuterInHandlers, EventFrames, calls # <<>>,
         Len(calls') = Len(calls), stack' = stack,
         \A i \in 1 .. Len(calls) - 1 :
            calls'[i].pc = calls[i].pc /\ calls'[i].flags = calls[i].flags,
         calls'[Len(calls)] = top', top'.pc = "event" <=> top.pc = "event"
  PROVE  OuterInHandlers' /\ EventFrames'
  <1>1. OuterInHandlers'
    BY DEF OuterInHandlers
  <1>2. /\ Len(stack) \in Nat /\ Len(calls) \in Nat /\ Len(calls) \in 1 .. Len(calls)
        /\ calls[Len(calls)] = top
    BY CallsFacts, StackFacts DEF TypeOK
  <1>3. PICK at : IsFrameMap(at)
    BY DEF EventFrames, IsFrameMap
  <1>4. \A i \in 1 .. Len(calls) : calls'[i].pc = "event" <=> calls[i].pc = "event"
    <2> SUFFICES ASSUME NEW i \in 1 .. Len(calls)
                 PROVE  calls'[i].pc = "event" <=> calls[i].pc = "event"
      OBVIOUS
    <2>1. i = Len(calls) \/ i \in 1 .. Len(calls) - 1
      BY <1>2
    <2> QED
      BY <1>2, <2>1
  <1>5. AreEventFrames(at)'
    BY <1>3, <1>4 DEF IsFrameMap, AreEventFrames
  <1>6. OuterWanted(at)'
    <2> SUFFICES ASSUME NEW k \in 1 .. Len(stack), at[k] < Len(calls)
                 PROVE  Wanted(stack[k], calls'[at[k]].flags)
      BY DEF OuterWanted, Wanted
    <2>1. at[k] \in 1 .. Len(calls) - 1
      BY <1>2, <1>3 DEF IsFrameMap
    <2>2. calls'[at[k]].flags = calls[at[k]].flags
      BY <2>1
    <2> QED
      BY <1>3, <2>2 DEF IsFrameMap, OuterWanted
  <1>7. at \in [1 .. Len(stack') -> 1 .. Len(calls')] /\ IncreasingAt(at)'
    BY <1>3 DEF IsFrameMap, IncreasingAt
  <1> QED
    BY <1>1, <1>5, <1>6, <1>7 DEF EventFrames

\* A call from a handler, or from the program.
LEMMA CallPushed ==
  ASSUME TypeOK, OuterInHandlers, EventFrames, ProgramRuns,
         NEW c \in Frames, c.pc # "event", calls' = Append(calls, c), stack' = stack
  PROVE  OuterInHandlers' /\ EventFrames'
  <1>1. /\ Len(stack) \in Nat /\ Len(calls) \in Nat
        /\ Last(stack) = stack[Len(stack)]
        /\ calls # <<>> => Len(calls) \in 1 .. Len(calls) /\ top = calls[Len(calls)]
        /\ calls = <<>> <=> Len(calls) = 0
    BY CallsFacts, StackFacts DEF TypeOK
  <1>2. /\ Len(calls') = Len(calls) + 1
        /\ \A i \in 1 .. Len(calls) : calls'[i] = calls[i]
        /\ calls'[Len(calls) + 1] = c
    BY PushFrame
  <1>3. PICK at : IsFrameMap(at)
    BY DEF EventFrames, IsFrameMap
  <1>4. calls # <<>> => top.pc \in HandlerPcs
    BY DEF ProgramRuns, InHandler, At
  <1>5. OuterInHandlers'
    <2> SUFFICES ASSUME NEW i \in 1 .. Len(calls)
                 PROVE  calls'[i].pc \in HandlerPcs
      BY <1>1, <1>2 DEF OuterInHandlers
    <2>1. i \in 1 .. Len(calls) - 1 \/ (i = Len(calls) /\ calls # <<>>)
      BY <1>1
    <2> QED
      BY <1>1, <1>2, <1>4, <2>1 DEF OuterInHandlers
  <1>6. at \in [1 .. Len(stack') -> 1 .. Len(calls')] /\ IncreasingAt(at)'
    <2>1. \A k \in 1 .. Len(stack) : at[k] \in 1 .. Len(calls) + 1
      BY <1>1, <1>3 DEF IsFrameMap
    <2> QED
      BY <1>2, <1>3, <2>1 DEF IsFrameMap, IncreasingAt
  <1>7. AreEventFrames(at)'
    <2> SUFFICES ASSUME NEW i \in 1 .. Len(calls) + 1
                 PROVE  calls'[i].pc = "event" <=> \E k \in 1 .. Len(stack) : at[k] = i
      BY <1>2 DEF AreEventFrames
    <2>1. CASE i \in 1 .. Len(calls)
      BY <1>2, <1>3, <2>1 DEF IsFrameMap, AreEventFrames
    <2>2. CASE i = Len(calls) + 1
      <3>1. \A k \in 1 .. Len(stack) : at[k] \in 1 .. Len(calls)
        BY <1>3 DEF IsFrameMap
      <3>2. \A k \in 1 .. Len(stack) : at[k] # Len(calls) + 1
        BY <1>1, <3>1
      <3> QED
        BY <1>2, <2>2, <3>2
    <2> QED
      BY <1>1, <2>1, <2>2
  <1>8. OuterWanted(at)'
    <2> SUFFICES ASSUME NEW k \in 1 .. Len(stack)
                 PROVE  Wanted(stack[k], calls'[at[k]].flags)
      BY <1>2 DEF OuterWanted, Wanted
    <2>1. at[k] \in 1 .. Len(calls) /\ calls'[at[k]] = calls[at[k]]
      BY <1>2, <1>3 DEF IsFrameMap
    <2>2. CASE at[k] < Len(calls)
      BY <1>3, <2>1, <2>2 DEF IsFrameMap, OuterWanted
    <2>3. CASE at[k] = Len(calls)
      <3>1. calls # <<>> /\ top = calls[at[k]] /\ top.pc = "event"
        BY <1>1, <1>3, <2>1, <2>3 DEF IsFrameMap, AreEventFrames
      <3>2. At("event") /\ Wanted(Last(stack), top.flags)
        BY <3>1 DEF ProgramRuns, InHandler, At
      <3>3. k = Len(stack)
        <4>1. k < Len(stack) => at[k] < Len(calls)
          BY <1>3, <3>2, TopEvent
        <4> QED
          BY <1>1, <2>3, <4>1
      <3> QED
        BY <1>1, <2>1, <3>1, <3>2, <3>3
    <2> QED
      BY <1>1, <2>1, <2>2, <2>3
  <1> QED
    BY <1>5, <1>6, <1>7, <1>8 DEF EventFrames

\* A call returns to its caller, whose event is the one on top again.
LEMMA CallPopped ==
  ASSUME TypeOK, OuterInHandlers, EventFrames, calls # <<>>, top.pc # "event",
         Popped, stack' = stack
  PROVE  /\ OuterInHandlers' /\ EventFrames'
         /\ calls' # <<>> =>
              /\ top'.pc \in HandlerPcs
              /\ top'.pc = "event" => Wanted(Last(stack), top'.flags)
  <1> DEFINE n == Len(calls)
  <1>1. /\ Len(stack) \in Nat /\ n \in Nat \ {0}
        /\ Last(stack) = stack[Len(stack)]
    BY CallsFacts, StackFacts DEF TypeOK
  <1>2. /\ Len(calls') = n - 1
        /\ \A i \in 1 .. n - 1 : /\ calls'[i].pc = calls[i].pc
                                  /\ calls'[i].flags = calls[i].flags
        /\ calls' # <<>> => /\ n - 1 \in 1 .. n - 1 /\ top'.pc = calls[n - 1].pc
                            /\ top'.flags = calls[n - 1].flags
    BY PopFrame DEF Popped, Alike
  <1>3. PICK at : IsFrameMap(at)
    BY DEF EventFrames, IsFrameMap
  <1>4. \A k \in 1 .. Len(stack) : at[k] < n /\ at[k] \in 1 .. n - 1
    BY <1>3, TopNoEvent
  <1>5. OuterInHandlers'
    BY <1>1, <1>2 DEF OuterInHandlers
  <1>6. at \in [1 .. Len(stack') -> 1 .. Len(calls')] /\ IncreasingAt(at)'
    BY <1>2, <1>3, <1>4 DEF IsFrameMap, IncreasingAt
  <1>7. AreEventFrames(at)'
    <2>1. \A i \in 1 .. n - 1 : i \in 1 .. n
      BY <1>1
    <2> QED
      BY <1>2, <1>3, <2>1 DEF IsFrameMap, AreEventFrames
  <1>8. OuterWanted(at)'
    <2> SUFFICES ASSUME NEW k \in 1 .. Len(stack)
                 PROVE  Wanted(stack[k], calls'[at[k]].flags)
      BY DEF OuterWanted, Wanted
    <2>1. calls'[at[k]].flags = calls[at[k]].flags
      BY <1>2, <1>4
    <2> QED
      BY <1>3, <1>4, <2>1 DEF IsFrameMap, OuterWanted
  <1>9. ASSUME calls' # <<>>
        PROVE  /\ top'.pc \in HandlerPcs
               /\ top'.pc = "event" => Wanted(Last(stack), top'.flags)
    <2>1. /\ n - 1 \in 1 .. n - 1 /\ n - 1 \in 1 .. n /\ top'.pc = calls[n - 1].pc
          /\ top'.flags = calls[n - 1].flags
      BY <1>1, <1>2, <1>9
    <2>2. top'.pc \in HandlerPcs
      BY <2>1 DEF OuterInHandlers
    <2>3. ASSUME top'.pc = "event" PROVE Wanted(Last(stack), top'.flags)
      <3>1. PICK k \in 1 .. Len(stack) : at[k] = n - 1
        BY <1>3, <2>1, <2>3 DEF IsFrameMap, AreEventFrames
      <3>2. Len(stack) \in 1 .. Len(stack)
        BY <1>1, <3>1
      <3>3. ~(k < Len(stack))
        <4>1. at[Len(stack)] < n /\ at[Len(stack)] \in 1 .. n - 1
          BY <1>4, <3>2
        <4>2. k < Len(stack) => at[k] < at[Len(stack)]
          BY <1>3, <3>2 DEF IsFrameMap, IncreasingAt
        <4> QED
          BY <1>1, <3>1, <4>1, <4>2
      <3>4. k = Len(stack)
        BY <1>1, <3>1, <3>3
      <3>5. Wanted(stack[k], calls[at[k]].flags)
        BY <1>3, <1>4 DEF IsFrameMap, OuterWanted
      <3> QED
        BY <1>1, <2>1, <3>1, <3>4, <3>5
    <2> QED
      BY <2>2, <2>3
  <1> QED
    BY <1>5, <1>6, <1>7, <1>8, <1>9 DEF EventFrames

\* An event is started: the call on top goes to "event".
LEMMA EventPushed ==
  ASSUME TypeOK, OuterInHandlers, EventFrames, calls # <<>>, top.pc # "event",
         NEW e \in Events, stack' = Append(stack, e),
         Len(calls') = Len(calls),
         \A i \in 1 .. Len(calls) - 1 : calls'[i] = calls[i],
         calls'[Len(calls)].pc = "event"
  PROVE  OuterInHandlers' /\ EventFrames'
  <1> DEFINE n == Len(calls)
             m == Len(stack)
  <1>1. m \in Nat /\ n \in Nat \ {0} /\ n \in 1 .. n /\ stack \in Seq(Events)
        /\ calls[n].pc # "event"
    BY CallsFacts, StackFacts DEF TypeOK
  <1>2. Len(stack') = m + 1 /\ \A k \in 1 .. m : stack'[k] = stack[k]
    BY <1>1, AppendProperties
  <1>3. PICK at : IsFrameMap(at)
    BY DEF EventFrames, IsFrameMap
  <1>4. \A k \in 1 .. m : at[k] < n /\ at[k] \in 1 .. n - 1
    BY <1>3, TopNoEvent
  <1>5. PICK to : to = [k \in 1 .. m + 1 |-> IF k \in 1 .. m THEN at[k] ELSE n]
    OBVIOUS
  <1>6. /\ to \in [1 .. m + 1 -> 1 .. n]
        /\ \A k \in 1 .. m : to[k] = at[k]
        /\ to[m + 1] = n
        /\ \A k \in 1 .. m + 1 : k \in 1 .. m \/ k = m + 1
        /\ \A i \in 1 .. n : i \in 1 .. n - 1 \/ i = n
    <2>1. \A k \in 1 .. m + 1 : k \in 1 .. m => at[k] \in 1 .. n
      BY <1>1, <1>4
    <2>2. /\ m + 1 \in 1 .. m + 1 /\ m + 1 \notin 1 .. m
          /\ \A k \in 1 .. m : k \in 1 .. m + 1
          /\ \A k \in 1 .. m + 1 : k \in 1 .. m \/ k = m + 1
          /\ \A i \in 1 .. n : i \in 1 .. n - 1 \/ i = n
      BY <1>1
    <2> HIDE DEF n, m
    <2> QED
      BY <1>1, <1>5, <2>1, <2>2
  <1>7. OuterInHandlers'
    BY DEF OuterInHandlers
  <1>8. IncreasingAt(to)'
    <2> SUFFICES ASSUME NEW j \in 1 .. m + 1, NEW k \in 1 .. m + 1, j < k
                 PROVE  to[j] < to[k]
      BY <1>2 DEF IncreasingAt
    <2>1. j \in 1 .. m
      BY <1>1
    <2> QED
      BY <1>3, <1>4, <1>6, <2>1 DEF IsFrameMap, IncreasingAt
  <1>9. AreEventFrames(to)'
    <2> SUFFICES ASSUME NEW i \in 1 .. n
                 PROVE  calls'[i].pc = "event" <=> \E k \in 1 .. m + 1 : to[k] = i
      BY <1>2 DEF AreEventFrames
    <2>1. CASE i = n
      <3>1. calls'[n].pc = "event" /\ m + 1 \in 1 .. m + 1
        BY <1>1
      <3> HIDE DEF n, m
      <3> QED
        BY <1>6, <2>1, <3>1
    <2>2. CASE i \in 1 .. n - 1
      <3>1. calls'[i].pc = "event" <=> \E k \in 1 .. m : at[k] = i
        BY <1>3, <2>2 DEF IsFrameMap, AreEventFrames
      <3>2. i # n
        BY <1>1, <2>2
      <3>3. (\E k \in 1 .. m : at[k] = i) <=> (\E k \in 1 .. m + 1 : to[k] = i)
        <4>1. \A k \in 1 .. m : k \in 1 .. m + 1
          BY <1>1
        <4> QED
          BY <1>6, <3>2, <4>1
      <3> QED
        BY <3>1, <3>3
    <2> QED
      BY <1>6, <2>1, <2>2
  <1>10. OuterWanted(to)'
    <2> SUFFICES ASSUME NEW k \in 1 .. m + 1, to[k] < n
                 PROVE  Wanted(stack'[k], calls'[to[k]].flags)
      BY <1>2 DEF OuterWanted, Wanted
    <2>1. k \in 1 .. m /\ to[k] = at[k]
      BY <1>1, <1>6
    <2>2. stack'[k] = stack[k] /\ calls'[to[k]] = calls[at[k]]
      BY <1>2, <1>4, <2>1
    <2> QED
      BY <1>3, <2>1, <2>2 DEF IsFrameMap, OuterWanted
  <1> QED
    BY <1>2, <1>6, <1>7, <1>8, <1>9, <1>10 DEF EventFrames

LEMMA FrontOfStack ==
  ASSUME stack \in Seq(Events), stack # <<>>
  PROVE  /\ Front(stack) \in Seq(Events) /\ Len(Front(stack)) = Len(stack) - 1
         /\ \A k \in 1 .. Len(stack) - 1 : Front(stack)[k] = stack[k]
  BY FrontFacts

\* The handler of the event on top is done with it: its call goes on.
LEMMA EventPopped ==
  ASSUME TypeOK, OuterInHandlers, EventFrames, At("event"),
         stack' = Front(stack), Len(calls') = Len(calls),
         \A i \in 1 .. Len(calls) - 1 : calls'[i] = calls[i],
         calls'[Len(calls)].pc # "event"
  PROVE  OuterInHandlers' /\ EventFrames'
  <1> DEFINE n == Len(calls)
             m == Len(stack)
  <1>1. PICK at : IsFrameMap(at)
    BY DEF EventFrames, IsFrameMap
  <1>2. /\ m \in Nat /\ m \in 1 .. m /\ n \in Nat /\ n \in 1 .. n
        /\ at[m] = n /\ \A k \in 1 .. m : k < m => at[k] < n
    BY <1>1, CallsFacts, StackFacts, TopEvent DEF TypeOK, At
  <1>3. Len(stack') = m - 1 /\ \A k \in 1 .. m - 1 : stack'[k] = stack[k]
    <2>1. stack \in Seq(Events) /\ stack # <<>>
      BY <1>2, StackFacts DEF TypeOK
    <2> HIDE DEF n, m
    <2>2. Len(stack') = Len(stack) - 1 /\ \A k \in 1 .. Len(stack) - 1 : stack'[k] = stack[k]
      BY <2>1, FrontOfStack
    <2> QED
      BY <2>2 DEF m
  <1>4. \A k \in 1 .. m - 1 : k \in 1 .. m /\ at[k] < n /\ at[k] \in 1 .. n - 1
    <2> SUFFICES ASSUME NEW k \in 1 .. m - 1
                 PROVE  k \in 1 .. m /\ at[k] < n /\ at[k] \in 1 .. n - 1
      OBVIOUS
    <2>1. k \in 1 .. m /\ k < m
      BY <1>2
    <2>2. at[k] \in 1 .. n /\ at[k] < n
      BY <1>1, <1>2, <2>1 DEF IsFrameMap
    <2> QED
      BY <1>2, <2>1, <2>2
  <1>5. PICK to : to = [k \in 1 .. m - 1 |-> at[k]]
    OBVIOUS
  <1>6. /\ to \in [1 .. m - 1 -> 1 .. n]
        /\ \A k \in 1 .. m - 1 : to[k] = at[k]
    <2>1. \A k \in 1 .. m - 1 : at[k] \in 1 .. n
      BY <1>2, <1>4
    <2> HIDE DEF n, m
    <2> QED
      BY <1>5, <2>1
  <1>7. OuterInHandlers'
    BY DEF OuterInHandlers
  <1>8. IncreasingAt(to)'
    BY <1>1, <1>3, <1>4, <1>6 DEF IsFrameMap, IncreasingAt
  <1>9. AreEventFrames(to)'
    <2> SUFFICES ASSUME NEW i \in 1 .. n
                 PROVE  calls'[i].pc = "event" <=> \E k \in 1 .. m - 1 : to[k] = i
      BY <1>3 DEF AreEventFrames
    <2>1. CASE i = n
      <3>1. \A k \in 1 .. m - 1 : to[k] # n
        <4>1. \A k \in 1 .. m - 1 : to[k] \in 1 .. n - 1
          BY <1>4, <1>6
        <4>2. n \notin 1 .. n - 1
          BY <1>2
        <4> HIDE DEF n, m
        <4> QED
          BY <4>1, <4>2
      <3>2. calls'[n].pc # "event"
        OBVIOUS
      <3> HIDE DEF n, m
      <3> QED
        BY <2>1, <3>1, <3>2
    <2>2. CASE i # n
      <3>1. i \in 1 .. n - 1
        BY <1>2, <2>2
      <3>2. calls'[i].pc = "event" <=> \E k \in 1 .. m : at[k] = i
        BY <1>1, <3>1 DEF IsFrameMap, AreEventFrames
      <3>3. \A k \in 1 .. m : k \in 1 .. m - 1 \/ at[k] = n
        BY <1>2
      <3> HIDE DEF n, m
      <3> QED
        BY <1>4, <1>6, <2>2, <3>2, <3>3
    <2> QED
      BY <2>1, <2>2
  <1>10. OuterWanted(to)'
    <2> SUFFICES ASSUME NEW k \in 1 .. m - 1
                 PROVE  Wanted(stack'[k], calls'[to[k]].flags)
      BY <1>3 DEF OuterWanted, Wanted
    <2>1. stack'[k] = stack[k] /\ calls'[to[k]] = calls[at[k]]
      BY <1>3, <1>4, <1>6
    <2> QED
      BY <1>1, <1>4, <2>1 DEF IsFrameMap, OuterWanted
  <1> QED
    BY <1>3, <1>6, <1>7, <1>8, <1>9, <1>10 DEF EventFrames

\* The event on top is passed over and the scan finds another: the frames are
\* those of before.
LEMMA EventReplaced ==
  ASSUME TypeOK, OuterInHandlers, EventFrames, At("event"),
         NEW e \in Events, stack' = Append(Front(stack), e),
         Len(calls') = Len(calls),
         \A i \in 1 .. Len(calls) - 1 : calls'[i] = calls[i],
         calls'[Len(calls)].pc = "event"
  PROVE  OuterInHandlers' /\ EventFrames' /\ Len(stack') = Len(stack)
  <1> DEFINE n == Len(calls)
             m == Len(stack)
  <1>1. PICK at : IsFrameMap(at)
    BY DEF EventFrames, IsFrameMap
  <1>2. /\ m \in Nat /\ m \in 1 .. m /\ n \in Nat /\ n \in 1 .. n
        /\ at[m] = n /\ \A k \in 1 .. m : k < m => at[k] < n
        /\ calls[n].pc = "event"
    BY <1>1, CallsFacts, StackFacts, TopEvent DEF TypeOK, At
  <1>3. Len(stack') = m /\ \A k \in 1 .. m - 1 : stack'[k] = stack[k]
    <2>1. stack \in Seq(Events) /\ stack # <<>>
      BY <1>2, StackFacts DEF TypeOK
    <2>2. /\ Front(stack) \in Seq(Events) /\ Len(Front(stack)) = m - 1
          /\ \A k \in 1 .. m - 1 : Front(stack)[k] = stack[k]
      BY <2>1, FrontOfStack
    <2>3. /\ Len(stack') = (m - 1) + 1
          /\ \A k \in 1 .. m - 1 : stack'[k] = Front(stack)[k]
      BY <2>2, PushFacts
    <2> QED
      BY <1>2, <2>2, <2>3
  <1>4. OuterInHandlers'
    BY DEF OuterInHandlers
  <1>5. at \in [1 .. Len(stack') -> 1 .. Len(calls')] /\ IncreasingAt(at)'
    BY <1>1, <1>3 DEF IsFrameMap, IncreasingAt
  <1>6. \A i \in 1 .. n : calls'[i].pc = "event" <=> calls[i].pc = "event"
    <2> SUFFICES ASSUME NEW i \in 1 .. n
                 PROVE  calls'[i].pc = "event" <=> calls[i].pc = "event"
      OBVIOUS
    <2>1. i = n \/ i \in 1 .. n - 1
      BY <1>2
    <2> QED
      BY <1>2, <2>1
  <1>7. AreEventFrames(at)'
    BY <1>1, <1>3, <1>6 DEF IsFrameMap, AreEventFrames
  <1>8. OuterWanted(at)'
    <2> SUFFICES ASSUME NEW k \in 1 .. m, at[k] < n
                 PROVE  Wanted(stack'[k], calls'[at[k]].flags)
      BY <1>3 DEF OuterWanted, Wanted
    <2>1. k \in 1 .. m - 1
      BY <1>2
    <2>2. at[k] \in 1 .. n - 1
      BY <1>1, <1>2 DEF IsFrameMap
    <2>3. stack'[k] = stack[k] /\ calls'[at[k]] = calls[at[k]]
      BY <1>3, <2>1, <2>2
    <2> QED
      BY <1>1, <2>3 DEF IsFrameMap, OuterWanted
  <1> QED
    BY <1>3, <1>4, <1>5, <1>7, <1>8 DEF EventFrames

-----------------------------------------------------------------------------
(***************************************************************************)
(* What every step of one kind has in common.                              *)
(***************************************************************************)
LoopTypes ==
    /\ calls \in Seq(Frames) /\ Len(calls) <= MaxCalls
    /\ mode \in {"NONE", "ALL"}
    /\ idle \in 0 .. MaxIdle
    /\ ready \subseteq FileEvents \union TimerEvents
    /\ alerted \in BOOLEAN /\ alerting \in BOOLEAN /\ asyncReady \in BOOLEAN
    /\ roundOpen \in BOOLEAN

LEMMA AtFacts ==
  ASSUME TypeOK, LoopInv, NEW pc, At(pc)
  PROVE  /\ calls # <<>> /\ top.pc = pc
         /\ Len(calls) \in Nat /\ Len(calls) \in 1 .. Len(calls)
         /\ calls[Len(calls)] = top /\ top \in Frames
         /\ top.fn \in {"DoOneEvent", "ServiceAll"} /\ top.second \in BOOLEAN
         /\ top.zero \in BOOLEAN /\ top.found \subseteq Events
         /\ top.left \in Nat /\ top.left <= idle
         /\ top.fn = "ServiceAll" =>
              top.second = TRUE /\ pc \notin {"setup", "wait", "gather"}
  <1>1. calls # <<>> /\ top.pc = pc
    BY DEF At
  <1>2. /\ Len(calls) \in Nat /\ Len(calls) \in 1 .. Len(calls)
        /\ calls[Len(calls)] = top /\ top \in Frames
    BY <1>1, CallsFacts
  <1>3. LeftOK /\ ServiceAllPolled
    BY DEF LoopInv, Framed
  <1> QED
    BY <1>1, <1>2, <1>3, FieldFacts DEF LeftOK, ServiceAllPolled

LEMMA TopReplaced ==
  ASSUME TypeOK, LoopInv, calls # <<>>, idle' = idle,
         Len(calls') = Len(calls), OuterInHandlers', EventFrames',
         \A i \in 1 .. Len(calls) - 1 : calls'[i] = calls[i],
         calls'[Len(calls)] = top', top'.left = top.left,
         top'.fn = "ServiceAll" =>
            top'.second = TRUE /\ top'.pc \notin {"setup", "wait", "gather"}
  PROVE  Framed'
  <1>1. /\ Len(calls) \in Nat /\ Len(calls) \in 1 .. Len(calls)
        /\ calls[Len(calls)] = top
    BY CallsFacts
  <1>2. \A i \in 1 .. Len(calls) : i = Len(calls) \/ i \in 1 .. Len(calls) - 1
    BY <1>1
  <1>3. LeftOK /\ ServiceAllPolled
    BY DEF LoopInv, Framed
  <1>4. LeftOK'
    BY <1>1, <1>2, <1>3 DEF LeftOK
  <1>5. ServiceAllPolled'
    BY <1>1, <1>2, <1>3 DEF ServiceAllPolled
  <1> QED
    BY <1>4, <1>5 DEF Framed

\* A step from one point of a call to another that is no handler of an event.
LEMMA Moved ==
  ASSUME TypeOK, LoopInv, calls # <<>>, stack' = stack, idle' = idle,
         NEW c \in Frames, calls' = [calls EXCEPT ![Len(calls)] = c],
         c.pc # "event", top.pc # "event", c.left = top.left, c.flags = top.flags,
         c.fn = "ServiceAll" =>
            c.second = TRUE /\ c.pc \notin {"setup", "wait", "gather"}
  PROVE  /\ Framed' /\ top' = c
         /\ calls' \in Seq(Frames) /\ Len(calls') = Len(calls) /\ calls' # <<>>
  <1>1. /\ calls' \in Seq(Frames) /\ Len(calls') = Len(calls) /\ calls' # <<>>
        /\ \A i \in 1 .. Len(calls) - 1 : calls'[i] = calls[i]
        /\ calls'[Len(calls)] = c /\ top' = c
    BY NewTop
  <1>2. OuterInHandlers' /\ EventFrames'
    <2>1. OuterInHandlers /\ EventFrames
      BY DEF LoopInv, Framed
    <2>2. \A i \in 1 .. Len(calls) - 1 :
             calls'[i].pc = calls[i].pc /\ calls'[i].flags = calls[i].flags
      BY <1>1
    <2> QED
      BY <1>1, <2>1, <2>2, SameStack
  <1>3. Framed'
    BY <1>1, <1>2, TopReplaced
  <1> QED
    BY <1>1, <1>3

LEMMA Went ==
  ASSUME TypeOK, LoopInv, NEW old, At(old), stack' = stack, idle' = idle,
         NEW pc \in Pcs, Goto(pc), pc # "event", old # "event",
         top.fn = "ServiceAll" => pc \notin {"setup", "wait", "gather"}
  PROVE  /\ Framed' /\ top'.pc = pc /\ top'.fn = top.fn /\ top'.second = top.second
         /\ calls' \in Seq(Frames) /\ Len(calls') = Len(calls) /\ calls' # <<>>
  <1> DEFINE c == [top EXCEPT !.pc = pc]
  <1>1. /\ calls # <<>> /\ top.pc = old /\ top \in Frames
        /\ top.fn = "ServiceAll" => top.second = TRUE
        /\ calls[Len(calls)] = top
    BY AtFacts
  <1>2. c \in Frames /\ c.pc = pc /\ c.left = top.left /\ c.flags = top.flags
        /\ c.fn = top.fn /\ c.second = top.second
    BY <1>1 DEF Frames
  <1>3. calls' = [calls EXCEPT ![Len(calls)] = c]
    BY <1>1 DEF Goto
  <1> HIDE DEF c
  <1>4. /\ Framed' /\ top' = c
        /\ calls' \in Seq(Frames) /\ Len(calls') = Len(calls) /\ calls' # <<>>
    BY <1>1, <1>2, <1>3, Moved
  <1> QED
    BY <1>2, <1>4

\* A call returns.
LEMMA Returned ==
  ASSUME TypeOK, LoopInv, NEW old, At(old), old # "event",
         UNCHANGED <<queueVars, idle, ready, alerted, alerting, asyncReady, roundOpen>>,
         Popped, mode' \in {"NONE", "ALL"}
  PROVE  LoopTypes' /\ LoopInv'
  <1>1. calls # <<>> /\ top.pc = old /\ Len(calls) \in Nat
    BY AtFacts
  <1>2. /\ calls' \in Seq(Frames) /\ Len(calls') = Len(calls) - 1
        /\ \A i \in 1 .. Len(calls) - 1 :
             /\ calls'[i].fn = calls[i].fn /\ calls'[i].pc = calls[i].pc
             /\ calls'[i].second = calls[i].second /\ calls'[i].left = calls[i].left
    BY DEF Popped, Alike
  <1>3. OuterInHandlers /\ EventFrames /\ LeftOK /\ ServiceAllPolled /\ RoundClosed
    BY DEF LoopInv, Framed
  <1>4. stack' = stack /\ UNCHANGED <<roundFinished, delim>>
    BY DEF queueVars
  <1>5. /\ OuterInHandlers' /\ EventFrames'
        /\ calls' # <<>> =>
             /\ top'.pc \in HandlerPcs
             /\ top'.pc = "event" => Wanted(Last(stack), top'.flags)
    BY <1>1, <1>3, <1>4, CallPopped
  <1>6. LeftOK' /\ ServiceAllPolled'
    <2>1. \A i \in 1 .. Len(calls) - 1 : i \in 1 .. Len(calls)
      BY <1>1
    <2> QED
      BY <1>2, <1>3, <2>1 DEF LeftOK, ServiceAllPolled
  <1>7. BlocksIfIdle' /\ RoundClosed'
    BY <1>3, <1>4, <1>5 DEF BlocksIfIdle, RoundClosed, At
  <1>8. MarkSeen'
    <2> SUFFICES ASSUME calls' # <<>>
                 PROVE  /\ top'.pc \notin {"setup", "wait"}
                        /\ top'.pc # "scan" /\ top'.pc # "idle"
                        /\ top'.pc = "event" => Wanted(Last(stack'), top'.flags)
      BY DEF MarkSeen, Wanted
    <2> QED
      BY <1>4, <1>5
  <1>9. LoopTypes'
    BY <1>1, <1>2 DEF TypeOK, LoopTypes
  <1> QED
    BY <1>5, <1>6, <1>7, <1>8, <1>9 DEF LoopInv, Framed

\* A call begins.
LEMMA Called ==
  ASSUME TypeOK, LoopInv, ProgramRuns, Len(calls) < MaxCalls, NEW c \in Frames,
         c.pc \notin {"event", "wait", "setup", "gather", "sample", "open"},
         c.left = 0, c.fn = "ServiceAll" => c.second = TRUE,
         c.fn = "DoOneEvent" => c.second = FALSE,
         calls' = Append(calls, c), mode' \in {"NONE", "ALL"}, asyncReady' = FALSE,
         UNCHANGED <<queueVars, idle, ready, alerted, alerting, roundOpen>>
  PROVE  LoopTypes' /\ LoopInv'
  <1>1. Len(calls) \in Nat
    BY CallsFacts
  <1>2. /\ calls' \in Seq(Frames) /\ Len(calls') = Len(calls) + 1 /\ calls' # <<>>
        /\ \A i \in 1 .. Len(calls) : calls'[i] = calls[i]
        /\ calls'[Len(calls) + 1] = c /\ top' = c
    BY PushFrame
  <1>3. OuterInHandlers /\ EventFrames /\ LeftOK /\ ServiceAllPolled /\ RoundClosed
    BY DEF LoopInv, Framed
  <1>4. stack' = stack /\ UNCHANGED <<roundFinished, delim>>
    BY DEF queueVars
  <1>5. OuterInHandlers' /\ EventFrames'
    BY <1>3, <1>4, CallPushed
  <1>6. LeftOK' /\ ServiceAllPolled'
    <2>1. \A i \in 1 .. Len(calls) + 1 : i \in 1 .. Len(calls) \/ i = Len(calls) + 1
      BY <1>1
    <2>2. c.left <= idle
      BY DEF TypeOK
    <2> QED
      BY <1>2, <1>3, <2>1, <2>2 DEF LeftOK, ServiceAllPolled
  <1>7. BlocksIfIdle' /\ RoundClosed' /\ MarkSeen'
    BY <1>2, <1>3, <1>4 DEF BlocksIfIdle, RoundClosed, At, MarkSeen
  <1>8. LoopTypes'
    <2>1. Len(calls') <= MaxCalls
      BY <1>1, <1>2
    <2>2. /\ idle' \in 0 .. MaxIdle /\ ready' \subseteq FileEvents \union TimerEvents
          /\ alerted' \in BOOLEAN /\ alerting' \in BOOLEAN /\ roundOpen' \in BOOLEAN
      BY DEF TypeOK
    <2> QED
      BY <1>2, <2>1, <2>2 DEF LoopTypes
  <1> QED
    BY <1>5, <1>6, <1>7, <1>8 DEF LoopInv, Framed

\* No call moves.
LEMMA NothingCalled ==
  ASSUME TypeOK, LoopInv, UNCHANGED <<calls, stack>>, idle' \in 0 .. MaxIdle, idle <= idle'
  PROVE  Framed' /\ top' = top
  <1>1. OuterInHandlers /\ EventFrames /\ LeftOK /\ ServiceAllPolled
    BY DEF LoopInv, Framed
  <1>2. OuterInHandlers' /\ ServiceAllPolled'
    BY <1>1 DEF OuterInHandlers, ServiceAllPolled
  <1>3. EventFrames'
    BY <1>1 DEF EventFrames, IncreasingAt, AreEventFrames, OuterWanted, Wanted
  <1>4. LeftOK'
    <2>1. \A i \in 1 .. Len(calls) : calls[i].left \in Nat
      BY CallsFacts, FieldFacts
    <2>2. idle \in Nat
      BY DEF TypeOK
    <2> QED
      BY <1>1, <2>1, <2>2 DEF LeftOK
  <1>5. top' = top
    BY Zenon DEF top
  <1> QED
    BY <1>2, <1>3, <1>4, <1>5 DEF Framed

\* The types of a step that leaves the rest of the loop alone.
LEMMA TypesKept ==
  ASSUME TypeOK, calls' \in Seq(Frames), Len(calls') = Len(calls), idle' \in 0 .. MaxIdle,
         mode' = mode, ready' \subseteq ready, alerted' \in BOOLEAN, alerting' = alerting,
         asyncReady' \in BOOLEAN, roundOpen' \in BOOLEAN
  PROVE  LoopTypes'
  BY DEF TypeOK, LoopTypes

-----------------------------------------------------------------------------
(***************************************************************************)
(* The steps that service events.                                          *)
(***************************************************************************)
LEMMA ScanFindsStep ==
  ASSUME TypeOK, LoopInv, ScanFinds
  PROVE  LoopTypes' /\ LoopInv' /\ roundOpen = TRUE
  <1>1. /\ At("scan") /\ ~RoundOver /\ asyncReady = FALSE /\ Goto("event")
        /\ UNCHANGED <<mode, idle, ready, alerted, alerting, asyncReady, roundOpen>>
    BY DEF ScanFinds, TypeOK
  <1>2. /\ calls # <<>> /\ top.pc = "scan" /\ top \in Frames
        /\ Len(calls) \in Nat /\ Len(calls) \in 1 .. Len(calls)
        /\ top.fn \in {"DoOneEvent", "ServiceAll"} /\ top.second \in BOOLEAN
        /\ top.fn = "ServiceAll" => top.second = TRUE
    BY <1>1, AtFacts
  <1>3. PICK e \in Events : stack' = Append(stack, e)
    BY ServiceEventFacts DEF ScanFinds, TypeOK
  <1>4. /\ calls' \in Seq(Frames) /\ Len(calls') = Len(calls) /\ calls' # <<>>
        /\ \A i \in 1 .. Len(calls) - 1 : calls'[i] = calls[i]
        /\ calls'[Len(calls)] = top' /\ top' = [top EXCEPT !.pc = "event"]
    BY <1>1, <1>2, GotoFacts DEF Pcs
  <1>5. /\ top'.pc = "event" /\ top'.fn = top.fn /\ top'.second = top.second
        /\ top'.left = top.left
    BY <1>2, <1>4 DEF Frames
  <1>6. roundOpen = TRUE
    BY <1>1, <1>2 DEF LoopInv, RoundClosed, RoundOver, TypeOK
  <1>7. OuterInHandlers' /\ EventFrames'
    <2>1. OuterInHandlers /\ EventFrames
      BY DEF LoopInv, Framed
    <2> QED
      BY <1>2, <1>3, <1>4, <1>5, <2>1, EventPushed
  <1>8. Framed'
    BY <1>1, <1>2, <1>4, <1>5, <1>7, TopReplaced
  <1>9. BlocksIfIdle' /\ MarkSeen' /\ RoundClosed'
    BY <1>1, <1>5, <1>6 DEF BlocksIfIdle, MarkSeen, RoundClosed, At
  <1>10. LoopTypes'
    BY <1>1, <1>4, TypesKept DEF TypeOK
  <1> QED
    BY <1>6, <1>8, <1>9, <1>10 DEF LoopInv

LEMMA ScanFindsNothingStep ==
  ASSUME TypeOK, LoopInv, ScanFindsNothing
  PROVE  LoopTypes' /\ LoopInv'
  <1>1. /\ At("scan") /\ Goto(NonePc)
        /\ RoundOver \/ asyncReady = FALSE
        /\ UNCHANGED <<queueVars, mode, idle, ready, alerted, alerting, asyncReady,
                       roundOpen>>
    BY DEF ScanFindsNothing, TypeOK
  <1>2. /\ calls # <<>> /\ top.pc = "scan" /\ top.second \in BOOLEAN
        /\ top.fn \in {"DoOneEvent", "ServiceAll"}
        /\ top.fn = "ServiceAll" => top.second = TRUE
    BY <1>1, AtFacts
  <1>3. /\ NonePc \in Pcs /\ NonePc \in {"setup", "idle"}
        /\ top.second = TRUE => NonePc = "idle"
        /\ NonePc = "idle" => top.second = TRUE
    BY <1>2 DEF NonePc, Pcs
  <1>4. stack' = stack /\ UNCHANGED <<roundFinished, delim>>
    BY <1>1 DEF queueVars
  <1>5. /\ Framed' /\ top'.pc = NonePc /\ top'.fn = top.fn
        /\ calls' \in Seq(Frames) /\ Len(calls') = Len(calls) /\ calls' # <<>>
    BY <1>1, <1>2, <1>3, <1>4, Went
  <1>6. BlocksIfIdle' /\ RoundClosed'
    BY <1>1, <1>3, <1>4, <1>5 DEF BlocksIfIdle, RoundClosed, At, LoopInv
  <1>7. MarkSeen'
    <2> SUFFICES ASSUME asyncReady = TRUE, alerted = FALSE
                 PROVE  NonePc = "idle" /\ top.fn = "ServiceAll"
      BY <1>1, <1>3, <1>5 DEF MarkSeen, TypeOK
    <2>1. top.second = TRUE
      BY <1>2 DEF LoopInv, MarkSeen
    <2>2. RoundOver
      BY <1>1
    <2> QED
      BY <1>2, <1>3, <2>1, <2>2 DEF RoundOver
  <1>8. LoopTypes'
    BY <1>1, <1>5, TypesKept DEF TypeOK
  <1> QED
    BY <1>5, <1>6, <1>7, <1>8 DEF LoopInv

LEMMA ScanInvokesAsyncStep ==
  ASSUME TypeOK, LoopInv, ScanInvokesAsync
  PROVE  LoopTypes' /\ LoopInv'
  <1>1. /\ At("scan") /\ Goto("asyncScan") /\ asyncReady' = FALSE
        /\ UNCHANGED <<queueVars, mode, idle, ready, alerted, alerting, roundOpen>>
    BY DEF ScanInvokesAsync
  <1>2. /\ calls # <<>> /\ top.fn \in {"DoOneEvent", "ServiceAll"}
    BY <1>1, AtFacts
  <1>3. stack' = stack /\ UNCHANGED <<roundFinished, delim>>
    BY <1>1 DEF queueVars
  <1>4. /\ Framed' /\ top'.pc = "asyncScan" /\ top'.fn = top.fn
        /\ calls' \in Seq(Frames) /\ Len(calls') = Len(calls) /\ calls' # <<>>
    BY <1>1, <1>2, <1>3, Went DEF Pcs
  <1>5. BlocksIfIdle' /\ MarkSeen'
    BY <1>1, <1>4 DEF BlocksIfIdle, MarkSeen, At
  <1>6. RoundClosed'
    BY <1>1, <1>3, <1>4 DEF RoundClosed, At, LoopInv
  <1>7. LoopTypes'
    BY <1>1, <1>4, TypesKept DEF TypeOK
  <1> QED
    BY <1>4, <1>5, <1>6, <1>7 DEF LoopInv

LEMMA AsyncInvokedStep ==
  ASSUME TypeOK, LoopInv, AsyncInvoked
  PROVE  LoopTypes' /\ LoopInv'
  <1>1. /\ UNCHANGED <<queueVars, mode, idle, ready, alerted, alerting, asyncReady,
                       roundOpen>>
        /\ (At("asyncScan") /\ Goto(FoundPc)) \/ (At("asyncAll") /\ Goto("check"))
    BY DEF AsyncInvoked
  <1>2. stack' = stack /\ UNCHANGED <<roundFinished, delim>>
    BY <1>1 DEF queueVars
  <1>3. PICK pc \in {"scan", "done", "check"} :
               /\ Goto(pc)
               /\ pc = "scan" => top.fn = "ServiceAll"
               /\ At("asyncScan") \/ At("asyncAll")
    BY <1>1 DEF FoundPc
  <1>4. /\ top.fn \in {"DoOneEvent", "ServiceAll"} /\ pc \in Pcs
        /\ top.fn = "ServiceAll" => top.second = TRUE
    BY <1>3, AtFacts DEF Pcs
  <1>5. /\ Framed' /\ top'.pc = pc /\ top'.fn = top.fn /\ top'.second = top.second
        /\ calls' \in Seq(Frames) /\ Len(calls') = Len(calls) /\ calls' # <<>>
    <2>1. CASE At("asyncScan")
      BY <1>1, <1>2, <1>3, <1>4, <2>1, Went
    <2>2. CASE At("asyncAll")
      BY <1>1, <1>2, <1>3, <1>4, <2>2, Went
    <2> QED
      BY <1>3, <2>1, <2>2
  <1>6. BlocksIfIdle' /\ MarkSeen'
    BY <1>1, <1>3, <1>4, <1>5 DEF BlocksIfIdle, MarkSeen, At
  <1>7. RoundClosed'
    BY <1>1, <1>2, <1>3, <1>5 DEF RoundClosed, At, LoopInv
  <1>8. LoopTypes'
    BY <1>1, <1>5, TypesKept DEF TypeOK
  <1> QED
    BY <1>5, <1>6, <1>7, <1>8 DEF LoopInv

LEMMA EventHandledStep ==
  ASSUME TypeOK, LoopInv, EventHandled
  PROVE  LoopTypes' /\ LoopInv' /\ Len(stack') <= Len(stack)
  <1>1. /\ At("event") /\ Goto(FoundPc)
        /\ roundOpen' = (roundOpen /\ Last(stack) # delim)
        /\ UNCHANGED <<mode, idle, ready, alerted, alerting, asyncReady>>
    BY DEF EventHandled
  <1>2. /\ stack # <<>> /\ stack' = Front(stack)
        /\ Last(stack) = delim => roundFinished' = TRUE /\ delim' = NULL
        /\ Last(stack) # delim => UNCHANGED <<roundFinished, delim>>
    BY ReturnsOneFacts DEF EventHandled
  <1>3. /\ calls # <<>> /\ top \in Frames
        /\ Len(calls) \in Nat /\ Len(calls) \in 1 .. Len(calls)
        /\ top.fn \in {"DoOneEvent", "ServiceAll"}
        /\ top.fn = "ServiceAll" => top.second = TRUE
    BY <1>1, AtFacts
  <1>4. /\ FoundPc \in Pcs /\ FoundPc \in {"scan", "done"}
        /\ FoundPc = "scan" => top.fn = "ServiceAll"
    BY <1>3 DEF FoundPc, Pcs
  <1>5. /\ calls' \in Seq(Frames) /\ Len(calls') = Len(calls) /\ calls' # <<>>
        /\ \A i \in 1 .. Len(calls) - 1 : calls'[i] = calls[i]
        /\ calls'[Len(calls)] = top' /\ top' = [top EXCEPT !.pc = FoundPc]
    BY <1>1, <1>3, <1>4, GotoFacts
  <1>6. /\ top'.pc = FoundPc /\ top'.fn = top.fn /\ top'.second = top.second
        /\ top'.left = top.left
    BY <1>3, <1>5 DEF Frames
  <1>7. OuterInHandlers' /\ EventFrames'
    <2>1. OuterInHandlers /\ EventFrames
      BY DEF LoopInv, Framed
    <2>2. calls'[Len(calls)].pc # "event"
      BY <1>4, <1>5, <1>6
    <2> QED
      BY <1>1, <1>2, <1>5, <2>1, <2>2, EventPopped
  <1>8. Framed'
    BY <1>1, <1>3, <1>4, <1>5, <1>6, <1>7, TopReplaced
  <1>9. BlocksIfIdle' /\ MarkSeen'
    BY <1>3, <1>4, <1>6 DEF BlocksIfIdle, MarkSeen, At
  <1>10. RoundClosed'
    <2>1. ~roundOpen' => roundFinished' /\ delim' = NULL
      <3>1. CASE Last(stack) = delim
        BY <1>2, <3>1
      <3>2. CASE Last(stack) # delim
        <4>1. ~roundOpen' => ~roundOpen
          BY <1>1, <3>2
        <4>2. ~roundOpen => roundFinished /\ delim = NULL
          BY DEF LoopInv, RoundClosed
        <4> QED
          BY <1>2, <3>2, <4>1, <4>2
      <3> QED
        BY <3>1, <3>2
    <2> QED
      BY <1>4, <1>6, <2>1 DEF RoundClosed, At
  <1>11. LoopTypes'
    <2>1. roundOpen' \in BOOLEAN
      BY <1>1
    <2> QED
      BY <1>1, <1>5, <2>1, TypesKept DEF TypeOK
  <1>12. Len(stack') <= Len(stack)
    <2>1. stack \in Seq(Events) /\ Len(stack) \in Nat
      BY StackFacts DEF TypeOK
    <2>2. Len(stack') = Len(stack) - 1
      BY <1>2, <2>1, FrontOfStack
    <2> QED
      BY <2>1, <2>2
  <1> QED
    BY <1>8, <1>9, <1>10, <1>11, <1>12 DEF LoopInv

LEMMA EventDeclinedStep ==
  ASSUME TypeOK, LoopInv, EventDeclined
  PROVE  LoopTypes' /\ LoopInv' /\ Len(stack') <= Len(stack)
  <1> DEFINE pc == IF Len(stack') = Len(stack) THEN "event" ELSE NonePc
  <1>1. /\ At("event") /\ Goto(pc) /\ ~Wanted(Last(stack), top.flags)
        /\ UNCHANGED <<mode, idle, ready, alerted, alerting, asyncReady, roundOpen>>
    BY DEF EventDeclined
  <1>2. /\ stack # <<>> /\ UNCHANGED <<roundFinished, delim>>
        /\ \/ stack' = Front(stack)
           \/ \E e \in Events : stack' = Append(Front(stack), e)
    BY ReturnsZeroFacts DEF EventDeclined, TypeOK
  <1>3. /\ calls # <<>> /\ top \in Frames /\ top.pc = "event"
        /\ Len(calls) \in Nat /\ Len(calls) \in 1 .. Len(calls)
        /\ top.fn \in {"DoOneEvent", "ServiceAll"} /\ top.second \in BOOLEAN
        /\ top.fn = "ServiceAll" => top.second = TRUE
    BY <1>1, AtFacts
  <1>4. /\ pc \in Pcs /\ pc \in {"event", "setup", "idle"}
        /\ top.second = TRUE => pc # "setup"
        /\ Len(stack') = Len(stack) => pc = "event"
        /\ Len(stack') # Len(stack) => pc # "event"
    BY <1>3 DEF NonePc, Pcs
  <1> HIDE DEF pc
  <1>5. /\ calls' \in Seq(Frames) /\ Len(calls') = Len(calls) /\ calls' # <<>>
        /\ \A i \in 1 .. Len(calls) - 1 : calls'[i] = calls[i]
        /\ calls'[Len(calls)] = top' /\ top' = [top EXCEPT !.pc = pc]
    BY <1>1, <1>3, <1>4, GotoFacts
  <1>6. /\ top'.pc = pc /\ top'.fn = top.fn /\ top'.second = top.second
        /\ top'.left = top.left
    BY <1>3, <1>4, <1>5 DEF Frames
  <1>7. OuterInHandlers' /\ EventFrames' /\ Len(stack') <= Len(stack)
    <2>1. OuterInHandlers /\ EventFrames
      BY DEF LoopInv, Framed
    <2>2. stack \in Seq(Events) /\ Len(stack) \in Nat
      BY StackFacts DEF TypeOK
    <2>3. CASE stack' = Front(stack)
      <3>1. Len(stack') = Len(stack) - 1
        BY <1>2, <2>2, <2>3, FrontOfStack
      <3>2. calls'[Len(calls)].pc # "event"
        BY <1>4, <1>5, <1>6, <2>2, <3>1
      <3>3. OuterInHandlers' /\ EventFrames'
        BY <1>1, <1>5, <2>1, <2>3, <3>2, EventPopped
      <3> QED
        BY <2>2, <3>1, <3>3
    <2>4. ASSUME NEW e \in Events, stack' = Append(Front(stack), e)
          PROVE  OuterInHandlers' /\ EventFrames' /\ Len(stack') <= Len(stack)
      <3>1. Len(stack') = Len(stack)
        <4>1. Front(stack) \in Seq(Events) /\ Len(Front(stack)) = Len(stack) - 1
          BY <1>2, <2>2, FrontOfStack
        <4>2. Len(stack') = (Len(stack) - 1) + 1
          BY <2>4, <4>1, PushFacts
        <4> QED
          BY <2>2, <4>2
      <3>2. calls'[Len(calls)].pc = "event"
        BY <1>4, <1>5, <1>6, <3>1
      <3> QED
        BY <1>1, <1>5, <2>1, <2>2, <2>4, <3>1, <3>2, EventReplaced
    <2> QED
      BY <1>2, <2>3, <2>4
  <1>8. Framed'
    BY <1>1, <1>3, <1>4, <1>5, <1>6, <1>7, TopReplaced
  <1>9. BlocksIfIdle' /\ RoundClosed'
    BY <1>1, <1>2, <1>4, <1>6 DEF BlocksIfIdle, RoundClosed, At, LoopInv
  <1>10. MarkSeen'
    <2>1. ~(asyncReady /\ ~alerted)
      BY <1>1, <1>3 DEF LoopInv, MarkSeen
    <2> QED
      BY <1>1, <2>1 DEF MarkSeen
  <1>11. LoopTypes'
    BY <1>1, <1>5, TypesKept DEF TypeOK
  <1> QED
    BY <1>7, <1>8, <1>9, <1>10, <1>11 DEF LoopInv

-----------------------------------------------------------------------------
(***************************************************************************)
(* The steps that poll the sources.                                        *)
(***************************************************************************)
LEMMA SetupStep ==
  ASSUME TypeOK, LoopInv, Setup
  PROVE  LoopTypes' /\ LoopInv'
  <1> DEFINE c == [top EXCEPT !.pc = "wait", !.zero = MustNotBlock]
  <1>1. /\ At("setup")
        /\ UNCHANGED <<queueVars, mode, idle, ready, alerted, alerting, asyncReady,
                       roundOpen>>
    BY DEF Setup
  <1>2. /\ calls # <<>> /\ top.pc = "setup" /\ top \in Frames /\ top.fn # "ServiceAll"
        /\ calls[Len(calls)] = top
    BY <1>1, AtFacts
  <1>3. /\ c \in Frames /\ c.pc = "wait" /\ c.zero = MustNotBlock /\ c.left = top.left
        /\ c.flags = top.flags /\ c.fn = top.fn
    <2>1. MustNotBlock \in BOOLEAN
      BY DEF MustNotBlock
    <2> QED
      BY <1>2, <2>1 DEF Frames, Pcs
  <1>4. calls' = [calls EXCEPT ![Len(calls)] = c]
    BY <1>2 DEF Setup
  <1> HIDE DEF c
  <1>5. /\ stack' = stack /\ queue' = queue /\ UNCHANGED <<roundFinished, delim>>
    BY <1>1 DEF queueVars
  <1>6. /\ Framed' /\ top' = c
        /\ calls' \in Seq(Frames) /\ Len(calls') = Len(calls) /\ calls' # <<>>
    BY <1>1, <1>2, <1>3, <1>4, <1>5, Moved
  <1>7. BlocksIfIdle'
    <2>1. c.zero = FALSE => queue = <<>> /\ ("IDLE" \in top.flags => ~(idle > 0))
      BY <1>3 DEF MustNotBlock
    <2>2. ~(idle > 0) => idle = 0
      BY DEF TypeOK
    <2> QED
      BY <1>1, <1>3, <1>5, <1>6, <2>1, <2>2 DEF BlocksIfIdle, At
  <1>8. MarkSeen'
    <2>1. ~(asyncReady /\ ~alerted)
      BY <1>2 DEF LoopInv, MarkSeen
    <2> QED
      BY <1>1, <2>1 DEF MarkSeen
  <1>9. RoundClosed'
    BY <1>1, <1>3, <1>5, <1>6 DEF RoundClosed, LoopInv, At
  <1>10. LoopTypes'
    BY <1>1, <1>6, TypesKept DEF TypeOK
  <1> QED
    BY <1>6, <1>7, <1>8, <1>9, <1>10 DEF LoopInv

LEMMA WaitForEventStep ==
  ASSUME TypeOK, LoopInv, WaitForEvent
  PROVE  LoopTypes' /\ LoopInv'
  <1> DEFINE c == [top EXCEPT !.pc = "gather", !.zero = FALSE,
                            !.found = ready \intersect FileEvents]
  <1>1. /\ At("wait") /\ alerted' = FALSE
        /\ UNCHANGED <<queueVars, mode, idle, ready, alerting, asyncReady, roundOpen>>
    BY DEF WaitForEvent
  <1>2. /\ calls # <<>> /\ top.pc = "wait" /\ top \in Frames /\ top.fn # "ServiceAll"
        /\ calls[Len(calls)] = top
    BY <1>1, AtFacts
  <1>3. /\ c \in Frames /\ c.pc = "gather" /\ c.left = top.left
        /\ c.flags = top.flags /\ c.fn = top.fn
    BY <1>2 DEF Frames, Pcs
  <1>4. calls' = [calls EXCEPT ![Len(calls)] = c]
    BY <1>2 DEF WaitForEvent
  <1> HIDE DEF c
  <1>5. /\ stack' = stack /\ UNCHANGED <<roundFinished, delim>>
    BY <1>1 DEF queueVars
  <1>6. /\ Framed' /\ top' = c
        /\ calls' \in Seq(Frames) /\ Len(calls') = Len(calls) /\ calls' # <<>>
    BY <1>1, <1>2, <1>3, <1>4, <1>5, Moved
  <1>7. BlocksIfIdle' /\ MarkSeen'
    BY <1>3, <1>6 DEF BlocksIfIdle, At, MarkSeen
  <1>8. RoundClosed'
    BY <1>1, <1>3, <1>5, <1>6 DEF RoundClosed, LoopInv, At
  <1>9. LoopTypes'
    BY <1>1, <1>6, TypesKept DEF TypeOK
  <1> QED
    BY <1>6, <1>7, <1>8, <1>9 DEF LoopInv

LEMMA QueueFoundStep ==
  ASSUME TypeOK, LoopInv, QueueFound
  PROVE  LoopTypes' /\ LoopInv' /\ EQ!Next /\ stack' = stack
  <1>1. /\ At("gather") /\ roundOpen' = TRUE
        /\ UNCHANGED <<mode, idle, alerted, alerting, asyncReady>>
    BY DEF QueueFound
  <1>2. /\ calls # <<>> /\ top.pc = "gather" /\ top \in Frames /\ top.fn # "ServiceAll"
        /\ calls[Len(calls)] = top /\ top.found \subseteq Events
    BY <1>1, AtFacts
  <1>3. PICK e \in top.found : /\ Q!QueueEvent(e, "TAIL") /\ ready' = ready \ {e}
                               /\ calls' = [calls EXCEPT ![Len(calls)].found = @ \ {e}]
    BY DEF QueueFound
  <1> DEFINE c == [top EXCEPT !.found = top.found \ {e}]
  <1>4. /\ c \in Frames /\ c.pc = "gather" /\ c.left = top.left
        /\ c.flags = top.flags /\ c.fn = top.fn
    BY <1>2 DEF Frames
  <1>5. calls' = [calls EXCEPT ![Len(calls)] = c]
    BY <1>2, <1>3
  <1> HIDE DEF c
  <1>6. EQ!Next /\ stack' = stack
    BY <1>2, <1>3, QueueEventFacts
  <1>7. /\ Framed' /\ top' = c
        /\ calls' \in Seq(Frames) /\ Len(calls') = Len(calls) /\ calls' # <<>>
    BY <1>1, <1>2, <1>4, <1>5, <1>6, Moved
  <1>8. BlocksIfIdle' /\ MarkSeen' /\ RoundClosed'
    BY <1>1, <1>4, <1>7 DEF BlocksIfIdle, At, MarkSeen, RoundClosed
  <1>9. LoopTypes'
    <2>1. ready' \subseteq ready
      BY <1>3
    <2> QED
      BY <1>1, <1>7, <2>1, TypesKept DEF TypeOK
  <1> QED
    BY <1>6, <1>7, <1>8, <1>9 DEF LoopInv

LEMMA AllFoundQueuedStep ==
  ASSUME TypeOK, LoopInv, AllFoundQueued
  PROVE  LoopTypes' /\ LoopInv'
  <1>1. /\ At("gather") /\ Goto("check")
        /\ UNCHANGED <<queueVars, mode, idle, ready, alerted, alerting, asyncReady,
                       roundOpen>>
    BY DEF AllFoundQueued
  <1>2. stack' = stack /\ UNCHANGED <<roundFinished, delim>>
    BY <1>1 DEF queueVars
  <1>3. /\ Framed' /\ top'.pc = "check"
        /\ calls' \in Seq(Frames) /\ Len(calls') = Len(calls) /\ calls' # <<>>
    BY <1>1, <1>2, Went DEF Pcs
  <1>4. BlocksIfIdle' /\ MarkSeen'
    BY <1>3 DEF BlocksIfIdle, MarkSeen, At
  <1>5. RoundClosed'
    BY <1>1, <1>2, <1>3 DEF RoundClosed, LoopInv, At
  <1>6. LoopTypes'
    BY <1>1, <1>3, TypesKept DEF TypeOK
  <1> QED
    BY <1>3, <1>4, <1>5, <1>6 DEF LoopInv

LEMMA CheckSourcesStep ==
  ASSUME TypeOK, LoopInv, CheckSources
  PROVE  /\ LoopTypes' /\ LoopInv' /\ stack' = stack
         /\ EQ!Next \/ UNCHANGED queueVars
  <1>1. /\ At("check") /\ Goto("sample") /\ roundOpen' = TRUE
        /\ UNCHANGED <<mode, idle, alerted, alerting, asyncReady>>
    BY DEF CheckSources
  <1>2. /\ stack' = stack /\ ready' \subseteq ready
        /\ EQ!Next \/ UNCHANGED queueVars
    <2>1. CASE UNCHANGED <<queueVars, ready>>
      BY <2>1 DEF queueVars
    <2>2. CASE \E e \in ready \intersect TimerEvents :
                  Q!QueueEvent(e, "TAIL") /\ ready' = ready \ {e}
      <3>1. PICK e \in ready \intersect TimerEvents :
                  Q!QueueEvent(e, "TAIL") /\ ready' = ready \ {e}
        BY <2>2
      <3>2. e \in Events
        BY <3>1
      <3> QED
        BY <3>1, <3>2, QueueEventFacts
    <2> QED
      BY <2>1, <2>2 DEF CheckSources
  <1>3. /\ Framed' /\ top'.pc = "sample"
        /\ calls' \in Seq(Frames) /\ Len(calls') = Len(calls) /\ calls' # <<>>
    BY <1>1, <1>2, Went DEF Pcs
  <1>4. BlocksIfIdle' /\ MarkSeen' /\ RoundClosed'
    BY <1>1, <1>3 DEF BlocksIfIdle, MarkSeen, At, RoundClosed
  <1>5. LoopTypes'
    BY <1>1, <1>2, <1>3, TypesKept DEF TypeOK
  <1> QED
    BY <1>2, <1>3, <1>4, <1>5 DEF LoopInv

LEMMA SampleLastStep ==
  ASSUME TypeOK, LoopInv, SampleLast
  PROVE  LoopTypes' /\ LoopInv' /\ EQ!Next /\ stack' = stack
  <1>1. /\ At("sample") /\ Goto("open")
        /\ UNCHANGED <<mode, idle, ready, alerted, alerting, asyncReady, roundOpen>>
    BY DEF SampleLast
  <1>2. EQ!Next /\ stack' = stack
    BY SampleFacts DEF SampleLast
  <1>3. /\ Framed' /\ top'.pc = "open"
        /\ calls' \in Seq(Frames) /\ Len(calls') = Len(calls) /\ calls' # <<>>
    BY <1>1, <1>2, Went DEF Pcs
  <1>4. BlocksIfIdle' /\ MarkSeen'
    BY <1>3 DEF BlocksIfIdle, MarkSeen, At
  <1>5. RoundClosed'
    BY <1>1 DEF RoundClosed, LoopInv
  <1>6. LoopTypes'
    BY <1>1, <1>3, TypesKept DEF TypeOK
  <1> QED
    BY <1>2, <1>3, <1>4, <1>5, <1>6 DEF LoopInv

\* An idle handler runs, and the lists left to the outer calls shrink with it.
LEMMA IdleRun ==
  ASSUME TypeOK, LoopInv, NEW old, At(old), old # "event", stack' = stack,
         calls' \in Seq(Frames), Len(calls') = Len(calls), calls' # <<>>,
         \A i \in 1 .. Len(calls) - 1 :
            /\ calls'[i].fn = calls[i].fn /\ calls'[i].flags = calls[i].flags
            /\ calls'[i].pc = calls[i].pc /\ calls'[i].second = calls[i].second,
         \A i \in 1 .. Len(calls) : calls'[i].left <= idle',
         top'.pc \in {"idleProc", "oneIdle"}, top'.fn = top.fn,
         top'.second = top.second, calls'[Len(calls)] = top', idle' \in 0 .. MaxIdle,
         UNCHANGED <<mode, ready, alerted, alerting, asyncReady, roundOpen>>,
         roundOpen = TRUE \/ UNCHANGED <<roundFinished, delim>>
  PROVE  LoopTypes' /\ LoopInv'
  <1>1. /\ calls # <<>> /\ top.pc = old /\ Len(calls) \in Nat
        /\ top.fn = "ServiceAll" => top.second = TRUE
    BY AtFacts
  <1>2. OuterInHandlers /\ EventFrames /\ ServiceAllPolled /\ RoundClosed
    BY DEF LoopInv, Framed
  <1>3. OuterInHandlers' /\ EventFrames'
    BY <1>1, <1>2, SameStack
  <1>4. LeftOK'
    BY DEF LeftOK
  <1>5. ServiceAllPolled'
    <2> SUFFICES ASSUME NEW i \in 1 .. Len(calls), calls'[i].fn = "ServiceAll"
                 PROVE  /\ calls'[i].second = TRUE
                        /\ calls'[i].pc \notin {"setup", "wait", "gather"}
      BY DEF ServiceAllPolled
    <2>1. CASE i = Len(calls)
      BY <1>1, <2>1
    <2>2. CASE i \in 1 .. Len(calls) - 1
      BY <1>2, <2>2 DEF ServiceAllPolled
    <2>3. i = Len(calls) \/ i \in 1 .. Len(calls) - 1
      BY <1>1
    <2> QED
      BY <2>1, <2>2, <2>3
  <1>6. BlocksIfIdle' /\ MarkSeen'
    BY DEF BlocksIfIdle, MarkSeen, At
  <1>7. RoundClosed'
    BY <1>2 DEF RoundClosed, At
  <1>8. LoopTypes'
    BY TypesKept DEF TypeOK
  <1> QED
    BY <1>3, <1>4, <1>5, <1>6, <1>7, <1>8 DEF LoopInv, Framed

LEMMA OpenRoundStep ==
  ASSUME TypeOK, LoopInv, OpenRound
  PROVE  LoopTypes' /\ LoopInv' /\ EQ!Next /\ stack' = stack
  <1>1. /\ At("open")
        /\ UNCHANGED <<mode, ready, alerted, alerting, asyncReady, roundOpen>>
    BY DEF OpenRound
  <1>2. EQ!Next /\ stack' = stack
    BY OpenFacts DEF OpenRound
  <1>3. /\ calls # <<>> /\ top.pc = "open" /\ top \in Frames
        /\ calls[Len(calls)] = top
    BY <1>1, AtFacts
  <1>4. roundOpen = TRUE
    BY <1>1 DEF RoundClosed, LoopInv, TypeOK
  <1>5. CASE roundFinished /\ idle > 0 /\ top.fn = "DoOneEvent"
    <2>1. RunIdle("oneIdle") /\ idle > 0 /\ LeftOK /\ "oneIdle" \in Pcs
      BY <1>5 DEF OpenRound, LoopInv, Framed, Pcs
    <2>2. /\ calls' \in Seq(Frames) /\ Len(calls') = Len(calls) /\ calls' # <<>>
          /\ \A i \in 1 .. Len(calls) - 1 :
               /\ calls'[i].fn = calls[i].fn /\ calls'[i].flags = calls[i].flags
               /\ calls'[i].pc = calls[i].pc /\ calls'[i].second = calls[i].second
          /\ \A i \in 1 .. Len(calls) : calls'[i].left <= idle'
          /\ top'.pc = "oneIdle" /\ top'.fn = top.fn /\ top'.second = top.second
          /\ calls'[Len(calls)] = top' /\ idle' \in 0 .. MaxIdle
      BY <1>3, <2>1, RunIdleFacts
    <2>3. LoopTypes' /\ LoopInv'
      BY <1>1, <1>2, <1>4, <2>2, IdleRun
    <2> QED
      BY <1>2, <2>3
  <1>6. CASE ~(roundFinished /\ idle > 0 /\ top.fn = "DoOneEvent")
    <2> DEFINE c == [top EXCEPT !.pc = "scan", !.second = TRUE]
    <2>1. calls' = [calls EXCEPT ![Len(calls)] = c] /\ idle' = idle
      BY <1>3, <1>6 DEF OpenRound
    <2>2. /\ c \in Frames /\ c.pc = "scan" /\ c.second = TRUE /\ c.left = top.left
          /\ c.flags = top.flags
      BY <1>3 DEF Frames, Pcs
    <2> HIDE DEF c
    <2>3. /\ Framed' /\ top' = c
          /\ calls' \in Seq(Frames) /\ Len(calls') = Len(calls) /\ calls' # <<>>
      BY <1>2, <1>3, <2>1, <2>2, Moved
    <2>4. BlocksIfIdle' /\ MarkSeen' /\ RoundClosed'
      BY <1>1, <1>4, <2>2, <2>3 DEF BlocksIfIdle, MarkSeen, At, RoundClosed
    <2>5. LoopTypes'
      BY <1>1, <2>1, <2>3, TypesKept DEF TypeOK
    <2> QED
      BY <1>2, <2>3, <2>4, <2>5 DEF LoopInv
  <1> QED
    BY <1>5, <1>6

-----------------------------------------------------------------------------
(***************************************************************************)
(* Idle handlers and the end of a call.                                    *)
(***************************************************************************)
LEMMA ServiceIdleStep ==
  ASSUME TypeOK, LoopInv, ServiceIdle
  PROVE  LoopTypes' /\ LoopInv'
  <1>1. /\ At("idle")
        /\ UNCHANGED <<queueVars, mode, ready, alerted, alerting, asyncReady, roundOpen>>
    BY DEF ServiceIdle
  <1>2. LeftOK /\ stack' = stack /\ UNCHANGED <<roundFinished, delim>>
    BY <1>1 DEF LoopInv, Framed, queueVars
  <1>3. /\ calls' \in Seq(Frames) /\ Len(calls') = Len(calls) /\ calls' # <<>>
        /\ \A i \in 1 .. Len(calls) - 1 :
             /\ calls'[i].fn = calls[i].fn /\ calls'[i].flags = calls[i].flags
             /\ calls'[i].pc = calls[i].pc /\ calls'[i].second = calls[i].second
        /\ \A i \in 1 .. Len(calls) : calls'[i].left <= idle'
        /\ top'.pc = "idleProc" /\ top'.fn = top.fn /\ top'.second = top.second
        /\ calls'[Len(calls)] = top' /\ idle' \in 0 .. MaxIdle
    BY <1>2, ServiceIdleFacts
  <1> QED
    BY <1>1, <1>2, <1>3, IdleRun

LEMMA IdleReturnsStep ==
  ASSUME TypeOK, LoopInv, IdleReturns
  PROVE  LoopTypes' /\ LoopInv'
  <1>1. /\ At("idleProc")
        /\ UNCHANGED <<queueVars, mode, ready, alerted, alerting, asyncReady, roundOpen>>
    BY DEF IdleReturns
  <1>2. LeftOK /\ RoundClosed /\ stack' = stack /\ UNCHANGED <<roundFinished, delim>>
    BY <1>1 DEF LoopInv, Framed, queueVars
  <1>3. calls # <<>> /\ top.left \in Nat /\ top.left <= idle
    BY <1>1, AtFacts
  <1>4. CASE top.left > 0
    <2>1. RunIdle("idleProc") /\ "idleProc" \in Pcs
      BY <1>4 DEF IdleReturns, Pcs
    <2>2. idle > 0
      BY <1>3, <1>4 DEF TypeOK
    <2>3. /\ calls' \in Seq(Frames) /\ Len(calls') = Len(calls) /\ calls' # <<>>
          /\ \A i \in 1 .. Len(calls) - 1 :
               /\ calls'[i].fn = calls[i].fn /\ calls'[i].flags = calls[i].flags
               /\ calls'[i].pc = calls[i].pc /\ calls'[i].second = calls[i].second
          /\ \A i \in 1 .. Len(calls) : calls'[i].left <= idle'
          /\ top'.pc = "idleProc" /\ top'.fn = top.fn /\ top'.second = top.second
          /\ calls'[Len(calls)] = top' /\ idle' \in 0 .. MaxIdle
      BY <1>2, <1>3, <2>1, <2>2, RunIdleFacts
    <2> QED
      BY <1>1, <1>2, <2>3, IdleRun
  <1>5. CASE ~(top.left > 0)
    <2>1. Goto("done") /\ idle' = idle
      BY <1>5 DEF IdleReturns
    <2>2. /\ Framed' /\ top'.pc = "done"
          /\ calls' \in Seq(Frames) /\ Len(calls') = Len(calls) /\ calls' # <<>>
      BY <1>1, <1>2, <2>1, Went DEF Pcs
    <2>3. BlocksIfIdle' /\ MarkSeen' /\ RoundClosed'
      BY <1>1, <1>2, <2>2 DEF BlocksIfIdle, MarkSeen, At, RoundClosed
    <2>4. LoopTypes'
      BY <1>1, <2>1, <2>2, TypesKept DEF TypeOK
    <2> QED
      BY <2>2, <2>3, <2>4 DEF LoopInv
  <1> QED
    BY <1>4, <1>5

LEMMA NoIdleStep ==
  ASSUME TypeOK, LoopInv, NoIdle
  PROVE  LoopTypes' /\ LoopInv'
  <1>1. /\ At("idle")
        /\ UNCHANGED <<queueVars, mode, idle, ready, alerted, alerting, asyncReady,
                       roundOpen>>
    BY DEF NoIdle
  <1>2. RoundClosed /\ stack' = stack /\ UNCHANGED <<roundFinished, delim>>
    BY <1>1 DEF LoopInv, queueVars
  <1>3. /\ calls # <<>> /\ top.pc = "idle" /\ top \in Frames
        /\ calls[Len(calls)] = top
    BY <1>1, AtFacts
  <1>4. CASE top.fn = "ServiceAll" \/ "DONT_WAIT" \in top.flags
    <2>1. Goto("done")
      BY <1>4 DEF NoIdle
    <2>2. /\ Framed' /\ top'.pc = "done"
          /\ calls' \in Seq(Frames) /\ Len(calls') = Len(calls) /\ calls' # <<>>
      BY <1>1, <1>2, <2>1, Went DEF Pcs
    <2>3. BlocksIfIdle' /\ MarkSeen' /\ RoundClosed'
      BY <1>1, <1>2, <2>2 DEF BlocksIfIdle, MarkSeen, At, RoundClosed
    <2>4. LoopTypes'
      BY <1>1, <2>2, TypesKept DEF TypeOK
    <2> QED
      BY <2>2, <2>3, <2>4 DEF LoopInv
  <1>5. CASE ~(top.fn = "ServiceAll" \/ "DONT_WAIT" \in top.flags)
    <2> DEFINE c == [top EXCEPT !.pc = "scan", !.second = FALSE]
    <2>1. calls' = [calls EXCEPT ![Len(calls)] = c]
      BY <1>3, <1>5 DEF NoIdle
    <2>2. /\ c \in Frames /\ c.pc = "scan" /\ c.second = FALSE /\ c.left = top.left
          /\ c.flags = top.flags /\ c.fn = top.fn
      BY <1>3 DEF Frames, Pcs
    <2> HIDE DEF c
    <2>3. /\ Framed' /\ top' = c
          /\ calls' \in Seq(Frames) /\ Len(calls') = Len(calls) /\ calls' # <<>>
      BY <1>1, <1>2, <1>3, <1>5, <2>1, <2>2, Moved
    <2>4. MarkSeen'
      <3>1. ~(asyncReady /\ ~alerted)
        BY <1>3, <1>5 DEF LoopInv, MarkSeen
      <3> QED
        BY <1>1, <3>1 DEF MarkSeen
    <2>5. BlocksIfIdle' /\ RoundClosed'
      BY <1>1, <1>2, <2>2, <2>3 DEF BlocksIfIdle, At, RoundClosed
    <2>6. LoopTypes'
      BY <1>1, <2>3, TypesKept DEF TypeOK
    <2> QED
      BY <2>3, <2>4, <2>5, <2>6 DEF LoopInv
  <1> QED
    BY <1>4, <1>5

LEMMA CallReturnsStep ==
  ASSUME TypeOK, LoopInv, Done \/ OneIdleReturns \/ AsyncReturns
  PROVE  LoopTypes' /\ LoopInv'
  <1>1. CASE Done
    <2>1. /\ At("done") /\ calls' = Front(calls)
          /\ mode' = IF top.fn = "ServiceAll" THEN "ALL" ELSE top.old
          /\ UNCHANGED <<queueVars, idle, ready, alerted, alerting, asyncReady, roundOpen>>
      BY <1>1 DEF Done, Restored
    <2>2. top \in Frames /\ calls # <<>>
      BY <2>1, AtFacts
    <2>3. mode' \in {"NONE", "ALL"} /\ Popped
      BY <2>1, <2>2, FieldFacts, FrontPops
    <2> QED
      BY <2>1, <2>3, Returned
  <1>2. CASE OneIdleReturns
    <2>1. /\ At("oneIdle") /\ LeaveMode /\ mode' = mode
          /\ UNCHANGED <<queueVars, idle, ready, alerted, alerting, asyncReady, roundOpen>>
      BY <1>2 DEF OneIdleReturns
    <2>2. mode' \in {"NONE", "ALL"} /\ Popped
      BY <2>1, AtFacts, LeaveModePops DEF TypeOK
    <2> QED
      BY <2>1, <2>2, Returned
  <1>3. CASE AsyncReturns
    <2>1. /\ At("async") /\ LeaveMode /\ mode' = mode
          /\ UNCHANGED <<queueVars, idle, ready, alerted, alerting, asyncReady, roundOpen>>
      BY <1>3 DEF AsyncReturns
    <2>2. mode' \in {"NONE", "ALL"} /\ Popped
      BY <2>1, AtFacts, LeaveModePops DEF TypeOK
    <2> QED
      BY <2>1, <2>2, Returned
  <1> QED
    BY <1>1, <1>2, <1>3

-----------------------------------------------------------------------------
(***************************************************************************)
(* The program and the world outside.                                      *)
(***************************************************************************)
LEMMA DoOneEventStep ==
  ASSUME TypeOK, LoopInv, NEW flags \in FlagSets, DoOneEvent(flags)
  PROVE  LoopTypes' /\ LoopInv'
  <1> DEFINE pc == IF asyncReady THEN "async" ELSE StartPc(flags)
             c == Frame("DoOneEvent", Effective(flags), pc)
  <1>1. /\ ProgramRuns /\ Len(calls) < MaxCalls
        /\ calls' = Append(calls, c) /\ asyncReady' = FALSE
        /\ mode' = IF asyncReady THEN mode ELSE "NONE"
        /\ UNCHANGED <<queueVars, idle, ready, alerted, alerting, roundOpen>>
    BY DEF DoOneEvent
  <1>2. Effective(flags) \in SUBSET (Kinds \union {"DONT_WAIT"})
    <2>1. flags \subseteq Kinds \union {"DONT_WAIT"}
      OBVIOUS
    <2>2. "IDLE" \in Kinds
      BY DEF Kinds
    <2> QED
      BY <2>1, <2>2 DEF Effective
  <1>3. pc \in Pcs /\ pc \in {"async", "idle", "scan"}
    BY DEF Pcs, StartPc
  <1>4. mode \in {"NONE", "ALL"} /\ mode' \in {"NONE", "ALL"}
    BY <1>1 DEF TypeOK
  <1>5. /\ c \in Frames /\ c.pc = pc /\ c.fn = "DoOneEvent" /\ c.second = FALSE
        /\ c.left = 0
    <2> HIDE DEF pc
    <2> QED
      BY <1>2, <1>3, <1>4 DEF Frame, Frames
  <1> HIDE DEF pc, c
  <1> QED
    BY <1>1, <1>3, <1>4, <1>5, Called

LEMMA ServiceAllStep ==
  ASSUME TypeOK, LoopInv, ServiceAll
  PROVE  LoopTypes' /\ LoopInv'
  <1> DEFINE pc == IF asyncReady THEN "asyncAll" ELSE "check"
             c == Frame("ServiceAll", Kinds, pc)
  <1>1. /\ ProgramRuns /\ Len(calls) < MaxCalls /\ calls' = Append(calls, c)
        /\ mode' = "NONE" /\ asyncReady' = FALSE
        /\ UNCHANGED <<queueVars, idle, ready, alerted, alerting, roundOpen>>
    BY DEF ServiceAll
  <1>2. pc \in Pcs /\ pc \in {"asyncAll", "check"}
    BY DEF Pcs
  <1>3. /\ c \in Frames /\ c.pc = pc /\ c.fn = "ServiceAll" /\ c.second = TRUE
        /\ c.left = 0
    <2>1. mode \in {"NONE", "ALL"}
      BY DEF TypeOK
    <2> HIDE DEF pc
    <2> QED
      BY <1>2, <2>1 DEF Frame, Frames
  <1> HIDE DEF pc, c
  <1> QED
    BY <1>1, <1>2, <1>3, Called

LEMMA ProgramRunsFacts ==
  ASSUME ProgramRuns
  PROVE  ~At("wait")
  BY DEF ProgramRuns, InHandler, At

LEMMA SetServiceModeStep ==
  ASSUME TypeOK, LoopInv, NEW m \in Modes, SetServiceMode(m)
  PROVE  LoopTypes' /\ LoopInv'
  <1>1. /\ ProgramRuns /\ mode' = m
        /\ UNCHANGED <<queueVars, idle, ready, alerted, alerting, asyncReady, roundOpen>>
    BY DEF SetServiceMode
  <1>2. /\ stack' = stack /\ queue' = queue /\ UNCHANGED <<roundFinished, delim>>
        /\ mode' \in {"NONE", "ALL"} /\ ~At("wait")
    BY <1>1, ProgramRunsFacts DEF queueVars
  <1>3. CASE calls = <<>>
    <2>1. calls' = calls
      BY <1>3 DEF SetServiceMode
    <2>2. Framed' /\ top' = top
      BY <1>1, <1>2, <2>1, NothingCalled DEF TypeOK
    <2>3. BlocksIfIdle' /\ MarkSeen' /\ RoundClosed'
      BY <1>1, <1>2, <1>3, <2>1, <2>2
         DEF LoopInv, BlocksIfIdle, MarkSeen, RoundClosed, At
    <2>4. LoopTypes'
      BY <1>1, <1>2, <2>1 DEF TypeOK, LoopTypes
    <2> QED
      BY <2>2, <2>3, <2>4 DEF LoopInv
  <1>4. CASE calls # <<>>
    <2> DEFINE c == [top EXCEPT !.asked = (m = "ALL")]
    <2>1. /\ top \in Frames /\ calls[Len(calls)] = top
          /\ Len(calls) \in Nat /\ Len(calls) \in 1 .. Len(calls)
      BY <1>4, CallsFacts
    <2>2. c \in Frames /\ Alike(c, top)
      BY <2>1 DEF Frames, Alike
    <2>3. calls' = [calls EXCEPT ![Len(calls)] = c]
      BY <1>4, <2>1 DEF SetServiceMode
    <2> HIDE DEF c
    <2>4. /\ calls' \in Seq(Frames) /\ Len(calls') = Len(calls) /\ calls' # <<>>
          /\ \A i \in 1 .. Len(calls) - 1 : calls'[i] = calls[i]
          /\ calls'[Len(calls)] = c /\ top' = c
      BY <1>4, <2>2, <2>3, NewTop
    <2>5. Alike(top', top)
      BY <2>2, <2>4
    <2>6. OuterInHandlers' /\ EventFrames'
      <3>1. OuterInHandlers /\ EventFrames
        BY DEF LoopInv, Framed
      <3>2. \A i \in 1 .. Len(calls) - 1 :
               calls'[i].pc = calls[i].pc /\ calls'[i].flags = calls[i].flags
        BY <2>4
      <3> QED
        BY <1>2, <1>4, <2>4, <2>5, <3>1, <3>2, SameStack DEF Alike
    <2>7. Framed'
      <3>1. top.fn = "ServiceAll" =>
              top.second = TRUE /\ top.pc \notin {"setup", "wait", "gather"}
        BY <2>1 DEF LoopInv, Framed, ServiceAllPolled
      <3> QED
        BY <1>1, <1>4, <2>4, <2>5, <2>6, <3>1, TopReplaced DEF Alike
    <2>8. BlocksIfIdle' /\ MarkSeen' /\ RoundClosed'
      BY <1>1, <1>2, <1>4, <2>4, <2>5
         DEF LoopInv, BlocksIfIdle, MarkSeen, RoundClosed, At, Wanted, Alike
    <2>9. LoopTypes'
      BY <1>1, <1>2, <2>4 DEF TypeOK, LoopTypes
    <2> QED
      BY <2>7, <2>8, <2>9 DEF LoopInv
  <1> QED
    BY <1>3, <1>4

LEMMA DoWhenIdleStep ==
  ASSUME TypeOK, LoopInv, DoWhenIdle
  PROVE  LoopTypes' /\ LoopInv'
  <1>1. /\ ProgramRuns /\ idle < MaxIdle /\ idle' = idle + 1
        /\ UNCHANGED <<queueVars, calls, mode, ready, alerted, alerting, asyncReady,
                       roundOpen>>
    BY DEF DoWhenIdle
  <1>2. stack' = stack /\ queue' = queue /\ UNCHANGED <<roundFinished, delim>>
    BY <1>1 DEF queueVars
  <1>3. idle' \in 0 .. MaxIdle /\ idle <= idle'
    <2>1. idle \in 0 .. MaxIdle
      BY DEF TypeOK
    <2> QED
      BY <1>1, <2>1
  <1>4. Framed' /\ top' = top
    BY <1>1, <1>2, <1>3, NothingCalled
  <1>5. BlocksIfIdle'
    <2>1. ~At("wait")
      BY <1>1, ProgramRunsFacts
    <2> QED
      BY <1>1, <1>4, <2>1 DEF BlocksIfIdle, At
  <1>6. MarkSeen' /\ RoundClosed'
    BY <1>1, <1>2, <1>4 DEF LoopInv, MarkSeen, RoundClosed, At, Wanted
  <1>7. LoopTypes'
    BY <1>1, <1>3 DEF TypeOK, LoopTypes
  <1> QED
    BY <1>4, <1>5, <1>6, <1>7 DEF LoopInv

LEMMA ProgramQueueEventStep ==
  ASSUME TypeOK, LoopInv, NEW e \in Events, NEW pos \in Places, ProgramQueueEvent(e, pos)
  PROVE  LoopTypes' /\ LoopInv' /\ EQ!Next /\ stack' = stack
  <1>1. /\ ProgramRuns /\ Q!QueueEvent(e, pos) /\ roundOpen' = TRUE
        /\ UNCHANGED <<calls, mode, idle, ready, alerted, alerting, asyncReady>>
    BY DEF ProgramQueueEvent
  <1>2. EQ!Next /\ stack' = stack
    BY <1>1, QueueEventFacts
  <1>3. Framed' /\ top' = top
    BY <1>1, <1>2, NothingCalled DEF TypeOK
  <1>4. BlocksIfIdle'
    <2>1. ~At("wait")
      BY <1>1, ProgramRunsFacts
    <2> QED
      BY <1>1, <1>3, <2>1 DEF BlocksIfIdle, At
  <1>5. MarkSeen' /\ RoundClosed'
    BY <1>1, <1>2, <1>3 DEF LoopInv, MarkSeen, RoundClosed, At, Wanted
  <1>6. LoopTypes'
    BY <1>1 DEF TypeOK, LoopTypes
  <1> QED
    BY <1>2, <1>3, <1>4, <1>5, <1>6 DEF LoopInv

LEMMA DeleteStepStep ==
  ASSUME TypeOK, LoopInv, DeleteEvents \/ DeleteStep
  PROVE  LoopTypes' /\ LoopInv' /\ EQ!Next /\ stack' = stack
  <1>1. UNCHANGED <<calls, mode, idle, ready, alerted, alerting, asyncReady, roundOpen>>
    BY DEF DeleteEvents, DeleteStep
  <1>2. /\ EQ!Next /\ stack' = stack
        /\ queue = <<>> => queue' = <<>>
        /\ delim = NULL => UNCHANGED <<roundFinished, delim>>
    BY DeleteEventsFacts, DeleteStepFacts DEF DeleteEvents, TypeOK
  <1>3. Framed' /\ top' = top
    BY <1>1, <1>2, NothingCalled DEF TypeOK
  <1>4. BlocksIfIdle' /\ MarkSeen'
    BY <1>1, <1>2, <1>3 DEF LoopInv, BlocksIfIdle, MarkSeen, At, Wanted
  <1>5. RoundClosed'
    BY <1>1, <1>2, <1>3 DEF LoopInv, RoundClosed, At
  <1>6. LoopTypes'
    BY <1>1 DEF TypeOK, LoopTypes
  <1> QED
    BY <1>2, <1>3, <1>4, <1>5, <1>6 DEF LoopInv

LEMMA SourceReadyStep ==
  ASSUME TypeOK, LoopInv, NEW e \in Events, SourceReady(e)
  PROVE  LoopTypes' /\ LoopInv'
  <1>1. /\ e \in FileEvents \union TimerEvents /\ ready' = ready \union {e}
        /\ UNCHANGED <<queueVars, calls, mode, idle, alerted, alerting, asyncReady,
                       roundOpen>>
    BY DEF SourceReady
  <1>2. stack' = stack /\ queue' = queue /\ UNCHANGED <<roundFinished, delim>>
    BY <1>1 DEF queueVars
  <1>3. Framed' /\ top' = top
    BY <1>1, <1>2, NothingCalled DEF TypeOK
  <1>4. BlocksIfIdle' /\ MarkSeen' /\ RoundClosed'
    BY <1>1, <1>2, <1>3
       DEF LoopInv, BlocksIfIdle, MarkSeen, RoundClosed, At, Wanted
  <1>5. LoopTypes'
    BY <1>1 DEF TypeOK, LoopTypes
  <1> QED
    BY <1>3, <1>4, <1>5 DEF LoopInv

\* An event queued behind a sleeping call is followed by an alert, or the
\* queue was not empty and the call is not asleep.
LEMMA ThreadQueueEventStep ==
  ASSUME TypeOK, LoopInv, NEW e \in Events, NEW pos \in Places,
         NEW ifEmpty \in BOOLEAN, ThreadQueueEvent(e, pos, ifEmpty)
  PROVE  LoopTypes' /\ LoopInv' /\ EQ!Next /\ stack' = stack
  <1>1. /\ ~alerting /\ Q!QueueEvent(e, pos) /\ roundOpen' = TRUE
        /\ alerting' = AlertDue(ifEmpty)
        /\ UNCHANGED <<calls, mode, idle, ready, alerted, asyncReady>>
    BY DEF ThreadQueueEvent
  <1>2. EQ!Next /\ stack' = stack
    BY <1>1, QueueEventFacts
  <1>3. Framed' /\ top' = top
    BY <1>1, <1>2, NothingCalled DEF TypeOK
  <1>4. alerting' \in BOOLEAN /\ (queue = <<>> => alerting' = TRUE)
    BY <1>1 DEF AlertDue
  <1>5. BlocksIfIdle'
    <2>1. BlocksIfIdle
      BY DEF LoopInv
    <2>2. At("wait")' => At("wait")
      BY <1>1, <1>3 DEF At
    <2>3. At("wait") /\ top.zero = FALSE =>
            (alerting' = TRUE \/ alerted) /\ ("IDLE" \in top.flags => idle = 0)
      BY <1>1, <1>4, <2>1 DEF BlocksIfIdle
    <2> QED
      BY <1>1, <1>3, <2>2, <2>3 DEF BlocksIfIdle
  <1>6. MarkSeen' /\ RoundClosed'
    BY <1>1, <1>2, <1>3 DEF LoopInv, MarkSeen, RoundClosed, At, Wanted
  <1>7. LoopTypes'
    BY <1>1, <1>4 DEF TypeOK, LoopTypes
  <1> QED
    BY <1>2, <1>3, <1>5, <1>6, <1>7 DEF LoopInv

LEMMA AlertedStep ==
  ASSUME TypeOK, LoopInv, AlertNotifier \/ AsyncMark
  PROVE  LoopTypes' /\ LoopInv'
  <1>1. /\ alerted' = TRUE /\ alerting' \in BOOLEAN /\ asyncReady' \in BOOLEAN
        /\ UNCHANGED <<queueVars, calls, mode, idle, ready, roundOpen>>
    BY DEF AlertNotifier, AsyncMark, TypeOK
  <1>2. stack' = stack /\ queue' = queue /\ UNCHANGED <<roundFinished, delim>>
    BY <1>1 DEF queueVars
  <1>3. Framed' /\ top' = top
    BY <1>1, <1>2, NothingCalled DEF TypeOK
  <1>4. BlocksIfIdle' /\ MarkSeen' /\ RoundClosed'
    BY <1>1, <1>2, <1>3 DEF LoopInv, BlocksIfIdle, MarkSeen, RoundClosed, At
  <1>5. LoopTypes'
    BY <1>1 DEF TypeOK, LoopTypes
  <1> QED
    BY <1>3, <1>4, <1>5 DEF LoopInv

-----------------------------------------------------------------------------
(***************************************************************************)
(* Every step of the loop.                                                 *)
(***************************************************************************)
QueueKept == EQ!Next \/ UNCHANGED queueVars

LEMMA NextStep ==
  ASSUME TypeOK, LoopInv, Next
  PROVE  /\ LoopTypes' /\ LoopInv' /\ QueueKept
         /\ Len(stack') > Len(stack) => roundOpen
  <1>0. Len(stack) \in Nat
    BY StackFacts DEF TypeOK
  <1>1. CASE LoopStep
    <2>1. CASE ScanFinds
      <3>1. EQ!Next
        BY <2>1, ServiceEventFacts DEF ScanFinds, TypeOK
      <3> QED
        BY <2>1, <3>1, ScanFindsStep DEF QueueKept
    <2>2. CASE EventDeclined
      <3>1. EQ!Next
        BY <2>2, ReturnsZeroFacts DEF EventDeclined, TypeOK
      <3>2. LoopTypes' /\ LoopInv' /\ Len(stack') <= Len(stack)
        BY <2>2, EventDeclinedStep
      <3>3. ~(Len(stack') > Len(stack))
        <4>1. Q!TypeOK /\ stack # <<>> /\ stack \in Seq(Events)
          BY <2>2, ReturnsZeroFacts DEF EventDeclined, TypeOK, Q!TypeOK
        <4>2. \/ stack' = Front(stack)
              \/ \E e \in Events : stack' = Append(Front(stack), e)
          BY <2>2, <4>1, ReturnsZeroFacts DEF EventDeclined
        <4>3. Front(stack) \in Seq(Events)
          BY <4>1, FrontOfStack
        <4>4. Len(stack') \in Nat
          BY <4>2, <4>3, AppendProperties, LenProperties
        <4> QED
          BY <1>0, <3>2, <4>4
      <3> QED
        BY <3>1, <3>2, <3>3 DEF QueueKept
    <2>3. CASE QueueFound
      BY <1>0, <2>3, QueueFoundStep DEF QueueKept
    <2>4. CASE CheckSources
      BY <1>0, <2>4, CheckSourcesStep DEF QueueKept
    <2>5. CASE SampleLast
      BY <1>0, <2>5, SampleLastStep DEF QueueKept
    <2>6. CASE OpenRound
      BY <1>0, <2>6, OpenRoundStep DEF QueueKept
    <2>8. CASE DeleteStep
      BY <1>0, <2>8, DeleteStepStep DEF QueueKept
    <2>7. CASE \/ ScanFindsNothing \/ ScanInvokesAsync \/ Setup \/ WaitForEvent
               \/ AllFoundQueued \/ ServiceIdle \/ NoIdle \/ Done
      <3>1. LoopTypes' /\ LoopInv'
        BY <2>7, ScanFindsNothingStep, ScanInvokesAsyncStep, SetupStep, WaitForEventStep,
           AllFoundQueuedStep, ServiceIdleStep, NoIdleStep, CallReturnsStep
      <3>2. UNCHANGED queueVars
        BY <2>7 DEF ScanFindsNothing, ScanInvokesAsync, Setup, WaitForEvent,
           AllFoundQueued, ServiceIdle, NoIdle, Done
      <3>3. stack' = stack
        BY <3>2 DEF queueVars
      <3> QED
        BY <1>0, <3>1, <3>2, <3>3 DEF QueueKept
    <2> QED
      BY <1>1, <2>1, <2>2, <2>3, <2>4, <2>5, <2>6, <2>7, <2>8 DEF LoopStep
  <1>2. CASE HandlerReturns
    <2>1. CASE EventHandled
      <3>1. /\ EQ!Next /\ stack # <<>> /\ stack' = Front(stack)
            /\ stack \in Seq(Events)
        BY <2>1, ReturnsOneFacts DEF EventHandled, TypeOK, Q!TypeOK
      <3>2. Len(stack') = Len(stack) - 1
        BY <3>1, FrontOfStack
      <3> QED
        BY <1>0, <2>1, <3>1, <3>2, EventHandledStep DEF QueueKept
    <2>2. CASE OneIdleReturns \/ IdleReturns \/ AsyncReturns \/ AsyncInvoked
      <3>1. LoopTypes' /\ LoopInv'
        BY <2>2, CallReturnsStep, IdleReturnsStep, AsyncInvokedStep
      <3>2. UNCHANGED queueVars
        BY <2>2 DEF OneIdleReturns, IdleReturns, AsyncReturns, AsyncInvoked
      <3>3. stack' = stack
        BY <3>2 DEF queueVars
      <3> QED
        BY <1>0, <3>1, <3>2, <3>3 DEF QueueKept
    <2> QED
      BY <1>2, <2>1, <2>2 DEF HandlerReturns
  <1>3. CASE Program
    <2>1. CASE \E e \in Events, pos \in Places : ProgramQueueEvent(e, pos)
      BY <1>0, <2>1, ProgramQueueEventStep DEF QueueKept
    <2>3. CASE DeleteEvents
      BY <1>0, <2>3, DeleteStepStep DEF QueueKept
    <2>2. CASE \/ \E flags \in FlagSets : DoOneEvent(flags)
               \/ ServiceAll
               \/ \E m \in Modes : SetServiceMode(m)
               \/ DoWhenIdle
      <3>1. LoopTypes' /\ LoopInv'
        BY <2>2, DoOneEventStep, ServiceAllStep, SetServiceModeStep, DoWhenIdleStep
      <3>2. UNCHANGED queueVars
        BY <2>2 DEF DoOneEvent, ServiceAll, SetServiceMode, DoWhenIdle
      <3>3. stack' = stack
        BY <3>2 DEF queueVars
      <3> QED
        BY <1>0, <3>1, <3>2, <3>3 DEF QueueKept
    <2> QED
      BY <1>3, <2>1, <2>2, <2>3 DEF Program
  <1>4. CASE Outside
    <2>1. CASE \E e \in Events, pos \in Places, ifEmpty \in BOOLEAN :
                  ThreadQueueEvent(e, pos, ifEmpty)
      BY <1>0, <2>1, ThreadQueueEventStep DEF QueueKept
    <2>2. CASE (\E e \in Events : SourceReady(e)) \/ AlertNotifier \/ AsyncMark
      <3>1. LoopTypes' /\ LoopInv'
        BY <2>2, SourceReadyStep, AlertedStep
      <3>2. UNCHANGED queueVars
        BY <2>2 DEF SourceReady, AlertNotifier, AsyncMark
      <3>3. stack' = stack
        BY <3>2 DEF queueVars
      <3> QED
        BY <1>0, <3>1, <3>2, <3>3 DEF QueueKept
    <2> QED
      BY <1>4, <2>1, <2>2 DEF Outside
  <1> QED
    BY <1>1, <1>2, <1>3, <1>4 DEF Next

LEMMA Stutter ==
  ASSUME TypeOK, LoopInv, UNCHANGED vars
  PROVE  LoopTypes' /\ LoopInv' /\ UNCHANGED queueVars
  <1>1. /\ UNCHANGED queueVars
        /\ UNCHANGED <<calls, mode, idle, ready, alerted, alerting, asyncReady, roundOpen>>
    BY DEF vars
  <1>2. stack' = stack /\ queue' = queue /\ UNCHANGED <<roundFinished, delim>>
    BY <1>1 DEF queueVars
  <1>3. Framed' /\ top' = top
    BY <1>1, <1>2, NothingCalled DEF TypeOK
  <1>4. BlocksIfIdle' /\ MarkSeen' /\ RoundClosed'
    BY <1>1, <1>2, <1>3
       DEF LoopInv, BlocksIfIdle, MarkSeen, RoundClosed, At, Wanted
  <1>5. LoopTypes'
    BY <1>1 DEF TypeOK, LoopTypes
  <1> QED
    BY <1>1, <1>3, <1>4, <1>5 DEF LoopInv

LEMMA InitIInv == Init => IInv
  <1> SUFFICES ASSUME Init PROVE IInv
    OBVIOUS
  <1>1. EQ!IInv
    BY EQ!InitIInv DEF Init, Q!Init, EQ!Init
  <1>2. /\ calls = <<>> /\ Len(calls) = 0 /\ calls \in Seq(Frames)
        /\ stack = <<>> /\ Len(stack) = 0 /\ roundOpen = TRUE
    BY EmptySeq DEF Init, Q!Init
  <1>3. TypeOK
    <2>1. Q!TypeOK
      BY <1>1, SameQueueTypes DEF EQ!IInv
    <2>2. Len(calls) <= MaxCalls /\ idle \in 0 .. MaxIdle
      BY <1>2 DEF Init
    <2>3. /\ mode \in {"NONE", "ALL"} /\ ready \subseteq FileEvents \union TimerEvents
          /\ alerted \in BOOLEAN /\ alerting \in BOOLEAN /\ asyncReady \in BOOLEAN
      BY DEF Init
    <2> QED
      BY <1>2, <2>1, <2>2, <2>3 DEF TypeOK
  <1>4. OuterInHandlers /\ LeftOK /\ ServiceAllPolled
    BY <1>2 DEF OuterInHandlers, LeftOK, ServiceAllPolled
  <1>5. EventFrames
    <2>1. PICK at : at = [k \in 1 .. 0 |-> 0]
      OBVIOUS
    <2>2. at \in [1 .. Len(stack) -> 1 .. Len(calls)]
      BY <1>2, <2>1
    <2>3. IncreasingAt(at) /\ AreEventFrames(at) /\ OuterWanted(at)
      BY <1>2 DEF IncreasingAt, AreEventFrames, OuterWanted
    <2> QED
      BY <2>2, <2>3 DEF EventFrames
  <1>6. BlocksIfIdle /\ MarkSeen /\ RoundClosed
    BY <1>2 DEF BlocksIfIdle, MarkSeen, RoundClosed, At
  <1> QED
    BY <1>1, <1>3, <1>4, <1>5, <1>6 DEF IInv, LoopInv, Framed

LEMMA NextIInv == IInv /\ [Next]_vars => IInv'
  <1> SUFFICES ASSUME IInv, [Next]_vars PROVE IInv'
    OBVIOUS
  <1>1. LoopTypes' /\ LoopInv' /\ QueueKept
    BY NextStep, Stutter DEF IInv, QueueKept
  <1>2. [EQ!Next]_(EQ!vars)
    BY <1>1, SameQueueVars DEF QueueKept
  <1>3. EQ!IInv'
    BY <1>2, EQ!NextIInv DEF IInv
  <1>4. EQ!TypeOK' => Q!TypeOK'
    BY Zenon DEF EQ!TypeOK, Q!TypeOK, EQ!Pointers, Q!Pointers, EQ!Positions, Q!Positions
  <1>5. Q!TypeOK'
    BY <1>3, <1>4 DEF EQ!IInv
  <1>6. TypeOK'
    BY <1>1, <1>5 DEF TypeOK, LoopTypes
  <1> QED
    BY <1>1, <1>3, <1>6 DEF IInv

-----------------------------------------------------------------------------
(***************************************************************************)
(* Servicing is not re-entered.  A mode of TCL_SERVICE_ALL under a call    *)
(* was asked for in that call; so was the one a call has saved, in the     *)
(* call below it; and Tcl_ServiceAll was called in that mode.              *)
(***************************************************************************)
ModeAsked == mode = "ALL" /\ calls # <<>> => top.asked
OldAsked ==
    \A i \in 2 .. Len(calls) : calls[i].old = "ALL" => calls[i - 1].asked
CalledInAll ==
    \A i \in 1 .. Len(calls) : calls[i].fn = "ServiceAll" => calls[i].old = "ALL"
ModesOK == ModeAsked /\ OldAsked /\ CalledInAll

LEMMA TopIsLast ==
  ASSUME calls' \in Seq(Frames)
  PROVE  top' = calls'[Len(calls')] /\ (calls' = <<>> <=> Len(calls') = 0)
  <1>1. top' = calls'[Len(calls')]
    BY Zenon DEF top, Last
  <1> QED
    BY <1>1, EmptySeq

LEMMA SameModes ==
  ASSUME TypeOK, ModesOK, SameCalls, mode' = mode
  PROVE  ModesOK'
  <1>1. /\ Len(calls) \in Nat /\ top = calls[Len(calls)]
        /\ calls = <<>> <=> Len(calls) = 0
    BY CallsFacts
  <1>2. /\ Len(calls') = Len(calls)
        /\ \A i \in 1 .. Len(calls) : /\ calls'[i].fn = calls[i].fn
                                      /\ calls'[i].old = calls[i].old
                                      /\ calls'[i].asked = calls[i].asked
    BY DEF SameCalls, SameCall
  <1>3. top' = calls'[Len(calls)] /\ (calls' = <<>> <=> Len(calls) = 0)
    BY <1>2, TopIsLast DEF SameCalls
  <1>4. ModeAsked'
    BY <1>1, <1>2, <1>3 DEF ModesOK, ModeAsked
  <1>5. OldAsked'
    BY <1>1, <1>2 DEF ModesOK, OldAsked
  <1>6. CalledInAll'
    BY <1>2 DEF ModesOK, CalledInAll
  <1> QED
    BY <1>4, <1>5, <1>6 DEF ModesOK

LEMMA TopSameCall ==
  ASSUME TypeOK, calls # <<>>, NEW c \in Frames, SameCall(c, top),
         calls' = [calls EXCEPT ![Len(calls)] = c]
  PROVE  SameCalls
  <1>1. /\ calls' \in Seq(Frames) /\ Len(calls') = Len(calls)
        /\ \A i \in 1 .. Len(calls) - 1 : calls'[i] = calls[i]
        /\ calls'[Len(calls)] = c
    BY NewTop
  <1>2. top = calls[Len(calls)] /\ Len(calls) \in Nat
    BY CallsFacts
  <1>3. \A i \in 1 .. Len(calls) : i = Len(calls) \/ i \in 1 .. Len(calls) - 1
    BY <1>2
  <1> QED
    BY <1>1, <1>2, <1>3 DEF SameCalls, SameCall

LEMMA WentSameCall ==
  ASSUME TypeOK, NEW old, At(old), NEW pc \in Pcs, Goto(pc)
  PROVE  SameCalls
  <1> DEFINE c == [top EXCEPT !.pc = pc]
  <1>1. calls # <<>> /\ top \in Frames /\ calls[Len(calls)] = top
    BY CallsFacts DEF At
  <1>2. c \in Frames /\ SameCall(c, top) /\ calls' = [calls EXCEPT ![Len(calls)] = c]
    BY <1>1 DEF Frames, SameCall, Goto
  <1> HIDE DEF c
  <1> QED
    BY <1>1, <1>2, TopSameCall

\* The steps of a call besides its return, its nested calls and
\* Tcl_SetServiceMode.
LEMMA LoopSameCalls ==
  ASSUME TypeOK, LoopInv, ModesOK, LoopStep, ~Done
  PROVE  ModesOK'
  <1>1. mode' = mode
    BY DEF LoopStep, ScanFinds, ScanFindsNothing, ScanInvokesAsync, EventDeclined,
       Setup, WaitForEvent, QueueFound, AllFoundQueued, CheckSources, SampleLast,
       OpenRound, ServiceIdle, NoIdle, DeleteStep
  <1>2. CASE ScanFinds \/ ScanInvokesAsync \/ AllFoundQueued \/ CheckSources \/ SampleLast
    BY <1>1, <1>2, WentSameCall, SameModes
       DEF ScanFinds, ScanInvokesAsync, AllFoundQueued, CheckSources, SampleLast, Pcs
  <1>3. CASE ScanFindsNothing
    BY <1>1, <1>3, WentSameCall, SameModes DEF ScanFindsNothing, NonePc, Pcs
  <1>4. CASE EventDeclined
    BY <1>1, <1>4, WentSameCall, SameModes DEF EventDeclined, NonePc, Pcs
  <1>5. CASE Setup \/ WaitForEvent \/ QueueFound \/ OpenRound \/ ServiceIdle \/ NoIdle
    <2>1. calls # <<>> /\ top \in Frames /\ calls[Len(calls)] = top /\ LeftOK
      BY <1>5, CallsFacts
         DEF Setup, WaitForEvent, QueueFound, OpenRound, ServiceIdle, NoIdle, At, LoopInv,
             Framed
    <2>2. CASE Setup
      <3> DEFINE c == [top EXCEPT !.pc = "wait", !.zero = MustNotBlock]
      <3>1. MustNotBlock \in BOOLEAN
        BY DEF MustNotBlock
      <3>2. /\ c \in Frames /\ SameCall(c, top)
            /\ calls' = [calls EXCEPT ![Len(calls)] = c]
        BY <2>1, <2>2, <3>1 DEF Setup, Frames, Pcs, SameCall
      <3> HIDE DEF c
      <3> QED
        BY <1>1, <2>1, <3>2, TopSameCall, SameModes
    <2>3. CASE WaitForEvent
      <3> DEFINE c == [top EXCEPT !.pc = "gather", !.zero = FALSE,
                                  !.found = ready \intersect FileEvents]
      <3>1. /\ c \in Frames /\ SameCall(c, top)
            /\ calls' = [calls EXCEPT ![Len(calls)] = c]
        BY <2>1, <2>3 DEF WaitForEvent, Frames, Pcs, SameCall
      <3> HIDE DEF c
      <3> QED
        BY <1>1, <2>1, <3>1, TopSameCall, SameModes
    <2>4. CASE QueueFound
      <3>1. PICK e \in top.found : calls' = [calls EXCEPT ![Len(calls)].found = @ \ {e}]
        BY <2>4 DEF QueueFound
      <3> DEFINE c == [top EXCEPT !.found = top.found \ {e}]
      <3>2. /\ c \in Frames /\ SameCall(c, top)
            /\ calls' = [calls EXCEPT ![Len(calls)] = c]
        BY <2>1, <3>1 DEF Frames, SameCall
      <3> HIDE DEF c
      <3> QED
        BY <1>1, <2>1, <3>2, TopSameCall, SameModes
    <2>5. CASE OpenRound
      <3>1. CASE roundFinished /\ idle > 0 /\ top.fn = "DoOneEvent"
        <4>1. RunIdle("oneIdle") /\ "oneIdle" \in Pcs
          BY <2>5, <3>1 DEF OpenRound, Pcs
        <4> QED
          BY <1>1, <2>1, <3>1, <4>1, RunIdleFacts, SameModes
      <3>2. CASE ~(roundFinished /\ idle > 0 /\ top.fn = "DoOneEvent")
        <4> DEFINE c == [top EXCEPT !.pc = "scan", !.second = TRUE]
        <4>1. /\ c \in Frames /\ SameCall(c, top)
              /\ calls' = [calls EXCEPT ![Len(calls)] = c]
          BY <2>1, <2>5, <3>2 DEF OpenRound, Frames, Pcs, SameCall
        <4> HIDE DEF c
        <4> QED
          BY <1>1, <2>1, <4>1, TopSameCall, SameModes
      <3> QED
        BY <3>1, <3>2
    <2>6. CASE ServiceIdle
      BY <1>1, <2>1, <2>6, ServiceIdleFacts, SameModes
    <2>7. CASE NoIdle
      <3>1. CASE top.fn = "ServiceAll" \/ "DONT_WAIT" \in top.flags
        BY <1>1, <2>7, <3>1, WentSameCall, SameModes DEF NoIdle, Pcs
      <3>2. CASE ~(top.fn = "ServiceAll" \/ "DONT_WAIT" \in top.flags)
        <4> DEFINE c == [top EXCEPT !.pc = "scan", !.second = FALSE]
        <4>1. /\ c \in Frames /\ SameCall(c, top)
              /\ calls' = [calls EXCEPT ![Len(calls)] = c]
          BY <2>1, <2>7, <3>2 DEF NoIdle, Frames, Pcs, SameCall
        <4> HIDE DEF c
        <4> QED
          BY <1>1, <2>1, <4>1, TopSameCall, SameModes
      <3> QED
        BY <3>1, <3>2
    <2> QED
      BY <1>5, <2>2, <2>3, <2>4, <2>5, <2>6, <2>7
  <1>6. CASE DeleteStep
    BY <1>6 DEF DeleteStep, ModesOK, ModeAsked, OldAsked, CalledInAll, top
  <1> QED
    BY <1>2, <1>3, <1>4, <1>5, <1>6 DEF LoopStep

\* A call saves the mode, and turns servicing off unless it is to invoke
\* async handlers first.
LEMMA CallAsks ==
  ASSUME TypeOK, ModesOK, NEW c \in Frames, calls' = Append(calls, c), c.old = mode,
         mode' = "ALL" => c.asked, c.fn = "ServiceAll" => mode = "ALL"
  PROVE  ModesOK'
  <1>1. /\ Len(calls) \in Nat /\ top = calls[Len(calls)]
        /\ calls = <<>> <=> Len(calls) = 0
    BY CallsFacts
  <1>2. /\ Len(calls') = Len(calls) + 1 /\ top' = c
        /\ \A i \in 1 .. Len(calls) : calls'[i] = calls[i]
        /\ calls'[Len(calls) + 1] = c
    BY PushFrame
  <1>3. ModeAsked'
    BY <1>2 DEF ModeAsked
  <1>4. OldAsked'
    <2> SUFFICES ASSUME NEW i \in 2 .. Len(calls) + 1, calls'[i].old = "ALL"
                 PROVE  calls'[i - 1].asked
      BY <1>2 DEF OldAsked
    <2>1. i - 1 \in 1 .. Len(calls) /\ calls'[i - 1] = calls[i - 1]
      BY <1>1, <1>2
    <2>2. CASE i \in 2 .. Len(calls)
      <3>1. calls'[i] = calls[i]
        BY <1>2, <2>2
      <3> QED
        BY <2>1, <2>2, <3>1 DEF ModesOK, OldAsked
    <2>3. CASE i = Len(calls) + 1
      <3>1. i - 1 = Len(calls) /\ mode = "ALL" /\ calls # <<>>
        BY <1>1, <1>2, <2>1, <2>3
      <3> QED
        BY <1>1, <2>1, <3>1 DEF ModesOK, ModeAsked
    <2> QED
      BY <1>1, <2>2, <2>3
  <1>5. CalledInAll'
    <2>1. \A i \in 1 .. Len(calls) + 1 : i \in 1 .. Len(calls) \/ i = Len(calls) + 1
      BY <1>1
    <2> QED
      BY <1>2, <2>1 DEF ModesOK, CalledInAll
  <1> QED
    BY <1>3, <1>4, <1>5 DEF ModesOK

\* A call returns and gives its mode back, or leaves the one it has, and the
\* asking for it, to its caller.
LEMMA ReturnAsks ==
  ASSUME TypeOK, ModesOK, calls # <<>>, Popped,
         \A i \in 1 .. Len(calls) - 2 : calls'[i].asked = calls[i].asked,
         mode' = "ALL" /\ Len(calls) # 1 => calls'[Len(calls) - 1].asked
  PROVE  ModesOK'
  <1> DEFINE n == Len(calls)
  <1>1. n \in Nat /\ n # 0
    BY CallsFacts
  <1>2. /\ calls' \in Seq(Frames) /\ Len(calls') = n - 1
        /\ \A i \in 1 .. n - 1 : calls'[i].fn = calls[i].fn /\ calls'[i].old = calls[i].old
    BY DEF Popped, Alike
  <1>3. top' = calls'[n - 1] /\ (calls' = <<>> <=> n - 1 = 0)
    BY <1>2, TopIsLast
  <1>4. ModeAsked'
    BY <1>1, <1>3 DEF ModeAsked
  <1>5. OldAsked'
    <2> SUFFICES ASSUME NEW i \in 2 .. n - 1, calls'[i].old = "ALL"
                 PROVE  calls'[i - 1].asked
      BY <1>2 DEF OldAsked
    <2>1. i \in 2 .. n /\ i \in 1 .. n - 1 /\ i - 1 \in 1 .. n - 2
      BY <1>1
    <2> QED
      BY <1>2, <2>1 DEF ModesOK, OldAsked
  <1>6. CalledInAll'
    <2>1. \A i \in 1 .. n - 1 : i \in 1 .. n
      BY <1>1
    <2> QED
      BY <1>2, <2>1 DEF ModesOK, CalledInAll
  <1> QED
    BY <1>4, <1>5, <1>6 DEF ModesOK

LEMMA DoneAsks ==
  ASSUME TypeOK, ModesOK, Done
  PROVE  ModesOK'
  <1>1. /\ calls # <<>> /\ calls' = Front(calls)
        /\ mode' = IF top.fn = "ServiceAll" THEN "ALL" ELSE top.old
    BY DEF Done, At, Restored
  <1>2. /\ calls \in Seq(Frames) /\ Len(calls) \in Nat /\ Len(calls) \in 1 .. Len(calls)
        /\ top = calls[Len(calls)]
    BY <1>1, CallsFacts
  <1>3. Popped /\ \A i \in 1 .. Len(calls) - 1 : calls'[i] = calls[i]
    BY <1>1, <1>2, FrontPops, FrontFacts
  <1>4. mode' = "ALL" => top.old = "ALL"
    BY <1>1, <1>2 DEF ModesOK, CalledInAll
  <1>5. mode' = "ALL" /\ Len(calls) # 1 => calls'[Len(calls) - 1].asked
    <2> SUFFICES ASSUME mode' = "ALL", Len(calls) # 1
                 PROVE  calls'[Len(calls) - 1].asked
      OBVIOUS
    <2>1. PICK n : n = Len(calls)
      OBVIOUS
    <2>2. n \in Nat /\ n # 0 /\ n # 1
      BY <1>2, <2>1
    <2>3. n \in 2 .. n /\ n - 1 \in 1 .. n - 1
      BY <2>2
    <2>4. calls[n - 1].asked
      BY <1>2, <1>4, <2>1, <2>3 DEF ModesOK, OldAsked
    <2>5. calls'[n - 1] = calls[n - 1]
      BY <1>3, <2>1, <2>3
    <2> QED
      BY <2>1, <2>4, <2>5
  <1>6. \A i \in 1 .. Len(calls) - 2 : calls'[i].asked = calls[i].asked
    BY <1>2, <1>3
  <1> QED
    BY <1>1, <1>3, <1>5, <1>6, ReturnAsks

LEMMA LeaveModeAsks ==
  ASSUME TypeOK, ModesOK, calls # <<>>, LeaveMode, mode' = mode
  PROVE  ModesOK'
  <1>1. /\ Popped
        /\ \A i \in 1 .. Len(calls) - 1 :
              calls'[i].asked = IF i = Len(calls) - 1 THEN top.asked ELSE calls[i].asked
    BY LeaveModePops
  <1>2. Len(calls) \in Nat /\ Len(calls) # 0
    BY CallsFacts
  <1>3. mode' = "ALL" /\ Len(calls) # 1 => calls'[Len(calls) - 1].asked
    <2> SUFFICES ASSUME mode' = "ALL", Len(calls) # 1
                 PROVE  calls'[Len(calls) - 1].asked
      OBVIOUS
    <2>1. PICK n : n = Len(calls)
      OBVIOUS
    <2>2. n \in Nat /\ n # 0 /\ n # 1
      BY <1>2, <2>1
    <2>3. n - 1 \in 1 .. n - 1
      BY <2>2
    <2>4. top.asked
      BY DEF ModesOK, ModeAsked
    <2> QED
      BY <1>1, <2>1, <2>3, <2>4
  <1>4. \A i \in 1 .. Len(calls) - 2 : calls'[i].asked = calls[i].asked
    BY <1>1, <1>2
  <1> QED
    BY <1>1, <1>3, <1>4, ReturnAsks

LEMMA SetModeAsks ==
  ASSUME TypeOK, ModesOK, NEW m \in Modes, SetServiceMode(m)
  PROVE  ModesOK'
  <1>1. CASE calls = <<>>
    <2>1. calls' = <<>> /\ Len(calls) = 0
      BY <1>1, EmptySeq DEF SetServiceMode
    <2> QED
      BY <1>1, <2>1 DEF ModesOK, ModeAsked, OldAsked, CalledInAll
  <1>2. CASE calls # <<>>
    <2> DEFINE c == [top EXCEPT !.asked = (m = "ALL")]
    <2>1. /\ top \in Frames /\ calls[Len(calls)] = top
          /\ Len(calls) \in Nat /\ Len(calls) \in 1 .. Len(calls)
      BY <1>2, CallsFacts
    <2>2. /\ c \in Frames /\ c.fn = top.fn /\ c.old = top.old /\ (m = "ALL" => c.asked)
      BY <2>1 DEF Frames
    <2>3. calls' = [calls EXCEPT ![Len(calls)] = c] /\ mode' = m
      BY <1>2, <2>1 DEF SetServiceMode
    <2> HIDE DEF c
    <2>4. /\ Len(calls') = Len(calls) /\ top' = c
          /\ \A i \in 1 .. Len(calls) - 1 : calls'[i] = calls[i]
          /\ calls'[Len(calls)] = c
      BY <1>2, <2>2, <2>3, NewTop
    <2>5. ModeAsked'
      BY <2>2, <2>3, <2>4 DEF ModeAsked
    <2>6. \A i \in 1 .. Len(calls) :
             calls'[i].fn = calls[i].fn /\ calls'[i].old = calls[i].old
      <3>1. \A i \in 1 .. Len(calls) : i = Len(calls) \/ i \in 1 .. Len(calls) - 1
        BY <2>1
      <3> QED
        BY <2>1, <2>2, <2>4, <3>1
    <2>7. OldAsked'
      <3> SUFFICES ASSUME NEW i \in 2 .. Len(calls), calls'[i].old = "ALL"
                   PROVE  calls'[i - 1].asked
        BY <2>4 DEF OldAsked
      <3>1. i \in 1 .. Len(calls) /\ i - 1 \in 1 .. Len(calls) - 1
        BY <2>1
      <3> QED
        BY <2>4, <2>6, <3>1 DEF ModesOK, OldAsked
    <2>8. CalledInAll'
      BY <2>4, <2>6 DEF ModesOK, CalledInAll
    <2> QED
      BY <2>5, <2>7, <2>8 DEF ModesOK
  <1> QED
    BY <1>1, <1>2

LEMMA CallsAsk ==
  ASSUME TypeOK, ModesOK, (\E flags \in FlagSets : DoOneEvent(flags)) \/ ServiceAll
  PROVE  ModesOK'
  <1>1. mode \in {"NONE", "ALL"}
    BY DEF TypeOK
  <1>2. CASE ServiceAll
    <2> DEFINE pc == IF asyncReady THEN "asyncAll" ELSE "check"
               c == Frame("ServiceAll", Kinds, pc)
    <2>1. calls' = Append(calls, c) /\ mode = "ALL" /\ mode' = "NONE"
      BY <1>2 DEF ServiceAll
    <2>2. pc \in Pcs
      BY DEF Pcs
    <2>3. c \in Frames /\ c.old = mode
      <3> HIDE DEF pc
      <3> QED
        BY <1>1, <2>2 DEF Frame, Frames
    <2> HIDE DEF pc, c
    <2> QED
      BY <2>1, <2>3, CallAsks
  <1>3. ASSUME NEW flags \in FlagSets, DoOneEvent(flags) PROVE ModesOK'
    <2> DEFINE pc == IF asyncReady THEN "async" ELSE StartPc(flags)
               c == Frame("DoOneEvent", Effective(flags), pc)
    <2>1. /\ calls' = Append(calls, c)
          /\ mode' = IF asyncReady THEN mode ELSE "NONE"
      BY <1>3 DEF DoOneEvent
    <2>2. pc \in Pcs
      BY DEF Pcs, StartPc
    <2>3. Effective(flags) \in SUBSET (Kinds \union {"DONT_WAIT"})
      BY DEF Effective, Kinds
    <2>4. asyncReady => pc = "async"
      OBVIOUS
    <2>5. /\ c \in Frames /\ c.old = mode /\ c.fn = "DoOneEvent"
          /\ c.asked = (pc = "async" /\ mode = "ALL")
      <3> HIDE DEF pc
      <3> QED
        BY <1>1, <2>2, <2>3 DEF Frame, Frames
    <2> HIDE DEF pc, c
    <2> QED
      BY <2>1, <2>4, <2>5, CallAsks
  <1> QED
    BY <1>2, <1>3

LEMMA ModesStep ==
  ASSUME TypeOK, LoopInv, ModesOK, [Next]_vars
  PROVE  ModesOK'
  <1>1. CASE LoopStep
    BY <1>1, LoopSameCalls, DoneAsks
  <1>2. CASE HandlerReturns
    <2>1. CASE EventHandled \/ AsyncInvoked
      BY <2>1, WentSameCall, SameModes DEF EventHandled, AsyncInvoked, FoundPc, Pcs
    <2>2. CASE OneIdleReturns \/ AsyncReturns
      BY <2>2, LeaveModeAsks DEF OneIdleReturns, AsyncReturns, At
    <2>3. CASE IdleReturns
      <3>1. CASE top.left > 0
        <4>1. /\ calls # <<>> /\ top.left \in Nat /\ top.left <= idle
          BY <2>3, AtFacts DEF IdleReturns
        <4>2. idle > 0 /\ LeftOK
          BY <3>1, <4>1 DEF TypeOK, LoopInv, Framed
        <4>3. RunIdle("idleProc") /\ "idleProc" \in Pcs /\ mode' = mode
          BY <2>3, <3>1 DEF IdleReturns, Pcs
        <4> QED
          BY <4>1, <4>2, <4>3, RunIdleFacts, SameModes
      <3>2. CASE ~(top.left > 0)
        BY <2>3, <3>2, WentSameCall, SameModes DEF IdleReturns, Pcs
      <3> QED
        BY <3>1, <3>2
    <2> QED
      BY <1>2, <2>1, <2>2, <2>3 DEF HandlerReturns
  <1>3. ASSUME UNCHANGED <<calls, mode>> PROVE ModesOK'
    BY <1>3 DEF ModesOK, ModeAsked, OldAsked, CalledInAll, top
  <1>4. CASE Program
    <2>1. CASE \/ DoWhenIdle \/ DeleteEvents
               \/ \E e \in Events, pos \in Places : ProgramQueueEvent(e, pos)
      BY <1>3, <2>1 DEF DoWhenIdle, DeleteEvents, ProgramQueueEvent
    <2> QED
      BY <1>4, <2>1, CallsAsk, SetModeAsks DEF Program
  <1>5. CASE Outside
    BY <1>3, <1>5 DEF Outside, SourceReady, ThreadQueueEvent, AlertNotifier, AsyncMark
  <1>6. CASE UNCHANGED vars
    BY <1>3, <1>6 DEF vars
  <1> QED
    BY <1>1, <1>2, <1>4, <1>5, <1>6 DEF Next

-----------------------------------------------------------------------------
(***************************************************************************)
(* The theorems.                                                           *)
(***************************************************************************)
\* The invariant holds in every state of every behaviour of the loop.
THEOREM Invariance == Spec => []IInv
  <1>1. Init => IInv
    BY InitIInv
  <1>2. IInv /\ [Next]_vars => IInv'
    BY NextIInv
  <1> QED
    BY <1>1, <1>2, PTL DEF Spec

\* Every variable of the loop and of its queue has its type, and no call of
\* the loop is entered beyond the bound on nesting.
THEOREM TypeCorrect == Spec => []TypeOK
  BY Invariance, PTL DEF IInv

\* Tcl_WaitForEvent never blocks over a queued event, a marked async handler
\* or an idle handler, whoever queues, marks and registers, and when.
THEOREM NeverSleepsOverEvents == Spec => []NoSleepOverEvents
  <1>1. IInv => NoSleepOverEvents
    <2> SUFFICES ASSUME IInv, Asleep
                 PROVE  /\ queue = <<>> \/ alerting
                        /\ ~asyncReady
                        /\ "IDLE" \in top.flags => idle = 0
      BY DEF NoSleepOverEvents
    <2>1. /\ At("wait") /\ ~top.zero /\ ~alerted /\ TypeOK /\ LoopInv
      BY DEF Asleep, IInv
    <2>2. calls # <<>> /\ top.pc = "wait" /\ top.zero = FALSE
      BY <2>1, AtFacts
    <2>3. (queue = <<>> \/ alerting) /\ ("IDLE" \in top.flags => idle = 0)
      BY <2>1, <2>2 DEF LoopInv, BlocksIfIdle
    <2>4. ~asyncReady
      BY <2>1, <2>2 DEF LoopInv, MarkSeen
    <2> QED
      BY <2>3, <2>4
  <1> QED
    BY <1>1, Invariance, PTL

\* No event is serviced after the last one of a round before the sources
\* have been polled or an event was queued, in this call or a nested one.
THEOREM PollsBetweenRounds == Spec => PollBetweenRounds
  <1>1. IInv /\ [Next]_vars => [Len(stack') > Len(stack) => roundOpen]_vars
    <2> SUFFICES ASSUME IInv, Next PROVE Len(stack') > Len(stack) => roundOpen
      OBVIOUS
    <2> QED
      BY NextStep DEF IInv
  <1> QED
    BY <1>1, Invariance, PTL DEF Spec, PollBetweenRounds

\* Tcl_ServiceAll never runs inside a call in which nobody has asked for it,
\* however the modes that nested calls save and restore are mixed.
THEOREM NeverServesRecursively == Spec => []NoRecursiveService
  <1>1. Init => ModesOK
    <2> SUFFICES ASSUME Init PROVE ModesOK
      OBVIOUS
    <2>1. calls = <<>> /\ Len(calls) = 0
      BY EmptySeq DEF Init
    <2> QED
      BY <2>1 DEF ModesOK, ModeAsked, OldAsked, CalledInAll
  <1>2. IInv /\ ModesOK /\ [Next]_vars => ModesOK'
    BY ModesStep DEF IInv
  <1>3. ModesOK /\ TypeOK => NoRecursiveService
    <2>1. TypeOK => \A i \in 2 .. Len(calls) : i \in 1 .. Len(calls)
      BY CallsFacts
    <2> QED
      BY <2>1 DEF ModesOK, OldAsked, CalledInAll, NoRecursiveService
  <1> QED
    BY <1>1, <1>2, <1>3, Invariance, TypeCorrect, PTL DEF Spec

\* What is proved of the queue holds under the loop, in nested calls and with
\* deletions inside handlers: its pointers never dangle, an event is serviced
\* once at a time and in the promised order, and rounds keep their events.
QueueSafe == EQ!PointersOK /\ EQ!ServicedOnce /\ EQ!PriorityOrder /\ EQ!RoundSplit
THEOREM QueueSafeUnderLoop == Spec => []QueueSafe
  <1>1. IInv => QueueSafe
    BY DEF IInv, QueueSafe, EQ!IInv, EQ!ListInv, EQ!RoundInv, EQ!PointersOK
  <1> QED
    BY <1>1, Invariance, PTL
=============================================================================

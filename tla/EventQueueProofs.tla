-------------------------- MODULE EventQueueProofs --------------------------
(***************************************************************************)
(* For every set of events and every bound: the pointers of EventQueue     *)
(* never dangle, an event is serviced by one frame at a time, the queue    *)
(* stays in the order QueueEvent promises, the round delimiter keeps its   *)
(* place, and EventQueue implements Dispatch.                              *)
(***************************************************************************)
EXTENDS EventQueue, SeqLemmas

(***************************************************************************)
(* What has to be added to the invariants to make them inductive: what is  *)
(* known of the pointer read by SampleLast until OpenRound writes it, and  *)
(* that the numbers of the queued events are those of past calls.          *)
(***************************************************************************)
SampleOK ==
    /\ sampling => walk = 0
    /\ sampling => sampleEv \in InQueue \union {NULL}
    /\ sampling => SplitsAt(sampleEv, sampleClock)
    /\ sampleClock <= clock

BornBefore == \A i \in 1 .. Len(queue) : born[queue[i]] <= clock

ListInv == NoneLinkedTwice /\ LastIsLast /\ MarkerLinked /\ PriorityOrder /\ BornBefore
RoundInv == DelimLinked /\ RoundSplit /\ roundClock <= clock /\ SampleOK
IInv == TypeOK /\ ListInv /\ RoundInv /\ ServicedOnce

USE NullIsNoEvent, BoundsAssumption, FlagAssumption

(***************************************************************************)
(* Facts about the list in one state.                                      *)
(***************************************************************************)
LEMMA QueueFacts ==
  ASSUME TypeOK
  PROVE  /\ Len(queue) \in Nat
         /\ \A i \in 1 .. Len(queue) : queue[i] \in Events
         /\ InQueue \subseteq Events
         /\ \A x : x \in InQueue <=> \E i \in 1 .. Len(queue) : queue[i] = x
         /\ queue = <<>> <=> Len(queue) = 0
  BY EmptySeq, LenProperties, ElementOfSeq, ToSetFacts DEF TypeOK, InQueue

LEMMA StackFacts ==
  ASSUME TypeOK
  PROVE  /\ Len(stack) \in Nat
         /\ \A i \in 1 .. Len(stack) : stack[i] \in Events
         /\ InService \subseteq Events
         /\ \A x : x \in InService <=> \E i \in 1 .. Len(stack) : stack[i] = x
         /\ stack = <<>> <=> Len(stack) = 0
  BY EmptySeq, LenProperties, ElementOfSeq, ToSetFacts DEF TypeOK, InService

LEMMA InitIInv == Init => IInv
  <1> SUFFICES ASSUME Init PROVE IInv
    OBVIOUS
  <1>1. Len(queue) = 0 /\ Len(stack) = 0 /\ queue \in Seq(Events) /\ stack \in Seq(Events)
    BY EmptySeq DEF Init
  <1>2. TypeOK
    <2>1. walk \in 0 .. Len(queue) + 1
      BY <1>1 DEF Init
    <2>2. kind \in [Events -> Positions] /\ born \in [Events -> Nat]
      BY DEF Init, Positions
    <2> QED
      BY <1>1, <2>1, <2>2 DEF Init, TypeOK, Pointers
  <1>3. ListInv
    BY <1>1, <1>2 DEF Init, ListInv, NoneLinkedTwice, LastIsLast, MarkerLinked,
       PriorityOrder, MarkerIsFront, NoMarkerNoMarked, QueueInOrder, BornBefore
  <1>4. RoundInv
    BY <1>1, <1>2 DEF Init, RoundInv, DelimLinked, RoundSplit, SplitsAt, SampleOK
  <1>5. ServicedOnce
    BY <1>1, <1>2, QueueFacts, StackFacts
       DEF Init, ServicedOnce, FramesDistinct, BusyIffInService
  <1> QED
    BY <1>2, <1>3, <1>4, <1>5 DEF IInv

(***************************************************************************)
(* Unlinking, for both of its users.                                       *)
(***************************************************************************)
LEMMA UnlinkFacts ==
  ASSUME TypeOK, NoneLinkedTwice, NEW p \in 1 .. Len(queue), Unlink(p)
  PROVE  /\ queue' \in Seq(Events)
         /\ Len(queue') = Len(queue) - 1
         /\ \A i \in 1 .. Len(queue) - 1 :
               queue'[i] = IF i < p THEN queue[i] ELSE queue[i + 1]
         /\ \A x : x \in InQueue' <=> x \in InQueue /\ x # queue[p]
         /\ Pred(p) \in Pointers
         /\ Pred(p) # NULL => p > 1 /\ Pred(p) = queue[p - 1] /\ Pred(p) = queue'[p - 1]
         /\ Pred(p) = NULL => p = 1
  <1>1. queue \in Seq(Events) /\ Len(queue) \in Nat
    BY QueueFacts DEF TypeOK
  <1>2. queue' = RemoveAt(queue, p)
    BY DEF Unlink
  <1>3. /\ queue' \in Seq(Events)
        /\ Len(queue') = Len(queue) - 1
        /\ \A i \in 1 .. Len(queue) - 1 :
               queue'[i] = IF i < p THEN queue[i] ELSE queue[i + 1]
    BY <1>1, <1>2, RemoveAtFacts
  <1>4. \A x : x \in InQueue' <=> \E i \in 1 .. Len(queue) - 1 : queue'[i] = x
    BY <1>3, ToSetFacts DEF InQueue
  <1>5. ASSUME NEW x
        PROVE  x \in InQueue' <=> x \in InQueue /\ x # queue[p]
    <2>1. ASSUME x \in InQueue' PROVE x \in InQueue /\ x # queue[p]
      <3>1. PICK i \in 1 .. Len(queue) - 1 : queue'[i] = x
        BY <1>4, <2>1
      <3>2. CASE i < p
        BY <1>1, <1>3, <3>1, <3>2, QueueFacts DEF NoneLinkedTwice
      <3>3. CASE i >= p
        <4>1. i + 1 \in 1 .. Len(queue) /\ x = queue[i + 1] /\ i + 1 # p
          BY <1>1, <1>3, <3>1, <3>3
        <4> QED
          BY <4>1, QueueFacts DEF NoneLinkedTwice
      <3> QED
        BY <1>1, <3>2, <3>3
    <2>2. ASSUME x \in InQueue, x # queue[p] PROVE x \in InQueue'
      <3>1. PICK i \in 1 .. Len(queue) : queue[i] = x
        BY <2>2, QueueFacts
      <3>2. CASE i < p
        BY <1>1, <1>3, <1>4, <3>1, <3>2
      <3>3. CASE i > p
        <4>1. i - 1 \in 1 .. Len(queue) - 1 /\ queue'[i - 1] = queue[(i - 1) + 1]
          BY <1>1, <1>3, <3>3
        <4>2. (i - 1) + 1 = i
          BY <1>1
        <4> QED
          BY <1>4, <3>1, <4>1, <4>2
      <3> QED
        BY <1>1, <2>2, <3>1, <3>2, <3>3
    <2> QED
      BY <2>1, <2>2
  <1>6. CASE p = 1
    BY <1>1, <1>3, <1>5, <1>6 DEF Pred, Pointers
  <1>7. CASE p > 1
    <2>1. p - 1 \in 1 .. Len(queue) - 1 /\ p - 1 \in 1 .. Len(queue) /\ p - 1 < p
      BY <1>1, <1>7
    <2>2. Pred(p) = queue[p - 1] /\ queue[p - 1] \in Events /\ queue'[p - 1] = queue[p - 1]
      BY <1>1, <1>3, <1>7, <2>1, QueueFacts DEF Pred
    <2> QED
      BY <1>3, <1>5, <1>7, <2>2 DEF Pointers
  <1> QED
    BY <1>1, <1>6, <1>7

LEMMA UnlinkKeepsList ==
  ASSUME TypeOK, ListInv, NEW p \in 1 .. Len(queue), Unlink(p), UNCHANGED history
  PROVE  ListInv' /\ last' \in Pointers /\ marker' \in Pointers
  <1> DEFINE sh(i) == IF i < p THEN i ELSE i + 1
  <1>0. NoneLinkedTwice /\ LastIsLast /\ MarkerLinked /\ PriorityOrder /\ BornBefore
    BY DEF ListInv
  <1>1. /\ Len(queue) \in Nat /\ queue' \in Seq(Events) /\ Len(queue') = Len(queue) - 1
        /\ Len(queue') \in Nat
        /\ \A i \in 1 .. Len(queue') : queue'[i] = queue[sh(i)]
        /\ \A i \in 1 .. Len(queue') : sh(i) \in 1 .. Len(queue) /\ sh(i) # p
        /\ \A i, j \in 1 .. Len(queue') : i < j <=> sh(i) < sh(j)
    <2>1. /\ Len(queue) \in Nat /\ queue' \in Seq(Events)
          /\ Len(queue') = Len(queue) - 1 /\ Len(queue') \in Nat
      BY <1>0, UnlinkFacts, QueueFacts
    <2>2. \A i \in 1 .. Len(queue') : queue'[i] = queue[sh(i)]
      BY <1>0, <2>1, UnlinkFacts
    <2> QED
      BY <2>1, <2>2
  <1>2. /\ \A x : x \in InQueue' <=> x \in InQueue /\ x # queue[p]
        /\ Pred(p) \in Pointers
        /\ Pred(p) # NULL => p > 1 /\ Pred(p) = queue[p - 1] /\ Pred(p) = queue'[p - 1]
        /\ Pred(p) = NULL => p = 1
    BY <1>0, UnlinkFacts
  <1>3. kind' = kind /\ born' = born /\ clock' = clock
    BY DEF history
  <1>4. last' = (IF p = Len(queue) THEN Pred(p) ELSE last) /\ marker' = MarkerAfterUnlink(p)
    BY DEF Unlink
  <1>5. last' \in Pointers /\ marker' \in Pointers
    BY <1>2, <1>4 DEF MarkerAfterUnlink, TypeOK
  <1> HIDE DEF sh
  <1>6. NoneLinkedTwice'
    <2> SUFFICES ASSUME NEW i \in 1 .. Len(queue'), NEW j \in 1 .. Len(queue'),
                        queue'[i] = queue'[j]
                 PROVE  i = j
      BY DEF NoneLinkedTwice
    <2>1. sh(i) = sh(j)
      BY <1>0, <1>1 DEF NoneLinkedTwice
    <2> QED
      BY <1>1, <2>1 DEF sh
  <1>7. LastIsLast'
    <2>1. queue' = <<>> <=> Len(queue') = 0
      BY <1>1, EmptySeq
    <2>2. CASE Len(queue) = 1
      BY <1>1, <1>2, <1>4, <2>1, <2>2 DEF LastIsLast
    <2>3. CASE Len(queue) > 1 /\ p = Len(queue)
      BY <1>1, <1>2, <1>4, <2>1, <2>3 DEF LastIsLast
    <2>4. CASE Len(queue) > 1 /\ p < Len(queue)
      <3>1. sh(Len(queue')) = Len(queue) /\ Len(queue') \in 1 .. Len(queue')
        BY <1>1, <2>4 DEF sh
      <3>2. queue # <<>>
        BY <2>4, QueueFacts
      <3> QED
        BY <1>0, <1>1, <1>4, <2>1, <2>4, <3>1, <3>2 DEF LastIsLast
    <2> QED
      BY <1>1, <2>2, <2>3, <2>4
  <1>8. MarkerLinked'
    <2>1. CASE marker = queue[p]
      <3>1. Pred(p) # NULL => Pred(p) \in InQueue'
        BY <1>0, <1>1, <1>2, QueueFacts DEF NoneLinkedTwice
      <3> QED
        BY <1>4, <2>1, <3>1 DEF MarkerLinked, MarkerAfterUnlink
    <2>2. CASE marker # queue[p]
      BY <1>0, <1>2, <1>4, <2>2 DEF MarkerLinked, MarkerAfterUnlink
    <2> QED
      BY <2>1, <2>2
  <1>9. MarkerIsFront' /\ NoMarkerNoMarked'
    <2>0. MarkerIsFront /\ NoMarkerNoMarked
      BY <1>0 DEF PriorityOrder
    <2>1. CASE marker = queue[p]
      <3>1. /\ \A i \in 1 .. Len(queue) : i <= p => kind[queue[i]] # "TAIL"
            /\ \A i \in 1 .. Len(queue) : i > p => kind[queue[i]] # "MARK"
        BY <2>0, <2>1 DEF MarkerIsFront
      <3>2. /\ \A i \in 1 .. Len(queue') : i < p => kind[queue'[i]] # "TAIL"
            /\ \A i \in 1 .. Len(queue') : i >= p => kind[queue'[i]] # "MARK"
        BY <1>1, <3>1 DEF sh
      <3>3. marker' = Pred(p)
        BY <1>4, <2>1 DEF MarkerAfterUnlink
      <3>4. CASE p = 1
        <4>1. marker' = NULL
          BY <3>3, <3>4 DEF Pred
        <4>2. \A m \in 1 .. Len(queue') : queue'[m] # NULL
          BY <1>1, ElementOfSeq
        <4> QED
          BY <1>1, <1>3, <3>2, <3>4, <4>1, <4>2 DEF MarkerIsFront, NoMarkerNoMarked
      <3>5. CASE p > 1
        <4>1. p - 1 \in 1 .. Len(queue') /\ marker' = queue'[p - 1] /\ marker' # NULL
          BY <1>1, <1>2, <3>3, <3>5
        <4>2. \A m \in 1 .. Len(queue') : queue'[m] = marker' => m = p - 1
          BY <1>6, <4>1 DEF NoneLinkedTwice
        <4>3. \A i \in 1 .. Len(queue') : (i <= p - 1 => i < p) /\ (i > p - 1 => i >= p)
          BY <1>1
        <4> QED
          BY <1>3, <3>2, <4>1, <4>2, <4>3 DEF MarkerIsFront, NoMarkerNoMarked
      <3> QED
        BY <1>1, <3>4, <3>5
    <2>2. CASE marker # queue[p]
      <3>1. marker' = marker
        BY <1>4, <2>2 DEF MarkerAfterUnlink
      <3>2. MarkerIsFront'
        <4> SUFFICES ASSUME NEW i \in 1 .. Len(queue'), NEW m \in 1 .. Len(queue'),
                            queue'[m] = marker
                     PROVE  /\ i <= m => kind[queue'[i]] # "TAIL"
                            /\ i > m => kind[queue'[i]] # "MARK"
          BY <1>3, <3>1 DEF MarkerIsFront
        <4>1. queue[sh(m)] = marker /\ queue'[i] = queue[sh(i)]
          BY <1>1
        <4>2. (i <= m => sh(i) <= sh(m)) /\ (i > m => sh(i) > sh(m))
          BY <1>1 DEF sh
        <4> QED
          BY <1>1, <2>0, <4>1, <4>2 DEF MarkerIsFront
      <3>3. NoMarkerNoMarked'
        BY <1>1, <1>3, <2>0, <3>1 DEF NoMarkerNoMarked
      <3> QED
        BY <3>2, <3>3
    <2> QED
      BY <2>1, <2>2
  <1>10. QueueInOrder'
    <2> SUFFICES ASSUME NEW i \in 1 .. Len(queue'), NEW j \in 1 .. Len(queue'), i < j
                 PROVE  InOrder(queue[i], queue[j])'
      BY DEF QueueInOrder
    <2>1. InOrder(queue[sh(i)], queue[sh(j)])
      BY <1>0, <1>1 DEF PriorityOrder, QueueInOrder
    <2> QED
      BY <1>1, <1>3, <2>1 DEF InOrder
  <1>11. BornBefore'
    BY <1>0, <1>1, <1>3 DEF BornBefore
  <1> QED
    BY <1>5, <1>6, <1>7, <1>8, <1>9, <1>10, <1>11 DEF ListInv, PriorityOrder

(* A pointer into the list that splits it at t still does when it follows  *)
(* the unlinked event's predecessor, and so does one that is not touched.  *)
LEMMA UnlinkKeepsSplit ==
  ASSUME TypeOK, ListInv, NEW p \in 1 .. Len(queue), Unlink(p), UNCHANGED history,
         NEW e \in Pointers, NEW t \in Nat, SplitsAt(e, t),
         NEW f, f = IF e = queue[p] THEN Pred(p) ELSE e
  PROVE  SplitsAt(f, t)'
  <1> DEFINE sh(i) == IF i < p THEN i ELSE i + 1
  <1>0. NoneLinkedTwice
    BY DEF ListInv
  <1>1. /\ Len(queue) \in Nat /\ queue' \in Seq(Events) /\ Len(queue') = Len(queue) - 1
        /\ Len(queue') \in Nat
        /\ \A i \in 1 .. Len(queue') : queue'[i] = queue[sh(i)]
        /\ \A i \in 1 .. Len(queue') : sh(i) \in 1 .. Len(queue) /\ sh(i) # p
        /\ \A i, j \in 1 .. Len(queue') : i <= j <=> sh(i) <= sh(j)
    <2>1. /\ Len(queue) \in Nat /\ queue' \in Seq(Events)
          /\ Len(queue') = Len(queue) - 1 /\ Len(queue') \in Nat
      BY <1>0, UnlinkFacts, QueueFacts
    <2>2. \A i \in 1 .. Len(queue') : queue'[i] = queue[sh(i)]
      BY <1>0, <2>1, UnlinkFacts
    <2> QED
      BY <2>1, <2>2
  <1>2. /\ Pred(p) # NULL => p > 1 /\ Pred(p) = queue[p - 1] /\ Pred(p) = queue'[p - 1]
        /\ Pred(p) = NULL => p = 1
    BY <1>0, UnlinkFacts
  <1>3. kind' = kind /\ born' = born
    BY DEF history
  <1>4. \A i, j \in 1 .. Len(queue') : queue'[i] = queue'[j] => i = j
    BY <1>0, UnlinkKeepsList DEF ListInv, NoneLinkedTwice
  <1>5. \A m \in 1 .. Len(queue') : queue'[m] \in Events
    BY <1>1, ElementOfSeq
  <1> SUFFICES ASSUME NEW i \in 1 .. Len(queue'), NEW d \in 1 .. Len(queue'),
                      queue'[d] = f, kind[queue'[i]] = "TAIL"
               PROVE  i <= d <=> born[queue'[i]] <= t
    BY <1>3 DEF SplitsAt
  <1> HIDE DEF sh
  <1>6. CASE e = queue[p]
    <2>1. f = Pred(p) /\ Pred(p) # NULL
      BY <1>5, <1>6
    <2>2. p > 1 /\ p - 1 \in 1 .. Len(queue') /\ d = p - 1
      <3>1. p > 1 /\ f = queue'[p - 1]
        BY <1>2, <2>1
      <3>2. p \in 1 .. Len(queue) /\ p - 1 \in 1 .. Len(queue')
        <4>1. p \in 1 .. Len(queue) /\ Len(queue') = Len(queue) - 1 /\ Len(queue) \in Nat
          BY <1>1
        <4> QED
          BY <3>1, <4>1
      <3>3. queue'[d] = queue'[p - 1]
        BY <3>1
      <3> QED
        BY <1>4, <3>1, <3>2, <3>3
    <2>3. sh(i) <= p <=> born[queue[sh(i)]] <= t
      BY <1>1, <1>6 DEF SplitsAt
    <2>4. sh(i) <= p <=> i <= d
      BY <1>1, <2>2 DEF sh
    <2> QED
      BY <1>1, <2>3, <2>4
  <1>7. CASE e # queue[p]
    <2>1. queue[sh(d)] = e /\ queue'[i] = queue[sh(i)]
      BY <1>1, <1>7
    <2>2. sh(i) <= sh(d) <=> born[queue[sh(i)]] <= t
      BY <1>1, <2>1 DEF SplitsAt
    <2> QED
      BY <1>1, <2>1, <2>2
  <1> QED
    BY <1>6, <1>7

(***************************************************************************)
(* QueueEvent links the new event behind index p.                          *)
(***************************************************************************)
LEMMA InsertFacts ==
  ASSUME IInv, NEW e \in Events, NEW pos \in Positions, QueueEvent(e, pos)
  PROVE  \E p \in 0 .. Len(queue) :
           /\ Slot(pos, p)
           /\ last' = LastAfterInsert(e, p)
           /\ queue' \in Seq(Events) /\ Len(queue') = Len(queue) + 1
           /\ \A i \in 1 .. Len(queue) + 1 : queue'[i] =
                IF i <= p THEN queue[i] ELSE IF i = p + 1 THEN e ELSE queue[i - 1]
           /\ \A i \in 1 .. Len(queue) : queue'[IF i <= p THEN i ELSE i + 1] = queue[i]
           /\ \A x : x \in InQueue' <=> x \in InQueue \/ x = e
  <1>1. queue \in Seq(Events) /\ Len(queue) \in Nat
    BY QueueFacts DEF IInv, TypeOK
  <1>2. PICK p \in 0 .. Len(queue) :
          Slot(pos, p) /\ queue' = InsertAt(queue, p + 1, e) /\ last' = LastAfterInsert(e, p)
    BY DEF QueueEvent
  <1>3. /\ queue' \in Seq(Events) /\ Len(queue') = Len(queue) + 1
        /\ \A i \in 1 .. Len(queue) + 1 : queue'[i] =
             IF i <= p THEN queue[i] ELSE IF i = p + 1 THEN e ELSE queue[i - 1]
    <2>1. /\ InsertAt(queue, p + 1, e) \in Seq(Events)
          /\ Len(InsertAt(queue, p + 1, e)) = Len(queue) + 1
          /\ \A i \in 1 .. Len(queue) + 1 : InsertAt(queue, p + 1, e)[i] =
               IF i <= p THEN queue[i] ELSE IF i = p + 1 THEN e ELSE queue[i - 1]
      <3>1. \A s \in Seq(Events) : \A q \in 0 .. Len(s) :
              /\ InsertAt(s, q + 1, e) \in Seq(Events)
              /\ Len(InsertAt(s, q + 1, e)) = Len(s) + 1
              /\ \A i \in 1 .. Len(s) + 1 : InsertAt(s, q + 1, e)[i] =
                   IF i <= q THEN s[i] ELSE IF i = q + 1 THEN e ELSE s[i - 1]
        BY InsertAtFacts
      <3> QED
        BY <1>1, <3>1, Zenon
    <2> QED
      BY <1>2, <2>1, Zenon
  <1>4. \A i \in 1 .. Len(queue) : queue'[IF i <= p THEN i ELSE i + 1] = queue[i]
    <2> SUFFICES ASSUME NEW i \in 1 .. Len(queue)
                 PROVE  queue'[IF i <= p THEN i ELSE i + 1] = queue[i]
      OBVIOUS
    <2>1. CASE i <= p
      BY <1>1, <1>3, <2>1
    <2>2. CASE i > p
      <3>1. i + 1 \in 1 .. Len(queue) + 1 /\ ~(i + 1 <= p) /\ i + 1 # p + 1
            /\ (i + 1) - 1 = i
        BY <1>1, <2>2
      <3>2. queue'[i + 1] = queue[(i + 1) - 1]
        BY <1>3, <3>1
      <3> QED
        BY <2>2, <3>1, <3>2
    <2> QED
      BY <1>1, <2>1, <2>2
  <1>5. \A x : x \in InQueue' <=> \E i \in 1 .. Len(queue) + 1 : queue'[i] = x
    BY <1>3, ToSetFacts DEF InQueue
  <1>6. ASSUME NEW x
        PROVE  x \in InQueue' <=> x \in InQueue \/ x = e
    <2>1. ASSUME x \in InQueue' PROVE x \in InQueue \/ x = e
      <3>1. PICK i \in 1 .. Len(queue) + 1 : queue'[i] = x
        BY <1>5, <2>1
      <3>2. CASE i <= p
        BY <1>1, <1>3, <3>1, <3>2, QueueFacts DEF IInv
      <3>3. CASE i = p + 1
        BY <1>1, <1>3, <3>1, <3>3
      <3>4. CASE i > p + 1
        <4>1. i - 1 \in 1 .. Len(queue) /\ x = queue[i - 1]
          BY <1>1, <1>3, <3>1, <3>4
        <4> QED
          BY <4>1, QueueFacts DEF IInv
      <3> QED
        BY <1>1, <3>2, <3>3, <3>4
    <2>2. ASSUME x \in InQueue PROVE x \in InQueue'
      <3>1. PICK i \in 1 .. Len(queue) : queue[i] = x
        BY <2>2, QueueFacts DEF IInv
      <3>2. (IF i <= p THEN i ELSE i + 1) \in 1 .. Len(queue) + 1
        BY <1>1
      <3> QED
        BY <1>4, <1>5, <3>1, <3>2
    <2>3. e \in InQueue'
      <3>1. p + 1 \in 1 .. Len(queue) + 1 /\ queue'[p + 1] = e
        BY <1>1, <1>3
      <3> QED
        BY <1>5, <3>1
    <2> QED
      BY <2>1, <2>2, <2>3
  <1> QED
    BY <1>2, <1>3, <1>4, <1>6

LEMMA InsertKeepsList ==
  ASSUME IInv, NEW e \in Events, NEW pos \in Positions, QueueEvent(e, pos)
  PROVE  ListInv' /\ last' \in Pointers /\ marker' \in Pointers
  <1>0. /\ TypeOK /\ NoneLinkedTwice /\ LastIsLast /\ MarkerLinked /\ MarkerIsFront
        /\ NoMarkerNoMarked /\ QueueInOrder /\ BornBefore
    BY DEF IInv, ListInv, PriorityOrder
  <1>1. PICK p \in 0 .. Len(queue) :
           /\ Slot(pos, p)
           /\ last' = LastAfterInsert(e, p)
           /\ queue' \in Seq(Events) /\ Len(queue') = Len(queue) + 1
           /\ \A i \in 1 .. Len(queue) + 1 : queue'[i] =
                IF i <= p THEN queue[i] ELSE IF i = p + 1 THEN e ELSE queue[i - 1]
           /\ \A i \in 1 .. Len(queue) : queue'[IF i <= p THEN i ELSE i + 1] = queue[i]
           /\ \A x : x \in InQueue' <=> x \in InQueue \/ x = e
    BY InsertFacts
  <1>2. /\ Len(queue) \in Nat /\ InQueue \subseteq Events
        /\ \A i \in 1 .. Len(queue) : queue[i] \in Events /\ queue[i] \in InQueue
        /\ queue = <<>> <=> Len(queue) = 0
    BY <1>0, QueueFacts
  <1>3. /\ e \notin InQueue /\ clock' = clock + 1 /\ clock \in Nat
        /\ kind' = [kind EXCEPT ![e] = pos] /\ born' = [born EXCEPT ![e] = clock + 1]
        /\ marker' = IF pos = "MARK" THEN e ELSE marker
    BY <1>0 DEF QueueEvent, TypeOK
  <1>4. \A x \in InQueue : kind'[x] = kind[x] /\ born'[x] = born[x]
    BY <1>0, <1>2, <1>3 DEF TypeOK
  <1>5. kind'[e] = pos /\ born'[e] = clock + 1
    BY <1>0, <1>3 DEF TypeOK
  \* Where an index of the new list comes from.
  <1>6. ASSUME NEW i \in 1 .. Len(queue')
        PROVE  \/ i = p + 1 /\ queue'[i] = e
               \/ i <= p /\ i \in 1 .. Len(queue) /\ queue'[i] = queue[i]
               \/ i > p + 1 /\ i - 1 \in 1 .. Len(queue) /\ i - 1 > p /\ queue'[i] = queue[i - 1]
    BY <1>1, <1>2
  <1>12. ASSUME NEW x \in InQueue PROVE born[x] \in Nat /\ born[x] < clock + 1
    <2>1. PICK i \in 1 .. Len(queue) : queue[i] = x
      BY <1>0, QueueFacts
    <2>2. born[x] <= clock /\ x \in Events
      BY <1>0, <1>2, <2>1 DEF BornBefore
    <2> QED
      BY <1>0, <1>3, <2>2 DEF TypeOK
  <1>7. last' \in Pointers /\ marker' \in Pointers
    BY <1>0, <1>1, <1>3 DEF TypeOK, LastAfterInsert, Pointers
  <1>8. NoneLinkedTwice'
    <2> SUFFICES ASSUME NEW i \in 1 .. Len(queue'), NEW j \in 1 .. Len(queue'),
                        queue'[i] = queue'[j]
                 PROVE  i = j
      BY DEF NoneLinkedTwice
    <2>1. ASSUME NEW k \in 1 .. Len(queue') PROVE queue'[k] = e <=> k = p + 1
      BY <1>2, <1>3, <1>6, SMTT(30)
    <2>2. CASE queue'[i] = e
      BY <2>1, <2>2
    <2>3. CASE queue'[i] # e
      <3>1. i # p + 1 /\ j # p + 1
        BY <2>1, <2>3
      <3>2. PICK a \in 1 .. Len(queue) : queue'[i] = queue[a] /\ i = IF a <= p THEN a ELSE a + 1
        BY <1>2, <1>6, <3>1
      <3>3. PICK b \in 1 .. Len(queue) : queue'[j] = queue[b] /\ j = IF b <= p THEN b ELSE b + 1
        BY <1>2, <1>6, <3>1
      <3>4. a = b
        BY <1>0, <3>2, <3>3 DEF NoneLinkedTwice
      <3> QED
        BY <3>2, <3>3, <3>4
    <2> QED
      BY <2>2, <2>3
  <1>9. LastIsLast'
    <2>1. queue' # <<>>
      BY <1>1, <1>2, EmptySeq
    <2>2. CASE p = Len(queue)
      BY <1>1, <1>2, <2>1, <2>2 DEF LastIsLast, LastAfterInsert
    <2>3. CASE p < Len(queue)
      <3>1. queue'[Len(queue')] = queue[Len(queue)]
        BY <1>1, <1>2, <2>3
      <3> QED
        BY <1>0, <1>1, <1>2, <2>1, <2>3, <3>1 DEF LastIsLast, LastAfterInsert
    <2> QED
      BY <1>2, <2>2, <2>3
  <1>10. MarkerLinked'
    BY <1>0, <1>1, <1>3 DEF MarkerLinked
  <1>11. BornBefore'
    <2> SUFFICES ASSUME NEW i \in 1 .. Len(queue')
                 PROVE  born'[queue'[i]] <= clock'
      BY DEF BornBefore
    <2>1. queue'[i] \in InQueue \/ queue'[i] = e
      BY <1>2, <1>6
    <2>2. CASE queue'[i] \in InQueue
      <3>1. born[queue'[i]] < clock + 1 /\ born[queue'[i]] \in Nat
        BY <1>12, <2>2
      <3> QED
        BY <1>3, <1>4, <2>2, <3>1
    <2>3. CASE queue'[i] = e
      BY <1>3, <1>5, <2>3
    <2> QED
      BY <2>1, <2>2, <2>3
  \* Everything in front of the new event may be, and everything behind it.
  <1>13. /\ \A i \in 1 .. p : pos \in {"MARK", "HEAD"} => kind[queue[i]] # "TAIL"
         /\ pos = "HEAD" => p = 0
         /\ pos = "TAIL" => p = Len(queue)
         /\ \A i \in 1 .. Len(queue) : i > p /\ pos = "MARK" => kind[queue[i]] # "MARK"
    <2>1. CASE pos = "TAIL"
      BY <1>1, <1>2, <2>1 DEF Slot
    <2>2. CASE pos = "HEAD"
      BY <1>1, <1>2, <2>2 DEF Slot
    <2>3. CASE pos = "MARK" /\ marker = NULL
      BY <1>0, <1>1, <1>2, <2>3 DEF Slot, NoMarkerNoMarked
    <2>4. CASE pos = "MARK" /\ marker # NULL
      <3>1. p \in 1 .. Len(queue) /\ queue[p] = marker
        BY <1>1, <1>2, <2>4 DEF Slot
      <3>2. \A i \in 1 .. Len(queue) : /\ i <= p => kind[queue[i]] # "TAIL"
                                       /\ i > p => kind[queue[i]] # "MARK"
        BY <1>0, <3>1 DEF MarkerIsFront
      <3> QED
        BY <1>2, <2>4, <3>1, <3>2
    <2> QED
      BY <2>1, <2>2, <2>3, <2>4 DEF Positions
  <1>14. QueueInOrder'
    <2> SUFFICES ASSUME NEW i \in 1 .. Len(queue'), NEW j \in 1 .. Len(queue'), i < j
                 PROVE  InOrder(queue[i], queue[j])'
      BY DEF QueueInOrder
    <2>1. CASE i # p + 1 /\ j # p + 1
      <3>1. PICK a \in 1 .. Len(queue), b \in 1 .. Len(queue) :
               a < b /\ queue'[i] = queue[a] /\ queue'[j] = queue[b]
        <4>1. CASE i <= p /\ j <= p
          BY <1>2, <1>6, <4>1
        <4>2. CASE i <= p /\ j > p + 1
          BY <1>2, <1>6, <4>2
        <4>3. CASE i > p + 1 /\ j > p + 1
          <5>1. i - 1 < j - 1 /\ i - 1 \in 1 .. Len(queue) /\ j - 1 \in 1 .. Len(queue)
            BY <1>1, <1>2, <4>3
          <5>2. queue'[i] = queue[i - 1] /\ queue'[j] = queue[j - 1]
            BY <1>6, <4>3
          <5> QED
            BY <5>1, <5>2
        <4> QED
          BY <1>1, <1>2, <2>1, <4>1, <4>2, <4>3
      <3>2. InOrder(queue[a], queue[b])
        BY <1>0, <3>1 DEF QueueInOrder
      <3> QED
        BY <1>2, <1>4, <3>1, <3>2 DEF InOrder
    <2>2. CASE i = p + 1
      <3>1. queue'[i] = e /\ j > p + 1 /\ j - 1 \in 1 .. Len(queue) /\ j - 1 > p
            /\ queue'[j] = queue[j - 1]
        BY <1>2, <1>6, <2>2
      <3>2. queue[j - 1] \in InQueue /\ pos # "TAIL"
        BY <1>2, <1>13, <3>1
      <3>3. pos = "MARK" => kind[queue[j - 1]] # "MARK"
        BY <1>13, <3>1
      <3>4. born[queue[j - 1]] < clock + 1
        BY <1>12, <3>2
      <3> QED
        BY <1>3, <1>4, <1>5, <1>12, <3>1, <3>2, <3>3, <3>4 DEF InOrder, Positions
    <2>3. CASE j = p + 1
      <3>1. queue'[j] = e /\ i <= p /\ i \in 1 .. Len(queue) /\ i \in 1 .. p
            /\ queue'[i] = queue[i]
        BY <1>2, <1>6, <2>3
      <3>2. queue[i] \in InQueue /\ born[queue[i]] < clock + 1 /\ pos # "HEAD"
        BY <1>2, <1>12, <1>13, <3>1
      <3>3. pos = "MARK" => kind[queue[i]] # "TAIL"
        BY <1>13, <3>1
      <3>4. /\ kind'[queue'[i]] = kind[queue[i]] /\ born'[queue'[i]] = born[queue[i]]
            /\ kind'[queue'[j]] = pos /\ born'[queue'[j]] = clock + 1
        BY <1>4, <1>5, <3>1, <3>2
      <3> QED
        BY <3>2, <3>3, <3>4, SMTT(30) DEF InOrder, Positions
    <2> QED
      BY <2>1, <2>2, <2>3
  <1>15. MarkerIsFront' /\ NoMarkerNoMarked'
    <2>1. CASE pos = "MARK"
      <3>1. \A m \in 1 .. Len(queue') : queue'[m] = e => m = p + 1
        BY <1>2, <1>3, <1>6
      <3>2. ASSUME NEW i \in 1 .. Len(queue')
            PROVE  /\ i <= p + 1 => kind'[queue'[i]] # "TAIL"
                   /\ i > p + 1 => kind'[queue'[i]] # "MARK"
        <4>1. CASE i = p + 1 /\ queue'[i] = e
          <5>1. kind'[queue'[i]] = "MARK" /\ ~(i > p + 1)
            BY <1>1, <1>5, <2>1, <4>1
          <5> QED
            BY <5>1
        <4>2. CASE i <= p /\ i \in 1 .. Len(queue) /\ queue'[i] = queue[i]
          <5>1. i \in 1 .. p /\ ~(i > p + 1)
            BY <4>2
          <5>2. kind'[queue'[i]] = kind[queue[i]]
            BY <1>2, <1>4, <4>2
          <5> QED
            BY <1>13, <2>1, <5>1, <5>2
        <4>3. CASE /\ i > p + 1 /\ i - 1 \in 1 .. Len(queue) /\ i - 1 > p
                   /\ queue'[i] = queue[i - 1]
          <5>1. kind'[queue'[i]] = kind[queue[i - 1]] /\ ~(i <= p + 1)
            BY <1>2, <1>4, <4>3
          <5> QED
            BY <1>13, <2>1, <4>3, <5>1
        <4> QED
          BY <1>6, <4>1, <4>2, <4>3
      <3>3. marker' = e /\ e # NULL
        BY <1>3, <2>1
      <3> QED
        BY <3>1, <3>2, <3>3 DEF MarkerIsFront, NoMarkerNoMarked
    <2>2. CASE pos # "MARK"
      <3>1. marker' = marker
        BY <1>3, <2>2
      <3>2. NoMarkerNoMarked'
        <4> SUFFICES ASSUME marker = NULL, NEW i \in 1 .. Len(queue')
                     PROVE  kind'[queue'[i]] # "MARK"
          BY <3>1 DEF NoMarkerNoMarked
        <4>1. \A k \in 1 .. Len(queue) : kind'[queue[k]] # "MARK"
          BY <1>0, <1>2, <1>4 DEF NoMarkerNoMarked
        <4> QED
          BY <1>5, <1>6, <2>2, <4>1
      <3>3. MarkerIsFront'
        <4> SUFFICES ASSUME NEW i \in 1 .. Len(queue'), NEW m \in 1 .. Len(queue'),
                            queue'[m] = marker
                     PROVE  /\ i <= m => kind'[queue'[i]] # "TAIL"
                            /\ i > m => kind'[queue'[i]] # "MARK"
          BY <3>1 DEF MarkerIsFront
        <4>1. queue'[m] \in InQueue
          <5>1. marker \in InQueue \/ marker = NULL
            BY <1>0 DEF MarkerLinked
          <5>2. queue'[m] # NULL
            BY <1>2, <1>6
          <5> QED
            BY <5>1, <5>2
        <4>2. m # p + 1
          BY <1>1, <1>3, <4>1, <1>6
        <4>3. PICK d \in 1 .. Len(queue) :
                 queue[d] = marker /\ m = IF d <= p THEN d ELSE d + 1
          <5>1. CASE m <= p
            BY <1>2, <1>6, <5>1
          <5>2. CASE m > p + 1
            <6>1. m - 1 \in 1 .. Len(queue) /\ m - 1 > p /\ queue[m - 1] = marker
              BY <1>6, <5>2
            <6>2. m = (m - 1) + 1
              BY <1>1, <1>2
            <6> QED
              BY <1>2, <6>1, <6>2
          <5> QED
            BY <1>1, <1>2, <4>2, <5>1, <5>2
        <4>4. \A k \in 1 .. Len(queue) : /\ k <= d => kind[queue[k]] # "TAIL"
                                         /\ k > d => kind[queue[k]] # "MARK"
          BY <1>0, <4>3 DEF MarkerIsFront
        <4>5. CASE i = p + 1
          <5>1. pos = "TAIL" => i > m
            BY <1>1, <1>2, <1>13, <4>3, <4>5
          <5> QED
            BY <1>5, <1>6, <2>2, <4>5, <5>1 DEF Positions
        <4>6. CASE i <= p
          <5>1. queue'[i] = queue[i] /\ i \in 1 .. Len(queue)
            BY <1>1, <1>2, <1>6, <4>6
          <5>2. (i <= m => i <= d) /\ (i > m => i > d)
            BY <1>1, <1>2, <4>3, <4>6
          <5> QED
            BY <1>2, <1>4, <4>4, <5>1, <5>2
        <4>7. CASE i > p + 1
          <5>1. queue'[i] = queue[i - 1] /\ i - 1 \in 1 .. Len(queue)
            BY <1>1, <1>2, <1>6, <4>7
          <5>2. (i <= m => i - 1 <= d) /\ (i > m => i - 1 > d)
            BY <1>1, <1>2, <4>3, <4>7
          <5> QED
            BY <1>2, <1>4, <4>4, <5>1, <5>2
        <4> QED
          BY <1>1, <1>2, <4>5, <4>6, <4>7
      <3> QED
        BY <3>2, <3>3
    <2> QED
      BY <2>1, <2>2
  <1> QED
    BY <1>7, <1>8, <1>9, <1>10, <1>11, <1>14, <1>15 DEF ListInv, PriorityOrder

(* A linked event that splits the list at a past t still does.             *)
LEMMA InsertKeepsSplit ==
  ASSUME IInv, NEW e \in Events, NEW pos \in Positions, QueueEvent(e, pos),
         NEW f \in InQueue \union {NULL}, NEW t \in Nat, t <= clock, SplitsAt(f, t)
  PROVE  SplitsAt(f, t)'
  <1>0. TypeOK /\ NoneLinkedTwice
    BY DEF IInv, ListInv
  <1>1. PICK p \in 0 .. Len(queue) :
           /\ Slot(pos, p)
           /\ last' = LastAfterInsert(e, p)
           /\ queue' \in Seq(Events) /\ Len(queue') = Len(queue) + 1
           /\ \A i \in 1 .. Len(queue) + 1 : queue'[i] =
                IF i <= p THEN queue[i] ELSE IF i = p + 1 THEN e ELSE queue[i - 1]
           /\ \A i \in 1 .. Len(queue) : queue'[IF i <= p THEN i ELSE i + 1] = queue[i]
           /\ \A x : x \in InQueue' <=> x \in InQueue \/ x = e
    BY InsertFacts
  <1>2. /\ Len(queue) \in Nat /\ InQueue \subseteq Events
        /\ \A i \in 1 .. Len(queue) : queue[i] \in Events /\ queue[i] \in InQueue
    BY <1>0, QueueFacts
  <1>3. /\ e \notin InQueue /\ clock \in Nat
        /\ kind' = [kind EXCEPT ![e] = pos] /\ born' = [born EXCEPT ![e] = clock + 1]
    BY <1>0 DEF QueueEvent, TypeOK
  <1>4. \A x \in InQueue : kind'[x] = kind[x] /\ born'[x] = born[x]
    BY <1>0, <1>2, <1>3 DEF TypeOK
  <1>5. kind'[e] = pos /\ born'[e] = clock + 1
    BY <1>0, <1>3 DEF TypeOK
  <1>6. ASSUME NEW i \in 1 .. Len(queue')
        PROVE  \/ i = p + 1 /\ queue'[i] = e
               \/ i <= p /\ i \in 1 .. Len(queue) /\ queue'[i] = queue[i]
               \/ i > p + 1 /\ i - 1 \in 1 .. Len(queue) /\ i - 1 > p /\ queue'[i] = queue[i - 1]
    BY <1>1, <1>2
  <1> SUFFICES ASSUME NEW i \in 1 .. Len(queue'), NEW d \in 1 .. Len(queue'),
                      queue'[d] = f, kind'[queue'[i]] = "TAIL"
               PROVE  i <= d <=> born'[queue'[i]] <= t
    BY DEF SplitsAt
  <1>7. f \in InQueue /\ d # p + 1
    <2>1. f \in Events
      BY <1>2, <1>6
    <2>2. f \in InQueue
      BY <2>1
    <2> QED
      BY <1>1, <1>3, <1>6, <2>2
  <1>8. PICK c \in 1 .. Len(queue) : queue[c] = f /\ d = IF c <= p THEN c ELSE c + 1
    BY <1>2, <1>6, <1>7
  <1>9. CASE i = p + 1
    <2>1. pos = "TAIL" /\ queue'[i] = e
      BY <1>5, <1>6, <1>9
    <2>2. p = Len(queue)
      BY <1>1, <2>1 DEF Slot
    <2> QED
      BY <1>2, <1>3, <1>5, <1>8, <1>9, <2>1, <2>2
  <1>10. CASE i # p + 1
    <2>1. PICK a \in 1 .. Len(queue) : queue'[i] = queue[a] /\ i = IF a <= p THEN a ELSE a + 1
      BY <1>2, <1>6, <1>10
    <2>2. a <= c <=> i <= d
      BY <1>2, <1>8, <2>1
    <2>3. kind[queue[a]] = "TAIL" /\ born'[queue'[i]] = born[queue[a]]
      BY <1>2, <1>4, <2>1
    <2>4. a <= c <=> born[queue[a]] <= t
      BY <1>8, <2>3 DEF SplitsAt
    <2> QED
      BY <2>2, <2>3, <2>4
  <1> QED
    BY <1>9, <1>10

(* The end of the list splits it at the present.                           *)
LEMMA LastSplits ==
  TypeOK /\ ListInv => last \in InQueue \union {NULL} /\ SplitsAt(last, clock)
  <1> SUFFICES ASSUME TypeOK, ListInv
               PROVE  last \in InQueue \union {NULL} /\ SplitsAt(last, clock)
    OBVIOUS
  <1>1. /\ Len(queue) \in Nat
        /\ \A i \in 1 .. Len(queue) : queue[i] \in Events /\ queue[i] \in InQueue
        /\ queue = <<>> <=> Len(queue) = 0
    BY QueueFacts
  <1>2. NoneLinkedTwice /\ LastIsLast /\ BornBefore
    BY DEF ListInv
  <1>3. CASE queue = <<>>
    BY <1>1, <1>2, <1>3 DEF LastIsLast, SplitsAt
  <1>4. CASE queue # <<>>
    <2>1. Len(queue) \in 1 .. Len(queue) /\ last = queue[Len(queue)]
      BY <1>1, <1>2, <1>4 DEF LastIsLast
    <2>2. \A d \in 1 .. Len(queue) : queue[d] = last => d = Len(queue)
      BY <1>2, <2>1 DEF NoneLinkedTwice
    <2> QED
      BY <1>1, <1>2, <2>1, <2>2 DEF SplitsAt, BornBefore
  <1> QED
    BY <1>3, <1>4

-----------------------------------------------------------------------------
(***************************************************************************)
(* Each action keeps the inductive invariant.                              *)
(***************************************************************************)
LEMMA QueueEventIInv ==
  ASSUME IInv, NEW e \in Events, NEW pos \in Positions, QueueEvent(e, pos)
  PROVE  IInv'
  <1>0. TypeOK /\ ListInv /\ RoundInv /\ ServicedOnce
    BY DEF IInv
  <1>1. ListInv' /\ last' \in Pointers /\ marker' \in Pointers
    BY InsertKeepsList
  <1>2. /\ queue' \in Seq(Events) /\ Len(queue') \in Nat
        /\ \A x : x \in InQueue' <=> x \in InQueue \/ x = e
    BY <1>0, InsertFacts, QueueFacts
  <1>3. /\ walk = 0 /\ walk' = walk /\ sampling' = sampling /\ sampleEv' = sampleEv
        /\ sampleClock' = sampleClock /\ busy' = busy /\ stack' = stack
        /\ clock' = clock + 1 /\ clock \in Nat /\ e \notin InService
        /\ kind' = [kind EXCEPT ![e] = pos] /\ born' = [born EXCEPT ![e] = clock + 1]
    BY <1>0 DEF QueueEvent, MutexFree, sample, service, TypeOK
  <1>4. ASSUME delim = NULL
        PROVE  TypeOK' /\ DelimLinked' /\ RoundSplit' /\ roundClock' <= clock'
    <2>1. delim' = last' /\ roundFinished' = FALSE /\ roundClock' = clock'
      BY <1>3, <1>4 DEF QueueEvent
    <2>2. TypeOK'
      <3>1. kind' \in [Events -> Positions] /\ born' \in [Events -> Nat]
        BY <1>0, <1>3 DEF TypeOK
      <3>2. walk' \in 0 .. Len(queue') + 1
        BY <1>2, <1>3
      <3>3. delim' \in Pointers /\ roundFinished' \in BOOLEAN /\ roundClock' \in Nat
        <4>1. last' \in Pointers /\ clock' \in Nat
          BY <1>1, <1>3
        <4> QED
          BY <2>1, <4>1
      <3> QED
        BY <1>0, <1>1, <1>2, <1>3, <3>1, <3>2, <3>3 DEF TypeOK
    <2>3. (last \in InQueue \union {NULL} /\ SplitsAt(last, clock))'
      BY <1>1, <2>2, LastSplits, PTL
    <2>4. DelimLinked' /\ RoundSplit' /\ roundClock' <= clock'
      BY <1>3, <2>1, <2>3 DEF DelimLinked, RoundSplit, SplitsAt
    <2> QED
      BY <2>1, <2>2, <2>4
  <1>5. ASSUME delim # NULL
        PROVE  TypeOK' /\ DelimLinked' /\ RoundSplit' /\ roundClock' <= clock'
    <2>1. delim' = delim /\ roundFinished' = roundFinished /\ roundClock' = roundClock
      BY <1>5 DEF QueueEvent, round
    <2>2. TypeOK'
      <3>1. kind' \in [Events -> Positions] /\ born' \in [Events -> Nat]
        BY <1>0, <1>3 DEF TypeOK
      <3>2. walk' \in 0 .. Len(queue') + 1
        BY <1>2, <1>3
      <3>3. delim' \in Pointers /\ roundFinished' \in BOOLEAN /\ roundClock' \in Nat
        BY <1>0, <1>1, <1>3, <2>1 DEF TypeOK
      <3> QED
        BY <1>0, <1>1, <1>2, <1>3, <3>1, <3>2, <3>3 DEF TypeOK
    <2>3. SplitsAt(delim, roundClock)'
      <3>1. SplitsAt(delim, roundClock) /\ roundClock <= clock /\ delim \in InQueue \union {NULL}
        BY <1>0 DEF RoundInv, RoundSplit, DelimLinked
      <3>2. roundClock \in Nat
        BY <1>0 DEF TypeOK
      <3>3. \A f \in InQueue \union {NULL}, t \in Nat :
              t <= clock /\ SplitsAt(f, t) => SplitsAt(f, t)'
        BY InsertKeepsSplit
      <3> QED
        BY <2>1, <3>1, <3>2, <3>3 DEF SplitsAt
    <2>4. DelimLinked' /\ RoundSplit' /\ roundClock' <= clock'
      BY <1>0, <1>2, <1>3, <2>1, <2>3 DEF RoundInv, DelimLinked, RoundSplit, TypeOK
    <2> QED
      BY <2>1, <2>2, <2>4
  <1>6. TypeOK' /\ DelimLinked' /\ RoundSplit' /\ roundClock' <= clock'
    BY <1>4, <1>5
  <1>7. SampleOK'
    <2>1. ASSUME sampling PROVE SplitsAt(sampleEv, sampleClock)'
      <3>1. /\ SplitsAt(sampleEv, sampleClock) /\ sampleClock <= clock
            /\ sampleEv \in InQueue \union {NULL} /\ sampleClock \in Nat
        BY <1>0, <2>1 DEF RoundInv, SampleOK, TypeOK
      <3>2. \A f \in InQueue \union {NULL}, t \in Nat :
              t <= clock /\ SplitsAt(f, t) => SplitsAt(f, t)'
        BY InsertKeepsSplit
      <3>3. sampleEv' = sampleEv /\ sampleClock' = sampleClock
        BY <1>3
      <3> QED
        BY <3>1, <3>2, <3>3 DEF SplitsAt
    <2> QED
      BY <1>0, <1>2, <1>3, <2>1 DEF RoundInv, SampleOK, TypeOK
  <1>8. ServicedOnce'
    <2>1. InService' = InService
      BY <1>3 DEF InService
    <2>2. busy' = InQueue' \intersect InService'
      BY <1>0, <1>2, <1>3, <2>1 DEF ServicedOnce, BusyIffInService
    <2> QED
      BY <1>0, <1>3, <2>2 DEF ServicedOnce, BusyIffInService, FramesDistinct
  <1> QED
    BY <1>1, <1>6, <1>7, <1>8 DEF IInv, RoundInv

LEMMA DeleteThisIInv ==
  ASSUME IInv, DeleteThis
  PROVE  IInv'
  <1>0. TypeOK /\ ListInv /\ RoundInv /\ ServicedOnce /\ NoneLinkedTwice
    BY DEF IInv, ListInv
  <1>1. PICK p \in 1 .. Len(queue) : p = walk
    BY DEF DeleteThis
  <1>2. /\ Unlink(p) /\ UNCHANGED history
        /\ delim' = (IF delim = queue[p] THEN Pred(p) ELSE delim)
        /\ roundFinished' = (roundFinished /\ delim # queue[p])
        /\ busy' = busy \ {queue[p]}
        /\ walk' = walk /\ roundClock' = roundClock /\ stack' = stack
        /\ sampling' = sampling /\ sampleEv' = sampleEv /\ sampleClock' = sampleClock
    BY <1>1 DEF DeleteThis, DelimAfterDelete, sample
  <1>3. ListInv' /\ last' \in Pointers /\ marker' \in Pointers
    BY <1>0, <1>2, UnlinkKeepsList
  <1>4. /\ queue' \in Seq(Events) /\ Len(queue) \in Nat /\ Len(queue') = Len(queue) - 1
        /\ \A x : x \in InQueue' <=> x \in InQueue /\ x # queue[p]
        /\ Pred(p) \in Pointers
        /\ Pred(p) # NULL => p > 1 /\ Pred(p) = queue[p - 1]
    BY <1>0, <1>2, UnlinkFacts, QueueFacts
  <1>5. kind' = kind /\ born' = born /\ clock' = clock
    BY <1>2 DEF history
  <1>6. TypeOK'
    <2>1. walk' \in 0 .. Len(queue') + 1
      BY <1>1, <1>2, <1>4
    <2>2. delim' \in Pointers /\ roundFinished' \in BOOLEAN /\ busy' \subseteq Events
      BY <1>0, <1>2, <1>4 DEF TypeOK
    <2> QED
      BY <1>0, <1>2, <1>3, <1>4, <1>5, <2>1, <2>2 DEF TypeOK
  <1>7. DelimLinked'
    <2>1. CASE delim = queue[p]
      <3>1. Pred(p) # NULL => Pred(p) \in InQueue /\ Pred(p) # queue[p]
        BY <1>0, <1>4, QueueFacts DEF NoneLinkedTwice
      <3> QED
        BY <1>2, <1>4, <2>1, <3>1 DEF DelimLinked
    <2>2. CASE delim # queue[p]
      BY <1>0, <1>2, <1>4, <2>2 DEF RoundInv, DelimLinked
    <2> QED
      BY <2>1, <2>2
  <1>8. RoundSplit'
    <2>1. PICK f : f = IF delim = queue[p] THEN Pred(p) ELSE delim
      OBVIOUS
    <2>2. delim \in Pointers /\ roundClock \in Nat /\ SplitsAt(delim, roundClock)
      BY <1>0 DEF TypeOK, RoundInv, RoundSplit
    <2>3. \A e \in Pointers, t \in Nat : \A g :
            SplitsAt(e, t) /\ g = (IF e = queue[p] THEN Pred(p) ELSE e) => SplitsAt(g, t)'
      BY <1>0, <1>2, UnlinkKeepsSplit
    <2>4. delim' = f /\ roundClock' = roundClock
      BY <1>2, <2>1
    <2> QED
      BY <2>1, <2>2, <2>3, <2>4 DEF RoundSplit, SplitsAt
  <1>9. ~sampling
    BY <1>0, <1>1 DEF RoundInv, SampleOK
  <1>10. RoundInv'
    <2>1. SampleOK'
      BY <1>0, <1>2, <1>5, <1>9 DEF RoundInv, SampleOK
    <2>2. roundClock' <= clock'
      BY <1>0, <1>2, <1>5 DEF RoundInv
    <2> QED
      BY <1>7, <1>8, <2>1, <2>2 DEF RoundInv
  <1>11. ServicedOnce'
    <2>1. InService' = InService
      BY <1>2 DEF InService
    <2>2. busy' = InQueue' \intersect InService'
      BY <1>0, <1>2, <1>4, <2>1 DEF ServicedOnce, BusyIffInService
    <2> QED
      BY <1>0, <1>2, <2>2 DEF ServicedOnce, BusyIffInService, FramesDistinct
  <1> QED
    BY <1>3, <1>6, <1>10, <1>11 DEF IInv

(* Steps that only move the cursor of Tcl_DeleteEvents.                    *)
LEMMA WalkIInv ==
  ASSUME IInv, DeleteEvents \/ RetainThis \/ DeleteEventsReturns
  PROVE  IInv'
  <1>0. TypeOK /\ ListInv /\ RoundInv /\ ServicedOnce /\ Len(queue) \in Nat
    BY QueueFacts DEF IInv
  <1>1. /\ UNCHANGED <<queue, last, marker, delim, roundFinished, roundClock, sampling,
                       sampleEv, sampleClock, busy, stack, kind, born, clock>>
        /\ ~sampling
        /\ walk' \in 0 .. Len(queue) + 1
    <2>1. CASE DeleteEvents
      BY <1>0, <2>1 DEF DeleteEvents, OwnerRuns, list, round, sample, service, history
    <2>2. CASE RetainThis
      BY <1>0, <2>2 DEF RetainThis, RoundInv, SampleOK, list, round, sample, service, history
    <2>3. CASE DeleteEventsReturns
      BY <1>0, <2>3 DEF DeleteEventsReturns, RoundInv, SampleOK, list, round, sample, service, history
    <2> QED
      BY <2>1, <2>2, <2>3
  <1>2. InQueue' = InQueue /\ InService' = InService
    BY <1>1 DEF InQueue, InService
  <1>3. TypeOK'
    BY <1>0, <1>1 DEF TypeOK
  <1>4. ListInv'
    BY <1>0, <1>1, <1>2 DEF ListInv, NoneLinkedTwice, LastIsLast, MarkerLinked, PriorityOrder,
       MarkerIsFront, NoMarkerNoMarked, QueueInOrder, InOrder, BornBefore
  <1>5. RoundInv'
    BY <1>0, <1>1, <1>2 DEF RoundInv, DelimLinked, RoundSplit, SplitsAt, SampleOK
  <1>6. ServicedOnce'
    BY <1>0, <1>1, <1>2 DEF ServicedOnce, FramesDistinct, BusyIffInService
  <1> QED
    BY <1>3, <1>4, <1>5, <1>6 DEF IInv

(* The two halves of opening a round.                                      *)
LEMMA SampleIInv ==
  ASSUME IInv, SampleLast \/ OpenRound
  PROVE  IInv'
  <1>0. TypeOK /\ ListInv /\ RoundInv /\ ServicedOnce
    BY DEF IInv
  <1>1. UNCHANGED <<queue, last, marker, walk, busy, stack, kind, born, clock>>
    BY DEF SampleLast, OpenRound, list, service, history
  <1>2. InQueue' = InQueue /\ InService' = InService
    BY <1>1 DEF InQueue, InService
  <1>3. ListInv'
    BY <1>0, <1>1, <1>2 DEF ListInv, NoneLinkedTwice, LastIsLast, MarkerLinked, PriorityOrder,
       MarkerIsFront, NoMarkerNoMarked, QueueInOrder, InOrder, BornBefore
  <1>4. ServicedOnce'
    BY <1>0, <1>1, <1>2 DEF ServicedOnce, FramesDistinct, BusyIffInService
  <1>5. CASE SampleLast
    <2>1. /\ sampling' = TRUE /\ sampleEv' = last /\ sampleClock' = clock /\ walk = 0
          /\ delim' = delim /\ roundFinished' = roundFinished /\ roundClock' = roundClock
      BY <1>5 DEF SampleLast, OwnerRuns, MutexFree, round
    <2>2. last \in InQueue \union {NULL} /\ SplitsAt(last, clock)
      BY <1>0, LastSplits
    <2>3. TypeOK'
      BY <1>0, <1>1, <2>1 DEF TypeOK
    <2>4. SampleOK'
      <3>1. SplitsAt(sampleEv, sampleClock)'
        BY <1>1, <2>1, <2>2 DEF SplitsAt
      <3> QED
        BY <1>0, <1>1, <1>2, <2>1, <2>2, <3>1 DEF SampleOK, TypeOK
    <2>5. RoundInv'
      BY <1>0, <1>1, <1>2, <2>1, <2>4 DEF RoundInv, DelimLinked, RoundSplit, SplitsAt
    <2> QED
      BY <1>3, <1>4, <2>3, <2>5 DEF IInv
  <1>6. CASE OpenRound
    <2>1. /\ sampling /\ sampling' = FALSE /\ delim' = sampleEv /\ roundFinished' = FALSE
          /\ roundClock' = sampleClock /\ sampleEv' = NULL /\ sampleClock' = 0
      BY <1>6 DEF OpenRound
    <2>2. /\ sampleEv \in InQueue \union {NULL} /\ SplitsAt(sampleEv, sampleClock)
          /\ sampleClock <= clock
      BY <1>0, <2>1 DEF RoundInv, SampleOK
    <2>3. TypeOK'
      BY <1>0, <1>1, <2>1 DEF TypeOK, Pointers
    <2>4. SampleOK'
      BY <1>0, <1>1, <2>1 DEF SampleOK, TypeOK
    <2>5. RoundInv'
      <3>1. SplitsAt(delim, roundClock)'
        BY <1>1, <2>1, <2>2 DEF SplitsAt
      <3> QED
        BY <1>1, <1>2, <2>1, <2>2, <2>4, <3>1 DEF RoundInv, DelimLinked, RoundSplit
    <2> QED
      BY <1>3, <1>4, <2>3, <2>5 DEF IInv
  <1> QED
    BY <1>5, <1>6

(* Tcl_ServiceEvent starts a handler.                                      *)
LEMMA ServiceEventIInv ==
  ASSUME IInv, ServiceEvent
  PROVE  IInv'
  <1>0. TypeOK /\ ListInv /\ RoundInv /\ ServicedOnce
    BY DEF IInv
  <1>1. PICK q \in 1 .. Len(queue) :
          queue[q] \notin busy /\ busy' = busy \union {queue[q]} /\ stack' = Append(stack, queue[q])
    BY DEF ServiceEvent, ScanReaches
  <1>2. UNCHANGED <<queue, last, marker, delim, roundFinished, roundClock, sampling,
                    sampleEv, sampleClock, walk, kind, born, clock>>
    BY DEF ServiceEvent, list, round, sample, history
  <1>3. queue[q] \in Events /\ queue[q] \in InQueue /\ Len(stack) \in Nat /\ stack \in Seq(Events)
    BY <1>0, QueueFacts, StackFacts DEF TypeOK
  <1>4. /\ stack' \in Seq(Events) /\ Len(stack') = Len(stack) + 1
        /\ \A i \in 1 .. Len(stack) : stack'[i] = stack[i]
        /\ stack'[Len(stack) + 1] = queue[q]
    BY <1>1, <1>3, AppendProperties
  <1>5. InQueue' = InQueue
    BY <1>2 DEF InQueue
  <1>6. TypeOK'
    BY <1>0, <1>1, <1>2, <1>3, <1>4 DEF TypeOK
  <1>7. ListInv'
    BY <1>0, <1>2, <1>5 DEF ListInv, NoneLinkedTwice, LastIsLast, MarkerLinked, PriorityOrder,
       MarkerIsFront, NoMarkerNoMarked, QueueInOrder, InOrder, BornBefore
  <1>8. RoundInv'
    BY <1>0, <1>2, <1>5 DEF RoundInv, DelimLinked, RoundSplit, SplitsAt, SampleOK
  <1>9. ServicedOnce'
    <2>1. \A x : x \in InService' <=> x \in InService \/ x = queue[q]
      <3>1. \A x : x \in InService' <=> \E i \in 1 .. Len(stack) + 1 : stack'[i] = x
        BY <1>4, ToSetFacts DEF InService
      <3>2. \A x : x \in InService <=> \E i \in 1 .. Len(stack) : stack[i] = x
        BY <1>0, StackFacts
      <3> QED
        BY <1>3, <1>4, <3>1, <3>2
    <2>2. queue[q] \notin InService
      BY <1>0, <1>1, <1>3 DEF ServicedOnce, BusyIffInService
    <2>3. \A i \in 1 .. Len(stack) : stack[i] # queue[q]
      BY <1>0, <2>2, StackFacts
    <2>4. FramesDistinct'
      BY <1>0, <1>3, <1>4, <2>3 DEF ServicedOnce, FramesDistinct
    <2>5. BusyIffInService'
      BY <1>0, <1>1, <1>3, <1>5, <2>1 DEF ServicedOnce, BusyIffInService
    <2> QED
      BY <2>4, <2>5 DEF ServicedOnce
  <1> QED
    BY <1>6, <1>7, <1>8, <1>9 DEF IInv

(* Popping a frame leaves the events of the others.                        *)
LEMMA PopFacts ==
  ASSUME TypeOK, ServicedOnce, stack # <<>>
  PROVE  /\ Last(stack) \in Events /\ Last(stack) \in InService
         /\ Front(stack) \in Seq(Events)
         /\ Len(Front(stack)) = Len(stack) - 1 /\ Len(stack) \in Nat
         /\ \A i \in 1 .. Len(stack) - 1 : Front(stack)[i] = stack[i]
         /\ \A x : x \in ToSet(Front(stack)) <=> x \in InService /\ x # Last(stack)
         /\ \A i, j \in 1 .. Len(Front(stack)) : Front(stack)[i] = Front(stack)[j] => i = j
  <1>1. /\ stack \in Seq(Events) /\ Len(stack) \in Nat \ {0}
        /\ Last(stack) = stack[Len(stack)] /\ Last(stack) \in Events
        /\ Front(stack) \in Seq(Events)
        /\ Len(Front(stack)) = Len(stack) - 1
        /\ \A i \in 1 .. Len(stack) - 1 : Front(stack)[i] = stack[i]
    BY FrontFacts DEF TypeOK
  <1>2. \A x : x \in InService <=> \E i \in 1 .. Len(stack) : stack[i] = x
    BY StackFacts
  <1>3. \A x : x \in ToSet(Front(stack)) <=> \E i \in 1 .. Len(stack) - 1 : Front(stack)[i] = x
    BY <1>1, ToSetFacts
  <1>4. \A i \in 1 .. Len(stack) - 1 : stack[i] # Last(stack)
    BY <1>1 DEF ServicedOnce, FramesDistinct
  <1>5. \A x : x \in ToSet(Front(stack)) <=> x \in InService /\ x # Last(stack)
    BY <1>1, <1>2, <1>3, <1>4
  <1>6. \A i, j \in 1 .. Len(Front(stack)) : Front(stack)[i] = Front(stack)[j] => i = j
    BY <1>1 DEF ServicedOnce, FramesDistinct
  <1> QED
    BY <1>1, <1>2, <1>5, <1>6

(* The handler returned 1.                                                 *)
LEMMA HandlerReturnsOneIInv ==
  ASSUME IInv, HandlerReturnsOne
  PROVE  IInv'
  <1>0. /\ TypeOK /\ ListInv /\ RoundInv /\ ServicedOnce /\ NoneLinkedTwice /\ Len(queue) \in Nat
        /\ stack # <<>> /\ walk = 0 /\ ~sampling
    BY QueueFacts DEF IInv, ListInv, HandlerReturnsOne, OwnerRuns, MutexFree
  <1>1. PICK e \in Events : e = Last(stack)
    BY <1>0, PopFacts
  <1>2. /\ stack' = Front(stack) /\ busy' = busy \ {e} /\ walk' = walk
        /\ sampling' = sampling /\ sampleEv' = sampleEv /\ sampleClock' = sampleClock
        /\ kind' = kind /\ born' = born /\ clock' = clock
        /\ IF e = delim
           THEN delim' = NULL /\ roundFinished' = TRUE /\ roundClock' = roundClock
           ELSE delim' = delim /\ roundFinished' = roundFinished /\ roundClock' = roundClock
        /\ IF e \in InQueue
           THEN \E p \in 1 .. Len(queue) : queue[p] = e /\ Unlink(p)
           ELSE queue' = queue /\ last' = last /\ marker' = marker
    BY <1>1 DEF HandlerReturnsOne, list, round, sample, history
  <1>3. /\ ListInv' /\ last' \in Pointers /\ marker' \in Pointers
        /\ queue' \in Seq(Events) /\ Len(queue') \in Nat
        /\ \A x : x \in InQueue' <=> x \in InQueue /\ x # e
        /\ \A t \in Nat : e # delim /\ SplitsAt(delim, t) => SplitsAt(delim, t)'
    <2>1. CASE e \in InQueue
      <3>1. PICK p \in 1 .. Len(queue) : queue[p] = e /\ Unlink(p)
        BY <1>2, <2>1
      <3>2. UNCHANGED history
        BY <1>2 DEF history
      <3>3. ListInv' /\ last' \in Pointers /\ marker' \in Pointers
        BY <1>0, <3>1, <3>2, UnlinkKeepsList
      <3>4. /\ queue' \in Seq(Events) /\ Len(queue') = Len(queue) - 1
            /\ \A x : x \in InQueue' <=> x \in InQueue /\ x # queue[p]
        BY <1>0, <3>1, UnlinkFacts
      <3>5. ASSUME NEW t \in Nat, e # delim, SplitsAt(delim, t)
            PROVE  SplitsAt(delim, t)'
        <4>1. delim' = delim
          BY <1>2, <3>5
        <4>2. \A d \in Pointers : \A g :
                SplitsAt(d, t) /\ g = (IF d = queue[p] THEN Pred(p) ELSE d) => SplitsAt(g, t)'
          BY <1>0, <3>1, <3>2, UnlinkKeepsSplit
        <4>3. delim \in Pointers /\ delim = IF delim = queue[p] THEN Pred(p) ELSE delim
          BY <1>0, <3>1, <3>5 DEF TypeOK
        <4> QED
          BY <3>5, <4>1, <4>2, <4>3 DEF SplitsAt
      <3> QED
        BY <1>0, <3>1, <3>3, <3>4, <3>5
    <2>2. CASE e \notin InQueue
      <3>1. queue' = queue /\ last' = last /\ marker' = marker
        BY <1>2, <2>2
      <3>2. InQueue' = InQueue
        BY <3>1 DEF InQueue
      <3>3. ListInv'
        BY <1>0, <1>2, <3>1, <3>2 DEF ListInv, NoneLinkedTwice, LastIsLast, MarkerLinked,
           PriorityOrder, MarkerIsFront, NoMarkerNoMarked, QueueInOrder, InOrder, BornBefore
      <3>4. \A t \in Nat : e # delim /\ SplitsAt(delim, t) => SplitsAt(delim, t)'
        BY <1>2, <3>1 DEF SplitsAt
      <3>5. queue' \in Seq(Events) /\ Len(queue') \in Nat /\ last' \in Pointers /\ marker' \in Pointers
        BY <1>0, <3>1 DEF TypeOK
      <3> QED
        BY <2>2, <3>2, <3>3, <3>4, <3>5
    <2> QED
      BY <2>1, <2>2
  <1>4. /\ stack' \in Seq(Events)
        /\ \A x : x \in InService' <=> x \in InService /\ x # e
        /\ FramesDistinct'
    BY <1>0, <1>1, <1>2, PopFacts DEF InService, FramesDistinct
  <1>5. TypeOK'
    <2>1. walk' \in 0 .. Len(queue') + 1 /\ busy' \subseteq Events
      BY <1>0, <1>2, <1>3 DEF TypeOK
    <2>2. delim' \in Pointers /\ roundFinished' \in BOOLEAN /\ roundClock' \in Nat
      BY <1>0, <1>2 DEF TypeOK, Pointers
    <2> QED
      BY <1>0, <1>2, <1>3, <1>4, <2>1, <2>2 DEF TypeOK
  <1>6. RoundInv'
    <2>1. SampleOK'
      BY <1>0, <1>2 DEF RoundInv, SampleOK
    <2>2. CASE e = delim
      <3>1. delim' = NULL /\ roundClock' = roundClock
        BY <1>2, <2>2
      <3>2. \A d \in 1 .. Len(queue') : queue'[d] # NULL
        BY <1>3, ElementOfSeq
      <3> QED
        BY <1>0, <1>2, <2>1, <3>1, <3>2 DEF RoundInv, DelimLinked, RoundSplit, SplitsAt
    <2>3. CASE e # delim
      <3>1. delim' = delim /\ roundClock' = roundClock
        BY <1>2, <2>3
      <3>2. SplitsAt(delim, roundClock)'
        <4>1. SplitsAt(delim, roundClock) /\ roundClock \in Nat
          BY <1>0 DEF RoundInv, RoundSplit, TypeOK
        <4> QED
          BY <1>3, <2>3, <3>1, <4>1 DEF SplitsAt
      <3>3. DelimLinked'
        BY <1>0, <1>3, <2>3, <3>1 DEF RoundInv, DelimLinked
      <3> QED
        BY <1>0, <1>2, <2>1, <3>1, <3>2, <3>3 DEF RoundInv, RoundSplit
    <2> QED
      BY <2>2, <2>3
  <1>7. ServicedOnce'
    <2>1. busy' = InQueue' \intersect InService'
      BY <1>0, <1>2, <1>3, <1>4 DEF ServicedOnce, BusyIffInService
    <2> QED
      BY <1>4, <2>1 DEF ServicedOnce, BusyIffInService
  <1> QED
    BY <1>3, <1>5, <1>6, <1>7 DEF IInv

(* The handler returned 0, and possibly another one started.               *)
LEMMA HandlerReturnsZeroIInv ==
  ASSUME IInv, HandlerReturnsZero
  PROVE  IInv'
  <1>0. /\ TypeOK /\ ListInv /\ RoundInv /\ ServicedOnce /\ stack # <<>>
    BY DEF IInv, HandlerReturnsZero
  <1>1. UNCHANGED <<queue, last, marker, delim, roundFinished, roundClock, sampling,
                    sampleEv, sampleClock, walk, kind, born, clock>>
    BY DEF HandlerReturnsZero, list, round, sample, history
  <1>2. PICK p \in 1 .. Len(queue) :
        /\ queue[p] = Last(stack)
        /\ \/ \E q \in 1 .. Len(queue) :
                /\ ScanReaches(p, q)
                /\ busy' = (busy \ {queue[p]}) \union {queue[q]}
                /\ stack' = Append(Front(stack), queue[q])
           \/ /\ \A q \in 1 .. Len(queue) : ~ScanReaches(p, q)
              /\ busy' = busy \ {queue[p]}
              /\ stack' = Front(stack)
    BY DEF HandlerReturnsZero
  <1>3. InQueue' = InQueue
    BY <1>1 DEF InQueue
  <1>4. ListInv'
    BY <1>0, <1>1, <1>3 DEF ListInv, NoneLinkedTwice, LastIsLast, MarkerLinked, PriorityOrder,
       MarkerIsFront, NoMarkerNoMarked, QueueInOrder, InOrder, BornBefore
  <1>5. RoundInv'
    BY <1>0, <1>1, <1>3 DEF RoundInv, DelimLinked, RoundSplit, SplitsAt, SampleOK
  <1>6. PICK s : s = Front(stack)
    OBVIOUS
  <1>7. /\ s \in Seq(Events) /\ Len(s) \in Nat
        /\ \A x : x \in ToSet(s) <=> x \in InService /\ x # queue[p]
        /\ \A x : x \in ToSet(s) <=> \E i \in 1 .. Len(s) : s[i] = x
        /\ \A i, j \in 1 .. Len(s) : s[i] = s[j] => i = j
    <2>1. /\ s \in Seq(Events)
          /\ \A x : x \in ToSet(s) <=> x \in InService /\ x # queue[p]
          /\ \A i, j \in 1 .. Len(s) : s[i] = s[j] => i = j
      BY <1>0, <1>2, <1>6, PopFacts
    <2> QED
      BY <2>1, ToSetFacts, LenProperties
  <1>8. stack' \in Seq(Events) /\ busy' \subseteq Events /\ ServicedOnce'
    <2>1. CASE \E q \in 1 .. Len(queue) :
                 /\ ScanReaches(p, q)
                 /\ busy' = (busy \ {queue[p]}) \union {queue[q]}
                 /\ stack' = Append(Front(stack), queue[q])
      <3>1. PICK q \in 1 .. Len(queue) :
              /\ queue[q] \notin busy
              /\ busy' = (busy \ {queue[p]}) \union {queue[q]}
              /\ stack' = Append(s, queue[q])
        BY <1>6, <2>1 DEF ScanReaches
      <3>2. queue[q] \in Events /\ queue[q] \in InQueue
        BY <1>0, QueueFacts
      <3>3. /\ stack' \in Seq(Events) /\ Len(stack') = Len(s) + 1
            /\ \A i \in 1 .. Len(s) : stack'[i] = s[i]
            /\ stack'[Len(s) + 1] = queue[q]
        BY <1>7, <3>1, <3>2, AppendProperties
      <3>4. \A x : x \in InService' <=> x \in ToSet(s) \/ x = queue[q]
        <4>1. \A x : x \in InService' <=> \E i \in 1 .. Len(s) + 1 : stack'[i] = x
          BY <3>3, ToSetFacts DEF InService
        <4> QED
          <5>1. ASSUME NEW x, x \in InService' PROVE x \in ToSet(s) \/ x = queue[q]
            <6>1. PICK i \in 1 .. Len(s) + 1 : stack'[i] = x
              BY <4>1, <5>1
            <6>2. CASE i = Len(s) + 1
              BY <3>3, <6>1, <6>2
            <6>3. CASE i \in 1 .. Len(s)
              BY <1>7, <3>3, <6>1, <6>3
            <6> QED
              BY <1>7, <6>1, <6>2, <6>3
          <5>2. ASSUME NEW x, x \in ToSet(s) PROVE x \in InService'
            <6>1. PICK i \in 1 .. Len(s) : s[i] = x
              BY <1>7, <5>2
            <6>2. i \in 1 .. Len(s) + 1 /\ stack'[i] = x
              BY <1>7, <3>3, <6>1
            <6> QED
              BY <4>1, <6>2
          <5>3. queue[q] \in InService'
            <6>1. Len(s) + 1 \in 1 .. Len(s) + 1
              BY <1>7
            <6> QED
              BY <3>3, <4>1, <6>1
          <5> QED
            BY <5>1, <5>2, <5>3
      <3>5. queue[q] \notin InService
        BY <1>0, <3>1, <3>2 DEF ServicedOnce, BusyIffInService
      <3>6. \A i \in 1 .. Len(s) : s[i] # queue[q]
        BY <1>7, <3>5
      <3>7. FramesDistinct'
        BY <1>7, <3>3, <3>6 DEF FramesDistinct
      <3>8. busy' = InQueue' \intersect InService'
        BY <1>0, <1>3, <1>7, <3>1, <3>2, <3>4 DEF ServicedOnce, BusyIffInService
      <3>9. busy' \subseteq Events
        BY <1>0, <3>1, <3>2 DEF TypeOK
      <3> QED
        BY <3>3, <3>7, <3>8, <3>9 DEF ServicedOnce, BusyIffInService
    <2>2. CASE /\ busy' = busy \ {queue[p]}
               /\ stack' = Front(stack)
      <3>1. stack' = s /\ InService' = ToSet(s)
        BY <1>6, <2>2 DEF InService
      <3>2. busy' = InQueue' \intersect InService'
        BY <1>0, <1>3, <1>7, <2>2, <3>1 DEF ServicedOnce, BusyIffInService
      <3>3. FramesDistinct'
        BY <1>7, <3>1 DEF FramesDistinct
      <3>4. busy' \subseteq Events
        BY <1>0, <2>2 DEF TypeOK
      <3> QED
        BY <1>7, <3>1, <3>2, <3>3, <3>4 DEF ServicedOnce, BusyIffInService
    <2> QED
      BY <1>2, <2>1, <2>2
  <1>9. TypeOK'
    BY <1>0, <1>1, <1>8 DEF TypeOK
  <1> QED
    BY <1>4, <1>5, <1>8, <1>9 DEF IInv

-----------------------------------------------------------------------------
LEMMA NextIInv == IInv /\ [Next]_vars => IInv'
  <1> SUFFICES ASSUME IInv, [Next]_vars PROVE IInv'
    OBVIOUS
  <1>1. ASSUME NEW e \in Events, NEW pos \in Positions, QueueEvent(e, pos) PROVE IInv'
    BY <1>1, QueueEventIInv
  <1>2. CASE DeleteEvents \/ RetainThis \/ DeleteEventsReturns
    BY <1>2, WalkIInv
  <1>3. CASE DeleteThis
    BY <1>3, DeleteThisIInv
  <1>4. CASE ServiceEvent
    BY <1>4, ServiceEventIInv
  <1>5. CASE HandlerReturnsOne
    BY <1>5, HandlerReturnsOneIInv
  <1>6. CASE HandlerReturnsZero
    BY <1>6, HandlerReturnsZeroIInv
  <1>7. CASE SampleLast \/ OpenRound
    BY <1>7, SampleIInv
  <1>8. CASE UNCHANGED vars
    <2>1. UNCHANGED <<queue, last, marker, delim, roundFinished, roundClock, sampling,
                      sampleEv, sampleClock, walk, busy, stack, kind, born, clock>>
      BY <1>8 DEF vars, list, round, sample, service, history
    <2>2. InQueue' = InQueue /\ InService' = InService
      BY <2>1 DEF InQueue, InService
    <2> QED
      BY <2>1, <2>2 DEF IInv, TypeOK, ListInv, NoneLinkedTwice, LastIsLast, MarkerLinked,
         PriorityOrder, MarkerIsFront, NoMarkerNoMarked, QueueInOrder, InOrder, BornBefore,
         RoundInv, DelimLinked, RoundSplit, SplitsAt, SampleOK, ServicedOnce, FramesDistinct,
         BusyIffInService
  <1> QED
    BY <1>1, <1>2, <1>3, <1>4, <1>5, <1>6, <1>7, <1>8 DEF Next

(* Every state of EventQueue satisfies the inductive invariant.            *)
THEOREM Invariance == Spec => []IInv
  <1>1. Init => IInv
    BY InitIInv
  <1>2. IInv /\ [Next]_vars => IInv'
    BY NextIInv
  <1> QED
    BY <1>1, <1>2, PTL DEF Spec

(* Values have their types in every state, whatever the bounds.            *)
THEOREM TypeCorrect == Spec => []TypeOK
  BY Invariance, PTL DEF IInv

(* lastEventPtr, the marker and the round delimiter never point to a freed *)
(* event, and the list never has a cycle.                                  *)
THEOREM PointersNeverDangle == Spec => []PointersOK
  <1>1. IInv => PointersOK
    BY DEF IInv, ListInv, RoundInv, PointersOK
  <1> QED
    BY <1>1, Invariance, PTL

(* A handler is never re-entered for the event it is handling.             *)
THEOREM ServicedByOneFrame == Spec => []ServicedOnce
  BY Invariance, PTL DEF IInv

(* The queue is always in the order that QueueEvent promises.              *)
THEOREM QueueOrdered == Spec => []PriorityOrder
  <1>1. IInv => PriorityOrder
    BY DEF IInv, ListInv
  <1> QED
    BY <1>1, Invariance, PTL

(* A round is made of the events that were queued when it was opened.      *)
THEOREM RoundsKeepTheirEvents == Spec => []RoundSplit
  <1>1. IInv => RoundSplit
    BY DEF IInv, RoundInv
  <1> QED
    BY <1>1, Invariance, PTL

-----------------------------------------------------------------------------
(***************************************************************************)
(* EventQueue implements Dispatch.  A scan from the front meets the events *)
(* in the order of the queue, so nothing that waits outranks the event it  *)
(* stops at, except what it has passed over.                               *)
(***************************************************************************)
LEMMA NotOutranked ==
  ASSUME IInv, NEW i \in 1 .. Len(queue), NEW j \in 1 .. Len(queue), i < j
  PROVE  ~D!Outranks(queue[j], queue[i])
  <1>1. InOrder(queue[i], queue[j])
    BY DEF IInv, ListInv, PriorityOrder, QueueInOrder
  <1>2. born \in [Events -> Nat] /\ queue[i] \in Events /\ queue[j] \in Events
    BY QueueFacts DEF IInv, TypeOK
  <1>3. born[queue[i]] \in Nat /\ born[queue[j]] \in Nat
    BY <1>2
  <1> QED
    BY <1>1, <1>3 DEF InOrder, D!Outranks

LEMMA NextRefines ==
  ASSUME IInv, [Next]_vars
  PROVE  [D!Next]_(D!vars)
  <1>0. /\ TypeOK /\ ListInv /\ ServicedOnce /\ NoneLinkedTwice
        /\ busy = InQueue \intersect InService /\ Len(queue) \in Nat
        /\ InQueue \subseteq Events
        /\ \A x : x \in InQueue <=> \E i \in 1 .. Len(queue) : queue[i] = x
        /\ \A i \in 1 .. Len(queue) : queue[i] \in Events /\ queue[i] \in InQueue
    BY QueueFacts DEF IInv, ListInv, ServicedOnce, BusyIffInService
  <1>1. ASSUME NEW e \in Events, NEW pos \in Positions, QueueEvent(e, pos)
        PROVE  D!Post(e, pos)
    <2>1. \A x : x \in InQueue' <=> x \in InQueue \/ x = e
      BY <1>1, InsertFacts
    <2>2. /\ e \notin InQueue /\ e \notin InService /\ clock < MaxPosts
          /\ clock' = clock + 1 /\ kind' = [kind EXCEPT ![e] = pos]
          /\ born' = [born EXCEPT ![e] = clock + 1] /\ busy' = busy /\ stack' = stack
      BY <1>1 DEF QueueEvent, service
    <2>3. InQueue' \ busy' = (InQueue \ busy) \union {e}
      BY <1>0, <2>1, <2>2
    <2>4. e \notin (InQueue \ busy) \union D!ToSet(stack)
      BY <2>2, Zenon DEF InService, ToSet, D!ToSet
    <2> QED
      BY <2>2, <2>3, <2>4, Zenon DEF D!Post
  <1>2. CASE DeleteEvents \/ RetainThis \/ DeleteEventsReturns \/ SampleLast \/ OpenRound
    <2>1. UNCHANGED <<queue, busy, stack, kind, born, clock>>
      BY <1>2 DEF DeleteEvents, RetainThis, DeleteEventsReturns, SampleLast, OpenRound,
         list, service, history
    <2> QED
      BY <2>1 DEF D!vars, InQueue
  <1>3. CASE DeleteThis
    <2>1. PICK p \in 1 .. Len(queue) :
            /\ Unlink(p) /\ busy' = busy \ {queue[p]} /\ UNCHANGED <<stack, kind, born, clock>>
      BY <1>3 DEF DeleteThis, history
    <2>2. \A x : x \in InQueue' <=> x \in InQueue /\ x # queue[p]
      BY <1>0, <2>1, UnlinkFacts
    <2>3. CASE queue[p] \in busy
      <3>1. InQueue' \ busy' = InQueue \ busy
        BY <2>1, <2>2, <2>3
      <3> QED
        BY <2>1, <3>1 DEF D!vars
    <2>4. CASE queue[p] \notin busy
      <3>1. InQueue' \ busy' = (InQueue \ busy) \ {queue[p]} /\ queue[p] \in InQueue \ busy
        BY <1>0, <2>1, <2>2, <2>4
      <3>2. D!Drop(queue[p])
        BY <2>1, <3>1 DEF D!Drop
      <3> QED
        BY <1>0, <3>2 DEF D!Next
    <2> QED
      BY <2>3, <2>4
  <1>4. CASE ServiceEvent
    <2>1. PICK q \in 1 .. Len(queue) :
            /\ ScanReaches(0, q) /\ busy' = busy \union {queue[q]}
            /\ stack' = Append(stack, queue[q])
      BY <1>4 DEF ServiceEvent
    <2>2. /\ Len(stack) < MaxDepth /\ queue' = queue /\ kind' = kind /\ born' = born
          /\ clock' = clock
      BY <1>4 DEF ServiceEvent, list, history
    <2>3. queue[q] \notin busy /\ \A i \in 1 .. q - 1 : queue[i] \in busy
      BY <2>1 DEF ScanReaches
    <2>4. ASSUME NEW f \in InQueue \ busy PROVE ~D!Outranks(f, queue[q])
      <3>1. PICK i \in 1 .. Len(queue) : queue[i] = f
        BY <1>0
      <3>2. i >= q
        BY <1>0, <2>3, <2>4, <3>1
      <3>3. CASE i = q
        BY <1>0, <3>1, <3>3 DEF D!Outranks, IInv, TypeOK
      <3>4. CASE q < i
        BY <3>1, <3>4, NotOutranked
      <3> QED
        BY <1>0, <3>2, <3>3, <3>4
    <2>5. InQueue' \ busy' = (InQueue \ busy) \ {queue[q]}
      <3>1. InQueue' = InQueue
        BY <2>2 DEF InQueue
      <3> QED
        BY <2>1, <3>1
    <2>6. D!Start(queue[q])
      BY <1>0, <2>1, <2>2, <2>3, <2>4, <2>5 DEF D!Start
    <2> QED
      BY <1>0, <2>6 DEF D!Next
  <1>5. CASE HandlerReturnsOne
    <2>0. stack # <<>>
      BY <1>5 DEF HandlerReturnsOne
    <2>1. PICK e \in Events : e = Last(stack) /\ e \in InService
      BY <1>0, <2>0, PopFacts
    <2>2. /\ stack' = Front(stack) /\ busy' = busy \ {e}
          /\ kind' = kind /\ born' = born /\ clock' = clock
          /\ IF e \in InQueue
             THEN \E p \in 1 .. Len(queue) : queue[p] = e /\ Unlink(p)
             ELSE queue' = queue
      BY <1>5, <2>1 DEF HandlerReturnsOne, list, history
    <2>3. \A x : x \in InQueue' <=> x \in InQueue /\ x # e
      <3>1. CASE e \in InQueue
        <4>1. PICK p \in 1 .. Len(queue) : queue[p] = e /\ Unlink(p)
          BY <2>2, <3>1
        <4> QED
          BY <1>0, <4>1, UnlinkFacts
      <3>2. CASE e \notin InQueue
        BY <2>2, <3>2 DEF InQueue
      <3> QED
        BY <3>1, <3>2
    <2>4. InQueue' \ busy' = InQueue \ busy
      BY <1>0, <2>1, <2>2, <2>3
    <2>5. D!Handled
      BY <2>0, <2>2, <2>4 DEF D!Handled, D!Front, Front
    <2> QED
      BY <2>5 DEF D!Next
  <1>6. CASE HandlerReturnsZero
    <2>0. /\ stack # <<>> /\ queue' = queue /\ kind' = kind /\ born' = born /\ clock' = clock
      BY <1>6 DEF HandlerReturnsZero, list, history
    <2>1. PICK p \in 1 .. Len(queue) :
          /\ queue[p] = Last(stack)
          /\ \/ \E q \in 1 .. Len(queue) :
                  /\ ScanReaches(p, q)
                  /\ busy' = (busy \ {queue[p]}) \union {queue[q]}
                  /\ stack' = Append(Front(stack), queue[q])
             \/ /\ busy' = busy \ {queue[p]}
                /\ stack' = Front(stack)
      BY <1>6 DEF HandlerReturnsZero
    <2>2. queue[p] \in busy
      BY <1>0, <2>0, <2>1, PopFacts
    <2>3. InQueue' = InQueue
      BY <2>0 DEF InQueue
    <2>4. CASE busy' = busy \ {queue[p]} /\ stack' = Front(stack)
      <3>1. InQueue' \ busy' = (InQueue \ busy) \union {Last(stack)}
        BY <1>0, <2>1, <2>3, <2>4
      <3>2. D!GivenBack
        BY <2>0, <2>4, <3>1 DEF D!GivenBack, D!Front, Front, D!Last, Last
      <3> QED
        BY <3>2 DEF D!Next
    <2>5. CASE \E q \in 1 .. Len(queue) :
                  /\ ScanReaches(p, q)
                  /\ busy' = (busy \ {queue[p]}) \union {queue[q]}
                  /\ stack' = Append(Front(stack), queue[q])
      <3>1. PICK q \in 1 .. Len(queue) :
                  /\ ScanReaches(p, q)
                  /\ busy' = (busy \ {queue[p]}) \union {queue[q]}
                  /\ stack' = Append(Front(stack), queue[q])
        BY <2>5
      <3>2. q > p /\ queue[q] \notin busy /\ \A i \in p + 1 .. q - 1 : queue[i] \in busy
        BY <1>0, <3>1 DEF ScanReaches
      <3>3. ASSUME NEW f \in InQueue \ busy, D!Outranks(f, queue[q])
            PROVE  ~D!Outranks(Last(stack), f)
        <4>1. PICK i \in 1 .. Len(queue) : queue[i] = f
          BY <1>0
        <4>2. ~(q < i)
          BY <3>3, <4>1, NotOutranked
        <4>3. i # q
          <5>1. ~D!Outranks(queue[q], queue[q])
            <6>1. queue[q] \in Events /\ born[queue[q]] \in Nat /\ kind[queue[q]] \in Positions
              BY <1>0, QueueFacts DEF IInv, TypeOK
            <6>2. ~(born[queue[q]] < born[queue[q]]) /\ ~(born[queue[q]] > born[queue[q]])
              BY <6>1
            <6> QED
              BY <6>1, <6>2, Zenon DEF D!Outranks
          <5> QED
            BY <3>3, <4>1, <5>1
        <4>4. i # p /\ i \notin p + 1 .. q - 1
          BY <2>2, <3>2, <3>3, <4>1
        <4>5. i < p
          BY <1>0, <3>2, <4>2, <4>3, <4>4
        <4> QED
          BY <2>1, <4>1, <4>5, NotOutranked
      <3>4. InQueue' \ busy' = ((InQueue \ busy) \ {queue[q]}) \union {Last(stack)}
        BY <1>0, <2>1, <2>2, <2>3, <3>1, <3>2
      <3>5. D!PassedOver(queue[q])
        BY <1>0, <2>0, <3>1, <3>2, <3>3, <3>4 DEF D!PassedOver, D!Front, Front, D!Last, Last
      <3> QED
        BY <1>0, <3>5 DEF D!Next
    <2> QED
      BY <2>1, <2>4, <2>5
  <1>7. CASE UNCHANGED vars
    BY <1>7 DEF vars, list, service, history, D!vars, InQueue
  <1>8. ASSUME NEW e \in Events, NEW pos \in Positions, QueueEvent(e, pos)
        PROVE  D!Next
    BY <1>1, <1>8 DEF D!Next, D!Positions, Positions
  <1> QED
    BY <1>2, <1>3, <1>4, <1>5, <1>6, <1>7, <1>8 DEF Next

(* Callers may rely on Dispatch: an event waits until it is started or     *)
(* dropped, runs once, and is never started while another that outranks it *)
(* waits, whatever the handlers do to the queue.                           *)
THEOREM Refinement == Spec => ImplementsDispatch
  <1>1. Init => D!Init
    <2> SUFFICES ASSUME Init PROVE D!Init
      OBVIOUS
    <2>1. InQueue = {}
      BY DEF Init, InQueue, ToSet
    <2> QED
      BY <2>1 DEF Init, D!Init
  <1>2. IInv /\ [Next]_vars => [D!Next]_(D!vars)
    BY NextRefines
  <1> QED
    BY <1>1, <1>2, Invariance, PTL DEF Spec, ImplementsDispatch, D!Spec

=============================================================================

---------------------------- MODULE TimersProofs ----------------------------
(***************************************************************************)
(* The two lists of generic/tclTimer.c, each with a specification of its   *)
(* own.  For any number of timers, any length of the clock and any depth   *)
(* of nested passes: no timer is lost or run twice, timerPending stands    *)
(* for the one timer event in the queue, and, where timers are not set for *)
(* times already past, a pass runs all it had to.  And for any number of   *)
(* idle handlers, keys and nested passes: none is lost or run twice,       *)
(* lastIdlePtr is the end of the list, and a pass runs all the handlers it *)
(* found and none registered since.                                        *)
(***************************************************************************)
EXTENDS Timers, IdleHandlers, SeqLemmas

(***************************************************************************)
(* The inductive invariant.  The list is in the order of times and, for    *)
(* equal times, of creation; tokens are given out in order; what a pass    *)
(* noted when it began is not ahead of the thread; and timers created      *)
(* since then are not earlier than the time it noted.                      *)
(***************************************************************************)
Timer == [id : Ids, at : Times]
Pass == [gen : 0 .. MaxTimers, time : Times, running : 0 .. MaxTimers]

InOrder ==
    \A i, j \in 1 .. Len(timers) : i < j =>
        \/ timers[i].at < timers[j].at
        \/ timers[i].at = timers[j].at /\ timers[i].id < timers[j].id

IdsGiven == \A id \in Ids : id > lastTimerId <=> fate[id] = "none"

PassesPast ==
    \A k \in 1 .. Len(passes) : passes[k].gen <= lastTimerId /\ passes[k].time <= now

NewerLater ==
    ~Absolute => \A k \in 1 .. Len(passes), i \in 1 .. Len(timers) :
        timers[i].id > passes[k].gen => timers[i].at >= passes[k].time

\* The list and the history, apart from the loop.
ListInv == NoneLostNoneTwice /\ InOrder /\ IdsGiven
IInv == TypeOK /\ PendingIffQueued /\ ListInv /\ PassesPast /\ NewerLater

USE TimersAssumption, ScenarioAssumption

LEMMA ListFacts ==
  ASSUME TypeOK
  PROVE  /\ timers \in Seq(Timer) /\ Len(timers) \in Nat
         /\ timers = <<>> <=> Len(timers) = 0
         /\ \A i \in 1 .. Len(timers) : /\ timers[i] \in Timer
                                        /\ timers[i].id \in Ids /\ timers[i].at \in Times
  <1>1. timers \in Seq(Timer)
    BY DEF TypeOK, Timer
  <1>2. \A i \in 1 .. Len(timers) : timers[i] \in Timer
    BY <1>1, ElementOfSeq
  <1> QED
    BY <1>1, <1>2, EmptySeq, LenProperties DEF Timer

LEMMA PassFacts ==
  ASSUME TypeOK
  PROVE  /\ passes \in Seq(Pass) /\ Len(passes) \in Nat
         /\ passes = <<>> <=> Len(passes) = 0
         /\ \A k \in 1 .. Len(passes) :
               /\ passes[k] \in Pass /\ passes[k].gen \in 0 .. MaxTimers
               /\ passes[k].time \in Times
         /\ pass = passes[Len(passes)]
  <1>1. passes \in Seq(Pass)
    BY DEF TypeOK, Pass
  <1>2. \A k \in 1 .. Len(passes) : passes[k] \in Pass
    BY <1>1, ElementOfSeq
  <1>3. pass = passes[Len(passes)]
    BY Zenon DEF pass, Last
  <1> QED
    BY <1>1, <1>2, <1>3, EmptySeq, LenProperties DEF Pass

LEMMA ClockFacts ==
  ASSUME TypeOK
  PROVE  /\ now \in Nat /\ now \in Times /\ lastTimerId \in Nat
         /\ \A k \in 1 .. Len(passes) : passes[k].gen \in Nat /\ passes[k].time \in Nat
  <1>1. now \in Times /\ lastTimerId \in 0 .. MaxTimers
    BY DEF TypeOK
  <1> QED
    BY <1>1, PassFacts DEF Times

LEMMA InitIInv == Init => IInv
  <1> SUFFICES ASSUME Init PROVE IInv
    OBVIOUS
  <1>1. Len(timers) = 0 /\ Len(passes) = 0
    BY EmptySeq DEF Init
  <1>2. TypeOK
    <2>1. now \in Times /\ lastTimerId \in 0 .. MaxTimers
      BY DEF Init, Times
    <2>2. timers \in Seq([id : Ids, at : Times])
      BY EmptySeq DEF Init
    <2>3. passes \in Seq([gen : 0 .. MaxTimers, time : Times, running : 0 .. MaxTimers])
      BY EmptySeq DEF Init
    <2>4. wait \in [on : BOOLEAN, until : 0 .. Never, timer : BOOLEAN]
      BY DEF Init, NoWait, Never
    <2>5. fate \in [Ids -> {"none", "set", "run", "deleted"}]
      BY DEF Init
    <2> QED
      BY <2>1, <2>2, <2>3, <2>4, <2>5 DEF Init, TypeOK
  <1>3. NoneLostNoneTwice
    <2>1. \A id \in Ids : fate[id] = "none"
      BY DEF Init
    <2> QED
      BY <1>1, <2>1 DEF NoneLostNoneTwice
  <1>4. InOrder /\ PassesPast /\ NewerLater
    BY <1>1 DEF InOrder, PassesPast, NewerLater
  <1>5. IdsGiven
    BY DEF Init, IdsGiven, Ids
  <1>6. PendingIffQueued
    BY DEF Init, PendingIffQueued
  <1> QED
    BY <1>2, <1>3, <1>4, <1>5, <1>6 DEF IInv, ListInv

-----------------------------------------------------------------------------
(***************************************************************************)
(* Unlinking the timer at p, whose fate is then another than "set": both   *)
(* for Tcl_DeleteTimerHandler and for the pass that takes the first.       *)
(***************************************************************************)
LEMMA UnlinkKeepsList ==
  ASSUME TypeOK, ListInv, NEW p \in 1 .. Len(timers),
         NEW f \in {"run", "deleted"},
         timers' \in Seq(Timer), Len(timers') = Len(timers) - 1,
         \A i \in 1 .. Len(timers) - 1 :
            timers'[i] = IF i < p THEN timers[i] ELSE timers[i + 1],
         fate' = [fate EXCEPT ![timers[p].id] = f],
         lastTimerId' = lastTimerId
  PROVE  ListInv' /\ fate' \in [Ids -> {"none", "set", "run", "deleted"}]
  <1> DEFINE sh(i) == IF i < p THEN i ELSE i + 1
             n == Len(timers)
  <1>1. /\ n \in Nat /\ p \in 1 .. n /\ Len(timers') = n - 1
        /\ \A i \in 1 .. n : timers[i].id \in Ids /\ timers[i].at \in Times
    BY ListFacts
  <1>2. \A i \in 1 .. n - 1 : sh(i) \in 1 .. n /\ sh(i) # p /\ timers'[i] = timers[sh(i)]
    BY <1>1
  <1>3. \A i, j \in 1 .. n - 1 : i < j => sh(i) < sh(j)
    BY <1>1
  <1>4. \A i \in 1 .. n : i # p => \E j \in 1 .. n - 1 : sh(j) = i
    <2> SUFFICES ASSUME NEW i \in 1 .. n, i # p PROVE \E j \in 1 .. n - 1 : sh(j) = i
      OBVIOUS
    <2>1. CASE i < p
      BY <1>1, <2>1
    <2>2. CASE i > p
      <3>1. i - 1 \in 1 .. n - 1 /\ ~(i - 1 < p) /\ (i - 1) + 1 = i
        BY <1>1, <2>2
      <3> QED
        BY <3>1
    <2> QED
      BY <1>1, <2>1, <2>2
  <1>5. /\ fate' \in [Ids -> {"none", "set", "run", "deleted"}]
        /\ \A id \in Ids : fate'[id] = IF id = timers[p].id THEN f ELSE fate[id]
    BY <1>1 DEF TypeOK
  <1> HIDE DEF sh, n
  <1>6. /\ \A id \in Ids : fate[id] = "set" <=> \E i \in 1 .. n : timers[i].id = id
        /\ \A i, j \in 1 .. n : timers[i].id = timers[j].id => i = j
    <2>1. {timers[i].id : i \in 1 .. n} = {id \in Ids : fate[id] = "set"}
      BY DEF ListInv, NoneLostNoneTwice, n
    <2> QED
      BY <2>1 DEF ListInv, NoneLostNoneTwice, n
  <1>7. InOrder'
    <2> SUFFICES ASSUME NEW i \in 1 .. n - 1, NEW j \in 1 .. n - 1, i < j
                 PROVE  \/ timers'[i].at < timers'[j].at
                        \/ /\ timers'[i].at = timers'[j].at
                           /\ timers'[i].id < timers'[j].id
      BY <1>1 DEF InOrder
    <2>1. sh(i) \in 1 .. n /\ sh(j) \in 1 .. n /\ sh(i) < sh(j)
      BY <1>2, <1>3
    <2>2. \/ timers[sh(i)].at < timers[sh(j)].at
          \/ timers[sh(i)].at = timers[sh(j)].at /\ timers[sh(i)].id < timers[sh(j)].id
      BY <2>1 DEF ListInv, InOrder, n
    <2> QED
      BY <1>2, <2>2
  <1>8. \A i, j \in 1 .. n - 1 : timers'[i].id = timers'[j].id => i = j
    <2> SUFFICES ASSUME NEW i \in 1 .. n - 1, NEW j \in 1 .. n - 1,
                        timers'[i].id = timers'[j].id
                 PROVE  i = j
      OBVIOUS
    <2>1. sh(i) = sh(j)
      BY <1>2, <1>6
    <2> QED
      BY <1>1, <2>1 DEF sh
  <1>9. \A id \in Ids : fate'[id] = "set" <=> \E i \in 1 .. n - 1 : timers'[i].id = id
    <2> SUFFICES ASSUME NEW id \in Ids
                 PROVE  fate'[id] = "set" <=> \E i \in 1 .. n - 1 : timers'[i].id = id
      OBVIOUS
    <2>1. CASE id = timers[p].id
      <3>1. fate'[id] # "set"
        BY <1>5, <2>1
      <3>2. ASSUME NEW i \in 1 .. n - 1 PROVE timers'[i].id # id
        BY <1>1, <1>2, <1>6, <2>1
      <3> QED
        BY <3>1, <3>2
    <2>2. CASE id # timers[p].id
      <3>1. fate'[id] = fate[id]
        BY <1>5, <2>2
      <3>2. ASSUME NEW i \in 1 .. n, timers[i].id = id
            PROVE  \E j \in 1 .. n - 1 : timers'[j].id = id
        BY <1>2, <1>4, <2>2, <3>2
      <3>3. ASSUME NEW j \in 1 .. n - 1, timers'[j].id = id
            PROVE  \E i \in 1 .. n : timers[i].id = id
        BY <1>2, <3>3
      <3> QED
        BY <1>6, <3>1, <3>2, <3>3
    <2> QED
      BY <2>1, <2>2
  <1>10. NoneLostNoneTwice'
    <2>1. {timers'[i].id : i \in 1 .. n - 1} = {id \in Ids : fate'[id] = "set"}
      <3>1. \A i \in 1 .. n - 1 : timers'[i].id \in Ids
        BY <1>1, <1>2
      <3> QED
        BY <1>9, <3>1
    <2> QED
      BY <1>1, <1>8, <2>1 DEF NoneLostNoneTwice
  <1>11. IdsGiven'
    <2>1. fate[timers[p].id] = "set"
      BY <1>1, <1>6
    <2> QED
      BY <1>1, <1>5, <2>1 DEF ListInv, IdsGiven, TypeOK
  <1> QED
    BY <1>5, <1>7, <1>10, <1>11 DEF ListInv

\* What was true of the timers and the passes stays true of fewer timers.
LEMMA UnlinkKeepsNewer ==
  ASSUME TypeOK, NewerLater, NEW p \in 1 .. Len(timers),
         Len(timers') = Len(timers) - 1,
         \A i \in 1 .. Len(timers) - 1 :
            timers'[i] = IF i < p THEN timers[i] ELSE timers[i + 1],
         Len(passes') = Len(passes),
         \A k \in 1 .. Len(passes) : /\ passes'[k].gen = passes[k].gen
                                     /\ passes'[k].time = passes[k].time
  PROVE  NewerLater'
  <1> SUFFICES ASSUME ~Absolute, NEW k \in 1 .. Len(passes), NEW i \in 1 .. Len(timers'),
                      timers'[i].id > passes[k].gen
               PROVE  timers'[i].at >= passes[k].time
    BY DEF NewerLater
  <1>1. Len(timers) \in Nat
    BY ListFacts
  <1>2. PICK j \in 1 .. Len(timers) : timers'[i] = timers[j]
    <2>1. i \in 1 .. Len(timers) - 1 /\ i \in 1 .. Len(timers) /\ i + 1 \in 1 .. Len(timers)
      BY <1>1
    <2> QED
      BY <2>1
  <1> QED
    BY <1>2 DEF NewerLater

-----------------------------------------------------------------------------
LEMMA TickStep ==
  ASSUME IInv, Tick
  PROVE  IInv'
  <1> USE DEF IInv, Tick
  <1>1. TypeOK'
    BY DEF TypeOK, Times
  <1>2. PendingIffQueued' /\ ListInv'
    BY DEF PendingIffQueued, ListInv, NoneLostNoneTwice, InOrder, IdsGiven
  <1>3. PassesPast'
    <2>1. now \in Nat /\ now' = now + 1 /\ UNCHANGED <<lastTimerId, passes>>
      BY ClockFacts
    <2>2. \A k \in 1 .. Len(passes) : /\ passes[k].time \in Nat /\ passes[k].time <= now
                                      /\ passes[k].gen <= lastTimerId
      BY ClockFacts DEF PassesPast
    <2> HIDE DEF IInv, Tick
    <2> QED
      BY <2>1, <2>2 DEF PassesPast
  <1>4. NewerLater'
    BY DEF NewerLater
  <1> QED
    BY <1>1, <1>2, <1>3, <1>4

LEMMA InsertTimer ==
  ASSUME timers \in Seq(Timer), NEW e \in Timer, NEW p \in 1 .. Len(timers) + 1
  PROVE  /\ InsertAt(timers, p, e) \in Seq(Timer)
         /\ Len(InsertAt(timers, p, e)) = Len(timers) + 1
         /\ \A i \in 1 .. Len(timers) + 1 : InsertAt(timers, p, e)[i] =
               IF i < p THEN timers[i] ELSE IF i = p THEN e ELSE timers[i - 1]
  BY InsertedFacts

\* A new timer has the greatest token, and goes behind those not later.
LEMMA CreateTimerStep ==
  ASSUME IInv, NEW at \in Times, CreateTimer(at)
  PROVE  IInv'
  <1> DEFINE new == lastTimerId + 1
             e == [id |-> new, at |-> at]
             n == Len(timers)
  <1>1. /\ n \in Nat /\ timers \in Seq(Timer)
        /\ \A i \in 1 .. n : timers[i].id \in Ids /\ timers[i].at \in Times
        /\ new \in Ids /\ e \in Timer /\ lastTimerId \in Nat
        /\ e.id = new /\ e.at = at /\ at \in Nat
    <2>1. TypeOK
      BY DEF IInv
    <2>2. lastTimerId \in Nat /\ lastTimerId < MaxTimers
      BY <2>1, ClockFacts DEF CreateTimer
    <2>3. new \in Ids /\ at \in Nat
      BY <2>2 DEF Ids, Times
    <2>4. e \in Timer /\ e.id = new /\ e.at = at
      BY <2>3 DEF Timer
    <2> QED
      BY <2>1, <2>2, <2>3, <2>4, ListFacts
  <1>2. PICK p \in 1 .. n + 1 :
          /\ \A i \in 1 .. p - 1 : ~Before(at, i)
          /\ p <= n => Before(at, p)
          /\ timers' = InsertAt(timers, p, e)
    BY DEF CreateTimer
  <1>3. /\ timers' \in Seq(Timer) /\ Len(timers') = n + 1
        /\ \A i \in 1 .. n + 1 :
              timers'[i] = IF i < p THEN timers[i] ELSE IF i = p THEN e ELSE timers[i - 1]
    <2> HIDE DEF e, n
    <2>1. p \in 1 .. Len(timers) + 1
      BY DEF n
    <2> QED
      BY <1>1, <1>2, <2>1, InsertTimer DEF n
  <1>4. \A i \in 1 .. n + 1 : /\ i < p => i \in 1 .. n /\ timers'[i] = timers[i]
                              /\ i = p => timers'[i] = e
                              /\ i > p => /\ i - 1 \in 1 .. n
                                          /\ timers'[i] = timers[i - 1]
    BY <1>1, <1>3
  <1>5. /\ lastTimerId' = new
        /\ fate' \in [Ids -> {"none", "set", "run", "deleted"}]
        /\ \A id \in Ids : fate'[id] = IF id = new THEN "set" ELSE fate[id]
        /\ UNCHANGED <<now, timerPending, queued, passes, wait>>
    BY <1>1 DEF CreateTimer, IInv, TypeOK
  <1> HIDE DEF n, e, new
  <1>6. TypeOK'
    BY <1>1, <1>3, <1>5 DEF IInv, TypeOK, Timer, Ids
  <1>7. PendingIffQueued'
    BY <1>5 DEF IInv, PendingIffQueued
  <1>8. \A i \in 1 .. n : timers[i].id <= lastTimerId /\ timers[i].id < new
    <2>1. ASSUME NEW i \in 1 .. n PROVE timers[i].id <= lastTimerId
      <3>1. timers[i].id \in Ids /\ fate[timers[i].id] = "set"
        BY <1>1 DEF IInv, ListInv, NoneLostNoneTwice, n
      <3> QED
        BY <1>1, <3>1 DEF IInv, ListInv, IdsGiven, Ids
    <2> QED
      BY <1>1, <2>1 DEF new, Ids
  <1>9. \A i \in 1 .. n : i < p => timers[i].at <= at
    <2> SUFFICES ASSUME NEW i \in 1 .. n, i < p PROVE timers[i].at <= at
      OBVIOUS
    <2>1. ~Before(at, i)
      BY <1>1, <1>2
    <2> QED
      BY <1>1, <2>1 DEF Before, Times
  <1>10. \A i \in 1 .. n : i >= p => at < timers[i].at
    <2> SUFFICES ASSUME NEW i \in 1 .. n, i >= p PROVE at < timers[i].at
      OBVIOUS
    <2>1. p \in 1 .. n /\ at < timers[p].at
      BY <1>1, <1>2 DEF Before
    <2>2. i > p => timers[p].at <= timers[i].at
      BY <1>1, <2>1 DEF IInv, ListInv, InOrder, n, Times
    <2> QED
      BY <1>1, <2>1, <2>2 DEF Times
  <1>11. InOrder'
    <2> SUFFICES ASSUME NEW i \in 1 .. n + 1, NEW j \in 1 .. n + 1, i < j
                 PROVE  \/ timers'[i].at < timers'[j].at
                        \/ /\ timers'[i].at = timers'[j].at
                           /\ timers'[i].id < timers'[j].id
      BY <1>3 DEF InOrder
    <2>1. CASE j < p
      BY <1>1, <1>4, <2>1 DEF IInv, ListInv, InOrder, n
    <2>2. CASE j = p
      <3>1. i \in 1 .. n /\ i < p /\ timers'[i] = timers[i] /\ timers'[j] = e
        BY <1>1, <1>4, <2>2
      <3>2. timers[i].at <= at /\ timers[i].id < new /\ timers[i].at \in Nat
        <4>1. timers[i].at \in Nat
          BY <1>1, <3>1 DEF Times
        <4> QED
          BY <1>8, <1>9, <3>1, <4>1
      <3> QED
        BY <1>1, <3>1, <3>2
    <2>3. CASE i < p /\ j > p
      <3>1. /\ i \in 1 .. n /\ timers'[i] = timers[i]
            /\ j - 1 \in 1 .. n /\ timers'[j] = timers[j - 1] /\ i < j - 1
        <4>1. i \in 1 .. n /\ j - 1 \in 1 .. n /\ i < j - 1 /\ ~(j < p) /\ j # p
          BY <1>1, <2>3
        <4> QED
          BY <1>4, <2>3, <4>1
      <3> QED
        BY <1>1, <3>1 DEF IInv, ListInv, InOrder, n
    <2>4. CASE i = p
      <3>1. /\ timers'[i] = e
            /\ j - 1 \in 1 .. n /\ timers'[j] = timers[j - 1] /\ j - 1 >= p
        BY <1>1, <1>4, <2>4
      <3> QED
        BY <1>1, <1>10, <3>1
    <2>5. CASE i > p
      <3>1. /\ i - 1 \in 1 .. n /\ timers'[i] = timers[i - 1]
            /\ j - 1 \in 1 .. n /\ timers'[j] = timers[j - 1] /\ i - 1 < j - 1
        BY <1>1, <1>4, <2>5
      <3> QED
        BY <1>1, <3>1 DEF IInv, ListInv, InOrder, n
    <2> QED
      BY <1>1, <2>1, <2>2, <2>3, <2>4, <2>5
  <1>12. NoneLostNoneTwice'
    <2>1. \A i, j \in 1 .. n + 1 : i < j => timers'[i].id # timers'[j].id
      <3> SUFFICES ASSUME NEW i \in 1 .. n + 1, NEW j \in 1 .. n + 1, i < j
                   PROVE  timers'[i].id # timers'[j].id
        OBVIOUS
      <3>0. \A a, b \in 1 .. n : timers[a].id = timers[b].id => a = b
        BY DEF IInv, ListInv, NoneLostNoneTwice, n
      <3>1. \A a \in 1 .. n : timers[a].id # new
        BY <1>1, <1>8 DEF Ids
      <3>2. CASE i = p
        BY <1>1, <1>4, <3>1, <3>2
      <3>3. CASE j = p
        BY <1>1, <1>4, <3>1, <3>3
      <3>4. CASE i # p /\ j # p
        <4>1. PICK a \in 1 .. n : timers'[i] = timers[a] /\ a = IF i < p THEN i ELSE i - 1
          BY <1>1, <1>4, <3>4
        <4>2. PICK b \in 1 .. n : timers'[j] = timers[b] /\ b = IF j < p THEN j ELSE j - 1
          BY <1>1, <1>4, <3>4
        <4> QED
          BY <1>1, <3>0, <3>4, <4>1, <4>2
      <3> QED
        BY <3>2, <3>3, <3>4
    <2>2. \A id \in Ids : fate'[id] = "set" <=> \E i \in 1 .. n + 1 : timers'[i].id = id
      <3> SUFFICES ASSUME NEW id \in Ids
            PROVE  fate'[id] = "set" <=> \E i \in 1 .. n + 1 : timers'[i].id = id
        OBVIOUS
      <3>1. CASE id = new
        BY <1>1, <1>4, <1>5, <3>1
      <3>2. CASE id # new
        <4>1. fate'[id] = "set" <=> \E i \in 1 .. n : timers[i].id = id
          BY <1>5, <3>2 DEF IInv, ListInv, NoneLostNoneTwice, n
        <4>2. ASSUME NEW i \in 1 .. n, timers[i].id = id
              PROVE  \E j \in 1 .. n + 1 : timers'[j].id = id
          <5>1. CASE i < p
            BY <1>1, <1>4, <4>2, <5>1
          <5>2. CASE i >= p
            <6>1. i + 1 \in 1 .. n + 1 /\ i + 1 > p /\ (i + 1) - 1 = i
              BY <1>1, <5>2
            <6> QED
              BY <1>4, <4>2, <6>1
          <5> QED
            BY <1>1, <5>1, <5>2
        <4>3. ASSUME NEW j \in 1 .. n + 1, timers'[j].id = id
              PROVE  \E i \in 1 .. n : timers[i].id = id
          BY <1>1, <1>4, <3>2, <4>3
        <4> QED
          BY <4>1, <4>2, <4>3
      <3> QED
        BY <3>1, <3>2
    <2>3. \A i \in 1 .. n + 1 : timers'[i].id \in Ids
      BY <1>1, <1>4
    <2>4. {timers'[i].id : i \in 1 .. n + 1} = {id \in Ids : fate'[id] = "set"}
      BY <2>2, <2>3
    <2>5. \A i, j \in 1 .. n + 1 : timers'[i].id = timers'[j].id => i = j
      BY <1>1, <2>1
    <2> QED
      BY <1>3, <2>4, <2>5 DEF NoneLostNoneTwice
  <1>13. IdsGiven'
    BY <1>1, <1>5 DEF IInv, ListInv, IdsGiven, new, Ids
  <1>14. PassesPast'
    <2>1. \A k \in 1 .. Len(passes) : /\ passes[k].gen \in Nat /\ passes[k].time <= now
                                      /\ passes[k].gen <= lastTimerId
      BY ClockFacts DEF IInv, PassesPast
    <2> QED
      BY <1>1, <1>5, <2>1 DEF PassesPast, new
  <1>15. NewerLater'
    <2> SUFFICES ASSUME ~Absolute, NEW k \in 1 .. Len(passes), NEW i \in 1 .. n + 1,
                        timers'[i].id > passes[k].gen
                 PROVE  timers'[i].at >= passes[k].time
      BY <1>3, <1>5 DEF NewerLater
    <2>1. CASE i = p
      <3>1. at >= now /\ now >= passes[k].time
        BY DEF CreateTimer, IInv, PassesPast
      <3> QED
        <4>1. passes[k].time \in Nat /\ now \in Nat
          BY ClockFacts DEF IInv
        <4>2. timers'[i].at = at
          BY <1>1, <1>4, <2>1
        <4> QED
          BY <1>1, <3>1, <4>1, <4>2
    <2>2. CASE i # p
      <3>1. PICK j \in 1 .. n : timers'[i] = timers[j]
        BY <1>1, <1>4, <2>2
      <3> QED
        BY <3>1 DEF IInv, NewerLater, n
    <2> QED
      BY <2>1, <2>2
  <1> QED
    BY <1>6, <1>7, <1>11, <1>12, <1>13, <1>14, <1>15 DEF IInv, ListInv

LEMMA RemoveTimer ==
  ASSUME TypeOK, NEW p \in 1 .. Len(timers), timers' = RemoveAt(timers, p)
  PROVE  /\ timers' \in Seq(Timer) /\ Len(timers') = Len(timers) - 1
         /\ \A i \in 1 .. Len(timers) - 1 :
               timers'[i] = IF i < p THEN timers[i] ELSE timers[i + 1]
  <1>1. timers \in Seq(Timer)
    BY ListFacts
  <1>2. /\ RemoveAt(timers, p) \in Seq(Timer)
        /\ Len(RemoveAt(timers, p)) = Len(timers) - 1
        /\ \A i \in 1 .. Len(timers) - 1 : RemoveAt(timers, p)[i] =
              IF i < p THEN timers[i] ELSE timers[i + 1]
    BY <1>1, RemoveAtFacts
  <1> QED
    BY <1>2

LEMMA DeleteTimerStep ==
  ASSUME IInv, NEW id \in Ids, DeleteTimer(id)
  PROVE  IInv'
  <1>1. UNCHANGED <<now, lastTimerId, timerPending, queued, passes, wait>>
    BY DEF DeleteTimer
  <1>2. ASSUME NEW p \in 1 .. Len(timers), timers[p].id = id,
               timers' = RemoveAt(timers, p),
               fate' = [fate EXCEPT ![id] = "deleted"]
        PROVE  IInv'
    <2>1. /\ timers' \in Seq(Timer) /\ Len(timers') = Len(timers) - 1
          /\ \A i \in 1 .. Len(timers) - 1 :
                timers'[i] = IF i < p THEN timers[i] ELSE timers[i + 1]
      BY <1>2, RemoveTimer DEF IInv
    <2>2. ListInv' /\ fate' \in [Ids -> {"none", "set", "run", "deleted"}]
      BY <1>1, <1>2, <2>1, UnlinkKeepsList DEF IInv
    <2>3. NewerLater'
      BY <1>1, <2>1, UnlinkKeepsNewer DEF IInv
    <2>4. TypeOK'
      BY <1>1, <2>1, <2>2 DEF IInv, TypeOK, Timer
    <2>5. PendingIffQueued' /\ PassesPast'
      BY <1>1 DEF IInv, PendingIffQueued, PassesPast
    <2> QED
      BY <2>2, <2>3, <2>4, <2>5 DEF IInv
  <1>3. CASE UNCHANGED <<timers, fate>>
    BY <1>1, <1>3 DEF IInv, TypeOK, PendingIffQueued, ListInv, NoneLostNoneTwice, InOrder,
       IdsGiven, PassesPast, NewerLater
  <1> QED
    BY <1>2, <1>3 DEF DeleteTimer

-----------------------------------------------------------------------------
LEMMA SetupStep ==
  ASSUME IInv, NEW timer \in TimerFlags, Setup(timer)
  PROVE  IInv'
  <1> USE DEF IInv, Setup
  <1>1. BlockUntil(timer) \in 0 .. Never
    <2>1. timers # <<>> => timers[1].at \in Times
      BY ListFacts
    <2> QED
      BY <2>1 DEF BlockUntil, TypeOK, Times, Never
  <1>2. wait' \in [on : BOOLEAN, until : 0 .. Never, timer : BOOLEAN]
    BY <1>1
  <1>3. TypeOK'
    BY <1>2 DEF TypeOK
  <1> QED
    BY <1>3 DEF PendingIffQueued, ListInv, NoneLostNoneTwice, InOrder, IdsGiven, PassesPast,
       NewerLater

LEMMA CheckStep ==
  ASSUME IInv, Check
  PROVE  IInv'
  <1> USE DEF IInv, Check
  <1>1. TypeOK'
    <2>1. wait' \in [on : BOOLEAN, until : 0 .. Never, timer : BOOLEAN]
      BY DEF NoWait, Never
    <2>2. queued' \in Nat /\ timerPending' \in BOOLEAN
      <3>1. CASE UNCHANGED <<timerPending, queued>>
        BY <3>1 DEF TypeOK
      <3>2. CASE timerPending' = TRUE /\ queued' = queued + 1
        BY <3>2 DEF TypeOK
      <3> QED
        BY <3>1, <3>2, Zenon
    <2> QED
      BY <2>1, <2>2 DEF TypeOK
  <1>2. PendingIffQueued'
    BY DEF PendingIffQueued, MayQueue, TypeOK
  <1> QED
    BY <1>1, <1>2 DEF ListInv, NoneLostNoneTwice, InOrder, IdsGiven, PassesPast, NewerLater

-----------------------------------------------------------------------------
(***************************************************************************)
(* The passes.                                                             *)
(***************************************************************************)
LEMMA ServiceStep ==
  ASSUME IInv, ServiceTimerEvent
  PROVE  IInv'
  <1> DEFINE new == [gen |-> lastTimerId, time |-> now, running |-> 0]
  <1>1. /\ new \in Pass /\ new.gen = lastTimerId /\ new.time = now
        /\ passes \in Seq(Pass) /\ Len(passes) \in Nat
    BY PassFacts DEF IInv, TypeOK, Pass
  <1>2. passes' = Append(passes, new)
    BY DEF ServiceTimerEvent
  <1> HIDE DEF new
  <1>3. /\ passes' \in Seq(Pass) /\ Len(passes') = Len(passes) + 1
        /\ \A k \in 1 .. Len(passes) : passes'[k] = passes[k]
        /\ passes'[Len(passes) + 1] = new
    BY <1>1, <1>2, AppendProperties
  <1>4. TypeOK'
    <2>1. queued' \in Nat
      BY DEF IInv, TypeOK, ServiceTimerEvent
    <2>2. timerPending' = FALSE /\ UNCHANGED <<now, timers, lastTimerId, wait, fate>>
      BY DEF ServiceTimerEvent
    <2> QED
      BY <1>3, <2>1, <2>2 DEF IInv, TypeOK, Pass
  <1>5. ListInv'
    BY DEF IInv, ServiceTimerEvent, ListInv, NoneLostNoneTwice, InOrder, IdsGiven
  <1>6. PendingIffQueued' /\ UNCHANGED <<now, timers, lastTimerId, fate>>
    BY DEF IInv, ServiceTimerEvent, PendingIffQueued
  <1>7. \A k \in 1 .. Len(passes') : k \in 1 .. Len(passes) \/ k = Len(passes) + 1
    BY <1>1, <1>3
  <1>8. PassesPast'
    <2> SUFFICES ASSUME NEW k \in 1 .. Len(passes')
                 PROVE  passes'[k].gen <= lastTimerId /\ passes'[k].time <= now
      BY <1>6 DEF PassesPast
    <2>1. CASE k \in 1 .. Len(passes)
      BY <1>3, <2>1 DEF IInv, PassesPast
    <2>2. CASE k = Len(passes) + 1
      BY <1>1, <1>3, <2>2 DEF IInv, TypeOK, Times
    <2> QED
      BY <1>7, <2>1, <2>2
  <1>9. NewerLater'
    <2> SUFFICES ASSUME ~Absolute, NEW k \in 1 .. Len(passes'), NEW i \in 1 .. Len(timers),
                        timers[i].id > passes'[k].gen
                 PROVE  timers[i].at >= passes'[k].time
      BY <1>6 DEF NewerLater
    <2>1. CASE k \in 1 .. Len(passes)
      BY <1>3, <2>1 DEF IInv, NewerLater
    <2>2. CASE k = Len(passes) + 1
      <3>1. timers[i].id > lastTimerId
        BY <1>1, <1>3, <2>2
      <3>2. timers[i].id \in Ids /\ fate[timers[i].id] = "set"
        BY ListFacts DEF IInv, ListInv, NoneLostNoneTwice
      <3> QED
        BY <3>1, <3>2 DEF IInv, ListInv, IdsGiven
    <2> QED
      BY <1>7, <2>1, <2>2
  <1> QED
    BY <1>4, <1>5, <1>6, <1>8, <1>9 DEF IInv

\* A frame keeps what it noted when it began.
LEMMA RunningFacts ==
  ASSUME TypeOK, InPass, NEW id \in 0 .. MaxTimers,
         passes' = [passes EXCEPT ![Len(passes)].running = id]
  PROVE  /\ passes' \in Seq(Pass) /\ Len(passes') = Len(passes)
         /\ \A k \in 1 .. Len(passes) : /\ passes'[k].gen = passes[k].gen
                                        /\ passes'[k].time = passes[k].time
  <1>1. /\ passes \in Seq(Pass) /\ Len(passes) \in Nat \ {0}
        /\ \A k \in 1 .. Len(passes) : passes[k] \in Pass
    BY PassFacts DEF InPass
  <1>2. PICK n \in 1 .. Len(passes) : n = Len(passes)
    BY <1>1
  <1>3. PICK p : p = [passes[n] EXCEPT !.running = id]
    OBVIOUS
  <1>4. p \in Pass /\ p.gen = passes[n].gen /\ p.time = passes[n].time
    BY <1>1, <1>3 DEF Pass
  <1>5. passes' = [passes EXCEPT ![n] = p]
    BY <1>2, <1>3
  <1>6. /\ passes' \in Seq(Pass) /\ Len(passes') = Len(passes)
        /\ \A k \in 1 .. Len(passes) : passes'[k] = IF k = n THEN p ELSE passes[k]
    <2>1. \A s \in Seq(Pass) : \A m \in 1 .. Len(s) : \A q \in Pass :
            /\ [s EXCEPT ![m] = q] \in Seq(Pass) /\ Len([s EXCEPT ![m] = q]) = Len(s)
            /\ \A k \in 1 .. Len(s) : [s EXCEPT ![m] = q][k] = IF k = m THEN q ELSE s[k]
      BY ExceptSeq
    <2>2. passes \in Seq(Pass) /\ n \in 1 .. Len(passes) /\ p \in Pass
      BY <1>1, <1>4
    <2> HIDE <1>1, <1>2, <1>3, <1>4
    <2>3. /\ [passes EXCEPT ![n] = p] \in Seq(Pass)
          /\ Len([passes EXCEPT ![n] = p]) = Len(passes)
          /\ \A k \in 1 .. Len(passes) :
                [passes EXCEPT ![n] = p][k] = IF k = n THEN p ELSE passes[k]
      BY <2>1, <2>2
    <2> QED
      BY <1>5, <2>3
  <1> QED
    BY <1>4, <1>6

LEMMA InvokeStep ==
  ASSUME IInv, Invoke
  PROVE  IInv'
  <1>1. /\ timers # <<>> /\ 1 \in 1 .. Len(timers) /\ timers[1].id \in Ids
        /\ timers \in Seq(Timer)
    BY ListFacts DEF IInv, Invoke, Runnable
  <1>2. /\ timers' = Tail(timers)
        /\ passes' = [passes EXCEPT ![Len(passes)].running = timers[1].id]
        /\ fate' = [fate EXCEPT ![timers[1].id] = "run"]
        /\ UNCHANGED <<now, lastTimerId, timerPending, queued, wait>>
    BY DEF Invoke, Taken
  <1>3. /\ timers' \in Seq(Timer) /\ Len(timers') = Len(timers) - 1
        /\ \A i \in 1 .. Len(timers) - 1 : timers'[i] = timers[i + 1]
    BY <1>1, <1>2, TailFacts
  <1>4. \A i \in 1 .. Len(timers) - 1 :
            timers'[i] = IF i < 1 THEN timers[i] ELSE timers[i + 1]
    BY <1>3, ListFacts DEF IInv
  <1>5. /\ passes' \in Seq(Pass) /\ Len(passes') = Len(passes)
        /\ \A k \in 1 .. Len(passes) : /\ passes'[k].gen = passes[k].gen
                                       /\ passes'[k].time = passes[k].time
    <2>1. timers[1].id \in 0 .. MaxTimers
      BY <1>1 DEF Ids
    <2> QED
      BY <1>2, <2>1, RunningFacts DEF IInv, Invoke
  <1>6. ListInv' /\ fate' \in [Ids -> {"none", "set", "run", "deleted"}]
    BY <1>1, <1>2, <1>3, <1>4, UnlinkKeepsList DEF IInv
  <1>7. NewerLater'
    BY <1>1, <1>3, <1>4, <1>5, UnlinkKeepsNewer DEF IInv
  <1>8. TypeOK'
    BY <1>2, <1>3, <1>5, <1>6 DEF IInv, TypeOK, Timer, Pass
  <1>9. PendingIffQueued' /\ PassesPast'
    BY <1>2, <1>5 DEF IInv, PendingIffQueued, PassesPast
  <1> QED
    BY <1>6, <1>7, <1>8, <1>9 DEF IInv

\* What is true of the passes stays true of the outer ones.
LEMMA FramesStep ==
  ASSUME IInv, HandlerReturns \/ PassEnds
  PROVE  IInv'
  <1>1. UNCHANGED <<now, timers, lastTimerId, timerPending, queued, wait, fate>>
    BY DEF HandlerReturns, PassEnds
  <1>2. /\ passes' \in Seq(Pass) /\ Len(passes') <= Len(passes) /\ Len(passes') \in Nat
        /\ \A k \in 1 .. Len(passes') : /\ passes'[k].gen = passes[k].gen
                                        /\ passes'[k].time = passes[k].time
    <2>1. CASE HandlerReturns
      <3>1. /\ passes' \in Seq(Pass) /\ Len(passes') = Len(passes)
            /\ \A k \in 1 .. Len(passes) : /\ passes'[k].gen = passes[k].gen
                                           /\ passes'[k].time = passes[k].time
        <4>1. 0 \in 0 .. MaxTimers
          OBVIOUS
        <4> QED
          BY <2>1, <4>1, RunningFacts DEF IInv, HandlerReturns
      <3> QED
        BY <3>1, PassFacts DEF IInv
    <2>2. CASE PassEnds
      <3>1. passes \in Seq(Pass) /\ passes # <<>> /\ passes' = Front(passes)
        BY <2>2, PassFacts DEF IInv, PassEnds, InPass
      <3>2. /\ passes' \in Seq(Pass) /\ Len(passes') = Len(passes) - 1
            /\ Len(passes) \in Nat \ {0}
            /\ \A k \in 1 .. Len(passes) - 1 : passes'[k] = passes[k]
        BY <3>1, FrontFacts
      <3> QED
        BY <3>2
    <2> QED
      BY <2>1, <2>2
  <1>3. TypeOK'
    BY <1>1, <1>2 DEF IInv, TypeOK, Pass
  <1>4. PendingIffQueued' /\ ListInv'
    BY <1>1 DEF IInv, PendingIffQueued, ListInv, NoneLostNoneTwice, InOrder, IdsGiven
  <1>5. \A k \in 1 .. Len(passes') : k \in 1 .. Len(passes)
    BY <1>2, PassFacts DEF IInv
  <1>6. PassesPast' /\ NewerLater'
    BY <1>1, <1>2, <1>5 DEF IInv, PassesPast, NewerLater
  <1> QED
    BY <1>3, <1>4, <1>6 DEF IInv

-----------------------------------------------------------------------------
LEMMA NextIInv == IInv /\ [Next]_vars => IInv'
  <1> SUFFICES ASSUME IInv, [Next]_vars PROVE IInv'
    OBVIOUS
  <1>1. ASSUME NEW at \in Times, CreateTimer(at) PROVE IInv'
    BY <1>1, CreateTimerStep
  <1>2. ASSUME NEW id \in Ids, DeleteTimer(id) PROVE IInv'
    BY <1>2, DeleteTimerStep
  <1>3. ASSUME NEW timer \in TimerFlags, Setup(timer) PROVE IInv'
    BY <1>3, SetupStep
  <1>4. CASE UNCHANGED vars
    BY <1>4 DEF vars, IInv, TypeOK, PendingIffQueued, ListInv, NoneLostNoneTwice, InOrder,
       IdsGiven, PassesPast, NewerLater
  <1> QED
    BY <1>1, <1>2, <1>3, <1>4, TickStep, CheckStep, ServiceStep, InvokeStep, FramesStep
       DEF Next

LEMMA IInvIsInvariant == Spec => []IInv
  BY InitIInv, NextIInv, PTL DEF Spec

(***************************************************************************)
(* Every variable keeps its type.                                          *)
(***************************************************************************)
THEOREM TypeCorrect == Spec => []TypeOK
  <1>1. IInv => TypeOK
    BY DEF IInv
  <1> QED
    BY <1>1, IInvIsInvariant, PTL

(***************************************************************************)
(* TimerCheckProc and TimerHandlerEventProc: one timer event is in the     *)
(* queue exactly when timerPending is set.                                 *)
(***************************************************************************)
THEOREM PendingFlagTrue == Spec => []PendingIffQueued
  <1>1. IInv => PendingIffQueued
    BY DEF IInv
  <1> QED
    BY <1>1, IInvIsInvariant, PTL

(***************************************************************************)
(* The list holds exactly the timers that were set, have not run and were  *)
(* not deleted, whatever the handlers of nested passes do.                 *)
(***************************************************************************)
THEOREM TimersKept == Spec => []NoneLostNoneTwice
  <1>1. IInv => NoneLostNoneTwice
    BY DEF IInv, ListInv
  <1> QED
    BY <1>1, IInvIsInvariant, PTL

(***************************************************************************)
(* TimerHandlerEventProc: where timers are set for the future, as `after`  *)
(* sets them, a pass that ends leaves no timer that existed and had        *)
(* expired when it began.                                                  *)
(***************************************************************************)
THEOREM PassesComplete == ASSUME ~Absolute PROVE Spec => PassComplete
  <1> DEFINE Done == PassEnds => \A i \in 1 .. Len(timers) :
                        timers[i].id <= pass.gen => timers[i].at > pass.time
  <1>1. IInv => Done
    <2> SUFFICES ASSUME IInv, PassEnds, NEW i \in 1 .. Len(timers), timers[i].id <= pass.gen
                 PROVE  timers[i].at > pass.time
      OBVIOUS
    <2>1. /\ Len(timers) \in Nat /\ timers # <<>> /\ 1 \in 1 .. Len(timers)
          /\ timers[1].id \in Nat /\ timers[1].at \in Nat
          /\ timers[i].id \in Nat /\ timers[i].at \in Nat
      BY ListFacts DEF IInv, Ids, Times
    <2>2. /\ Len(passes) \in 1 .. Len(passes) /\ pass = passes[Len(passes)]
          /\ pass.gen \in Nat /\ pass.time \in Nat
      BY PassFacts DEF IInv, PassEnds, InPass, Times
    <2>3. timers[1].at > pass.time \/ timers[1].id > pass.gen
      BY <2>1, <2>2 DEF PassEnds, Runnable
    <2>4. \/ i = 1 \/ timers[1].at < timers[i].at
          \/ timers[1].at = timers[i].at /\ timers[1].id < timers[i].id
      BY <2>1 DEF IInv, ListInv, InOrder
    <2>5. timers[1].id > pass.gen => timers[1].at >= pass.time
      BY <2>1, <2>2 DEF IInv, NewerLater
    <2> QED
      BY <2>1, <2>2, <2>3, <2>4, <2>5
  <1>2. IInv => [Done]_vars
    BY <1>1
  <1>3. Spec => [][Done]_vars
    BY <1>2, IInvIsInvariant, PTL
  <1> QED
    BY <1>3 DEF PassComplete

-----------------------------------------------------------------------------
(***************************************************************************)
(* The idle handlers.  Their list is in the order of registration, and of  *)
(* generations; a pass of TclServiceIdle tells the handlers that existed   *)
(* when it began from those registered since by the generation alone.      *)
(***************************************************************************)
IdleHandler == [id : IdleIds, key : Keys, generation : Nat]
IdlePass == [fn : {"ServiceIdle", "DoOneIdle"}, old : Nat,
             newest : 0 .. MaxIdle, running : 0 .. MaxIdle]

IdleIdsGiven == \A i \in IdleIds : i > registered <=> idleFate[i] = "none"

GenerationsInOrder ==
    /\ \A i, j \in 1 .. Len(idleList) :
            i < j => idleList[i].generation <= idleList[j].generation
    /\ \A i \in 1 .. Len(idleList) : idleList[i].generation <= idleGeneration

NewByGeneration(f) ==
    /\ f.newest <= registered
    /\ f.fn = "ServiceIdle" =>
        /\ f.old < idleGeneration
        /\ \A i \in 1 .. Len(idleList) :
              idleList[i].id > f.newest <=> idleList[i].generation > f.old

PassesByGeneration ==
    \A k \in 1 .. Len(idlePasses) : NewByGeneration(idlePasses[k])

IdleListInv == IdleNoneLostNoneTwice /\ IdleIdsGiven /\ GenerationsInOrder
IdleIInv == IdleTypeOK /\ IdleListInv /\ PassesByGeneration

LEMMA IdleFacts ==
  ASSUME IdleTypeOK
  PROVE  /\ idleList \in Seq(IdleHandler) /\ Len(idleList) \in Nat
         /\ idleList = <<>> <=> Len(idleList) = 0
         /\ \A i \in 1 .. Len(idleList) :
               /\ idleList[i] \in IdleHandler /\ idleList[i].id \in IdleIds
               /\ idleList[i].id \in Nat /\ idleList[i].generation \in Nat
         /\ registered \in Nat /\ idleGeneration \in Nat
  <1>1. idleList \in Seq(IdleHandler)
    BY DEF IdleTypeOK, IdleHandler
  <1>2. \A i \in 1 .. Len(idleList) : idleList[i] \in IdleHandler
    BY <1>1, ElementOfSeq
  <1>3. Len(idleList) \in Nat /\ (idleList = <<>> <=> Len(idleList) = 0)
    BY <1>1, EmptySeq, LenProperties
  <1>4. registered \in Nat /\ idleGeneration \in Nat
    BY IdleAssumption DEF IdleTypeOK
  <1>5. \A h \in IdleHandler : h.id \in IdleIds /\ h.id \in Nat /\ h.generation \in Nat
    BY IdleAssumption DEF IdleHandler, IdleIds
  <1> QED
    BY <1>1, <1>2, <1>3, <1>4, <1>5

LEMMA IdlePassFacts ==
  ASSUME IdleTypeOK
  PROVE  /\ idlePasses \in Seq(IdlePass) /\ Len(idlePasses) \in Nat
         /\ idlePasses = <<>> <=> Len(idlePasses) = 0
         /\ \A k \in 1 .. Len(idlePasses) :
               /\ idlePasses[k] \in IdlePass
               /\ idlePasses[k].newest \in Nat /\ idlePasses[k].old \in Nat
         /\ idlePass = idlePasses[Len(idlePasses)]
  <1>1. idlePasses \in Seq(IdlePass)
    BY DEF IdleTypeOK, IdlePass
  <1>2. \A k \in 1 .. Len(idlePasses) : idlePasses[k] \in IdlePass
    BY <1>1, ElementOfSeq
  <1>3. idlePass = idlePasses[Len(idlePasses)]
    BY Zenon DEF idlePass, Last
  <1>4. \A f \in IdlePass : f.newest \in Nat /\ f.old \in Nat
    BY IdleAssumption DEF IdlePass
  <1> QED
    BY <1>1, <1>2, <1>3, <1>4, EmptySeq, LenProperties

\* The handlers of the list are those that are set.
LEMMA IdleSet ==
  ASSUME IdleTypeOK, IdleListInv
  PROVE  /\ \A i \in 1 .. Len(idleList) : /\ idleFate[idleList[i].id] = "set"
                                          /\ idleList[i].id <= registered
         /\ \A id \in IdleIds : idleFate[id] = "set" =>
               \E i \in 1 .. Len(idleList) : idleList[i].id = id
         /\ \A i, j \in 1 .. Len(idleList) : i < j => idleList[i].id < idleList[j].id
         /\ lastIdle = LastOf(idleList)
  <1> DEFINE A == {idleList[i].id : i \in 1 .. Len(idleList)}
             B == {id \in IdleIds : idleFate[id] = "set"}
  <1>1. A = B
    BY DEF IdleListInv, IdleNoneLostNoneTwice
  <1>2. ASSUME NEW i \in 1 .. Len(idleList)
        PROVE  /\ idleFate[idleList[i].id] = "set"
               /\ idleList[i].id <= registered
    <2>1. idleList[i].id \in A /\ idleList[i].id \in IdleIds
      BY IdleFacts
    <2>2. idleFate[idleList[i].id] = "set"
      BY <1>1, <2>1
    <2>3. ~(idleList[i].id > registered)
      BY <2>1, <2>2 DEF IdleListInv, IdleIdsGiven
    <2> QED
      BY <2>2, <2>3, IdleFacts
  <1>3. ASSUME NEW id \in IdleIds, idleFate[id] = "set"
        PROVE  \E i \in 1 .. Len(idleList) : idleList[i].id = id
    BY <1>1, <1>3
  <1> QED
    BY <1>2, <1>3 DEF IdleListInv, IdleNoneLostNoneTwice

LEMMA IdleInitIInv == IdleInit => IdleIInv
  <1> SUFFICES ASSUME IdleInit PROVE IdleIInv
    OBVIOUS
  <1> USE IdleAssumption
  <1>1. /\ Len(idleList) = 0 /\ Len(idlePasses) = 0
        /\ idleList = <<>> /\ registered = 0
        /\ idleList \in Seq(IdleHandler) /\ idlePasses \in Seq(IdlePass)
    BY DEF IdleInit
  <1>2. IdleTypeOK
    BY <1>1 DEF IdleInit, IdleTypeOK, IdleHandler, IdlePass
  <1>3. \A i \in IdleIds : i > 0 /\ idleFate[i] = "none"
    BY DEF IdleInit, IdleIds
  <1>4. {idleList[i].id : i \in 1 .. Len(idleList)} = {id \in IdleIds : idleFate[id] = "set"}
    BY <1>1, <1>3
  <1>5. IdleNoneLostNoneTwice
    BY <1>1, <1>4 DEF IdleNoneLostNoneTwice, LastOf, IdleInit
  <1>6. IdleIdsGiven
    BY <1>1, <1>3 DEF IdleIdsGiven
  <1>7. GenerationsInOrder /\ PassesByGeneration
    BY <1>1 DEF GenerationsInOrder, PassesByGeneration
  <1> QED
    BY <1>2, <1>5, <1>6, <1>7 DEF IdleIInv, IdleListInv

(***************************************************************************)
(* Handlers D are unlinked, by a cancellation or to be run: the rest stays *)
(* in its order.                                                           *)
(***************************************************************************)
UnlinkedTo(what, D) ==
    /\ idleList' \in Seq(IdleHandler)
    /\ Selects(idleList, D, idleList', Len(idleList))
    /\ idleFate' \in [IdleIds -> {"none", "set", "run", "cancelled"}]
    /\ \A id \in IdleIds : idleFate'[id] =
          IF \E p \in 1 .. Len(idleList) : idleList[p].id = id /\ idleList[p] \in D
          THEN what ELSE idleFate[id]
    /\ lastIdle' = LastOf(idleList')
    /\ registered' = registered
    /\ idleGeneration' \in Nat /\ idleGeneration' >= idleGeneration

LEMMA UnlinkKeepsIdle ==
  ASSUME IdleIInv, NEW D, NEW what \in {"run", "cancelled"}, UnlinkedTo(what, D)
  PROVE  /\ IdleListInv'
         /\ \A f \in IdlePass : NewByGeneration(f) => NewByGeneration(f)'
  <1>0. IdleTypeOK /\ IdleListInv
    BY DEF IdleIInv
  <1>1. PICK l \in Nat : l = Len(idleList')
    BY LenProperties DEF UnlinkedTo
  <1>2. PICK n \in Nat : n = Len(idleList)
    BY <1>0, IdleFacts
  <1>3. PICK e \in [1 .. l -> 1 .. n] : Embeds(idleList, D, idleList', n, l, e)
    BY <1>1, <1>2 DEF UnlinkedTo, Selects
  <1>4. /\ \A i, j \in 1 .. l : i < j => e[i] < e[j]
        /\ \A i \in 1 .. l : idleList'[i] = idleList[e[i]] /\ idleList[e[i]] \notin D
        /\ \A p \in 1 .. n : idleList[p] \notin D => \E i \in 1 .. l : e[i] = p
        /\ \A i \in 1 .. l : e[i] \in 1 .. n
    BY <1>3 DEF Embeds
  <1>5. /\ \A i \in 1 .. n : /\ idleFate[idleList[i].id] = "set"
                             /\ idleList[i].id <= registered
                             /\ idleList[i].id \in IdleIds /\ idleList[i].id \in Nat
                             /\ idleList[i].generation \in Nat
        /\ \A id \in IdleIds : idleFate[id] = "set" =>
              \E i \in 1 .. n : idleList[i].id = id
        /\ \A i, j \in 1 .. n : i < j => idleList[i].id < idleList[j].id
    BY <1>0, <1>2, IdleSet, IdleFacts
  <1>6. \A id \in IdleIds : idleFate'[id] =
          IF \E p \in 1 .. n : idleList[p].id = id /\ idleList[p] \in D
          THEN what ELSE idleFate[id]
    BY <1>2 DEF UnlinkedTo
  <1>7. ASSUME NEW i \in 1 .. n, NEW j \in 1 .. n, idleList[i].id = idleList[j].id
        PROVE  i = j
    <2>1. ~(idleList[i].id < idleList[j].id) /\ ~(idleList[j].id < idleList[i].id)
      BY <1>5, <1>7
    <2>2. ~(i < j) /\ ~(j < i)
      BY <1>5, <2>1
    <2> QED
      BY <2>2
  <1>8. {idleList'[i].id : i \in 1 .. l} = {id \in IdleIds : idleFate'[id] = "set"}
    <2>1. ASSUME NEW i \in 1 .. l
          PROVE  idleList'[i].id \in IdleIds /\ idleFate'[idleList'[i].id] = "set"
      <3>1. PICK p \in 1 .. n : p = e[i]
        BY <1>4
      <3>2. idleList'[i] = idleList[p] /\ idleList[p] \notin D
        BY <1>4, <3>1
      <3>3. ~ \E q \in 1 .. n : idleList[q].id = idleList[p].id /\ idleList[q] \in D
        BY <1>7, <3>2
      <3>4. idleList[p].id \in IdleIds /\ idleFate[idleList[p].id] = "set"
        BY <1>5
      <3>5. idleFate'[idleList[p].id] = idleFate[idleList[p].id]
        BY <1>6, <3>3, <3>4
      <3> QED
        BY <3>2, <3>4, <3>5
    <2>2. ASSUME NEW id \in IdleIds, idleFate'[id] = "set"
          PROVE  \E i \in 1 .. l : idleList'[i].id = id
      <3>1. /\ idleFate[id] = "set"
            /\ ~ \E p \in 1 .. n : idleList[p].id = id /\ idleList[p] \in D
        BY <1>6, <2>2
      <3>2. PICK p \in 1 .. n : idleList[p].id = id
        BY <1>5, <3>1
      <3>3. PICK i \in 1 .. l : e[i] = p
        BY <1>4, <3>1, <3>2
      <3> QED
        BY <1>4, <3>2, <3>3
    <2> QED
      BY <2>1, <2>2
  <1>9. \A i, j \in 1 .. l : i < j => idleList'[i].id < idleList'[j].id
    <2> SUFFICES ASSUME NEW i \in 1 .. l, NEW j \in 1 .. l, i < j
                 PROVE  idleList'[i].id < idleList'[j].id
      OBVIOUS
    <2>1. e[i] < e[j] /\ e[i] \in 1 .. n /\ e[j] \in 1 .. n
      BY <1>4
    <2>2. idleList[e[i]].id < idleList[e[j]].id
      BY <1>5, <2>1
    <2> QED
      BY <1>4, <2>2
  <1>10. IdleNoneLostNoneTwice'
    BY <1>1, <1>8, <1>9 DEF IdleNoneLostNoneTwice, UnlinkedTo
  <1>11. IdleIdsGiven'
    <2>1. \A id \in IdleIds : idleFate'[id] = "none" <=> idleFate[id] = "none"
      BY <1>5, <1>6
    <2> QED
      BY <1>0, <2>1 DEF IdleListInv, IdleIdsGiven, UnlinkedTo
  <1>12. GenerationsInOrder'
    <2>1. /\ \A i, j \in 1 .. n :
                i < j => idleList[i].generation <= idleList[j].generation
          /\ \A i \in 1 .. n : idleList[i].generation <= idleGeneration
      BY <1>0, <1>2 DEF IdleListInv, GenerationsInOrder
    <2>2. \A i, j \in 1 .. l :
                i < j => idleList'[i].generation <= idleList'[j].generation
      <3> SUFFICES ASSUME NEW i \in 1 .. l, NEW j \in 1 .. l, i < j
                   PROVE  idleList'[i].generation <= idleList'[j].generation
        OBVIOUS
      <3>1. e[i] < e[j] /\ e[i] \in 1 .. n /\ e[j] \in 1 .. n
        BY <1>4
      <3>2. idleList[e[i]].generation <= idleList[e[j]].generation
        BY <2>1, <3>1
      <3> QED
        BY <1>4, <3>2
    <2>3. ASSUME NEW i \in 1 .. l PROVE idleList'[i].generation <= idleGeneration'
      <3>1. PICK p \in 1 .. n : idleList'[i] = idleList[p]
        BY <1>4
      <3>2. /\ idleList[p].generation \in Nat /\ idleGeneration \in Nat
            /\ idleGeneration' \in Nat /\ idleGeneration' >= idleGeneration
            /\ idleList[p].generation <= idleGeneration
        BY <1>0, <1>5, <2>1, IdleFacts DEF UnlinkedTo
      <3> QED
        BY <3>1, <3>2
    <2> QED
      BY <1>1, <2>2, <2>3 DEF GenerationsInOrder
  <1>13. ASSUME NEW f \in IdlePass, NewByGeneration(f) PROVE NewByGeneration(f)'
    <2>1. f.newest <= registered'
      BY <1>13 DEF NewByGeneration, UnlinkedTo
    <2>2. ASSUME f.fn = "ServiceIdle" PROVE f.old < idleGeneration'
      <3>1. f.old < idleGeneration /\ f.old \in Nat /\ idleGeneration \in Nat
        BY <1>0, <1>13, <2>2, IdleFacts DEF NewByGeneration, IdlePass
      <3> QED
        BY <3>1 DEF UnlinkedTo
    <2>3. ASSUME f.fn = "ServiceIdle", NEW i \in 1 .. l
          PROVE  idleList'[i].id > f.newest <=> idleList'[i].generation > f.old
      <3>1. PICK p \in 1 .. n : idleList'[i] = idleList[p]
        BY <1>4
      <3>2. idleList[p].id > f.newest <=> idleList[p].generation > f.old
        BY <1>2, <1>13, <2>3 DEF NewByGeneration
      <3> QED
        BY <3>1, <3>2
    <2> QED
      BY <1>1, <2>1, <2>2, <2>3 DEF NewByGeneration
  <1> QED
    BY <1>10, <1>11, <1>12, <1>13 DEF IdleListInv

LEMMA CancelIdleStep ==
  ASSUME IdleIInv, NEW key \in Keys, CancelIdleCall(key)
  PROVE  IdleIInv'
  <1>0. IdleTypeOK /\ IdleListInv
    BY DEF IdleIInv
  <1>1. PICK D : D = {h \in ToSet(idleList) : h.key = key}
    OBVIOUS
  <1>2. PICK w : w = Unlinked(idleList, D)
    OBVIOUS
  <1>3. /\ idleList' = w
        /\ lastIdle' = IF idleList # <<>> /\ Last(idleList).key = key
                       THEN LastAfterCancel(w) ELSE lastIdle
        /\ idleFate' = [i \in IdleIds |->
              IF \E p \in 1 .. Len(idleList) :
                      idleList[p].id = i /\ idleList[p].key = key
              THEN "cancelled" ELSE idleFate[i]]
        /\ UNCHANGED <<idleGeneration, idlePasses, registered>>
    BY <1>1, <1>2 DEF CancelIdleCall
  <1>4. w \in Seq(IdleHandler) /\ Selects(idleList, D, w, Len(idleList))
    BY <1>0, <1>2, IdleFacts, UnlinkedSelects
  <1>5. \A p \in 1 .. Len(idleList) : idleList[p] \in D <=> idleList[p].key = key
    BY <1>0, <1>1, IdleFacts, ToSetFacts
  <1>6. idleFate \in [IdleIds -> {"none", "set", "run", "cancelled"}]
    BY <1>0 DEF IdleTypeOK
  <1>7. lastIdle' = LastOf(w)
    <2>1. lastIdle = LastOf(idleList)
      BY <1>0, IdleSet
    <2>2. CASE idleList # <<>> /\ Last(idleList).key = key
      BY <1>3, <2>2 DEF LastAfterCancel
    <2>3. CASE idleList = <<>>
      <3>1. PICK e \in [1 .. Len(w) -> 1 .. 0] : TRUE
        BY <1>0, <1>4, <2>3, IdleFacts DEF Selects
      <3>2. Len(w) = 0
        <4>1. Len(w) \in Nat
          BY <1>4, LenProperties
        <4>2. ASSUME Len(w) > 0 PROVE FALSE
          <5>1. 1 \in 1 .. Len(w)
            BY <4>1, <4>2
          <5>2. e[1] \in 1 .. 0
            BY <5>1
          <5> QED
            BY <5>2
        <4> QED
          BY <4>1, <4>2
      <3>3. w = <<>>
        BY <1>4, <3>2, EmptySeq
      <3> QED
        BY <1>3, <2>1, <2>3, <3>3
    <2>4. CASE idleList # <<>> /\ Last(idleList).key # key
      <3>1. PICK n \in Nat \ {0} : n = Len(idleList)
        BY <1>0, <2>4, IdleFacts
      <3>2. PICK l \in Nat : l = Len(w)
        BY <1>4, LenProperties
      <3>3. PICK e \in [1 .. l -> 1 .. n] : Embeds(idleList, D, w, n, l, e)
        BY <1>4, <3>1, <3>2 DEF Selects
      <3>4. /\ \A i, j \in 1 .. l : i < j => e[i] < e[j]
            /\ \A i \in 1 .. l : w[i] = idleList[e[i]] /\ e[i] \in 1 .. n
            /\ \A p \in 1 .. n : idleList[p] \notin D => \E i \in 1 .. l : e[i] = p
        BY <3>3 DEF Embeds
      <3>5. Last(idleList) = idleList[n] /\ idleList[n] \notin D
        BY <1>5, <2>4, <3>1 DEF Last
      <3>6. PICK i \in 1 .. l : e[i] = n
        BY <3>1, <3>4, <3>5
      <3>7. i = l
        <4>1. l \in 1 .. l /\ e[l] \in 1 .. n
          BY <3>4, <3>6
        <4>2. ~(i < l)
          BY <3>4, <3>6, <4>1
        <4> QED
          BY <4>2
      <3>8. w # <<>> /\ w[l] = idleList[n]
        BY <1>4, <3>2, <3>4, <3>6, <3>7, EmptySeq
      <3> QED
        BY <1>3, <2>1, <2>4, <3>1, <3>2, <3>8 DEF LastOf
    <2> QED
      BY <2>2, <2>3, <2>4
  <1>8. UnlinkedTo("cancelled", D)
    BY <1>0, <1>3, <1>4, <1>5, <1>6, <1>7, IdleFacts DEF UnlinkedTo
  <1>9. IdleListInv' /\ \A f \in IdlePass : NewByGeneration(f) => NewByGeneration(f)'
    BY <1>8, UnlinkKeepsIdle
  <1>10. PassesByGeneration'
    <2>1. \A k \in 1 .. Len(idlePasses) : idlePasses[k] \in IdlePass
      BY <1>0, IdlePassFacts
    <2> QED
      BY <1>3, <1>9, <2>1 DEF IdleIInv, PassesByGeneration
  <1>11. IdleTypeOK'
    <2>1. lastIdle' \in 0 .. MaxIdle
      <3>1. w # <<>> => w[Len(w)] \in IdleHandler
        BY <1>4, ElementOfSeq, EmptySeq, LenProperties
      <3> QED
        BY <1>7, <3>1, IdleAssumption DEF LastOf, IdleHandler, IdleIds
    <2>2. idleList' \in Seq([id : IdleIds, key : Keys, generation : Nat])
      BY <1>3, <1>4 DEF IdleHandler
    <2> QED
      BY <1>0, <1>3, <1>8, <2>1, <2>2 DEF IdleTypeOK, UnlinkedTo
  <1> QED
    BY <1>9, <1>10, <1>11 DEF IdleIInv

\* The first handler is taken off the list to be run.
LEMMA TakeFirstUnlinks ==
  ASSUME IdleIInv, idleList # <<>>, TakeFirst, registered' = registered,
         idleGeneration' \in Nat, idleGeneration' >= idleGeneration
  PROVE  /\ UnlinkedTo("run", {idleList[1]})
         /\ lastIdle' \in 0 .. MaxIdle /\ idleList[1].id \in 0 .. MaxIdle
  <1>0. IdleTypeOK /\ IdleListInv
    BY DEF IdleIInv
  <1>1. PICK n \in Nat \ {0} : n = Len(idleList)
    BY <1>0, IdleFacts
  <1>2. PICK w : w = Tail(idleList)
    OBVIOUS
  <1>3. /\ w \in Seq(IdleHandler) /\ Len(w) = n - 1
        /\ \A i \in 1 .. n - 1 : w[i] = idleList[i + 1]
    BY <1>0, <1>1, <1>2, IdleFacts, TailFacts
  <1>4. idleList' = w /\ lastIdle' = (IF n = 1 THEN 0 ELSE lastIdle)
    BY <1>1, <1>2 DEF TakeFirst, LastWhenTaken
  <1>5. PICK h \in IdleHandler : h = idleList[1]
    BY <1>0, <1>1, IdleFacts
  <1>6. h.id \in IdleIds /\ idleFate' = [idleFate EXCEPT ![h.id] = "run"]
    BY <1>5 DEF TakeFirst, IdleHandler
  <1>7. \A i \in 1 .. n : i # 1 => idleList[i].id # h.id
    <2> SUFFICES ASSUME NEW i \in 1 .. n, i # 1 PROVE idleList[i].id # h.id
      OBVIOUS
    <2>1. 1 < i /\ 1 \in 1 .. n
      OBVIOUS
    <2>2. idleList[1].id < idleList[i].id /\ idleList[1].id \in Nat /\ idleList[i].id \in Nat
      BY <1>0, <1>1, <2>1, IdleSet, IdleFacts
    <2> QED
      BY <1>5, <2>2
  <1>8. \A i \in 1 .. n : idleList[i] \in {h} <=> i = 1
    BY <1>5, <1>7
  <1>9. Selects(idleList, {h}, w, n)
    <2>1. PICK e : e = [i \in 1 .. n - 1 |-> i + 1]
      OBVIOUS
    <2>2. e \in [1 .. n - 1 -> 1 .. n]
      BY <2>1
    <2>3. \A i \in 1 .. n - 1 : e[i] = i + 1 /\ e[i] \in 1 .. n /\ e[i] # 1
      BY <2>1
    <2>4. \A i, j \in 1 .. n - 1 : i < j => e[i] < e[j]
      BY <2>3
    <2>5. \A i \in 1 .. n - 1 : w[i] = idleList[e[i]] /\ idleList[e[i]] \notin {h}
      <3> SUFFICES ASSUME NEW i \in 1 .. n - 1
                   PROVE  w[i] = idleList[e[i]] /\ idleList[e[i]] \notin {h}
        OBVIOUS
      <3>1. idleList[i + 1] \notin {h}
        BY <1>8
      <3> QED
        BY <1>3, <2>3, <3>1
    <2>6. \A p \in 1 .. n : idleList[p] \notin {h} => \E i \in 1 .. n - 1 : e[i] = p
      <3> SUFFICES ASSUME NEW p \in 1 .. n, idleList[p] \notin {h}
                   PROVE  \E i \in 1 .. n - 1 : e[i] = p
        OBVIOUS
      <3>1. p - 1 \in 1 .. n - 1
        BY <1>8
      <3>2. e[p - 1] = p
        BY <2>3, <3>1
      <3> QED
        BY <3>1, <3>2
    <2>7. Embeds(idleList, {h}, w, n, n - 1, e)
      BY <2>4, <2>5, <2>6 DEF Embeds
    <2> QED
      BY <1>3, <2>2, <2>7, SelectsBy
  <1>10. lastIdle' = LastOf(w) /\ lastIdle' \in 0 .. MaxIdle
    <2>1. lastIdle = LastOf(idleList)
      BY <1>0, IdleSet
    <2>2. CASE n = 1
      BY <1>3, <1>4, <2>2, EmptySeq, IdleAssumption DEF LastOf
    <2>3. CASE n # 1
      <3>1. w # <<>> /\ w[n - 1] = idleList[n]
        BY <1>3, <2>3, EmptySeq
      <3>2. LastOf(w) = idleList[n].id /\ LastOf(idleList) = idleList[n].id
        BY <1>1, <1>3, <3>1 DEF LastOf
      <3> QED
        BY <1>0, <1>4, <2>1, <2>3, <3>2 DEF IdleTypeOK
    <2> QED
      BY <2>2, <2>3
  <1>11. /\ idleFate' \in [IdleIds -> {"none", "set", "run", "cancelled"}]
         /\ \A id \in IdleIds : idleFate'[id] =
              IF \E p \in 1 .. n : idleList[p].id = id /\ idleList[p] \in {h}
              THEN "run" ELSE idleFate[id]
    <2>1. idleFate \in [IdleIds -> {"none", "set", "run", "cancelled"}]
      BY <1>0 DEF IdleTypeOK
    <2>2. \A id \in IdleIds : id = h.id <=>
              \E p \in 1 .. n : idleList[p].id = id /\ idleList[p] \in {h}
      BY <1>5, <1>8
    <2> QED
      BY <1>6, <2>1, <2>2
  <1>12. h.id \in 0 .. MaxIdle
    BY <1>6, IdleAssumption DEF IdleIds
  <1> QED
    BY <1>1, <1>3, <1>4, <1>5, <1>9, <1>10, <1>11, <1>12 DEF UnlinkedTo

LEMMA DoWhenIdleStep ==
  ASSUME IdleIInv, NEW key \in Keys, DoWhenIdle(key)
  PROVE  IdleIInv'
  <1>0. IdleTypeOK /\ IdleListInv
    BY DEF IdleIInv
  <1>1. PICK r : r = registered + 1
    OBVIOUS
  <1>2. r \in IdleIds /\ r \in Nat /\ registered \in Nat
    BY <1>0, <1>1, IdleFacts, IdleAssumption DEF DoWhenIdle, IdleIds
  <1>3. PICK h : h = [id |-> r, key |-> key, generation |-> idleGeneration]
    OBVIOUS
  <1>4. /\ h \in IdleHandler
        /\ h.id = r /\ h.generation = idleGeneration
    BY <1>0, <1>2, <1>3, IdleFacts DEF IdleHandler
  <1>5. PICK n \in Nat : n = Len(idleList)
    BY <1>0, IdleFacts
  <1>6. /\ \A i \in 1 .. n : /\ idleFate[idleList[i].id] = "set"
                             /\ idleList[i].id <= registered
                             /\ idleList[i].id \in IdleIds /\ idleList[i].id \in Nat
                             /\ idleList[i].generation \in Nat
        /\ \A id \in IdleIds : idleFate[id] = "set" =>
              \E i \in 1 .. n : idleList[i].id = id
        /\ \A i, j \in 1 .. n : i < j => idleList[i].id < idleList[j].id
        /\ lastIdle = LastOf(idleList)
    BY <1>0, <1>5, IdleSet, IdleFacts
  <1>7. PICK l : l = Append(idleList, h)
    OBVIOUS
  <1>8. idleList' = l
    <2>1. idleList' = Linked(h)
      BY <1>1, <1>3 DEF DoWhenIdle
    <2>2. CASE n = 0
      <3>1. idleList = <<>> /\ lastIdle = 0
        BY <1>0, <1>5, <1>6, <2>2, IdleFacts DEF LastOf
      <3>2. l = <<h>>
        BY <1>7, <3>1
      <3> QED
        BY <2>1, <3>1, <3>2 DEF Linked
    <2>3. CASE n # 0
      <3>1. /\ n \in 1 .. n /\ lastIdle = idleList[n].id
            /\ lastIdle \in IdleIds /\ lastIdle # 0
        BY <1>0, <1>5, <1>6, <2>3, IdleFacts DEF LastOf, IdleIds
      <3>2. \A p \in 1 .. n : idleList[p].id = lastIdle => p = n
        <4> SUFFICES ASSUME NEW p \in 1 .. n, idleList[p].id = lastIdle
                     PROVE  p = n
          OBVIOUS
        <4>1. ~(p < n)
          BY <1>6, <3>1
        <4> QED
          BY <4>1
      <3>3. PICK q : q = CHOOSE p \in 1 .. n : idleList[p].id = lastIdle
        OBVIOUS
      <3>4. q = n
        BY <3>1, <3>2, <3>3
      <3>5. Linked(h) = Append(SubSeq(idleList, 1, q), h)
        BY <1>5, <3>1, <3>3 DEF Linked
      <3>6. SubSeq(idleList, 1, n) = idleList
        <4>1. PICK t : t = SubSeq(idleList, 1, n)
          OBVIOUS
        <4>2. /\ t \in Seq(IdleHandler) /\ Len(t) = n
              /\ \A i \in 1 .. n : t[i] = idleList[i]
          BY <1>0, <1>5, <4>1, IdleFacts, SubSeqProperties
        <4>3. t = idleList
          BY <1>0, <1>5, <4>2, IdleFacts, SeqEqual
        <4> QED
          BY <4>1, <4>3
      <3> QED
        BY <1>7, <2>1, <3>4, <3>5, <3>6
    <2> QED
      BY <2>2, <2>3
  <1>9. /\ l \in Seq(IdleHandler) /\ Len(l) = n + 1 /\ l # <<>>
        /\ \A i \in 1 .. n : l[i] = idleList[i]
        /\ l[n + 1] = h
    <2>1. idleList \in Seq(IdleHandler)
      BY <1>0, IdleFacts
    <2>2. l \in Seq(IdleHandler) /\ Len(l) = Len(idleList) + 1 /\ l[Len(idleList) + 1] = h
      BY <1>4, <1>7, <2>1, PushFacts
    <2>3. l # <<>> /\ \A i \in 1 .. Len(idleList) : l[i] = idleList[i]
      BY <1>4, <1>7, <2>1, PushFacts
    <2> QED
      BY <1>5, <2>2, <2>3
  <1>10. /\ idleFate \in [IdleIds -> {"none", "set", "run", "cancelled"}]
         /\ idleFate' = [idleFate EXCEPT ![r] = "set"]
         /\ registered' = r /\ lastIdle' = r /\ registered < MaxIdle
         /\ UNCHANGED <<idleGeneration, idlePasses>>
    BY <1>0, <1>1 DEF DoWhenIdle, IdleTypeOK
  <1>11. \A i \in 1 .. n + 1 : i = n + 1 \/ i \in 1 .. n
    OBVIOUS
  <1>12. {l[i].id : i \in 1 .. n + 1} = {id \in IdleIds : idleFate'[id] = "set"}
    <2>1. ASSUME NEW i \in 1 .. n + 1
          PROVE  l[i].id \in IdleIds /\ idleFate'[l[i].id] = "set"
      <3>1. CASE i = n + 1
        BY <1>2, <1>4, <1>9, <1>10, <3>1
      <3>2. CASE i \in 1 .. n
        <4>1. idleList[i].id # r
          BY <1>1, <1>2, <1>6, <3>2
        <4> QED
          BY <1>6, <1>9, <1>10, <3>2, <4>1
      <3> QED
        BY <1>11, <3>1, <3>2
    <2>2. ASSUME NEW id \in IdleIds, idleFate'[id] = "set"
          PROVE  \E i \in 1 .. n + 1 : l[i].id = id
      <3>1. CASE id = r
        <4>1. n + 1 \in 1 .. n + 1
          OBVIOUS
        <4> QED
          BY <1>4, <1>9, <3>1, <4>1
      <3>2. CASE id # r
        <4>1. PICK i \in 1 .. n : idleList[i].id = id
          BY <1>6, <1>10, <2>2, <3>2
        <4>2. i \in 1 .. n + 1 /\ l[i].id = id
          BY <1>9, <4>1
        <4> QED
          BY <4>2
      <3> QED
        BY <3>1, <3>2
    <2> QED
      BY <2>1, <2>2
  <1>13. \A i, j \in 1 .. n + 1 : i < j => l[i].id < l[j].id
    <2> SUFFICES ASSUME NEW i \in 1 .. n + 1, NEW j \in 1 .. n + 1, i < j
                 PROVE  l[i].id < l[j].id
      OBVIOUS
    <2>1. i \in 1 .. n
      OBVIOUS
    <2>2. CASE j \in 1 .. n
      BY <1>6, <1>9, <2>1, <2>2
    <2>3. CASE j = n + 1
      BY <1>1, <1>2, <1>4, <1>6, <1>9, <2>1, <2>3
    <2> QED
      BY <1>11, <2>2, <2>3
  <1>14. IdleNoneLostNoneTwice'
    <2>1. lastIdle' = LastOf(l)
      BY <1>4, <1>9, <1>10 DEF LastOf
    <2> QED
      BY <1>8, <1>9, <1>12, <1>13, <2>1 DEF IdleNoneLostNoneTwice
  <1>15. IdleIdsGiven'
    <2>1. \A id \in IdleIds : id \in Nat
      BY IdleAssumption DEF IdleIds
    <2>2. ASSUME NEW id \in IdleIds PROVE id > r <=> idleFate'[id] = "none"
      <3>1. id > registered <=> idleFate[id] = "none"
        BY <1>0 DEF IdleListInv, IdleIdsGiven
      <3>2. id = r => idleFate'[id] = "set"
        BY <1>2, <1>10
      <3>3. id # r => idleFate'[id] = idleFate[id]
        BY <1>10
      <3> QED
        BY <1>1, <1>2, <2>1, <3>1, <3>2, <3>3
    <2> QED
      BY <1>10, <2>2 DEF IdleIdsGiven
  <1>16. GenerationsInOrder'
    <2>1. /\ \A i, j \in 1 .. n :
                i < j => idleList[i].generation <= idleList[j].generation
          /\ \A i \in 1 .. n : idleList[i].generation <= idleGeneration
          /\ idleGeneration \in Nat
      BY <1>0, <1>5, IdleFacts DEF IdleListInv, GenerationsInOrder
    <2>2. \A i \in 1 .. n + 1 : l[i].generation <= idleGeneration
      BY <1>4, <1>9, <1>11, <2>1
    <2>3. ASSUME NEW i \in 1 .. n + 1, NEW j \in 1 .. n + 1, i < j
          PROVE  l[i].generation <= l[j].generation
      <3>1. i \in 1 .. n
        BY <2>3
      <3>2. CASE j \in 1 .. n
        BY <1>9, <2>1, <2>3, <3>1, <3>2
      <3>3. CASE j = n + 1
        BY <1>4, <1>9, <2>1, <3>1, <3>3
      <3> QED
        BY <1>11, <3>2, <3>3
    <2> QED
      BY <1>8, <1>9, <1>10, <2>2, <2>3 DEF GenerationsInOrder
  <1>17. PassesByGeneration'
    <2>1. ASSUME NEW k \in 1 .. Len(idlePasses) PROVE NewByGeneration(idlePasses[k])'
      <3>1. PICK f \in IdlePass : f = idlePasses[k] /\ f.newest \in Nat /\ f.old \in Nat
        BY <1>0, IdlePassFacts
      <3>2. NewByGeneration(f)
        BY <3>1 DEF IdleIInv, PassesByGeneration
      <3>3. f.newest <= registered /\ f.newest < r
        BY <1>1, <1>2, <3>1, <3>2 DEF NewByGeneration
      <3>4. ASSUME f.fn = "ServiceIdle", NEW i \in 1 .. n + 1
            PROVE  l[i].id > f.newest <=> l[i].generation > f.old
        <4>1. CASE i \in 1 .. n
          BY <1>5, <1>9, <3>2, <3>4, <4>1 DEF NewByGeneration
        <4>2. CASE i = n + 1
          BY <1>4, <1>9, <3>2, <3>3, <3>4, <4>2 DEF NewByGeneration
        <4> QED
          BY <1>11, <4>1, <4>2
      <3>5. NewByGeneration(f)'
        <4>1. f.newest <= registered'
          BY <1>2, <1>10, <3>1, <3>3
        <4>2. f.fn = "ServiceIdle" => f.old < idleGeneration'
          BY <1>10, <3>2 DEF NewByGeneration
        <4> QED
          BY <1>8, <1>9, <3>4, <4>1, <4>2 DEF NewByGeneration
      <3> QED
        BY <1>10, <3>1, <3>5
    <2> QED
      BY <1>10, <2>1 DEF PassesByGeneration
  <1>18. IdleTypeOK'
    <2>1. idleList' \in Seq([id : IdleIds, key : Keys, generation : Nat])
      BY <1>8, <1>9 DEF IdleHandler
    <2>2. lastIdle' \in 0 .. MaxIdle /\ registered' \in 0 .. MaxIdle
      BY <1>2, <1>10, IdleAssumption DEF IdleIds
    <2>3. idleFate' \in [IdleIds -> {"none", "set", "run", "cancelled"}]
      BY <1>10
    <2> QED
      BY <1>0, <1>10, <2>1, <2>2, <2>3 DEF IdleTypeOK
  <1> QED
    BY <1>14, <1>15, <1>16, <1>17, <1>18 DEF IdleIInv, IdleListInv

-----------------------------------------------------------------------------
(***************************************************************************)
(* A step of a pass: what is on the stack of passes afterwards.            *)
(***************************************************************************)
LEMMA IdleFramesStep ==
  ASSUME IdleTypeOK, PassesByGeneration, NEW f \in IdlePass, NewByGeneration(f)',
         \A g \in IdlePass : NewByGeneration(g) => NewByGeneration(g)',
         \/ idlePasses' = Append(idlePasses, f)
         \/ idlePasses # <<>> /\ idlePasses' = [idlePasses EXCEPT ![Len(idlePasses)] = f]
         \/ idlePasses # <<>> /\ idlePasses' = Front(idlePasses)
  PROVE  idlePasses' \in Seq(IdlePass) /\ PassesByGeneration'
  <1>1. PICK m \in Nat : m = Len(idlePasses)
    BY IdlePassFacts
  <1>2. idlePasses \in Seq(IdlePass) /\ \A k \in 1 .. m : idlePasses[k] \in IdlePass
    BY <1>1, IdlePassFacts
  <1>3. /\ idlePasses' \in Seq(IdlePass)
        /\ \A k \in 1 .. Len(idlePasses') :
              \/ idlePasses'[k] = f
              \/ k \in 1 .. m /\ idlePasses'[k] = idlePasses[k]
    <2>1. CASE idlePasses' = Append(idlePasses, f)
      <3>1. /\ idlePasses' \in Seq(IdlePass) /\ Len(idlePasses') = m + 1
            /\ idlePasses'[m + 1] = f
        BY <1>1, <1>2, <2>1, PushFacts
      <3>2. \A k \in 1 .. m : idlePasses'[k] = idlePasses[k]
        BY <1>1, <1>2, <2>1, PushFacts
      <3>3. ASSUME NEW k \in 1 .. Len(idlePasses')
            PROVE  \/ idlePasses'[k] = f
                   \/ k \in 1 .. m /\ idlePasses'[k] = idlePasses[k]
        <4>1. k = m + 1 \/ k \in 1 .. m
          BY <3>1
        <4> QED
          BY <3>1, <3>2, <4>1
      <3> QED
        BY <3>1, <3>3
    <2>2. CASE idlePasses # <<>> /\ idlePasses' = [idlePasses EXCEPT ![Len(idlePasses)] = f]
      <3>1. /\ idlePasses' \in Seq(IdlePass) /\ Len(idlePasses') = m
            /\ idlePasses'[m] = f
        BY <1>1, <1>2, <2>2, TopFacts
      <3>2. \A k \in 1 .. m - 1 : idlePasses'[k] = idlePasses[k]
        BY <1>1, <1>2, <2>2, TopFacts
      <3>3. ASSUME NEW k \in 1 .. Len(idlePasses')
            PROVE  \/ idlePasses'[k] = f
                   \/ k \in 1 .. m /\ idlePasses'[k] = idlePasses[k]
        <4>1. k = m \/ k \in 1 .. m - 1
          BY <3>1
        <4> QED
          BY <3>1, <3>2, <4>1
      <3> QED
        BY <3>1, <3>3
    <2>3. CASE idlePasses # <<>> /\ idlePasses' = Front(idlePasses)
      <3>1. /\ idlePasses' \in Seq(IdlePass) /\ Len(idlePasses') = m - 1
            /\ \A k \in 1 .. m - 1 : idlePasses'[k] = idlePasses[k]
        BY <1>1, <1>2, <2>3, FrontFacts
      <3> QED
        BY <3>1
    <2> QED
      BY <2>1, <2>2, <2>3
  <1>4. ASSUME NEW k \in 1 .. Len(idlePasses')
        PROVE  \E g \in IdlePass : g = idlePasses'[k] /\ NewByGeneration(g)'
    <2>1. CASE idlePasses'[k] = f
      BY <2>1
    <2>2. CASE k \in 1 .. m /\ idlePasses'[k] = idlePasses[k]
      <3>1. PICK g \in IdlePass : g = idlePasses[k]
        BY <1>2, <2>2
      <3>2. NewByGeneration(g)
        BY <1>1, <2>2, <3>1 DEF PassesByGeneration
      <3> QED
        BY <2>2, <3>1, <3>2
    <2> QED
      BY <1>3, <2>1, <2>2
  <1> QED
    BY <1>3, <1>4 DEF PassesByGeneration

\* A frame on top of which only `running' changes.
LEMMA IdleRunningFrame ==
  ASSUME IdleIInv, InIdlePass, NEW x \in 0 .. MaxIdle
  PROVE  \E f \in IdlePass :
            /\ [idlePasses EXCEPT ![Len(idlePasses)].running = x] =
                  [idlePasses EXCEPT ![Len(idlePasses)] = f]
            /\ NewByGeneration(f)
  <1>1. /\ idlePass \in IdlePass /\ idlePass = idlePasses[Len(idlePasses)]
        /\ Len(idlePasses) \in 1 .. Len(idlePasses)
    BY IdlePassFacts DEF IdleIInv, InIdlePass
  <1>2. PICK f : f = [idlePass EXCEPT !.running = x]
    OBVIOUS
  <1>3. /\ f \in IdlePass /\ f.newest = idlePass.newest
        /\ f.fn = idlePass.fn /\ f.old = idlePass.old
    BY <1>1, <1>2 DEF IdlePass
  <1>4. NewByGeneration(idlePass)
    BY <1>1 DEF IdleIInv, PassesByGeneration
  <1>5. NewByGeneration(f)
    BY <1>3, <1>4 DEF NewByGeneration
  <1>6. [idlePasses EXCEPT ![Len(idlePasses)].running = x] =
            [idlePasses EXCEPT ![Len(idlePasses)] = f]
    BY <1>1, <1>2
  <1> QED
    BY <1>3, <1>5, <1>6

\* What a pass runs is taken off the list; the rest follows.
LEMMA RunIdle ==
  ASSUME IdleIInv, idleList # <<>>, TakeFirst, registered' = registered,
         idleGeneration' \in Nat, idleGeneration' >= idleGeneration,
         NEW f \in IdlePass, NewByGeneration(f)',
         \/ idlePasses' = Append(idlePasses, f)
         \/ idlePasses # <<>> /\ idlePasses' = [idlePasses EXCEPT ![Len(idlePasses)] = f]
  PROVE  IdleIInv'
  <1>1. /\ UnlinkedTo("run", {idleList[1]}) /\ lastIdle' \in 0 .. MaxIdle
    BY TakeFirstUnlinks
  <1>2. IdleListInv' /\ \A g \in IdlePass : NewByGeneration(g) => NewByGeneration(g)'
    BY <1>1, UnlinkKeepsIdle
  <1>3. idlePasses' \in Seq(IdlePass) /\ PassesByGeneration'
    BY <1>2, IdleFramesStep DEF IdleIInv
  <1>4. IdleTypeOK'
    BY <1>1, <1>3 DEF IdleIInv, IdleTypeOK, UnlinkedTo, IdlePass, IdleHandler
  <1> QED
    BY <1>2, <1>3, <1>4 DEF IdleIInv

LEMMA PassBeginsStep ==
  ASSUME IdleIInv, ServiceIdle \/ DoOneIdle
  PROVE  IdleIInv'
  <1>0. IdleTypeOK /\ IdleListInv
    BY DEF IdleIInv
  <1>1. /\ idleList # <<>> /\ TakeFirst /\ registered' = registered
        /\ idleGeneration \in Nat /\ registered \in 0 .. MaxIdle
    BY <1>0 DEF ServiceIdle, DoOneIdle, IdleTypeOK
  <1>2. /\ idleGeneration' \in Nat /\ idleGeneration' >= idleGeneration
        /\ ServiceIdle => idleGeneration' = idleGeneration + 1
    BY <1>1 DEF ServiceIdle, DoOneIdle, NextGeneration
  <1>3. UnlinkedTo("run", {idleList[1]}) /\ idleList[1].id \in 0 .. MaxIdle
    BY <1>1, <1>2, TakeFirstUnlinks
  <1>5. PICK fn : fn = IF ServiceIdle THEN "ServiceIdle" ELSE "DoOneIdle"
    OBVIOUS
  <1>6. PICK f : f = [fn |-> fn, old |-> idleGeneration, newest |-> registered,
                      running |-> idleList[1].id]
    OBVIOUS
  <1>7. f \in IdlePass /\ idlePasses' = Append(idlePasses, f)
    BY <1>1, <1>3, <1>5, <1>6 DEF IdlePass, ServiceIdle, DoOneIdle
  <1>8. f.newest = registered /\ f.old = idleGeneration /\ (f.fn = "ServiceIdle" => ServiceIdle)
    BY <1>5, <1>6
  <1>9. ASSUME NEW i \in 1 .. Len(idleList')
        PROVE  ~(idleList'[i].id > f.newest) /\ ~(idleList'[i].generation > f.old)
    <2>1. PICK p \in 1 .. Len(idleList) : idleList'[i] = idleList[p]
      BY <1>3 DEF UnlinkedTo, Selects, Embeds
    <2>2. /\ idleList[p].id <= registered /\ idleList[p].id \in Nat
          /\ idleList[p].generation \in Nat /\ registered \in Nat
      BY <1>0, IdleSet, IdleFacts
    <2>3. idleList[p].generation <= idleGeneration
      BY <1>0 DEF IdleListInv, GenerationsInOrder
    <2> QED
      BY <1>1, <1>8, <2>1, <2>2, <2>3
  <1>10. NewByGeneration(f)'
    <2>1. f.newest <= registered'
      BY <1>1, <1>8
    <2>2. f.fn = "ServiceIdle" => f.old < idleGeneration'
      BY <1>1, <1>2, <1>8
    <2> QED
      BY <1>9, <2>1, <2>2 DEF NewByGeneration
  <1> QED
    BY <1>1, <1>2, <1>7, <1>10, RunIdle

LEMMA NextHandlerStep ==
  ASSUME IdleIInv, NextHandler
  PROVE  IdleIInv'
  <1>1. /\ InIdlePass /\ idlePasses # <<>> /\ idleList # <<>> /\ TakeFirst
        /\ idleGeneration' = idleGeneration /\ registered' = registered
    BY DEF NextHandler, InIdlePass, MoreOld
  <1>2. idleGeneration' \in Nat /\ idleGeneration' >= idleGeneration
    BY <1>1, IdleFacts DEF IdleIInv
  <1>3. UnlinkedTo("run", {idleList[1]}) /\ idleList[1].id \in 0 .. MaxIdle
    BY <1>1, <1>2, TakeFirstUnlinks
  <1>4. PICK f \in IdlePass :
            /\ [idlePasses EXCEPT ![Len(idlePasses)].running = idleList[1].id] =
                  [idlePasses EXCEPT ![Len(idlePasses)] = f]
            /\ NewByGeneration(f)
    BY <1>1, <1>3, IdleRunningFrame
  <1>5. idlePasses' = [idlePasses EXCEPT ![Len(idlePasses)] = f]
    BY <1>4 DEF NextHandler
  <1>6. NewByGeneration(f)'
    BY <1>3, <1>4, UnlinkKeepsIdle
  <1> QED
    BY <1>1, <1>2, <1>5, <1>6, RunIdle

LEMMA IdleReturnStep ==
  ASSUME IdleIInv, IdleHandlerReturns \/ IdlePassEnds
  PROVE  IdleIInv'
  <1>1. /\ InIdlePass /\ idlePasses # <<>>
        /\ UNCHANGED <<idleList, lastIdle, idleGeneration, registered, idleFate>>
    BY DEF IdleHandlerReturns, IdlePassEnds, InIdlePass
  <1>2. \A g : NewByGeneration(g) => NewByGeneration(g)'
    BY <1>1 DEF NewByGeneration
  <1>3. 0 \in 0 .. MaxIdle
    BY IdleAssumption
  <1>4. PICK f \in IdlePass :
            /\ [idlePasses EXCEPT ![Len(idlePasses)].running = 0] =
                  [idlePasses EXCEPT ![Len(idlePasses)] = f]
            /\ NewByGeneration(f)
    BY <1>1, <1>3, IdleRunningFrame
  <1>5. \/ idlePasses' = [idlePasses EXCEPT ![Len(idlePasses)] = f]
        \/ idlePasses' = Front(idlePasses)
    BY <1>4 DEF IdleHandlerReturns, IdlePassEnds
  <1>6. idlePasses' \in Seq(IdlePass) /\ PassesByGeneration'
    BY <1>1, <1>2, <1>4, <1>5, IdleFramesStep DEF IdleIInv
  <1>7. IdleTypeOK'
    BY <1>1, <1>6 DEF IdleIInv, IdleTypeOK, IdlePass
  <1>8. IdleListInv'
    BY <1>1 DEF IdleIInv, IdleListInv, IdleNoneLostNoneTwice, IdleIdsGiven, GenerationsInOrder
  <1> QED
    BY <1>6, <1>7, <1>8 DEF IdleIInv

LEMMA IdleNextIInv == IdleIInv /\ [IdleNext]_idleVars => IdleIInv'
  <1> SUFFICES ASSUME IdleIInv, [IdleNext]_idleVars PROVE IdleIInv'
    OBVIOUS
  <1>1. ASSUME NEW key \in Keys, DoWhenIdle(key) \/ CancelIdleCall(key) PROVE IdleIInv'
    BY <1>1, DoWhenIdleStep, CancelIdleStep
  <1>2. CASE ServiceIdle \/ DoOneIdle
    BY <1>2, PassBeginsStep
  <1>3. CASE NextHandler
    BY <1>3, NextHandlerStep
  <1>4. CASE IdleHandlerReturns \/ IdlePassEnds
    BY <1>4, IdleReturnStep
  <1>5. CASE UNCHANGED idleVars
    <2>1. IdleTypeOK' /\ IdleListInv'
      BY <1>5 DEF idleVars, IdleIInv, IdleTypeOK, IdleListInv, IdleNoneLostNoneTwice,
                  IdleIdsGiven, GenerationsInOrder
    <2>2. PassesByGeneration'
      BY <1>5 DEF idleVars, IdleIInv, PassesByGeneration, NewByGeneration
    <2> QED
      BY <2>1, <2>2 DEF IdleIInv
  <1> QED
    BY <1>1, <1>2, <1>3, <1>4, <1>5 DEF IdleNext

LEMMA IdleIInvIsInvariant == IdleSpec => []IdleIInv
  BY IdleInitIInv, IdleNextIInv, PTL DEF IdleSpec

(***************************************************************************)
(* Every variable of the idle handlers keeps its type.                     *)
(***************************************************************************)
THEOREM IdleTypeCorrect == IdleSpec => []IdleTypeOK
  <1>1. IdleIInv => IdleTypeOK
    BY DEF IdleIInv
  <1> QED
    BY <1>1, IdleIInvIsInvariant, PTL

(***************************************************************************)
(* Tcl_DoWhenIdle, Tcl_CancelIdleCall and the passes: the list holds       *)
(* exactly the handlers that are to run, in order and once each, and       *)
(* lastIdlePtr is its end, whatever handlers do in nested passes.          *)
(***************************************************************************)
THEOREM IdleKept == IdleSpec => []IdleNoneLostNoneTwice
  <1>1. IdleIInv => IdleNoneLostNoneTwice
    BY DEF IdleIInv, IdleListInv
  <1> QED
    BY <1>1, IdleIInvIsInvariant, PTL

(***************************************************************************)
(* TclServiceIdle: a pass runs all the handlers that existed when it began *)
(* and none that was registered since, also when handlers of it nest       *)
(* further passes and advance the generation.                              *)
(***************************************************************************)
THEOREM IdlePassesComplete == IdleSpec => IdlePassComplete
  <1> DEFINE Ours == NextHandler => idleList[1].id <= idlePass.newest
             Done == IdlePassEnds /\ idlePass.fn = "ServiceIdle" =>
                        \A i \in 1 .. Len(idleList) : idleList[i].id > idlePass.newest
  <1>1. ASSUME IdleIInv, InIdlePass, idlePass.fn = "ServiceIdle"
        PROVE  /\ idlePass.newest \in Nat /\ idlePass.old \in Nat
               /\ \A i \in 1 .. Len(idleList) :
                     idleList[i].id > idlePass.newest <=> idleList[i].generation > idlePass.old
    <2>1. /\ Len(idlePasses) \in 1 .. Len(idlePasses)
          /\ idlePass = idlePasses[Len(idlePasses)]
          /\ idlePass.newest \in Nat /\ idlePass.old \in Nat
      BY <1>1, IdlePassFacts DEF IdleIInv, InIdlePass
    <2>2. NewByGeneration(idlePass)
      BY <1>1, <2>1 DEF IdleIInv, PassesByGeneration
    <2> QED
      BY <1>1, <2>1, <2>2 DEF NewByGeneration
  <1>2. IdleIInv => Ours
    <2> SUFFICES ASSUME IdleIInv, NextHandler PROVE idleList[1].id <= idlePass.newest
      OBVIOUS
    <2>1. /\ InIdlePass /\ idlePass.fn = "ServiceIdle"
          /\ idleList # <<>> /\ idleList[1].generation <= idlePass.old
      BY DEF NextHandler, MoreOld
    <2>2. /\ 1 \in 1 .. Len(idleList)
          /\ idleList[1].id \in Nat /\ idleList[1].generation \in Nat
      BY <2>1, IdleFacts DEF IdleIInv
    <2> QED
      BY <1>1, <2>1, <2>2
  <1>3. IdleIInv => Done
    <2> SUFFICES ASSUME IdleIInv, IdlePassEnds, idlePass.fn = "ServiceIdle",
                        NEW i \in 1 .. Len(idleList)
                 PROVE  idleList[i].id > idlePass.newest
      OBVIOUS
    <2>1. /\ 1 \in 1 .. Len(idleList) /\ idleList # <<>> /\ Len(idleList) \in Nat
          /\ idleList[1].generation \in Nat /\ idleList[i].generation \in Nat
      BY IdleFacts DEF IdleIInv
    <2>2. InIdlePass /\ idleList[1].generation > idlePass.old
      BY <1>1, <2>1 DEF IdlePassEnds, MoreOld
    <2>3. idleList[1].generation <= idleList[i].generation
      BY <2>1 DEF IdleIInv, IdleListInv, GenerationsInOrder
    <2> QED
      BY <1>1, <2>1, <2>2, <2>3
  <1>4. IdleIInv => [Ours]_idleVars /\ [Done]_idleVars
    BY <1>2, <1>3
  <1>5. IdleSpec => [][Ours]_idleVars /\ [][Done]_idleVars
    BY <1>4, IdleIInvIsInvariant, PTL
  <1> QED
    BY <1>5 DEF IdlePassComplete
=============================================================================

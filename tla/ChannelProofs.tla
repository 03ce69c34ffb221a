---------------------------- MODULE ChannelProofs ----------------------------
(***************************************************************************)
(* For any number of interpreters, any size of the buffers and any device: *)
(* no byte is lost, doubled or reordered on its way to the device but with *)
(* an error that is reported; no operation leaves a full buffer; and the   *)
(* notifier watches the device while a background flush is scheduled.      *)
(***************************************************************************)
EXTENDS Channel, SeqLemmas, FiniteSetTheorems

(***************************************************************************)
(* What every step of an operation preserves, said of the channel c when   *)
(* bytes 1 .. m - 1 have been written, and the inductive invariant.        *)
(***************************************************************************)
All(c) == c.got \o Buffered(c)
InOrderUpTo(s, lost, m) ==
    /\ lost \subseteq 1 .. m - 1
    /\ Increasing(s)
    /\ \A x : x \in ToSet(s) <=> x \in 1 .. m - 1 /\ x \notin lost
Faithful(c, m) == InOrderUpTo(All(c), c.lost, m)
EventsOK(c) == c.events = IF c.eventQueued = TRUE THEN 1 ELSE 0
Watched(c) == c.open = TRUE /\ Has(c, "BG_FLUSH") => c.watch = TRUE
OK(c, m) == c \in ChannelState /\ EventsOK(c) /\ Watched(c) /\ Faithful(c, m)

Answered(c) ==
    c.owed # {} =>
        c.unreported = TRUE \/ c.detached = TRUE \/ Has(c, "CLOSEDWRITE")

ChanInv ==
    /\ OK(chan, next) /\ Answered(chan)
    /\ Len(chan.curOut) < BufSize
    /\ next \in 1 .. MaxBytes + 1
FramesOK(fs, hs) ==
    /\ fs \in Seq(SUBSET Interps) /\ Len(fs) <= MaxDepth
    /\ \A f \in 1 .. Len(fs) : fs[f] \subseteq hs
WorldInv ==
    /\ registered \subseteq alive /\ alive \subseteq Interps
    /\ handlers \subseteq registered /\ FramesOK(frames, handlers)
    /\ chan.refCount = Cardinality(registered)
    /\ chan.interest = TRUE <=> handlers # {}
    /\ chan.open = FALSE => registered = {}
IInv == ChanInv /\ WorldInv

USE BufSizeAssumption, BoundsAssumption

-----------------------------------------------------------------------------
(***************************************************************************)
(* Bytes in order.                                                         *)
(***************************************************************************)
LEMMA AppendRun ==
  ASSUME NEW m \in Nat \ {0}, NEW k \in Nat, NEW lost, NEW s \in Seq(Bytes),
         NEW t \in Seq(Bytes), NEW u, u = s \o t,
         InOrderUpTo(s, lost, m),
         Len(t) = k, \A j \in 1 .. k : t[j] = m + j - 1
  PROVE  InOrderUpTo(u, lost, m + k)
  <1>1. /\ Len(s) \in Nat /\ u \in Seq(Bytes) /\ Len(u) = Len(s) + k
        /\ \A i \in 1 .. Len(s) + k : u[i] = IF i <= Len(s) THEN s[i] ELSE t[i - Len(s)]
    BY ConcatFacts, LenProperties
  <1>2. \A x : x \in ToSet(s) <=> \E i \in 1 .. Len(s) : s[i] = x
    BY ToSetFacts
  <1>3. \A x : x \in ToSet(u) <=> \E i \in 1 .. Len(s) + k : u[i] = x
    <2>1. u \in Seq(Bytes)
      BY <1>1
    <2>2. \A x : x \in ToSet(u) <=> \E i \in 1 .. Len(u) : u[i] = x
      BY <2>1, ToSetFacts
    <2> QED
      BY <1>1, <2>2
  <1>4. \A i \in 1 .. Len(s) : s[i] \in 1 .. m - 1
    BY <1>2 DEF InOrderUpTo
  <1>5. lost \subseteq 1 .. (m + k) - 1
    BY DEF InOrderUpTo
  <1>6. \A i \in 1 .. Len(s) + k : i > Len(s) => u[i] = m + (i - Len(s)) - 1
    <2> SUFFICES ASSUME NEW i \in 1 .. Len(s) + k, i > Len(s)
                 PROVE  u[i] = m + (i - Len(s)) - 1
      OBVIOUS
    <2>1. i - Len(s) \in 1 .. k
      BY <1>1
    <2> QED
      BY <1>1, <2>1
  <1>7. \A i \in 1 .. Len(s) + k : i <= Len(s) => u[i] = s[i] /\ i \in 1 .. Len(s)
    BY <1>1
  <1>8. Increasing(u)
    <2> SUFFICES ASSUME NEW i \in 1 .. Len(s) + k, NEW j \in 1 .. Len(s) + k, i < j
                 PROVE  u[i] < u[j]
      BY <1>1 DEF Increasing
    <2>1. CASE j <= Len(s)
      <3>1. i <= Len(s)
        BY <1>1, <2>1
      <3> QED
        BY <1>7, <2>1, <3>1 DEF InOrderUpTo, Increasing
    <2>2. CASE i > Len(s)
      <3>1. j > Len(s)
        BY <1>1, <2>2
      <3> QED
        BY <1>1, <1>6, <2>2, <3>1
    <2>3. CASE i <= Len(s) /\ j > Len(s)
      <3>1. u[i] \in 1 .. m - 1
        BY <1>4, <1>7, <2>3
      <3>2. u[j] = m + (j - Len(s)) - 1
        BY <1>6, <2>3
      <3> QED
        BY <1>1, <2>3, <3>1, <3>2
    <2> QED
      BY <1>1, <2>1, <2>2, <2>3
  <1>9. ASSUME NEW x
        PROVE  x \in ToSet(u) <=> x \in 1 .. (m + k) - 1 /\ x \notin lost
    <2>1. ASSUME x \in ToSet(u) PROVE x \in 1 .. (m + k) - 1 /\ x \notin lost
      <3>1. PICK i \in 1 .. Len(s) + k : u[i] = x
        BY <1>3, <2>1
      <3>2. CASE i <= Len(s)
        <4>1. x \in ToSet(s)
          BY <1>2, <1>7, <3>1, <3>2
        <4>2. x \in 1 .. m - 1 /\ x \notin lost
          BY <4>1 DEF InOrderUpTo
        <4> QED
          BY <4>2
      <3>3. CASE i > Len(s)
        <4>1. x = m + (i - Len(s)) - 1
          BY <1>6, <3>1, <3>3
        <4>2. x \in 1 .. (m + k) - 1 /\ x \notin 1 .. m - 1
          BY <1>1, <3>3, <4>1
        <4> QED
          BY <4>2 DEF InOrderUpTo
      <3> QED
        BY <1>1, <3>2, <3>3
    <2>2. ASSUME x \in 1 .. (m + k) - 1, x \notin lost PROVE x \in ToSet(u)
      <3>1. CASE x \in 1 .. m - 1
        <4>1. PICK i \in 1 .. Len(s) : s[i] = x
          BY <1>2, <2>2, <3>1 DEF InOrderUpTo
        <4>2. i \in 1 .. Len(s) + k /\ u[i] = x
          BY <1>1, <4>1
        <4> QED
          BY <1>3, <4>2
      <3>2. CASE x \notin 1 .. m - 1
        <4>1. Len(s) + (x - m + 1) \in 1 .. Len(s) + k
          BY <1>1, <2>2, <3>2
        <4>2. u[Len(s) + (x - m + 1)] = m + ((Len(s) + (x - m + 1)) - Len(s)) - 1
          BY <1>1, <1>6, <2>2, <3>2, <4>1
        <4>3. m + ((Len(s) + (x - m + 1)) - Len(s)) - 1 = x
          BY <1>1, <2>2
        <4> QED
          BY <1>3, <4>1, <4>2, <4>3
      <3> QED
        BY <3>1, <3>2
    <2> QED
      BY <2>1, <2>2
  <1> QED
    BY <1>5, <1>8, <1>9 DEF InOrderUpTo

LEMMA CutRun ==
  ASSUME NEW m \in Nat \ {0}, NEW lost, NEW s, NEW g \in Seq(Bytes),
         NEW b \in Seq(Bytes), s = g \o b, InOrderUpTo(s, lost, m)
  PROVE  InOrderUpTo(g, lost \union ToSet(b), m)
  <1>1. /\ Len(g) \in Nat /\ Len(b) \in Nat /\ s \in Seq(Bytes) /\ Len(s) = Len(g) + Len(b)
        /\ \A i \in 1 .. Len(g) + Len(b) : s[i] = IF i <= Len(g) THEN g[i] ELSE b[i - Len(g)]
    BY ConcatFacts, LenProperties
  <1>2. /\ \A x : x \in ToSet(s) <=> \E i \in 1 .. Len(g) + Len(b) : s[i] = x
        /\ \A x : x \in ToSet(g) <=> \E i \in 1 .. Len(g) : g[i] = x
        /\ \A x : x \in ToSet(b) <=> \E i \in 1 .. Len(b) : b[i] = x
    <2>1. \A x : x \in ToSet(s) <=> \E i \in 1 .. Len(s) : s[i] = x
      BY <1>1, ToSetFacts
    <2>2. \A x : x \in ToSet(g) <=> \E i \in 1 .. Len(g) : g[i] = x
      BY ToSetFacts
    <2>3. \A x : x \in ToSet(b) <=> \E i \in 1 .. Len(b) : b[i] = x
      BY ToSetFacts
    <2>4. 1 .. Len(s) = 1 .. Len(g) + Len(b)
      BY <1>1
    <2> QED
      BY ONLY <2>1, <2>2, <2>3, <2>4
  <1>3. \A i \in 1 .. Len(g) : i \in 1 .. Len(g) + Len(b) /\ s[i] = g[i]
    BY <1>1
  <1>4. \A i \in 1 .. Len(b) :
           Len(g) + i \in 1 .. Len(g) + Len(b) /\ s[Len(g) + i] = b[i] /\ Len(g) + i > Len(g)
    <2> SUFFICES ASSUME NEW i \in 1 .. Len(b)
                 PROVE  /\ Len(g) + i \in 1 .. Len(g) + Len(b)
                        /\ s[Len(g) + i] = b[i] /\ Len(g) + i > Len(g)
      OBVIOUS
    <2>1. Len(g) + i \in 1 .. Len(g) + Len(b) /\ Len(g) + i > Len(g) /\ (Len(g) + i) - Len(g) = i
      BY <1>1
    <2> QED
      BY <1>1, <2>1
  <1>5. \A i \in 1 .. Len(g) + Len(b) :
           i \in 1 .. Len(g) \/ \E j \in 1 .. Len(b) : s[i] = b[j]
    <2> SUFFICES ASSUME NEW i \in 1 .. Len(g) + Len(b), i \notin 1 .. Len(g)
                 PROVE  \E j \in 1 .. Len(b) : s[i] = b[j]
      OBVIOUS
    <2>1. i - Len(g) \in 1 .. Len(b) /\ ~(i <= Len(g))
      BY <1>1
    <2> QED
      BY <1>1, <2>1
  <1>6. Increasing(g)
    BY <1>1, <1>3 DEF InOrderUpTo, Increasing
  <1>7. lost \union ToSet(b) \subseteq 1 .. m - 1
    <2>1. \A x \in ToSet(b) : x \in ToSet(s)
      BY <1>2, <1>4
    <2> QED
      BY <2>1 DEF InOrderUpTo
  <1>8. ASSUME NEW x
        PROVE  x \in ToSet(g) <=> x \in 1 .. m - 1 /\ x \notin lost \union ToSet(b)
    <2>1. ASSUME x \in ToSet(g) PROVE x \in 1 .. m - 1 /\ x \notin lost \union ToSet(b)
      <3>1. PICK i \in 1 .. Len(g) : g[i] = x
        BY <1>2, <2>1
      <3>2. x \in ToSet(s) /\ s[i] = x /\ i \in 1 .. Len(g) + Len(b)
        BY <1>2, <1>3, <3>1
      <3>3. x \in 1 .. m - 1 /\ x \notin lost
        BY <3>2 DEF InOrderUpTo
      <3>4. x \notin ToSet(b)
        <4> SUFFICES ASSUME NEW j \in 1 .. Len(b), b[j] = x PROVE FALSE
          BY <1>2
        <4>1. s[Len(g) + j] = x /\ Len(g) + j \in 1 .. Len(g) + Len(b)
          BY <1>4
        <4>2. i < Len(g) + j
          BY <1>1
        <4>3. s[i] < s[Len(g) + j]
          BY <1>1, <3>2, <4>1, <4>2 DEF InOrderUpTo, Increasing
        <4> QED
          BY <3>2, <3>3, <4>1, <4>3
      <3> QED
        BY <3>3, <3>4
    <2>2. ASSUME x \in 1 .. m - 1, x \notin lost \union ToSet(b) PROVE x \in ToSet(g)
      <3>1. PICK i \in 1 .. Len(g) + Len(b) : s[i] = x
        BY <1>2, <2>2 DEF InOrderUpTo
      <3>2. i \in 1 .. Len(g)
        BY <1>2, <1>5, <2>2, <3>1
      <3> QED
        BY <1>2, <1>3, <3>1, <3>2
    <2> QED
      BY <2>1, <2>2
  <1> QED
    BY <1>6, <1>7, <1>8 DEF InOrderUpTo

Associates(a, b, c) == (a \o b) \o c = a \o (b \o c)
LEMMA Associativity ==
  ASSUME NEW a \in Seq(Bytes), NEW b \in Seq(Bytes), NEW c \in Seq(Bytes)
  PROVE  Associates(a, b, c)
  BY ConcatAssociative DEF Associates

\* Moving bytes from one buffer to the next leaves the whole as it is.
Moved(g, q, u, k) ==
    /\ SubSeq(q, 1, k) \in Seq(Bytes) /\ SubSeq(q, k + 1, Len(q)) \in Seq(Bytes)
    /\ (g \o SubSeq(q, 1, k)) \o (SubSeq(q, k + 1, Len(q)) \o u) = g \o (q \o u)

LEMMA MovedBytes ==
  ASSUME NEW g \in Seq(Bytes), NEW q \in Seq(Bytes), NEW u \in Seq(Bytes),
         NEW k \in 0 .. Len(q)
  PROVE  Moved(g, q, u, k)
  <1>1. Len(q) \in Nat /\ \A i \in 1 .. Len(q) : q[i] \in Bytes
    BY LenProperties, ElementOfSeq
  <1> DEFINE a == SubSeq(q, 1, k)
             b == SubSeq(q, k + 1, Len(q))
  <1>2. a \in Seq(Bytes)
    <2>1. \A i \in 1 .. k : q[i] \in Bytes
      BY <1>1
    <2> QED
      BY <1>1, <2>1, SubSeqProperties
  <1>3. b \in Seq(Bytes)
    <2>1. \A i \in k + 1 .. Len(q) : q[i] \in Bytes
      BY <1>1
    <2> QED
      BY <1>1, <2>1, SubSeqProperties
  <1>4. a \o b = q
    <2>1. /\ 1 \in 1 .. Len(q) + 1 /\ k \in 1 - 1 .. Len(q) /\ Len(q) \in k .. Len(q)
      BY <1>1
    <2>2. a \o b = SubSeq(q, 1, Len(q))
      BY <2>1, ConcatAdjacentSubSeq
    <2> QED
      BY <2>2, SubSeqFull
  <1> HIDE DEF a, b
  <1>5. b \o u \in Seq(Bytes)
    BY <1>3, ConcatProperties
  <1>6. (g \o a) \o (b \o u) = g \o (a \o (b \o u))
    <2> DEFINE w == b \o u
    <2>1. w \in Seq(Bytes)
      BY <1>5
    <2> HIDE DEF w
    <2>2. Associates(g, a, w)
      BY <1>2, <2>1, Associativity
    <2> QED
      BY <2>2 DEF w, Associates
  <1>7. a \o (b \o u) = q \o u
    <2>1. Associates(a, b, u)
      BY <1>2, <1>3, Associativity
    <2> QED
      BY <1>4, <2>1 DEF Associates
  <1> QED
    BY <1>2, <1>3, <1>6, <1>7 DEF a, b, Moved

-----------------------------------------------------------------------------
(***************************************************************************)
(* The steps inside an operation, one function of the record at a time.    *)
(***************************************************************************)
LEMMA FieldFacts ==
  ASSUME NEW c \in ChannelState
  PROVE  /\ c.flags \in SUBSET Flags /\ c.curOut \in Seq(Bytes)
         /\ c.outQueue \in Seq(Bytes) /\ c.unreported \in BOOLEAN
         /\ c.refCount \in Nat /\ c.interest \in BOOLEAN /\ c.watch \in BOOLEAN
         /\ c.eventQueued \in BOOLEAN /\ c.events \in Nat /\ c.open \in BOOLEAN
         /\ c.device \in {"ready", "full", "broken"} /\ c.code \in {"ok", "error"}
         /\ c.got \in Seq(Bytes) /\ c.owed \in SUBSET Bytes /\ c.lost \in SUBSET Bytes
         /\ c.detached \in BOOLEAN
  BY DEF ChannelState

\* What no step inside an operation changes.
Kept(c, r) ==
    /\ r.interest = c.interest /\ r.refCount = c.refCount /\ r.detached = c.detached
    /\ Has(r, "CLOSED") <=> Has(c, "CLOSED")
    /\ Has(r, "CLOSEDWRITE") <=> Has(c, "CLOSEDWRITE")
SameReport(c, r) == r.unreported = c.unreported /\ r.owed = c.owed /\ r.code = c.code
SameBytes(c, r) ==
    /\ r.got = c.got /\ r.outQueue = c.outQueue
    /\ r.curOut = c.curOut /\ r.lost = c.lost

LEMMA SameBytesFaithful ==
  ASSUME NEW c, NEW r, NEW m, Faithful(c, m), SameBytes(c, r)
  PROVE  Faithful(r, m)
  BY DEF Faithful, SameBytes, All, Buffered

LEMMA BufferedType ==
  ASSUME NEW c \in ChannelState
  PROVE  /\ Buffered(c) \in Seq(Bytes) /\ All(c) \in Seq(Bytes)
         /\ Buffered(c) = <<>> => c.curOut = <<>> /\ c.outQueue = <<>>
  <1>1. c.got \in Seq(Bytes) /\ c.outQueue \in Seq(Bytes) /\ c.curOut \in Seq(Bytes)
    BY FieldFacts
  <1>2. Buffered(c) \in Seq(Bytes)
    BY <1>1, ConcatProperties DEF Buffered
  <1>3. All(c) \in Seq(Bytes)
    BY <1>1, <1>2, ConcatProperties DEF All
  <1>4. Buffered(c) = <<>> => c.curOut = <<>> /\ c.outQueue = <<>>
    BY <1>1, ConcatEqualIffEmpty DEF Buffered
  <1> QED
    BY <1>2, <1>3, <1>4

\* UpdateInterest sets the mask that is watched and may queue the one event.
LEMMA UpdateInterestFacts ==
  ASSUME NEW c \in ChannelState, EventsOK(c), c.open = FALSE => Watched(c), NEW r,
         r = UpdateInterest(c)
  PROVE  /\ r \in ChannelState /\ EventsOK(r) /\ Watched(r)
         /\ SameBytes(c, r) /\ SameReport(c, r) /\ Kept(c, r)
         /\ r.open = c.open /\ r.flags = c.flags /\ r.device = c.device
  <1> DEFINE mask == c.interest \/ Has(c, "BG_FLUSH")
             q == [c EXCEPT !.events = @ + 1, !.eventQueued = TRUE]
  <1>1. mask \in BOOLEAN /\ (Has(c, "BG_FLUSH") => mask = TRUE)
    BY FieldFacts
  <1>2. q \in ChannelState
    <2>1. c.events + 1 \in Nat
      BY FieldFacts
    <2> QED
      BY <2>1 DEF ChannelState
  <1>3. PICK d : d = IF ~c.eventQueued /\ mask /\ WantsMore(c) THEN q ELSE c
    OBVIOUS
  <1>4. /\ d \in ChannelState /\ EventsOK(d) /\ SameBytes(c, d) /\ SameReport(c, d)
        /\ Kept(c, d) /\ d.open = c.open /\ d.flags = c.flags /\ d.device = c.device
    <2>1. CASE ~c.eventQueued /\ mask /\ WantsMore(c)
      <3>1. c.eventQueued = FALSE
        BY <2>1, FieldFacts
      <3>2. c.events = 0
        BY <3>1 DEF EventsOK
      <3>3. d = q
        BY <1>3, <2>1
      <3>4. EventsOK(d)
        BY <3>2, <3>3, <1>2 DEF EventsOK, ChannelState
      <3> QED
        BY <1>2, <3>3, <3>4 DEF SameBytes, SameReport, Kept, Has, ChannelState
    <2>2. CASE ~(~c.eventQueued /\ mask /\ WantsMore(c))
      BY <1>3, <2>2 DEF SameBytes, SameReport, Kept
    <2> QED
      BY <2>1, <2>2
  <1>5. r = IF c.open THEN [d EXCEPT !.watch = mask] ELSE c
    BY <1>3 DEF UpdateInterest, QueueChannelEvent
  <1> HIDE DEF mask, q
  <1>6. CASE c.open = TRUE
    <2>1. r = [d EXCEPT !.watch = mask]
      BY <1>5, <1>6
    <2>2. r \in ChannelState /\ r.watch = mask
      BY <1>1, <1>4, <2>1 DEF ChannelState
    <2>3. /\ r.events = d.events /\ r.eventQueued = d.eventQueued
          /\ r.got = d.got /\ r.outQueue = d.outQueue /\ r.curOut = d.curOut
          /\ r.lost = d.lost /\ r.unreported = d.unreported /\ r.owed = d.owed
          /\ r.code = d.code /\ r.interest = d.interest /\ r.refCount = d.refCount
          /\ r.detached = d.detached /\ r.open = d.open /\ r.flags = d.flags
          /\ r.device = d.device
      BY <1>4, <2>1 DEF ChannelState
    <2> QED
      BY <1>1, <1>4, <2>2, <2>3
         DEF EventsOK, Watched, SameBytes, SameReport, Kept, Has
  <1>7. CASE c.open = FALSE
    BY <1>5, <1>7 DEF SameBytes, SameReport, Kept
  <1> QED
    BY <1>6, <1>7, FieldFacts

\* The buffer that is shifted leaves no full one behind.
LEMMA ShiftedFacts ==
  ASSUME NEW c, NEW m, OK(c, m), Len(c.curOut) <= BufSize, NEW r, r = Shifted(c)
  PROVE  /\ OK(r, m) /\ Len(r.curOut) < BufSize
         /\ IsBufferFull(c.curOut) => r.curOut = <<>>
         /\ SameReport(c, r) /\ Kept(c, r) /\ r.open = c.open /\ r.flags = c.flags
  <1>1. /\ c \in ChannelState /\ c.outQueue \in Seq(Bytes) /\ c.curOut \in Seq(Bytes)
        /\ c.got \in Seq(Bytes) /\ Len(c.curOut) \in Nat
    BY FieldFacts, LenProperties DEF OK
  <1>2. CASE \/ c.outQueue = <<>> \/ IsBufferFull(c.curOut) \/ ~Has(c, "NONBLOCKING")
    <2> DEFINE q == c.outQueue \o c.curOut
    <2>1. r = [c EXCEPT !.outQueue = q, !.curOut = <<>>]
      BY <1>2 DEF Shifted
    <2>2. q \in Seq(Bytes) /\ <<>> \in Seq(Bytes) /\ Len(<<>>) = 0
      BY <1>1, ConcatProperties, EmptySeq
    <2>3. q \o <<>> = q
      BY <2>2, ConcatEmptySeq
    <2>4. Buffered(c) = q
      BY DEF Buffered
    <2> HIDE DEF q
    <2>5. /\ r \in ChannelState /\ r.got = c.got /\ r.lost = c.lost
          /\ r.outQueue = q /\ r.curOut = <<>>
          /\ r.events = c.events /\ r.eventQueued = c.eventQueued
          /\ r.open = c.open /\ r.watch = c.watch /\ r.flags = c.flags
      BY <1>1, <2>1, <2>2 DEF ChannelState
    <2>6. All(r) = All(c)
      BY <2>3, <2>4, <2>5 DEF All, Buffered
    <2>7. OK(r, m)
      BY <2>5, <2>6 DEF OK, EventsOK, Watched, Has, Faithful
    <2>8. SameReport(c, r) /\ Kept(c, r)
      BY <1>1, <2>1 DEF SameReport, Kept, Has, ChannelState
    <2> QED
      BY <2>2, <2>5, <2>7, <2>8
  <1>3. CASE ~(\/ c.outQueue = <<>> \/ IsBufferFull(c.curOut) \/ ~Has(c, "NONBLOCKING"))
    <2>1. r = c
      BY <1>3 DEF Shifted
    <2>2. Len(c.curOut) # BufSize
      BY <1>3 DEF IsBufferFull
    <2> QED
      BY <1>1, <1>3, <2>1, <2>2 DEF SameReport, Kept
  <1> QED
    BY <1>2, <1>3

LEMMA WrittenFacts ==
  ASSUME NEW c, NEW m, OK(c, m), NEW k \in 0 .. Len(c.outQueue), NEW r, r = Written(c, k)
  PROVE  /\ OK(r, m) /\ r.curOut = c.curOut
         /\ SameReport(c, r) /\ Kept(c, r) /\ r.open = c.open /\ r.flags = c.flags
  <1>1. /\ c \in ChannelState /\ c.outQueue \in Seq(Bytes) /\ c.curOut \in Seq(Bytes)
        /\ c.got \in Seq(Bytes)
    BY FieldFacts DEF OK
  <1> DEFINE a == SubSeq(c.outQueue, 1, k)
             b == SubSeq(c.outQueue, k + 1, Len(c.outQueue))
             g == c.got \o a
  <1>2. /\ a \in Seq(Bytes) /\ b \in Seq(Bytes)
        /\ g \o (b \o c.curOut) = c.got \o (c.outQueue \o c.curOut)
    <2> DEFINE x == c.got
               y == c.outQueue
               z == c.curOut
    <2>1. x \in Seq(Bytes) /\ y \in Seq(Bytes) /\ z \in Seq(Bytes) /\ k \in 0 .. Len(y)
      BY <1>1
    <2> HIDE DEF x, y, z
    <2>2. Moved(x, y, z, k)
      BY <2>1, MovedBytes
    <2> QED
      BY <2>2, Zenon DEF x, y, z, Moved
  <1>3. g \in Seq(Bytes)
    BY <1>1, <1>2, ConcatProperties
  <1>4. r = [c EXCEPT !.got = g, !.outQueue = b]
    BY DEF Written
  <1> HIDE DEF a, b, g
  <1>5. /\ r \in ChannelState /\ r.got = g /\ r.lost = c.lost
        /\ r.outQueue = b /\ r.curOut = c.curOut
        /\ r.events = c.events /\ r.eventQueued = c.eventQueued
        /\ r.open = c.open /\ r.watch = c.watch /\ r.flags = c.flags
    BY <1>1, <1>2, <1>3, <1>4 DEF ChannelState
  <1>6. All(r) = All(c)
    BY <1>2, <1>5 DEF All, Buffered
  <1>7. OK(r, m)
    BY <1>5, <1>6 DEF OK, EventsOK, Watched, Has, Faithful
  <1>8. SameReport(c, r) /\ Kept(c, r)
    BY <1>1, <1>4 DEF SameReport, Kept, Has, ChannelState
  <1> QED
    BY <1>5, <1>7, <1>8

\* The notifier watches for the rest, and the mode says so.
LEMMA ScheduledFacts ==
  ASSUME NEW c, NEW m, OK(c, m), NEW r, r = Scheduled(c)
  PROVE  /\ OK(r, m) /\ r.curOut = c.curOut
         /\ SameReport(c, r) /\ Kept(c, r) /\ r.open = c.open
  <1> DEFINE full == [c EXCEPT !.device = "full"]
             set == SetFlag(full, "BG_FLUSH")
  <1>1. c \in ChannelState /\ c.flags \in SUBSET Flags
    BY FieldFacts DEF OK
  <1>2. /\ full \in ChannelState /\ SameBytes(c, full) /\ SameReport(c, full)
        /\ Kept(c, full) /\ full.open = c.open /\ full.flags = c.flags
        /\ full.events = c.events /\ full.eventQueued = c.eventQueued
        /\ full.watch = c.watch
    BY <1>1 DEF ChannelState, SameBytes, SameReport, Kept, Has
  <1>3. CASE Has(c, "BG_FLUSH")
    <2>1. r = full
      BY <1>3 DEF Scheduled
    <2> HIDE DEF full
    <2>2. Faithful(r, m)
      BY <1>2, <2>1, SameBytesFaithful DEF OK
    <2> QED
      BY <1>2, <2>1, <2>2 DEF OK, EventsOK, Watched, Has, SameBytes
  <1>4. CASE ~Has(c, "BG_FLUSH")
    <2>1. r = UpdateInterest(set)
      BY <1>4 DEF Scheduled
    <2>2. set = [full EXCEPT !.flags = full.flags \union {"BG_FLUSH"}]
      BY DEF SetFlag
    <2> HIDE DEF full
    <2>3. full.flags \union {"BG_FLUSH"} \in SUBSET Flags
      BY <1>1, <1>2 DEF Flags
    <2>4. /\ set \in ChannelState /\ SameBytes(full, set) /\ SameReport(full, set)
          /\ set.open = full.open /\ set.flags = full.flags \union {"BG_FLUSH"}
          /\ set.events = full.events /\ set.eventQueued = full.eventQueued
          /\ set.interest = full.interest /\ set.refCount = full.refCount
          /\ set.detached = full.detached
      BY <1>2, <2>2, <2>3 DEF ChannelState, SameBytes, SameReport
    <2> HIDE DEF set
    <2>5. Kept(full, set)
      BY <2>4 DEF Kept, Has
    <2>6. EventsOK(set) /\ (set.open = FALSE => Watched(set))
      BY <1>2, <2>4 DEF OK, EventsOK, Watched
    <2>7. /\ r \in ChannelState /\ EventsOK(r) /\ Watched(r)
          /\ SameBytes(set, r) /\ SameReport(set, r) /\ Kept(set, r) /\ r.open = set.open
      BY <2>1, <2>4, <2>6, UpdateInterestFacts
    <2>8. SameBytes(c, r)
      BY <1>2, <2>4, <2>7 DEF SameBytes
    <2>9. Faithful(r, m)
      BY <2>8, SameBytesFaithful DEF OK
    <2>10. SameReport(c, r) /\ Kept(c, r)
      BY <1>2, <2>4, <2>5, <2>7 DEF SameReport, Kept
    <2> QED
      BY <1>2, <2>4, <2>7, <2>8, <2>9, <2>10 DEF OK, SameBytes
  <1> QED
    BY <1>3, <1>4

\* What is thrown away is lost, and not delivered later.
LEMMA DiscardFacts ==
  ASSUME NEW c, NEW m \in Nat \ {0}, OK(c, m), NEW async \in BOOLEAN, NEW r,
         r = DiscardOutputQueued(c, async)
  PROVE  /\ OK(r, m) /\ r.curOut = <<>> /\ r.code = "error"
         /\ async = TRUE => r.unreported = TRUE
         /\ Kept(c, r) /\ r.open = c.open
  <1> DEFINE b == Buffered(c)
             lost == c.lost \union ToSet(b)
             owed == c.owed \union ToSet(b)
             un == c.unreported \/ async
  <1>1. /\ c \in ChannelState /\ c.got \in Seq(Bytes) /\ b \in Seq(Bytes)
        /\ c.lost \in SUBSET Bytes /\ c.owed \in SUBSET Bytes /\ c.unreported \in BOOLEAN
    BY FieldFacts, BufferedType DEF OK
  <1>2. ToSet(b) \in SUBSET Bytes
    BY <1>1, ToSetFacts
  <1>3. InOrderUpTo(c.got, lost, m)
    <2>1. InOrderUpTo(c.got \o b, c.lost, m)
      BY DEF OK, Faithful, All
    <2> HIDE DEF b
    <2> DEFINE g == c.got
    <2>2. g \in Seq(Bytes) /\ InOrderUpTo(g \o b, c.lost, m)
      BY <1>1, <2>1
    <2> HIDE DEF g
    <2>3. InOrderUpTo(g, c.lost \union ToSet(b), m)
      BY <1>1, <2>2, CutRun
    <2> QED
      BY <2>3 DEF g
  <1>4. r = [c EXCEPT !.device = "broken", !.code = "error",
                      !.unreported = un, !.outQueue = <<>>, !.curOut = <<>>,
                      !.lost = lost, !.owed = owed]
    BY DEF DiscardOutputQueued
  <1>5. /\ lost \in SUBSET Bytes /\ owed \in SUBSET Bytes
        /\ un \in BOOLEAN /\ <<>> \in Seq(Bytes)
        /\ async = TRUE => un = TRUE
    BY <1>1, <1>2, EmptySeq
  <1> HIDE DEF lost, b, owed, un
  <1>6. r \in ChannelState
    <2>1. c \in ChannelState /\ "broken" \in {"ready", "full", "broken"} /\ "error" \in {"ok", "error"}
      BY <1>1
    <2> QED
      BY ONLY <1>4, <1>5, <2>1 DEF ChannelState
  <1>7. /\ r.got = c.got /\ r.outQueue = <<>> /\ r.curOut = <<>>
        /\ r.lost = lost /\ r.unreported = un /\ r.code = "error"
    BY <1>1, <1>4, <1>5 DEF ChannelState
  <1>8. /\ r.events = c.events /\ r.eventQueued = c.eventQueued /\ r.open = c.open
        /\ r.watch = c.watch /\ r.flags = c.flags /\ r.interest = c.interest
        /\ r.refCount = c.refCount /\ r.detached = c.detached
    BY <1>1, <1>4, <1>5 DEF ChannelState
  <1>9. All(r) = c.got
    <2>1. <<>> \o <<>> = <<>> /\ c.got \o <<>> = c.got
      BY <1>1, <1>5, ConcatEmptySeq
    <2> QED
      BY <1>7, <2>1 DEF All, Buffered
  <1>10. OK(r, m)
    BY <1>3, <1>6, <1>7, <1>8, <1>9 DEF OK, EventsOK, Watched, Has, Faithful
  <1> QED
    BY <1>5, <1>7, <1>8, <1>10 DEF Kept, Has

LEMMA Transitive ==
  ASSUME NEW c, NEW d, NEW r, Kept(c, d), Kept(d, r)
  PROVE  Kept(c, r)
  BY DEF Kept

\* Every outcome of the loop over the queue: the bytes are delivered or still
\* there, or an error says that they are not.
Outcome(c, r, async) ==
    /\ r.curOut = c.curOut \/ r.curOut = <<>>
    /\ Kept(c, r) /\ r.open = c.open
    /\ \/ SameReport(c, r)
       \/ r.code = "error" /\ (async = TRUE => r.unreported = TRUE)

LEMMA AttemptsFacts ==
  ASSUME NEW c, NEW m \in Nat \ {0}, OK(c, m), NEW async \in BOOLEAN,
         NEW r \in Attempts(c, async)
  PROVE  OK(r, m) /\ Outcome(c, r, async)
  <1> DEFINE n == Len(c.outQueue)
  <1>1. n \in Nat /\ c \in ChannelState
    BY FieldFacts, LenProperties DEF OK
  <1>2. ASSUME NEW k \in 0 .. n, NEW d \in {"ready", "full"},
               r = [Written(c, k) EXCEPT !.device = d]
        PROVE  OK(r, m) /\ Outcome(c, r, async)
    <2> DEFINE w == Written(c, k)
    <2>1. /\ OK(w, m) /\ w.curOut = c.curOut /\ SameReport(c, w) /\ Kept(c, w)
          /\ w.open = c.open
      BY WrittenFacts
    <2> HIDE DEF w
    <2>2. r = [w EXCEPT !.device = d] /\ w \in ChannelState
      BY <1>2, <2>1 DEF w, OK
    <2>3. /\ r \in ChannelState /\ SameBytes(w, r) /\ SameReport(w, r) /\ Kept(w, r)
          /\ r.open = w.open /\ r.flags = w.flags /\ r.watch = w.watch
          /\ r.events = w.events /\ r.eventQueued = w.eventQueued
      BY <2>2 DEF ChannelState, SameBytes, SameReport, Kept, Has
    <2>4. Faithful(r, m)
      BY <2>1, <2>3, SameBytesFaithful DEF OK
    <2>5. OK(r, m)
      BY <2>1, <2>3, <2>4 DEF OK, EventsOK, Watched, Has
    <2>6. SameReport(c, r) /\ Kept(c, r)
      BY <2>1, <2>3 DEF SameReport, Kept
    <2> QED
      BY <2>1, <2>3, <2>5, <2>6 DEF Outcome, SameBytes
  <1>3. ASSUME NEW k \in 0 .. n, r = Scheduled(Written(c, k))
        PROVE  OK(r, m) /\ Outcome(c, r, async)
    <2> DEFINE w == Written(c, k)
    <2>1. /\ OK(w, m) /\ w.curOut = c.curOut /\ SameReport(c, w) /\ Kept(c, w)
          /\ w.open = c.open
      BY WrittenFacts
    <2> HIDE DEF w
    <2>2. /\ OK(r, m) /\ r.curOut = w.curOut /\ SameReport(w, r) /\ Kept(w, r)
          /\ r.open = w.open
      BY <1>3, <2>1, ScheduledFacts DEF w
    <2>3. SameReport(c, r) /\ Kept(c, r)
      BY <2>1, <2>2 DEF SameReport, Kept
    <2> QED
      BY <2>1, <2>2, <2>3 DEF Outcome
  <1>4. ASSUME NEW k \in 0 .. n, r = DiscardOutputQueued(Written(c, k), async)
        PROVE  OK(r, m) /\ Outcome(c, r, async)
    <2> DEFINE w == Written(c, k)
    <2>1. OK(w, m) /\ Kept(c, w) /\ w.open = c.open
      BY WrittenFacts
    <2> HIDE DEF w
    <2>2. /\ OK(r, m) /\ r.curOut = <<>> /\ r.code = "error"
          /\ async = TRUE => r.unreported = TRUE
          /\ Kept(w, r) /\ r.open = w.open
      BY <1>4, <2>1, DiscardFacts DEF w
    <2>3. Kept(c, r)
      BY <2>1, <2>2 DEF Kept
    <2> QED
      BY <2>1, <2>2, <2>3 DEF Outcome
  <1>5. \/ r = c
        \/ \E k \in 0 .. n : \E d \in {"ready", "full"} : r = [Written(c, k) EXCEPT !.device = d]
        \/ \E k \in 0 .. n : r = Scheduled(Written(c, k))
        \/ \E k \in 0 .. n : r = DiscardOutputQueued(Written(c, k), async)
    <2>1. /\ 0 \in 0 .. n /\ n \in 0 .. n
          /\ \A k \in 0 .. n - 1 : k \in 0 .. n
          /\ \A k \in 1 .. n - 1 : k \in 0 .. n
      BY <1>1
    <2>2. c.device \in {"ready", "full", "broken"}
      BY <1>1, FieldFacts
    <2>3. n = 0 \/ n > 0
      BY <1>1
    <2> HIDE DEF n
    <2>4. CASE n = 0
      <3>1. Attempts(c, async) = {c}
        BY <2>4 DEF Attempts, n
      <3> QED
        BY <3>1
    <2>5. CASE n > 0 /\ c.device = "broken"
      <3>1. Attempts(c, async) = {DiscardOutputQueued(Written(c, 0), async)}
        BY <2>5 DEF Attempts, n
      <3> QED
        BY <2>1, <3>1
    <2>6. CASE n > 0 /\ c.device # "broken" /\ ~Has(c, "NONBLOCKING")
      <3>1. Attempts(c, async) =
               { [Written(c, n) EXCEPT !.device = d] : d \in {"ready", "full"} }
               \union { Scheduled(Written(c, k)) :
                          k \in IF c.device = "full" THEN {0} ELSE 1 .. n - 1 }
               \union { DiscardOutputQueued(Written(c, k), async) : k \in 0 .. n - 1 }
        BY <2>6 DEF Attempts, n
      <3>2. \A k \in IF c.device = "full" THEN {0} ELSE 1 .. n - 1 : k \in 0 .. n
        BY <2>1
      <3> QED
        BY <2>1, <3>1, <3>2
    <2>7. CASE n > 0 /\ c.device = "full" /\ Has(c, "NONBLOCKING")
      <3>1. Attempts(c, async) = {Scheduled(Written(c, 0))}
        BY <2>7 DEF Attempts, n
      <3> QED
        BY <2>1, <3>1
    <2>8. CASE n > 0 /\ c.device = "ready" /\ Has(c, "NONBLOCKING")
      <3>1. Attempts(c, async) =
               { [Written(c, n) EXCEPT !.device = d] : d \in {"ready", "full"} }
               \union { Scheduled(Written(c, k)) : k \in 1 .. n - 1 }
               \union { DiscardOutputQueued(Written(c, k), async) : k \in 1 .. n - 1 }
        BY <2>8 DEF Attempts, n
      <3> QED
        BY <2>1, <3>1
    <2> QED
      BY <2>2, <2>3, <2>4, <2>5, <2>6, <2>7, <2>8
  <1>6. CASE r = c
    BY <1>6 DEF Outcome, SameReport, Kept
  <1> QED
    BY <1>2, <1>3, <1>4, <1>5, <1>6

\* The end of a background flush leaves the interest of the handlers.
LEMMA BackgroundEndFacts ==
  ASSUME NEW c, NEW m, OK(c, m), NEW wroteSome, NEW r, r = BackgroundEnd(c, wroteSome)
  PROVE  /\ OK(r, m) /\ r.curOut = c.curOut
         /\ SameReport(c, r) /\ Kept(c, r) /\ r.open = c.open
  <1>1. CASE Has(c, "BG_FLUSH") /\ ~wroteSome /\ c.outQueue = <<>>
    <2>1. /\ c \in ChannelState /\ c.flags \ {"BG_FLUSH"} \in SUBSET Flags
          /\ c.interest \in BOOLEAN
      BY FieldFacts DEF OK
    <2>2. r = [c EXCEPT !.flags = c.flags \ {"BG_FLUSH"}, !.watch = c.interest]
      BY <1>1, <2>1 DEF BackgroundEnd, ResetFlags, ChannelState
    <2>3. /\ r \in ChannelState /\ SameBytes(c, r) /\ SameReport(c, r)
          /\ r.flags = c.flags \ {"BG_FLUSH"} /\ r.open = c.open
          /\ r.events = c.events /\ r.eventQueued = c.eventQueued
          /\ r.interest = c.interest /\ r.refCount = c.refCount
          /\ r.detached = c.detached
      BY <2>1, <2>2 DEF ChannelState, SameBytes, SameReport
    <2>4. Kept(c, r)
      BY <2>3 DEF Kept, Has
    <2>5. Faithful(r, m)
      BY <2>3, SameBytesFaithful DEF OK
    <2> QED
      BY <2>3, <2>4, <2>5 DEF OK, EventsOK, Watched, Has, SameBytes
  <1>2. CASE ~(Has(c, "BG_FLUSH") /\ ~wroteSome /\ c.outQueue = <<>>)
    <2>1. r = c
      BY <1>2 DEF BackgroundEnd
    <2> QED
      BY <2>1 DEF SameReport, Kept
  <1> QED
    BY <1>1, <1>2

\* What was owed is still owed or the caller gets the error, unless the
\* write side was closed.
Accounted(c, r, async) ==
    \/ r.owed = c.owed /\ r.unreported = c.unreported
    \/ r.code = "error" /\ (async = TRUE => r.unreported = TRUE)
    \/ Has(r, "CLOSEDWRITE")
ShutAtLast(c, r) ==
    \/ r.open = c.open
    \/ r.open = FALSE /\ Has(r, "CLOSED") /\ r.refCount = 0

\* The channel is only closed when nothing is left to write.
LEMMA ClosedFacts ==
  ASSUME NEW c, NEW m, OK(c, m), NEW r \in Closed(c)
  PROVE  /\ OK(r, m)
         /\ r.curOut = c.curOut \/ r.curOut = <<>>
         /\ Kept(c, r) /\ ShutAtLast(c, r)
         /\ r.owed = c.owed /\ r.unreported = c.unreported
         /\ r.code = c.code \/ r.code = "error" \/ Has(r, "CLOSEDWRITE")
  <1>1. c \in ChannelState /\ c.flags \ {"WRITABLE"} \in SUBSET Flags /\ <<>> \in Seq(Bytes)
    BY FieldFacts, EmptySeq DEF OK
  <1>2. CASE r = c
    BY <1>2 DEF Kept, ShutAtLast
  <1>3. CASE Buffered(c) = <<>> /\ Has(c, "CLOSED") /\ c.refCount = 0 /\ r \in CloseChannel(c)
    <2>1. c.curOut = <<>>
      BY <1>1, <1>3, BufferedType
    <2>2. PICK fails \in BOOLEAN :
             r = [c EXCEPT !.open = FALSE, !.watch = FALSE, !.curOut = <<>>,
                           !.code = IF c.unreported \/ fails THEN "error" ELSE @]
      BY <1>3 DEF CloseChannel
    <2> DEFINE code == IF c.unreported \/ fails THEN "error" ELSE c.code
    <2>3. r = [c EXCEPT !.open = FALSE, !.watch = FALSE, !.curOut = <<>>, !.code = code]
      BY <2>2
    <2>4. code \in {"ok", "error"} /\ (code = c.code \/ code = "error")
      BY <1>1, FieldFacts
    <2> HIDE DEF code
    <2>5. /\ r \in ChannelState /\ r.got = c.got /\ r.outQueue = c.outQueue
          /\ r.curOut = <<>> /\ r.lost = c.lost /\ r.open = FALSE
          /\ r.owed = c.owed /\ r.unreported = c.unreported /\ r.code = code
          /\ r.events = c.events /\ r.eventQueued = c.eventQueued
          /\ r.flags = c.flags /\ r.interest = c.interest
          /\ r.refCount = c.refCount /\ r.detached = c.detached
      BY <1>1, <2>3, <2>4 DEF ChannelState
    <2>6. SameBytes(c, r) /\ Kept(c, r)
      BY <2>1, <2>5 DEF SameBytes, Kept, Has
    <2>7. Faithful(r, m)
      BY <2>6, SameBytesFaithful DEF OK
    <2> QED
      BY <1>3, <2>4, <2>5, <2>6, <2>7 DEF OK, EventsOK, Watched, Has, ShutAtLast
  <1>4. CASE Has(c, "CLOSEDWRITE") /\ r = [ResetFlags(c, {"WRITABLE"}) EXCEPT !.code = "ok"]
    <2>1. r = [c EXCEPT !.flags = c.flags \ {"WRITABLE"}, !.code = "ok"]
      BY <1>1, <1>4 DEF ResetFlags, ChannelState
    <2>2. /\ r \in ChannelState /\ SameBytes(c, r)
          /\ r.flags = c.flags \ {"WRITABLE"} /\ r.open = c.open /\ r.watch = c.watch
          /\ r.owed = c.owed /\ r.unreported = c.unreported /\ r.code = "ok"
          /\ r.events = c.events /\ r.eventQueued = c.eventQueued
          /\ r.interest = c.interest /\ r.refCount = c.refCount
          /\ r.detached = c.detached
      BY <1>1, <2>1 DEF ChannelState, SameBytes
    <2>3. Kept(c, r) /\ Has(r, "CLOSEDWRITE")
      BY <1>4, <2>2 DEF Kept, Has
    <2>4. Faithful(r, m)
      BY <2>2, SameBytesFaithful DEF OK
    <2> QED
      BY <2>2, <2>3, <2>4 DEF OK, EventsOK, Watched, Has, SameBytes, ShutAtLast
  <1>5. CASE Has(c, "CLOSEDWRITE") /\ r = [c EXCEPT !.code = "error"]
    <2>1. /\ r \in ChannelState /\ SameBytes(c, r)
          /\ r.flags = c.flags /\ r.open = c.open /\ r.watch = c.watch
          /\ r.owed = c.owed /\ r.unreported = c.unreported /\ r.code = "error"
          /\ r.events = c.events /\ r.eventQueued = c.eventQueued
          /\ r.interest = c.interest /\ r.refCount = c.refCount
          /\ r.detached = c.detached
      BY <1>1, <1>5 DEF ChannelState, SameBytes
    <2>2. Kept(c, r)
      BY <2>1 DEF Kept, Has
    <2>3. Faithful(r, m)
      BY <2>1, SameBytesFaithful DEF OK
    <2> QED
      BY <2>1, <2>2, <2>3 DEF OK, EventsOK, Watched, Has, SameBytes, ShutAtLast
  <1>6. \/ r = c
        \/ Buffered(c) = <<>> /\ Has(c, "CLOSED") /\ c.refCount = 0 /\ r \in CloseChannel(c)
        \/ Has(c, "CLOSEDWRITE") /\ r \in CloseChannelPart(c)
    BY DEF Closed
  <1>7. r \in CloseChannelPart(c) =>
           \/ r = [ResetFlags(c, {"WRITABLE"}) EXCEPT !.code = "ok"]
           \/ r = [c EXCEPT !.code = "error"]
    BY DEF CloseChannelPart
  <1> QED
    BY <1>2, <1>3, <1>4, <1>5, <1>6, <1>7

LEMMA FlushFacts ==
  ASSUME NEW c, NEW m \in Nat \ {0}, OK(c, m), Len(c.curOut) <= BufSize,
         NEW async \in BOOLEAN, NEW r \in FlushChannel(c, async)
  PROVE  /\ OK(r, m) /\ Len(r.curOut) < BufSize
         /\ IsBufferFull(c.curOut) => r.curOut = <<>>
         /\ Kept(c, r) /\ ShutAtLast(c, r) /\ Accounted(c, r, async)
  <1> DEFINE s == Shifted(c)
             d == [s EXCEPT !.code = "ok"]
             Finish(x) ==
                 IF Has(x, "BG_FLUSH") /\ x.got # d.got THEN {x}
                 ELSE Closed(BackgroundEnd(x, x.got # d.got))
  <1>1. /\ OK(s, m) /\ Len(s.curOut) < BufSize
        /\ IsBufferFull(c.curOut) => s.curOut = <<>>
        /\ SameReport(c, s) /\ Kept(c, s) /\ s.open = c.open
    BY ShiftedFacts
  <1>2. \/ ~async /\ r = d
        \/ \E x \in Attempts(d, async) : r \in Finish(x)
    BY DEF FlushChannel
  <1> HIDE DEF s
  <1>3. /\ d \in ChannelState /\ SameBytes(s, d) /\ d.owed = s.owed
        /\ d.unreported = s.unreported /\ d.open = s.open /\ d.flags = s.flags
        /\ d.events = s.events /\ d.eventQueued = s.eventQueued /\ d.watch = s.watch
        /\ Kept(s, d)
    BY <1>1 DEF OK, ChannelState, SameBytes, Kept, Has
  <1> HIDE DEF d
  <1>4. Faithful(d, m)
    BY <1>1, <1>3, SameBytesFaithful DEF OK
  <1>5. /\ OK(d, m) /\ Len(d.curOut) < BufSize
        /\ IsBufferFull(c.curOut) => d.curOut = <<>>
        /\ Kept(c, d) /\ d.open = c.open
        /\ d.owed = c.owed /\ d.unreported = c.unreported
    BY <1>1, <1>3, <1>4 DEF OK, EventsOK, Watched, Has, SameBytes, SameReport, Kept
  <1>6. CASE r = d
    BY <1>5, <1>6 DEF ShutAtLast, Accounted
  <1>7. ASSUME NEW x \in Attempts(d, async), r \in Finish(x)
        PROVE  /\ OK(r, m)
               /\ r.curOut = d.curOut \/ r.curOut = <<>>
               /\ Kept(d, r) /\ ShutAtLast(d, r) /\ Accounted(d, r, async)
    <2>1. OK(x, m) /\ Outcome(d, x, async)
      BY <1>5, AttemptsFacts
    <2>2. CASE r = x
      BY <2>1, <2>2 DEF Outcome, SameReport, ShutAtLast, Accounted
    <2>3. CASE r \in Closed(BackgroundEnd(x, x.got # d.got))
      <3> DEFINE b == BackgroundEnd(x, x.got # d.got)
      <3>1. /\ OK(b, m) /\ b.curOut = x.curOut /\ SameReport(x, b) /\ Kept(x, b)
            /\ b.open = x.open
        BY <2>1, BackgroundEndFacts
      <3> HIDE DEF b
      <3>2. /\ OK(r, m)
            /\ r.curOut = b.curOut \/ r.curOut = <<>>
            /\ Kept(b, r) /\ ShutAtLast(b, r)
            /\ r.owed = b.owed /\ r.unreported = b.unreported
            /\ r.code = b.code \/ r.code = "error" \/ Has(r, "CLOSEDWRITE")
        BY <2>3, <3>1, ClosedFacts DEF b
      <3>3. Kept(d, r)
        BY <2>1, <3>1, <3>2 DEF Outcome, Kept
      <3>4. ShutAtLast(d, r)
        BY <2>1, <3>1, <3>2 DEF Outcome, ShutAtLast
      <3>5. Accounted(d, r, async)
        BY <2>1, <3>1, <3>2 DEF Outcome, SameReport, Accounted
      <3> QED
        BY <2>1, <3>1, <3>2, <3>3, <3>4, <3>5 DEF Outcome
    <2> QED
      BY <1>7, <2>2, <2>3
  <1>8. ASSUME NEW x \in Attempts(d, async), r \in Finish(x)
        PROVE  /\ Kept(c, r) /\ ShutAtLast(c, r) /\ Accounted(c, r, async)
               /\ Len(r.curOut) < BufSize
               /\ IsBufferFull(c.curOut) => r.curOut = <<>>
    <2> HIDE DEF Finish
    <2>1. /\ r.curOut = d.curOut \/ r.curOut = <<>>
          /\ Kept(d, r) /\ ShutAtLast(d, r) /\ Accounted(d, r, async)
      BY <1>7, <1>8
    <2>2. Len(<<>>) = 0
      BY EmptySeq
    <2>3. Kept(c, r)
      BY <1>5, <2>1 DEF Kept
    <2> QED
      BY <1>5, <2>1, <2>2, <2>3 DEF ShutAtLast, Accounted
  <1> QED
    BY <1>2, <1>6, <1>7, <1>8

-----------------------------------------------------------------------------
(***************************************************************************)
(* The operations of a script.                                             *)
(***************************************************************************)
LEMMA ToldFacts ==
  ASSUME NEW c, NEW m, OK(c, m), NEW r, r = Told(c)
  PROVE  /\ OK(r, m) /\ r.curOut = c.curOut /\ Kept(c, r)
         /\ r.open = c.open /\ r.flags = c.flags /\ r.unreported = c.unreported
         /\ c.code = "error" => r.owed = {}
         /\ c.code # "error" => r.owed = c.owed
  <1>1. c \in ChannelState /\ {} \in SUBSET Bytes
    BY DEF OK
  <1>2. CASE c.code = "error"
    <2>1. r = [c EXCEPT !.owed = {}]
      BY <1>2 DEF Told
    <2>2. /\ r \in ChannelState /\ SameBytes(c, r) /\ Kept(c, r) /\ r.owed = {}
          /\ r.open = c.open /\ r.flags = c.flags /\ r.unreported = c.unreported
          /\ r.events = c.events /\ r.eventQueued = c.eventQueued /\ r.watch = c.watch
      BY <1>1, <2>1 DEF ChannelState, SameBytes, Kept, Has
    <2>3. Faithful(r, m)
      BY <2>2, SameBytesFaithful DEF OK
    <2> QED
      BY <1>2, <2>2, <2>3 DEF OK, EventsOK, Watched, Has, SameBytes
  <1>3. CASE c.code # "error"
    BY <1>3 DEF Told, Kept
  <1> QED
    BY <1>2, <1>3

\* An error that is returned answers for what was thrown away.
LEMMA AnsweredByResult ==
  ASSUME NEW c, NEW r, NEW m, Answered(c), OK(r, m), Kept(c, r), Accounted(c, r, FALSE),
         NEW t, t = Told(r)
  PROVE  Answered(t)
  <1>1. /\ Kept(r, t) /\ t.unreported = r.unreported
        /\ r.code = "error" => t.owed = {}
        /\ r.code # "error" => t.owed = r.owed
    BY ToldFacts
  <1> QED
    BY <1>1 DEF Answered, Kept, Accounted

LEMMA AnsweredByReport ==
  ASSUME NEW c, NEW r, Answered(c), Kept(c, r), Accounted(c, r, TRUE)
  PROVE  Answered(r)
  BY DEF Answered, Kept, Accounted

LEMMA CheckFacts ==
  ASSUME NEW c, NEW m, OK(c, m), NEW r, r = CheckChannelErrors(c)
  PROVE  /\ OK(r, m) /\ r.curOut = c.curOut /\ Kept(c, r)
         /\ r.open = c.open /\ r.flags = c.flags
         /\ Answered(c) => Answered(r)
         /\ c.unreported = TRUE => r.owed = {}
  <1>1. c \in ChannelState /\ {} \in SUBSET Bytes /\ c.unreported \in BOOLEAN
    BY FieldFacts DEF OK
  <1>2. CASE c.unreported = TRUE
    <2>1. r = [c EXCEPT !.unreported = FALSE, !.owed = {}]
      BY <1>2 DEF CheckChannelErrors
    <2>2. /\ r \in ChannelState /\ SameBytes(c, r) /\ Kept(c, r) /\ r.owed = {}
          /\ r.open = c.open /\ r.flags = c.flags
          /\ r.events = c.events /\ r.eventQueued = c.eventQueued /\ r.watch = c.watch
      BY <1>1, <2>1 DEF ChannelState, SameBytes, Kept, Has
    <2>3. Faithful(r, m)
      BY <2>2, SameBytesFaithful DEF OK
    <2> QED
      BY <2>2, <2>3 DEF OK, EventsOK, Watched, Has, SameBytes, Answered
  <1>3. CASE c.unreported = FALSE
    BY <1>3 DEF CheckChannelErrors, Kept
  <1> QED
    BY <1>1, <1>2, <1>3

\* The interest of the handlers, and of the events after it.
Serving(c, m, hs, r) ==
    /\ OK(r, m) /\ r.curOut = c.curOut /\ SameReport(c, r)
    /\ r.refCount = c.refCount /\ r.detached = c.detached
    /\ r.open = c.open /\ r.flags = c.flags
    /\ r.interest = TRUE <=> hs # {}

LEMMA InterestedFacts ==
  ASSUME NEW c, NEW m, OK(c, m), NEW hs, NEW r, r = UpdateInterest(Interested(c, hs))
  PROVE  Serving(c, m, hs, r)
  <1> DEFINE d == Interested(c, hs)
  <1>1. c \in ChannelState /\ (hs # {}) \in BOOLEAN /\ ((hs # {}) = TRUE <=> hs # {})
    BY DEF OK
  <1>2. d = [c EXCEPT !.interest = (hs # {})]
    BY DEF Interested
  <1> HIDE DEF d
  <1>3. /\ d \in ChannelState /\ d.interest = (hs # {}) /\ SameBytes(c, d)
        /\ SameReport(c, d) /\ d.refCount = c.refCount /\ d.detached = c.detached
        /\ d.open = c.open /\ d.flags = c.flags /\ d.watch = c.watch
        /\ d.events = c.events /\ d.eventQueued = c.eventQueued
    BY <1>1, <1>2 DEF ChannelState, SameBytes, SameReport
  <1>4. EventsOK(d) /\ Watched(d)
    BY <1>3 DEF OK, EventsOK, Watched, Has
  <1>5. /\ r \in ChannelState /\ EventsOK(r) /\ Watched(r) /\ SameBytes(d, r)
        /\ SameReport(d, r) /\ Kept(d, r) /\ r.open = d.open /\ r.flags = d.flags
    BY <1>3, <1>4, UpdateInterestFacts DEF d
  <1>6. SameBytes(c, r)
    BY <1>3, <1>5 DEF SameBytes
  <1>7. Faithful(r, m)
    BY <1>6, SameBytesFaithful DEF OK
  <1>8. OK(r, m)
    BY <1>5, <1>7 DEF OK
  <1>9. SameReport(c, r)
    BY <1>3, <1>5 DEF SameReport
  <1>10. r.interest = TRUE <=> hs # {}
    BY <1>1, <1>3, <1>5 DEF Kept
  <1> QED
    BY <1>3, <1>5, <1>6, <1>8, <1>9, <1>10 DEF Kept, SameBytes, Serving

LEMMA UpdatedFacts ==
  ASSUME NEW c, NEW m, OK(c, m), NEW r, r = UpdateInterest(c)
  PROVE  /\ OK(r, m) /\ r.curOut = c.curOut /\ SameReport(c, r) /\ Kept(c, r)
         /\ r.open = c.open /\ r.flags = c.flags
  <1>1. /\ r \in ChannelState /\ EventsOK(r) /\ Watched(r) /\ SameBytes(c, r)
        /\ SameReport(c, r) /\ Kept(c, r) /\ r.open = c.open /\ r.flags = c.flags
    BY UpdateInterestFacts DEF OK
  <1>2. Faithful(r, m)
    BY <1>1, SameBytesFaithful DEF OK
  <1> QED
    BY <1>1, <1>2 DEF OK, SameBytes

-----------------------------------------------------------------------------
(***************************************************************************)
(* Write: the bytes that fill the buffer, and what is left of them.        *)
(***************************************************************************)
\* Bytes with consecutive numbers, and the buffer that takes them.
IsRun(t, m, k) ==
    t \in Seq(Bytes) /\ Len(t) = k /\ \A j \in 1 .. k : t[j] = m + j - 1
Numbered(m, n) == [j \in 1 .. n |-> m + j - 1]
Filled(c, t, code) == [c EXCEPT !.curOut = c.curOut \o t, !.code = code]

AddedAtEnd(g, q, u, t) == (g \o (q \o u)) \o t = g \o (q \o (u \o t))

LEMMA AddedFacts ==
  ASSUME NEW g \in Seq(Bytes), NEW q \in Seq(Bytes), NEW u \in Seq(Bytes),
         NEW t \in Seq(Bytes)
  PROVE  AddedAtEnd(g, q, u, t)
  <1>1. PICK w : w = q \o u
    OBVIOUS
  <1>2. w \in Seq(Bytes)
    BY <1>1, ConcatProperties
  <1>3. Associates(g, w, t)
    BY <1>2, Associativity
  <1>4. Associates(q, u, t)
    BY Associativity
  <1> QED
    BY <1>1, <1>3, <1>4 DEF AddedAtEnd, Associates

LEMMA FilledFacts ==
  ASSUME NEW c, NEW m \in Nat \ {0}, OK(c, m), NEW k \in Nat, NEW t, IsRun(t, m, k),
         NEW code \in {"ok", "error"}, NEW r, r = Filled(c, t, code)
  PROVE  /\ OK(r, m + k) /\ r.curOut = c.curOut \o t
         /\ Len(r.curOut) = Len(c.curOut) + k
         /\ r.owed = c.owed /\ r.unreported = c.unreported /\ r.code = code
         /\ Kept(c, r) /\ r.open = c.open /\ r.flags = c.flags
  <1>0. t \in Seq(Bytes) /\ Len(t) = k /\ \A j \in 1 .. k : t[j] = m + j - 1
    BY DEF IsRun
  <1>1. PICK u, q, g, s : u = c.curOut /\ q = c.outQueue /\ g = c.got /\ s = All(c)
    OBVIOUS
  <1>2. u \in Seq(Bytes) /\ q \in Seq(Bytes) /\ g \in Seq(Bytes) /\ s \in Seq(Bytes)
    BY <1>1, FieldFacts, BufferedType DEF OK
  <1>3. InOrderUpTo(s, c.lost, m)
    BY <1>1 DEF OK, Faithful
  <1>4. PICK ut : ut = u \o t
    OBVIOUS
  <1>5. r = [c EXCEPT !.curOut = ut, !.code = code] /\ c \in ChannelState
    BY <1>1, <1>4 DEF OK, Filled
  <1>6. ut \in Seq(Bytes) /\ Len(ut) = Len(u) + k
    BY <1>0, <1>2, <1>4, ConcatProperties
  <1>7. g \o (q \o ut) = s \o t
    <2>1. s = g \o (q \o u)
      BY <1>1 DEF All, Buffered
    <2>2. AddedAtEnd(g, q, u, t)
      BY <1>0, <1>2, AddedFacts
    <2> QED
      BY <1>4, <2>1, <2>2 DEF AddedAtEnd
  <1>8. InOrderUpTo(s \o t, c.lost, m + k)
    BY <1>0, <1>2, <1>3, AppendRun
  <1>9. /\ r \in ChannelState /\ r.got = c.got /\ r.outQueue = c.outQueue
        /\ r.curOut = ut /\ r.lost = c.lost /\ r.code = code
        /\ r.owed = c.owed /\ r.unreported = c.unreported
        /\ r.open = c.open /\ r.flags = c.flags /\ r.watch = c.watch
        /\ r.events = c.events /\ r.eventQueued = c.eventQueued
        /\ r.interest = c.interest /\ r.refCount = c.refCount
        /\ r.detached = c.detached
    BY <1>5, <1>6 DEF ChannelState
  <1>10. Faithful(r, m + k)
    BY <1>1, <1>7, <1>8, <1>9 DEF Faithful, All, Buffered
  <1>11. OK(r, m + k)
    BY <1>9, <1>10 DEF OK, EventsOK, Watched, Has
  <1> QED
    BY <1>1, <1>4, <1>6, <1>9, <1>11 DEF Kept, Has

LEMMA RunFacts ==
  ASSUME NEW m \in Nat \ {0}, NEW n \in Nat, m + n - 1 <= MaxBytes, NEW k \in 0 .. n
  PROVE  /\ IsRun(Numbered(m, n), m, n)
         /\ IsRun(SubSeq(Numbered(m, n), 1, k), m, k)
         /\ IsRun(SubSeq(Numbered(m, n), k + 1, n), m + k, n - k)
  <1> PICK bytes : bytes = Numbered(m, n)
    OBVIOUS
  <1>1. \A j \in 1 .. n : bytes[j] = m + j - 1 /\ bytes[j] \in Bytes
    BY DEF Bytes, Numbered
  <1>2. bytes \in [1 .. n -> Bytes]
    BY <1>1 DEF Numbered
  <1> HIDE DEF Bytes
  <1>3. bytes \in Seq(Bytes) /\ Len(bytes) = n
    <2>1. [j \in 1 .. n |-> m + j - 1] \in Seq(Bytes)
      BY <1>1 DEF Numbered
    <2>2. bytes \in Seq(Bytes) /\ DOMAIN bytes = 1 .. n
      BY <2>1, <1>2 DEF Numbered
    <2> QED
      BY <2>2, LenProperties
  <1>4. /\ SubSeq(bytes, 1, k) \in Seq(Bytes) /\ Len(SubSeq(bytes, 1, k)) = k
        /\ \A j \in 1 .. k : SubSeq(bytes, 1, k)[j] = bytes[1 + j - 1]
    <2>1. 1 \in Int /\ k \in Int /\ k - 1 + 1 = k /\ (IF 1 <= k THEN k - 1 + 1 ELSE 0) = k
      OBVIOUS
    <2>2. \A j \in 1 .. k : bytes[j] \in Bytes
      BY <1>1
    <2>3. /\ SubSeq(bytes, 1, k) \in Seq(Bytes)
          /\ Len(SubSeq(bytes, 1, k)) = IF 1 <= k THEN k - 1 + 1 ELSE 0
          /\ \A j \in 1 .. k - 1 + 1 : SubSeq(bytes, 1, k)[j] = bytes[1 + j - 1]
      BY ONLY <2>1, <2>2, SubSeqProperties
    <2> QED
      BY ONLY <2>1, <2>3
  <1>5. /\ SubSeq(bytes, k + 1, n) \in Seq(Bytes) /\ Len(SubSeq(bytes, k + 1, n)) = n - k
        /\ \A j \in 1 .. n - k : SubSeq(bytes, k + 1, n)[j] = bytes[k + 1 + j - 1]
    <2> DEFINE l == k + 1
    <2>1. l \in Int /\ n \in Int /\ n - l + 1 = n - k
      OBVIOUS
    <2>2. \A j \in l .. n : j \in 1 .. n
      OBVIOUS
    <2>3. (IF l <= n THEN n - l + 1 ELSE 0) = n - k
      OBVIOUS
    <2> HIDE DEF l
    <2>4. \A j \in l .. n : bytes[j] \in Bytes
      BY <1>1, <2>2
    <2>5. /\ SubSeq(bytes, l, n) \in Seq(Bytes)
          /\ Len(SubSeq(bytes, l, n)) = IF l <= n THEN n - l + 1 ELSE 0
          /\ \A j \in 1 .. n - l + 1 : SubSeq(bytes, l, n)[j] = bytes[l + j - 1]
      BY ONLY <2>1, <2>4, SubSeqProperties
    <2>6. /\ SubSeq(bytes, l, n) \in Seq(Bytes)
          /\ Len(SubSeq(bytes, l, n)) = n - k
          /\ \A j \in 1 .. n - k : SubSeq(bytes, l, n)[j] = bytes[l + j - 1]
      BY <2>1, <2>3, <2>5
    <2> QED
      BY <2>6 DEF l
  <1>6. \A j \in 1 .. k : 1 + j - 1 \in 1 .. n /\ 1 + j - 1 = j
    OBVIOUS
  <1>7. \A j \in 1 .. n - k : k + 1 + j - 1 \in 1 .. n /\ m + (k + 1 + j - 1) - 1 = (m + k) + j - 1
    OBVIOUS
  <1>8. \A j \in 1 .. k : SubSeq(bytes, 1, k)[j] = m + j - 1
    BY <1>1, <1>4, <1>6
  <1>9. \A j \in 1 .. n - k : SubSeq(bytes, k + 1, n)[j] = (m + k) + j - 1
    BY <1>1, <1>5, <1>7
  <1> QED
    BY <1>1, <1>3, <1>4, <1>5, <1>8, <1>9 DEF IsRun

LEMMA PutFacts ==
  ASSUME NEW c, NEW m \in Nat \ {0}, OK(c, m), Len(c.curOut) < BufSize,
         NEW n \in 1 .. BufSize, m + n - 1 <= MaxBytes, NEW r \in Put(c, m, n)
  PROVE  /\ PutBytes(c, r, n) \in 0 .. n /\ OK(r, m + PutBytes(c, r, n))
         /\ Len(r.curOut) < BufSize
         /\ Kept(c, r) /\ ShutAtLast(c, r) /\ Accounted(c, r, FALSE)
  <1>1. PICK bytes, room : /\ bytes = Numbered(m, n)
                           /\ room = BufSize - Len(c.curOut)
    OBVIOUS
  <1>2. Len(c.curOut) \in Nat /\ room \in 1 .. BufSize /\ n \in Nat
    BY <1>1, FieldFacts, LenProperties DEF OK
  <1>3. CASE n < room
    <2>1. PICK d : d = Filled(c, bytes, "ok")
      OBVIOUS
    <2>2. r = UpdateInterest(d)
      BY <1>1, <1>3, <2>1 DEF Put, Filled, Numbered
    <2>3. n \in 0 .. n
      BY <1>2
    <2>4. IsRun(bytes, m, n)
      BY <1>1, <1>2, <2>3, RunFacts
    <2>5. /\ OK(d, m + n) /\ Len(d.curOut) = Len(c.curOut) + n
          /\ d.owed = c.owed /\ d.unreported = c.unreported /\ d.code = "ok"
          /\ Kept(c, d) /\ d.open = c.open
      BY <1>2, <2>1, <2>4, FilledFacts
    <2>6. /\ OK(r, m + n) /\ r.curOut = d.curOut /\ SameReport(d, r) /\ Kept(d, r)
          /\ r.open = d.open
      BY <2>2, <2>5, UpdatedFacts
    <2>7. PutBytes(c, r, n) = n
      BY <2>5, <2>6 DEF PutBytes, SameReport
    <2>8. Len(r.curOut) < BufSize
      BY <1>1, <1>2, <1>3, <2>5, <2>6
    <2>9. Kept(c, r)
      BY <2>5, <2>6 DEF Kept
    <2> QED
      BY <2>3, <2>5, <2>6, <2>7, <2>8, <2>9 DEF SameReport, ShutAtLast, Accounted
  <1>4. CASE ~(n < room)
    <2>1. PICK a, b : a = SubSeq(bytes, 1, room) /\ b = SubSeq(bytes, room + 1, n)
      OBVIOUS
    <2>2. PICK f : f = Filled(c, a, "ok")
      OBVIOUS
    <2>3. PICK x \in FlushChannel(f, FALSE) :
             r = IF x.code = "error" THEN x
                 ELSE UpdateInterest([x EXCEPT !.curOut = x.curOut \o b])
      BY <1>1, <1>4, <2>1, <2>2 DEF Put, Filled, Numbered
    <2>4. room \in 0 .. n /\ room \in Nat /\ n - room \in Nat /\ m + room \in Nat \ {0}
      BY <1>2, <1>4
    <2>5. IsRun(a, m, room) /\ IsRun(b, m + room, n - room)
      BY <1>1, <1>2, <2>1, <2>4, RunFacts
    <2>6. /\ OK(f, m + room) /\ Len(f.curOut) = Len(c.curOut) + room
          /\ f.owed = c.owed /\ f.unreported = c.unreported
          /\ Kept(c, f) /\ f.open = c.open
      BY <2>2, <2>4, <2>5, FilledFacts
    <2>7. Len(f.curOut) <= BufSize /\ IsBufferFull(f.curOut)
      BY <1>1, <1>2, <2>6 DEF IsBufferFull
    <2>8. /\ OK(x, m + room) /\ x.curOut = <<>> /\ Kept(f, x) /\ ShutAtLast(f, x)
          /\ Accounted(f, x, FALSE)
      BY <2>4, <2>6, <2>7, FlushFacts
    <2>9. /\ Kept(c, x) /\ ShutAtLast(c, x) /\ Accounted(c, x, FALSE)
          /\ Len(x.curOut) = 0
      BY <2>6, <2>8, EmptySeq DEF Kept, ShutAtLast, Accounted
    <2>10. CASE x.code = "error"
      <3>1. r = x /\ PutBytes(c, r, n) = room
        BY <1>1, <2>3, <2>10 DEF PutBytes
      <3>2. Len(r.curOut) < BufSize
        BY <2>9, <3>1
      <3> QED
        BY ONLY <2>4, <2>8, <2>9, <3>1, <3>2
    <2>11. CASE x.code # "error"
      <3>1. PICK e : e = [x EXCEPT !.curOut = x.curOut \o b]
        OBVIOUS
      <3>2. x \in ChannelState /\ x.code \in {"ok", "error"}
        BY <2>8, FieldFacts DEF OK
      <3>3. e = Filled(x, b, x.code)
        BY <3>1, <3>2 DEF ChannelState, Filled
      <3>4. /\ OK(e, (m + room) + (n - room)) /\ Len(e.curOut) = Len(x.curOut) + (n - room)
            /\ e.owed = x.owed /\ e.unreported = x.unreported /\ e.code = x.code
            /\ Kept(x, e) /\ e.open = x.open
        <4>1. PICK p, l, z : p = m + room /\ l = n - room /\ z = x.code
          OBVIOUS
        <4>2. /\ p \in Nat \ {0} /\ l \in Nat /\ z \in {"ok", "error"}
              /\ IsRun(b, p, l) /\ OK(x, p) /\ e = Filled(x, b, z)
          BY <2>4, <2>5, <2>8, <3>2, <3>3, <4>1
        <4>3. /\ OK(e, p + l) /\ Len(e.curOut) = Len(x.curOut) + l
              /\ e.owed = x.owed /\ e.unreported = x.unreported /\ e.code = z
              /\ Kept(x, e) /\ e.open = x.open
          BY <4>2, FilledFacts
        <4> QED
          BY <4>1, <4>3
      <3>5. (m + room) + (n - room) = m + n
        BY <2>4
      <3>6. /\ OK(r, m + n) /\ r.curOut = e.curOut /\ SameReport(e, r) /\ Kept(e, r)
            /\ r.open = e.open
        BY <2>3, <2>11, <3>1, <3>4, <3>5, UpdatedFacts
      <3>7. PutBytes(c, r, n) = n
        BY <2>11, <3>4, <3>6 DEF PutBytes, SameReport
      <3>8. Len(r.curOut) < BufSize
        BY <1>2, <2>9, <2>4, <3>4, <3>6
      <3>9. Kept(c, r)
        BY <2>9, <3>4, <3>6 DEF Kept
      <3>10. ShutAtLast(c, r)
        BY <2>9, <3>4, <3>6 DEF ShutAtLast, Kept, Has
      <3>12. n \in 0 .. n
        BY <1>2
      <3>11. Accounted(c, r, FALSE)
        BY <2>9, <3>4, <3>6 DEF Accounted, SameReport, Kept
      <3> QED
        BY ONLY <3>6, <3>7, <3>8, <3>9, <3>10, <3>11, <3>12
    <2> QED
      BY <2>10, <2>11
  <1> QED
    BY <1>3, <1>4

-----------------------------------------------------------------------------
(***************************************************************************)
(* The ways a channel is closed.                                           *)
(***************************************************************************)
LEMMA StillOK ==
  ASSUME NEW c, NEW m, OK(c, m), NEW r \in ChannelState, SameBytes(c, r),
         r.events = c.events, r.eventQueued = c.eventQueued, r.open = c.open,
         r.watch = c.watch, Has(r, "BG_FLUSH") => Has(c, "BG_FLUSH")
  PROVE  OK(r, m)
  BY SameBytesFaithful DEF OK, EventsOK, Watched

WithFlags(c, fl) == [c EXCEPT !.flags = fl]
LEMMA FlagsFacts ==
  ASSUME NEW c, NEW m, OK(c, m), NEW fl \in SUBSET Flags,
         "BG_FLUSH" \in fl => "BG_FLUSH" \in c.flags,
         NEW r, r = WithFlags(c, fl)
  PROVE  /\ OK(r, m) /\ r.curOut = c.curOut /\ SameReport(c, r) /\ r.flags = fl
         /\ r.interest = c.interest /\ r.refCount = c.refCount /\ r.detached = c.detached
         /\ r.open = c.open
  <1>1. c \in ChannelState
    BY DEF OK
  <1>2. /\ r \in ChannelState /\ r.events = c.events /\ r.eventQueued = c.eventQueued
        /\ r.open = c.open /\ r.watch = c.watch /\ r.flags = fl
        /\ r.interest = c.interest /\ r.refCount = c.refCount /\ r.detached = c.detached
    BY <1>1 DEF WithFlags, ChannelState
  <1>3. SameBytes(c, r) /\ SameReport(c, r)
    BY <1>1 DEF WithFlags, ChannelState, SameBytes, SameReport
  <1>4. Has(r, "BG_FLUSH") => Has(c, "BG_FLUSH")
    BY <1>2 DEF Has
  <1>5. OK(r, m)
    BY <1>2, <1>3, <1>4, StillOK
  <1> QED
    BY <1>2, <1>3, <1>5 DEF SameBytes

LEMMA CloseFacts ==
  ASSUME NEW c, NEW m \in Nat \ {0}, OK(c, m), Len(c.curOut) < BufSize,
         NEW r \in TclClose(c)
  PROVE  /\ OK(r, m) /\ Len(r.curOut) < BufSize /\ r.interest = FALSE
         /\ r.refCount = c.refCount /\ r.detached = c.detached
         /\ r.open = c.open \/ r.refCount = 0
         /\ Answered(c) => Answered(Told(r))
  <1> DEFINE Closing(tail, sticky) ==
                 LET d == SetFlag([tail EXCEPT !.interest = FALSE], "CLOSED")
                 IN { [x EXCEPT !.code = IF sticky THEN "error" ELSE @] :
                             x \in FlushChannel(d, FALSE) }
             Tail3(tail, sticky) ==
                 \/ tail = c /\ sticky = FALSE
                 \/ tail = CheckChannelErrors(c) /\ sticky = TRUE
                 \/ tail = UpdateInterest(c) /\ sticky = FALSE
  <1>1. \/ r \in Closing(c, FALSE)
        \/ r \in Closing(CheckChannelErrors(c), TRUE)
        \/ r \in Closing(UpdateInterest(c), FALSE)
    BY DEF TclClose
  <1>2. c \in ChannelState /\ c.unreported \in BOOLEAN /\ Len(c.curOut) \in Nat
    BY FieldFacts, LenProperties DEF OK
  <1>3. PICK tail, sticky : Tail3(tail, sticky) /\ r \in Closing(tail, sticky)
    <2> HIDE DEF Closing
    <2>1. CASE r \in Closing(c, FALSE)
      BY <2>1
    <2>2. CASE r \in Closing(CheckChannelErrors(c), TRUE)
      BY <2>2
    <2>3. CASE r \in Closing(UpdateInterest(c), FALSE)
      BY <2>3
    <2> QED
      BY <1>1, <2>1, <2>2, <2>3
  <1>4. PICK d : d = SetFlag([tail EXCEPT !.interest = FALSE], "CLOSED")
    OBVIOUS
  <1>5. PICK x \in FlushChannel(d, FALSE) :
           r = [x EXCEPT !.code = IF sticky THEN "error" ELSE x.code]
    BY <1>3, <1>4
  <1>6. /\ OK(tail, m) /\ tail.curOut = c.curOut /\ Kept(c, tail) /\ tail.open = c.open
        /\ Answered(c) => Answered(tail)
    <2>1. CASE tail = CheckChannelErrors(c)
      BY <2>1, CheckFacts
    <2>2. CASE tail = UpdateInterest(c)
      <3>1. /\ OK(tail, m) /\ tail.curOut = c.curOut /\ SameReport(c, tail)
            /\ Kept(c, tail) /\ tail.open = c.open
        BY <2>2, UpdatedFacts
      <3> QED
        BY <3>1 DEF SameReport, Answered, Kept
    <2>3. CASE tail = c
      BY <2>3 DEF Kept
    <2> QED
      BY <1>3, <2>1, <2>2, <2>3
  <1> HIDE DEF Closing, Tail3
  <1>7. PICK q : q = [tail EXCEPT !.interest = FALSE]
    OBVIOUS
  <1>8. tail \in ChannelState /\ FALSE \in BOOLEAN
    BY <1>6 DEF OK
  <1>9. /\ q \in ChannelState /\ q.interest = FALSE /\ q.refCount = c.refCount
        /\ q.detached = c.detached /\ q.open = c.open /\ q.flags = tail.flags
        /\ q.owed = tail.owed /\ q.unreported = tail.unreported
        /\ q.events = tail.events /\ q.eventQueued = tail.eventQueued
        /\ q.watch = tail.watch
    BY <1>6, <1>7, <1>8 DEF ChannelState, Kept
  <1>10. SameBytes(tail, q)
    BY <1>7, <1>8 DEF ChannelState, SameBytes
  <1>11. OK(q, m)
    BY <1>6, <1>9, <1>10, StillOK DEF Has
  <1>12. /\ d = WithFlags(q, q.flags \union {"CLOSED"})
         /\ q.flags \union {"CLOSED"} \in SUBSET Flags
    BY <1>4, <1>7, <1>9, FieldFacts DEF SetFlag, WithFlags, Flags
  <1>13. /\ OK(d, m) /\ d.curOut = q.curOut /\ SameReport(q, d)
         /\ d.flags = q.flags \union {"CLOSED"} /\ d.interest = FALSE
         /\ d.refCount = c.refCount /\ d.detached = c.detached /\ d.open = c.open
    <2>1. "BG_FLUSH" \in q.flags \union {"CLOSED"} => "BG_FLUSH" \in q.flags
      OBVIOUS
    <2> QED
      BY <1>9, <1>11, <1>12, <2>1, FlagsFacts
  <1>14. /\ OK(x, m) /\ Len(x.curOut) < BufSize /\ Kept(d, x) /\ ShutAtLast(d, x)
         /\ Accounted(d, x, FALSE)
    <2>1. d.curOut = c.curOut
      BY <1>6, <1>10, <1>13 DEF SameBytes
    <2>2. Len(d.curOut) <= BufSize
      BY <1>2, <2>1
    <2> QED
      BY <1>13, <2>2, FlushFacts
  <1>15. PICK code \in {"ok", "error"} :
            r = [x EXCEPT !.code = code] /\ code = IF sticky THEN "error" ELSE x.code
    BY <1>5, <1>14, FieldFacts DEF OK
  <1>16. x \in ChannelState
    BY <1>14 DEF OK
  <1>17. /\ r \in ChannelState /\ SameBytes(x, r) /\ Kept(x, r) /\ r.open = x.open
         /\ r.flags = x.flags /\ r.watch = x.watch /\ r.code = code
         /\ r.events = x.events /\ r.eventQueued = x.eventQueued
         /\ r.owed = x.owed /\ r.unreported = x.unreported
    BY <1>15, <1>16 DEF ChannelState, SameBytes, Kept, Has
  <1>18. OK(r, m)
    BY <1>14, <1>17, StillOK DEF Has
  <1>19. ASSUME Answered(c) PROVE Answered(Told(r))
    <2>1. Answered(d)
      BY <1>6, <1>9, <1>13, <1>19 DEF Answered, SameReport, Has, Kept
    <2>2. PICK t : t = Told(r)
      OBVIOUS
    <2>3. Kept(d, r)
      BY <1>14, <1>17 DEF Kept
    <2>4. Accounted(d, r, FALSE)
      BY <1>14, <1>15, <1>17 DEF Accounted, Kept
    <2> QED
      BY <1>18, <2>1, <2>2, <2>3, <2>4, AnsweredByResult
  <1>20. r.open = c.open \/ r.refCount = 0
    BY <1>13, <1>14, <1>17 DEF ShutAtLast, Kept
  <1> QED
    BY <1>13, <1>14, <1>17, <1>18, <1>19, <1>20 DEF Kept, SameBytes

-----------------------------------------------------------------------------
(***************************************************************************)
(* The steps.                                                              *)
(***************************************************************************)
LEMMA InvFacts ==
  ASSUME IInv
  PROVE  /\ chan \in ChannelState /\ next \in Nat \ {0} /\ Len(chan.curOut) \in Nat
         /\ IsFiniteSet(registered) /\ handlers \subseteq Interps
         /\ chan.refCount = 0 <=> registered = {}
  <1>1. chan \in ChannelState /\ next \in Nat \ {0}
    BY DEF IInv, ChanInv, OK
  <1>2. Len(chan.curOut) \in Nat
    BY <1>1, FieldFacts, LenProperties
  <1>3. registered \subseteq Interps /\ handlers \subseteq Interps
    BY DEF IInv, WorldInv
  <1>4. IsFiniteSet(registered)
    BY <1>3, FS_Subset
  <1>5. chan.refCount = 0 <=> registered = {}
    BY <1>4, FS_EmptySet DEF IInv, WorldInv
  <1> QED
    BY <1>1, <1>2, <1>3, <1>4, <1>5

\* A step that leaves the tables and the handlers alone.
LEMMA ChannelStep ==
  ASSUME IInv, UNCHANGED <<registered, alive, handlers>>,
         FramesOK(frames', handlers'),
         OK(chan', next'), Answered(chan'), Len(chan'.curOut) < BufSize,
         next' \in 1 .. MaxBytes + 1,
         chan'.refCount = chan.refCount, chan'.interest = chan.interest,
         chan'.open = chan.open \/ chan'.refCount = 0
  PROVE  IInv'
  <1>1. chan'.open = FALSE => registered' = {}
    BY InvFacts DEF IInv, WorldInv
  <1> QED
    BY <1>1 DEF IInv, ChanInv, WorldInv

LEMMA SameFrames ==
  ASSUME IInv, UNCHANGED <<frames, handlers>>
  PROVE  FramesOK(frames', handlers')
  BY DEF IInv, WorldInv

LEMMA WriteStep ==
  ASSUME IInv, NEW n \in 1 .. BufSize, Write(n)
  PROVE  IInv'
  <1>1. /\ OK(chan, next) /\ Answered(chan) /\ Len(chan.curOut) < BufSize
        /\ next \in 1 .. MaxBytes + 1 /\ next \in Nat \ {0}
        /\ next + n - 1 <= MaxBytes
    BY InvFacts DEF IInv, ChanInv, Write
  <1>2. UNCHANGED <<registered, alive, handlers>> /\ FramesOK(frames', handlers')
    BY SameFrames DEF Write
  <1>3. CASE Refused(chan)
    <2>1. chan' = CheckChannelErrors(chan) /\ next' = next
      BY <1>3 DEF Write
    <2>2. /\ OK(chan', next) /\ chan'.curOut = chan.curOut /\ Kept(chan, chan')
          /\ chan'.open = chan.open /\ Answered(chan')
      BY <1>1, <2>1, CheckFacts
    <2> QED
      BY <1>1, <1>2, <2>1, <2>2, ChannelStep DEF Kept
  <1>4. CASE ~Refused(chan)
    <2>1. PICK r \in Put(chan, next, n) :
             chan' = Told(r) /\ next' = next + PutBytes(chan, r, n)
      BY <1>4 DEF Write
    <2>2. PICK k : k = PutBytes(chan, r, n)
      OBVIOUS
    <2>3. /\ k \in 0 .. n /\ OK(r, next + k) /\ Len(r.curOut) < BufSize
          /\ Kept(chan, r) /\ ShutAtLast(chan, r) /\ Accounted(chan, r, FALSE)
      BY <1>1, <2>2, PutFacts
    <2>4. /\ OK(chan', next + k) /\ chan'.curOut = r.curOut /\ Kept(r, chan')
          /\ chan'.open = r.open
      BY <2>1, <2>3, ToldFacts
    <2>5. Answered(chan')
      BY <1>1, <2>1, <2>3, AnsweredByResult
    <2>6. next' = next + k /\ next' \in 1 .. MaxBytes + 1
      BY <1>1, <2>1, <2>2, <2>3
    <2>7. chan'.open = chan.open \/ chan'.refCount = 0
      BY <2>3, <2>4 DEF ShutAtLast, Kept
    <2> QED
      BY <1>2, <2>3, <2>4, <2>5, <2>6, <2>7, ChannelStep DEF Kept
  <1> QED
    BY <1>3, <1>4

\* A flush whose caller is told of the error.
LEMMA FlushedAndTold ==
  ASSUME NEW c, NEW m \in Nat \ {0}, OK(c, m), Len(c.curOut) < BufSize, Answered(c),
         NEW r \in FlushChannel(c, FALSE), NEW t, t = Told(r)
  PROVE  /\ OK(t, m) /\ Answered(t) /\ Len(t.curOut) < BufSize /\ Kept(c, t)
         /\ t.open = c.open \/ t.refCount = 0
  <1>1. Len(c.curOut) <= BufSize
    BY FieldFacts, LenProperties DEF OK
  <1>2. /\ OK(r, m) /\ Len(r.curOut) < BufSize
        /\ Kept(c, r) /\ ShutAtLast(c, r) /\ Accounted(c, r, FALSE)
    BY <1>1, FlushFacts
  <1>3. OK(t, m) /\ t.curOut = r.curOut /\ Kept(r, t) /\ t.open = r.open
    BY <1>2, ToldFacts
  <1>4. Answered(t)
    BY <1>2, AnsweredByResult
  <1>5. Kept(c, t)
    BY <1>2, <1>3 DEF Kept
  <1> QED
    BY <1>2, <1>3, <1>4, <1>5 DEF ShutAtLast, Kept

LEMMA FlushStep ==
  ASSUME IInv, Flush
  PROVE  IInv'
  <1>1. /\ OK(chan, next) /\ Answered(chan) /\ Len(chan.curOut) < BufSize
        /\ next \in 1 .. MaxBytes + 1 /\ next \in Nat \ {0} /\ next' = next
    BY InvFacts DEF IInv, ChanInv, Flush
  <1>2. UNCHANGED <<registered, alive, handlers>> /\ FramesOK(frames', handlers')
    BY SameFrames DEF Flush
  <1>3. CASE Refused(chan)
    <2>1. chan' = CheckChannelErrors(chan)
      BY <1>3 DEF Flush
    <2>2. /\ OK(chan', next) /\ chan'.curOut = chan.curOut /\ Kept(chan, chan')
          /\ chan'.open = chan.open /\ Answered(chan')
      BY <1>1, <2>1, CheckFacts
    <2> QED
      BY <1>1, <1>2, <2>2, ChannelStep DEF Kept
  <1>4. CASE ~Refused(chan)
    <2>1. PICK r \in FlushChannel(chan, FALSE) : chan' = Told(r)
      BY <1>4 DEF Flush
    <2>2. /\ OK(chan', next) /\ Answered(chan') /\ Len(chan'.curOut) < BufSize
          /\ Kept(chan, chan')
          /\ chan'.open = chan.open \/ chan'.refCount = 0
      BY <1>1, <2>1, FlushedAndTold
    <2> QED
      BY <1>1, <1>2, <2>1, <2>2, ChannelStep DEF Kept
  <1> QED
    BY <1>3, <1>4

LEMMA SetBlockModeStep ==
  ASSUME IInv, NEW blocking \in BOOLEAN, SetBlockMode(blocking)
  PROVE  IInv'
  <1>1. /\ OK(chan, next) /\ Answered(chan) /\ Len(chan.curOut) < BufSize
        /\ next \in 1 .. MaxBytes + 1 /\ next' = next /\ chan.flags \in SUBSET Flags
    BY InvFacts, FieldFacts DEF IInv, ChanInv, SetBlockMode
  <1>2. UNCHANGED <<registered, alive, handlers>> /\ FramesOK(frames', handlers')
    BY SameFrames DEF SetBlockMode
  <1>3. PICK fl : fl = IF blocking THEN chan.flags \ {"NONBLOCKING", "BG_FLUSH"}
                       ELSE chan.flags \union {"NONBLOCKING"}
    OBVIOUS
  <1>4. chan' = WithFlags(chan, fl)
    BY <1>1, <1>3, InvFacts DEF SetBlockMode, WithFlags, ResetFlags, SetFlag, ChannelState
  <1>5. /\ fl \in SUBSET Flags /\ ("BG_FLUSH" \in fl => "BG_FLUSH" \in chan.flags)
        /\ "CLOSEDWRITE" \in chan.flags => "CLOSEDWRITE" \in fl
    BY <1>1, <1>3 DEF Flags
  <1>6. /\ OK(chan', next) /\ chan'.curOut = chan.curOut /\ SameReport(chan, chan')
        /\ chan'.flags = fl /\ chan'.interest = chan.interest
        /\ chan'.refCount = chan.refCount /\ chan'.detached = chan.detached
        /\ chan'.open = chan.open
    BY <1>1, <1>4, <1>5, FlagsFacts
  <1>7. Answered(chan')
    BY <1>1, <1>5, <1>6 DEF Answered, SameReport, Has
  <1> QED
    BY <1>1, <1>2, <1>6, <1>7, ChannelStep

LEMMA CloseWriteStep ==
  ASSUME IInv, CloseWrite
  PROVE  IInv'
  <1>1. /\ OK(chan, next) /\ Answered(chan) /\ Len(chan.curOut) < BufSize
        /\ next \in 1 .. MaxBytes + 1 /\ next \in Nat \ {0} /\ next' = next
        /\ chan.flags \in SUBSET Flags
    BY InvFacts, FieldFacts DEF IInv, ChanInv, CloseWrite
  <1>2. UNCHANGED <<registered, alive, handlers>> /\ FramesOK(frames', handlers')
    BY SameFrames DEF CloseWrite
  <1>3. PICK c, fl : c = SetFlag(chan, "CLOSEDWRITE") /\ fl = chan.flags \union {"CLOSEDWRITE"}
    OBVIOUS
  <1>4. /\ c = WithFlags(chan, fl) /\ fl \in SUBSET Flags
        /\ "BG_FLUSH" \in fl => "BG_FLUSH" \in chan.flags
    BY <1>1, <1>3 DEF SetFlag, WithFlags, Flags
  <1>5. /\ OK(c, next) /\ c.curOut = chan.curOut /\ c.flags = fl
        /\ c.interest = chan.interest /\ c.refCount = chan.refCount
        /\ c.open = chan.open
    BY <1>1, <1>4, FlagsFacts
  <1>6. Answered(c)
    BY <1>3, <1>5 DEF Answered, Has
  <1>7. CASE chan' = c
    BY <1>1, <1>2, <1>5, <1>6, <1>7, ChannelStep
  <1>8. ASSUME NEW r \in FlushChannel(c, FALSE), chan' = Told(r)
        PROVE  IInv'
    <2>1. Len(c.curOut) < BufSize
      BY <1>1, <1>5
    <2>2. /\ OK(chan', next) /\ Answered(chan') /\ Len(chan'.curOut) < BufSize
          /\ Kept(c, chan')
          /\ chan'.open = c.open \/ chan'.refCount = 0
      BY <1>1, <1>5, <1>6, <1>8, <2>1, FlushedAndTold
    <2>3. /\ chan'.refCount = chan.refCount /\ chan'.interest = chan.interest
          /\ chan'.open = chan.open \/ chan'.refCount = 0
      BY <1>5, <2>2 DEF Kept
    <2> QED
      BY <1>1, <1>2, <2>2, <2>3, ChannelStep
  <1> QED
    BY <1>3, <1>7, <1>8 DEF CloseWrite

\* The device alone.
LEMMA DeviceStep ==
  ASSUME IInv, DeviceDrains \/ DeviceBreaks
  PROVE  IInv'
  <1>1. /\ OK(chan, next) /\ Answered(chan) /\ Len(chan.curOut) < BufSize
        /\ next \in 1 .. MaxBytes + 1 /\ next' = next /\ chan \in ChannelState
    BY InvFacts DEF IInv, ChanInv, DeviceDrains, DeviceBreaks
  <1>2. UNCHANGED <<registered, alive, handlers>> /\ FramesOK(frames', handlers')
    BY SameFrames DEF DeviceDrains, DeviceBreaks
  <1>3. PICK d \in {"ready", "full", "broken"} : chan' = [chan EXCEPT !.device = d]
    BY DEF DeviceDrains, DeviceBreaks
  <1>4. /\ chan' \in ChannelState /\ SameBytes(chan, chan') /\ SameReport(chan, chan')
        /\ Kept(chan, chan') /\ chan'.open = chan.open /\ chan'.flags = chan.flags
        /\ chan'.events = chan.events /\ chan'.eventQueued = chan.eventQueued
        /\ chan'.watch = chan.watch
    BY <1>1, <1>3 DEF ChannelState, SameBytes, SameReport, Kept, Has
  <1>5. OK(chan', next)
    BY <1>1, <1>4, StillOK DEF Has
  <1>6. Answered(chan')
    BY <1>1, <1>4 DEF Answered, SameReport, Kept
  <1> QED
    BY <1>1, <1>2, <1>4, <1>5, <1>6, ChannelStep DEF Kept, SameBytes

\* A deleted handler disappears from the calls in progress.
LEMMA WithoutFacts ==
  ASSUME NEW fs, NEW hs, FramesOK(fs, hs), NEW i
  PROVE  FramesOK(Without(fs, i), hs \ {i})
  <1>1. /\ fs \in Seq(SUBSET Interps) /\ Len(fs) \in Nat /\ DOMAIN fs = 1 .. Len(fs)
        /\ \A f \in 1 .. Len(fs) : fs[f] \in SUBSET Interps /\ fs[f] \subseteq hs
    BY LenProperties, ElementOfSeq DEF FramesOK
  <1>2. PICK n, t : n = Len(fs) /\ t = [f \in 1 .. n |-> fs[f] \ {i}]
    OBVIOUS
  <1>3. Without(fs, i) = t /\ n \in Nat
    BY <1>1, <1>2 DEF Without
  <1>4. \A f \in 1 .. n : t[f] \in SUBSET Interps /\ t[f] \subseteq hs \ {i}
    BY <1>1, <1>2
  <1>5. t \in Seq(SUBSET Interps) /\ Len(t) = n
    <2>1. \A f \in 1 .. n : fs[f] \ {i} \in SUBSET Interps
      BY <1>1, <1>2
    <2>2. [f \in 1 .. n |-> fs[f] \ {i}] \in Seq(SUBSET Interps)
      BY ONLY <1>3, <2>1
    <2>3. t \in Seq(SUBSET Interps) /\ DOMAIN t = 1 .. n
      BY <1>2, <2>2
    <2> QED
      BY <1>3, <2>3, LenProperties
  <1>6. n <= MaxDepth
    BY <1>2 DEF FramesOK
  <1> QED
    BY <1>3, <1>4, <1>5, <1>6 DEF FramesOK

LEMMA HandlerStep ==
  ASSUME IInv, NEW i \in Interps, CreateHandler(i) \/ DeleteHandler(i)
  PROVE  IInv'
  <1>1. /\ OK(chan, next) /\ Answered(chan) /\ Len(chan.curOut) < BufSize
        /\ next \in 1 .. MaxBytes + 1 /\ next' = next
        /\ UNCHANGED <<registered, alive>>
        /\ chan' = UpdateInterest(Interested(chan, handlers'))
        /\ FramesOK(frames, handlers) /\ handlers \subseteq registered
    BY DEF IInv, ChanInv, WorldInv, CreateHandler, DeleteHandler
  <1>2. /\ OK(chan', next) /\ chan'.curOut = chan.curOut /\ SameReport(chan, chan')
        /\ chan'.refCount = chan.refCount /\ chan'.detached = chan.detached
        /\ chan'.open = chan.open /\ chan'.flags = chan.flags
        /\ chan'.interest = TRUE <=> handlers' # {}
    <2>1. PICK c, hs, m : c = chan' /\ hs = handlers' /\ m = next
      OBVIOUS
    <2>2. OK(chan, m) /\ c = UpdateInterest(Interested(chan, hs))
      BY <1>1, <2>1
    <2>3. Serving(chan, m, hs, c)
      BY <2>2, InterestedFacts
    <2> QED
      BY <2>1, <2>3 DEF Serving
  <1>3. Answered(chan')
    BY <1>1, <1>2 DEF Answered, SameReport, Has
  <1>4. handlers' \subseteq registered /\ FramesOK(frames', handlers')
    <2>1. CASE CreateHandler(i)
      BY <1>1, <2>1 DEF CreateHandler, FramesOK
    <2>2. CASE DeleteHandler(i)
      <3>1. handlers' = handlers \ {i} /\ frames' = Without(frames, i)
        BY <2>2 DEF DeleteHandler
      <3>2. FramesOK(Without(frames, i), handlers \ {i})
        BY <1>1, WithoutFacts
      <3> QED
        BY <1>1, <3>1, <3>2
    <2> QED
      BY <2>1, <2>2
  <1>5. ChanInv'
    BY <1>1, <1>2, <1>3 DEF ChanInv
  <1>6. WorldInv'
    BY <1>1, <1>2, <1>4 DEF IInv, WorldInv
  <1> QED
    BY <1>5, <1>6 DEF IInv

\* The table of an interpreter gives up the channel.
LEMMA DetachedFacts ==
  ASSUME IInv, NEW i \in registered, NEW c, c = Detached(chan, i)
  PROVE  /\ OK(c, next) /\ Answered(c) /\ c.curOut = chan.curOut
         /\ c.open = TRUE /\ c.flags = chan.flags
         /\ c.refCount = Cardinality(registered \ {i})
         /\ c.interest = TRUE <=> handlers \ {i} # {}
         /\ c.refCount = 0 <=> registered \ {i} = {}
  <1>1. /\ OK(chan, next) /\ Answered(chan) /\ chan.open = TRUE
        /\ chan.interest = TRUE <=> handlers # {}
        /\ chan.refCount = Cardinality(registered) /\ IsFiniteSet(registered)
    BY InvFacts, FieldFacts DEF IInv, ChanInv, WorldInv
  <1>2. PICK d : d = IF i \in handlers
                     THEN UpdateInterest(Interested(chan, handlers \ {i})) ELSE chan
    OBVIOUS
  <1>3. /\ OK(d, next) /\ d.curOut = chan.curOut /\ SameReport(chan, d)
        /\ d.refCount = chan.refCount /\ d.detached = chan.detached
        /\ d.open = chan.open /\ d.flags = chan.flags
        /\ d.interest = TRUE <=> handlers \ {i} # {}
    <2>1. CASE i \in handlers
      <3>1. PICK hs : hs = handlers \ {i}
        OBVIOUS
      <3>2. d = UpdateInterest(Interested(chan, hs))
        BY <1>2, <2>1, <3>1
      <3>3. Serving(chan, next, hs, d)
        BY <1>1, <3>2, InterestedFacts
      <3> QED
        BY <3>1, <3>3 DEF Serving
    <2>2. CASE i \notin handlers
      <3>1. d = chan /\ handlers \ {i} = handlers
        BY <1>2, <2>2
      <3> QED
        BY <1>1, <3>1 DEF SameReport
    <2> QED
      BY <2>1, <2>2
  <1>4. c = [d EXCEPT !.refCount = d.refCount - 1]
    BY <1>2 DEF Detached
  <1>5. /\ Cardinality(registered \ {i}) = chan.refCount - 1
        /\ IsFiniteSet(registered \ {i}) /\ Cardinality(registered \ {i}) \in Nat
        /\ Cardinality(registered \ {i}) = 0 <=> registered \ {i} = {}
    <2>1. Cardinality(registered \ {i}) = chan.refCount - 1 /\ IsFiniteSet(registered \ {i})
      BY <1>1, FS_RemoveElement
    <2> QED
      BY <2>1, FS_CardinalityType, FS_EmptySet
  <1>6. d \in ChannelState /\ d.refCount - 1 \in Nat
    BY <1>3, <1>5 DEF OK
  <1>7. /\ c \in ChannelState /\ SameBytes(d, c) /\ SameReport(d, c)
        /\ c.refCount = d.refCount - 1 /\ c.interest = d.interest
        /\ c.detached = d.detached /\ c.open = d.open /\ c.flags = d.flags
        /\ c.events = d.events /\ c.eventQueued = d.eventQueued /\ c.watch = d.watch
    BY <1>4, <1>6 DEF ChannelState, SameBytes, SameReport
  <1>8. OK(c, next)
    BY <1>3, <1>7, StillOK DEF Has
  <1>9. Answered(c)
    BY <1>1, <1>3, <1>7 DEF Answered, SameReport, Has
  <1> QED
    BY <1>1, <1>3, <1>5, <1>7, <1>8, <1>9 DEF SameBytes

LEMMA TableStep ==
  ASSUME IInv, NEW i \in registered,
         alive' \in SUBSET Interps, registered' \subseteq alive',
         registered' = registered \ {i}, handlers' = handlers \ {i},
         frames' = Without(frames, i), next' = next,
         OK(chan', next), Answered(chan'), Len(chan'.curOut) < BufSize,
         chan'.refCount = Cardinality(registered \ {i}),
         chan'.interest = TRUE <=> handlers \ {i} # {},
         chan'.open = TRUE \/ registered \ {i} = {}
  PROVE  IInv'
  <1>1. FramesOK(frames', handlers')
    BY WithoutFacts DEF IInv, WorldInv
  <1>2. handlers' \subseteq registered'
    BY DEF IInv, WorldInv
  <1>3. ChanInv'
    BY DEF IInv, ChanInv
  <1>4. WorldInv'
    BY <1>1, <1>2 DEF WorldInv
  <1> QED
    BY <1>3, <1>4 DEF IInv

WithDetached(c, v) == [c EXCEPT !.detached = v]
OnlyDetached(c, m, v, r) ==
    /\ OK(r, m) /\ r.curOut = c.curOut /\ r.detached = v
    /\ r.owed = c.owed /\ r.unreported = c.unreported /\ r.flags = c.flags
    /\ r.interest = c.interest /\ r.refCount = c.refCount /\ r.open = c.open

LEMMA DetachedFlag ==
  ASSUME NEW c, NEW m, OK(c, m), NEW v \in BOOLEAN, NEW r, r = WithDetached(c, v)
  PROVE  OnlyDetached(c, m, v, r)
  <1>1. c \in ChannelState
    BY DEF OK
  <1>2. /\ r \in ChannelState /\ SameBytes(c, r)
        /\ r.events = c.events /\ r.eventQueued = c.eventQueued /\ r.watch = c.watch
        /\ r.detached = v /\ r.flags = c.flags
        /\ r.owed = c.owed /\ r.unreported = c.unreported
        /\ r.interest = c.interest /\ r.refCount = c.refCount /\ r.open = c.open
    BY <1>1 DEF WithDetached, ChannelState, SameBytes
  <1>3. OK(r, m)
    BY <1>2, StillOK DEF Has
  <1> QED
    BY <1>2, <1>3 DEF SameBytes, OnlyDetached

LEMMA UnregisterStep ==
  ASSUME IInv, NEW i \in Interps, Unregister(i)
  PROVE  IInv'
  <1>1. PICK c : c = Detached(chan, i)
    OBVIOUS
  <1>2. /\ i \in registered /\ registered' = registered \ {i}
        /\ handlers' = handlers \ {i} /\ frames' = Without(frames, i)
        /\ alive' = alive /\ next' = next
    BY DEF Unregister
  <1>3. /\ Len(chan.curOut) < BufSize /\ next \in Nat \ {0} /\ chan \in ChannelState
        /\ alive \in SUBSET Interps /\ registered \subseteq alive
        /\ handlers \subseteq registered
    BY InvFacts DEF IInv, ChanInv, WorldInv
  <1>4. /\ OK(c, next) /\ Answered(c) /\ c.curOut = chan.curOut
        /\ c.open = TRUE /\ c.flags = chan.flags
        /\ c.refCount = Cardinality(registered \ {i})
        /\ c.interest = TRUE <=> handlers \ {i} # {}
        /\ c.refCount = 0 <=> registered \ {i} = {}
    BY <1>1, <1>2, DetachedFacts
  <1>5. c.refCount \in Nat /\ c.flags \in SUBSET Flags
    BY <1>4, FieldFacts DEF OK
  <1>6. CASE c.refCount > 0
    <2>1. chan' = c
      BY <1>1, <1>6 DEF Unregister
    <2> QED
      BY <1>2, <1>3, <1>4, <2>1, TableStep
  <1>7. CASE ~(c.refCount > 0) /\ Has(c, "BG_FLUSH")
    <2>1. PICK s, fl : s = SetFlag(c, "CLOSED") /\ fl = c.flags \union {"CLOSED"}
      OBVIOUS
    <2>2. chan' = [s EXCEPT !.detached = TRUE]
      BY <1>1, <1>7, <2>1 DEF Unregister
    <2>3. /\ s = WithFlags(c, fl) /\ fl \in SUBSET Flags
          /\ "BG_FLUSH" \in fl => "BG_FLUSH" \in c.flags
      BY <1>5, <2>1 DEF SetFlag, WithFlags, Flags
    <2>4. /\ OK(s, next) /\ s.curOut = c.curOut /\ s.interest = c.interest
          /\ s.refCount = c.refCount /\ s.open = c.open
      BY <1>4, <2>3, FlagsFacts
    <2>5. /\ OK(chan', next) /\ chan'.curOut = s.curOut /\ chan'.detached = TRUE
          /\ chan'.interest = s.interest /\ chan'.refCount = s.refCount
          /\ chan'.open = s.open
      <3>1. chan' = WithDetached(s, TRUE)
        BY <2>2 DEF WithDetached
      <3>2. OnlyDetached(s, next, TRUE, chan')
        BY <2>4, <3>1, DetachedFlag
      <3> QED
        BY <3>2 DEF OnlyDetached
    <2>6. Answered(chan')
      BY <2>5 DEF Answered
    <2> QED
      BY <1>2, <1>3, <1>4, <2>4, <2>5, <2>6, TableStep
  <1>8. CASE ~(c.refCount > 0) /\ ~Has(c, "BG_FLUSH")
    <2>1. PICK r \in TclClose(c) : chan' = [Told(r) EXCEPT !.detached = @ \/ r.open]
      BY <1>1, <1>8 DEF Unregister
    <2>2. /\ OK(r, next) /\ Len(r.curOut) < BufSize /\ r.interest = FALSE
          /\ r.refCount = c.refCount /\ r.detached = c.detached
          /\ Answered(c) => Answered(Told(r))
      BY <1>3, <1>4, CloseFacts
    <2>3. PICK t, v : t = Told(r) /\ v = (t.detached \/ r.open)
      OBVIOUS
    <2>4. OK(t, next) /\ t.curOut = r.curOut /\ Kept(r, t)
      BY <2>2, <2>3, ToldFacts
    <2>5. v \in BOOLEAN /\ (t.detached = TRUE => v = TRUE)
      BY <2>3, <2>4, FieldFacts DEF OK
    <2>6. chan' = WithDetached(t, v)
      BY <2>1, <2>3 DEF WithDetached
    <2>7. /\ OK(chan', next) /\ chan'.curOut = t.curOut /\ chan'.detached = v
          /\ chan'.owed = t.owed /\ chan'.unreported = t.unreported
          /\ chan'.flags = t.flags /\ chan'.interest = t.interest
          /\ chan'.refCount = t.refCount
      <3>1. OnlyDetached(t, next, v, chan')
        BY <2>4, <2>5, <2>6, DetachedFlag
      <3> QED
        BY <3>1 DEF OnlyDetached
    <2>8. Answered(t)
      BY <1>4, <2>2, <2>3
    <2>9. Answered(chan')
      BY <2>5, <2>7, <2>8 DEF Answered, Has
    <2>10. c.refCount = 0 /\ registered \ {i} = {}
      BY <1>4, <1>5, <1>8
    <2>11. handlers \ {i} = {} /\ chan'.interest = FALSE
      BY <1>3, <2>2, <2>4, <2>7, <2>10 DEF Kept
    <2> QED
      BY <1>2, <1>3, <1>4, <2>2, <2>4, <2>7, <2>9, <2>10, <2>11, TableStep DEF Kept
  <1> QED
    BY <1>6, <1>7, <1>8

LEMMA DeleteChannelTableStep ==
  ASSUME IInv, NEW i \in Interps, DeleteChannelTable(i)
  PROVE  IInv'
  <1>1. PICK c : c = Detached(chan, i)
    OBVIOUS
  <1>2. /\ registered' = registered \ {i} /\ handlers' = handlers \ {i}
        /\ frames' = Without(frames, i) /\ alive' = alive \ {i} /\ next' = next
    BY DEF DeleteChannelTable
  <1>3. /\ Len(chan.curOut) < BufSize /\ next \in Nat \ {0} /\ chan \in ChannelState
        /\ alive \in SUBSET Interps /\ registered \subseteq alive
        /\ handlers \subseteq registered
    BY InvFacts DEF IInv, ChanInv, WorldInv
  <1>4. alive' \in SUBSET Interps /\ registered' \subseteq alive'
    BY <1>2, <1>3
  <1>5. CASE i \notin registered
    <2>1. chan' = chan
      BY <1>5 DEF DeleteChannelTable
    <2>2. registered' = registered /\ handlers' = handlers
      BY <1>2, <1>3, <1>5
    <2>3. FramesOK(frames', handlers')
      BY <1>2, WithoutFacts DEF IInv, WorldInv
    <2>4. ChanInv'
      BY <1>2, <2>1 DEF IInv, ChanInv
    <2>5. WorldInv'
      BY <1>4, <2>1, <2>2, <2>3 DEF IInv, WorldInv
    <2> QED
      BY <2>4, <2>5 DEF IInv
  <1>6. CASE i \in registered
    <2>1. /\ OK(c, next) /\ Answered(c) /\ c.curOut = chan.curOut
          /\ c.open = TRUE /\ c.flags = chan.flags
          /\ c.refCount = Cardinality(registered \ {i})
          /\ c.interest = TRUE <=> handlers \ {i} # {}
          /\ c.refCount = 0 <=> registered \ {i} = {}
      BY <1>1, <1>6, DetachedFacts
    <2>2. c.refCount \in Nat
      BY <2>1, FieldFacts DEF OK
    <2>3. CASE c.refCount > 0
      <3>1. chan' = c
        BY <1>1, <1>6, <2>3 DEF DeleteChannelTable
      <3> QED
        BY <1>2, <1>3, <1>4, <1>6, <2>1, <3>1, TableStep
    <2>4. CASE ~(c.refCount > 0) /\ Has(c, "BG_FLUSH")
      <3>1. chan' = WithDetached(c, TRUE)
        BY <1>1, <1>6, <2>4 DEF DeleteChannelTable, WithDetached
      <3>2. /\ OK(chan', next) /\ chan'.curOut = c.curOut /\ chan'.detached = TRUE
            /\ chan'.interest = c.interest /\ chan'.refCount = c.refCount
            /\ chan'.open = c.open
        <4>1. OnlyDetached(c, next, TRUE, chan')
          BY <2>1, <3>1, DetachedFlag
        <4> QED
          BY <4>1 DEF OnlyDetached
      <3>3. Answered(chan')
        BY <3>2 DEF Answered
      <3> QED
        BY <1>2, <1>3, <1>4, <1>6, <2>1, <3>2, <3>3, TableStep
    <2>5. CASE ~(c.refCount > 0) /\ ~Has(c, "BG_FLUSH")
      <3>1. PICK r \in TclClose(c) : chan' = WithDetached(r, TRUE)
        BY <1>1, <1>6, <2>5 DEF DeleteChannelTable, WithDetached
      <3>2. /\ OK(r, next) /\ Len(r.curOut) < BufSize /\ r.interest = FALSE
            /\ r.refCount = c.refCount
        BY <1>3, <2>1, CloseFacts
      <3>3. /\ OK(chan', next) /\ chan'.curOut = r.curOut /\ chan'.detached = TRUE
            /\ chan'.interest = r.interest /\ chan'.refCount = r.refCount
        <4>1. OnlyDetached(r, next, TRUE, chan')
          BY <3>1, <3>2, DetachedFlag
        <4> QED
          BY <4>1 DEF OnlyDetached
      <3>4. Answered(chan')
        BY <3>3 DEF Answered
      <3>5. c.refCount = 0 /\ registered \ {i} = {}
        BY <2>1, <2>2, <2>5
      <3>6. handlers \ {i} = {} /\ chan'.interest = FALSE
        BY <1>3, <3>2, <3>3, <3>5
      <3> QED
        BY <1>2, <1>3, <1>4, <1>6, <2>1, <3>2, <3>3, <3>4, <3>5, <3>6, TableStep
    <2> QED
      BY <2>3, <2>4, <2>5
  <1> QED
    BY <1>5, <1>6

-----------------------------------------------------------------------------
(***************************************************************************)
(* The events.                                                             *)
(***************************************************************************)
LEMMA CalledFrames ==
  ASSUME NEW fs, NEW hs, FramesOK(fs, hs), hs \subseteq Interps, Len(fs) < MaxDepth,
         NEW e, e \subseteq hs
  PROVE  FramesOK(<<e>> \o fs, hs)
  <1>1. PICK a, t : a = <<e>> /\ t = a \o fs
    OBVIOUS
  <1>2. /\ a \in Seq(SUBSET Interps) /\ Len(a) = 1 /\ a[1] = e
        /\ fs \in Seq(SUBSET Interps)
    BY <1>1 DEF FramesOK
  <1>3. Len(fs) \in Nat /\ \A f \in 1 .. Len(fs) : fs[f] \subseteq hs
    BY <1>2, LenProperties DEF FramesOK
  <1>4. /\ t \in Seq(SUBSET Interps) /\ Len(t) = 1 + Len(fs)
        /\ \A f \in 1 .. 1 + Len(fs) : t[f] = IF f <= 1 THEN a[f] ELSE fs[f - 1]
    <2>1. /\ t \in Seq(SUBSET Interps) /\ Len(t) = Len(a) + Len(fs)
          /\ \A f \in 1 .. Len(a) + Len(fs) :
                t[f] = IF f <= Len(a) THEN a[f] ELSE fs[f - Len(a)]
      BY <1>1, <1>2, ConcatFacts
    <2> QED
      BY <1>2, <2>1
  <1>5. \A f \in 1 .. 1 + Len(fs) : t[f] \subseteq hs
    <2> SUFFICES ASSUME NEW f \in 1 .. 1 + Len(fs) PROVE t[f] \subseteq hs
      OBVIOUS
    <2>1. CASE f = 1
      BY <1>2, <1>3, <1>4, <2>1
    <2>2. CASE f # 1
      <3>1. f - 1 \in 1 .. Len(fs) /\ ~(f <= 1)
        BY <1>3, <2>2
      <3> QED
        BY <1>3, <1>4, <3>1
    <2> QED
      BY <2>1, <2>2
  <1>6. Len(t) <= MaxDepth
    BY <1>3, <1>4
  <1> QED
    BY <1>1, <1>4, <1>5, <1>6 DEF FramesOK

\* The handlers are called, or the last of them has returned.
LEMMA CallStep ==
  ASSUME IInv, UNCHANGED <<registered, alive, handlers, next>>,
         NEW c, OK(c, next), Answered(c), Len(c.curOut) < BufSize,
         c.refCount = chan.refCount, c.interest = chan.interest,
         c.open = chan.open \/ c.refCount = 0,
         NEW fs, FramesOK(fs, handlers), Len(fs) < MaxDepth,
         NEW hs, hs \subseteq handlers, Call(c, fs, hs)
  PROVE  IInv'
  <1>1. next \in 1 .. MaxBytes + 1 /\ next' = next /\ handlers' = handlers
    BY DEF IInv, ChanInv
  <1>2. CASE hs = {}
    <2>1. chan' = UpdateInterest(c) /\ frames' = fs
      BY <1>2 DEF Call
    <2>2. /\ OK(chan', next) /\ chan'.curOut = c.curOut /\ SameReport(c, chan')
          /\ Kept(c, chan') /\ chan'.open = c.open
      BY <2>1, UpdatedFacts
    <2>3. Answered(chan')
      BY <2>2 DEF Answered, SameReport, Kept
    <2>4. FramesOK(frames', handlers')
      BY <1>1, <2>1
    <2>5. /\ chan'.refCount = chan.refCount /\ chan'.interest = chan.interest
          /\ chan'.open = chan.open \/ chan'.refCount = 0
          /\ Len(chan'.curOut) < BufSize
      BY <2>2 DEF Kept
    <2> QED
      BY <1>1, <2>2, <2>3, <2>4, <2>5, ChannelStep
  <1>3. CASE hs # {}
    <2>1. PICK i \in hs : chan' = c /\ frames' = <<hs \ {i}>> \o fs
      BY <1>3 DEF Call
    <2>2. PICK e : e = hs \ {i}
      OBVIOUS
    <2>3. e \subseteq handlers /\ handlers \subseteq Interps
      BY <2>2, InvFacts
    <2>4. FramesOK(<<e>> \o fs, handlers)
      BY <2>3, CalledFrames
    <2>5. FramesOK(frames', handlers')
      BY <1>1, <2>1, <2>2, <2>4
    <2> QED
      BY <1>1, <2>1, <2>5, ChannelStep
  <1> QED
    BY <1>2, <1>3

LEMMA NotifyStep ==
  ASSUME IInv, NotifyChannel
  PROVE  IInv'
  <1>1. /\ OK(chan, next) /\ Answered(chan) /\ Len(chan.curOut) < BufSize
        /\ next \in Nat \ {0} /\ Len(chan.curOut) \in Nat
        /\ FramesOK(frames, handlers) /\ Len(frames) < MaxDepth
        /\ UNCHANGED <<registered, alive, handlers, next>>
    BY InvFacts DEF IInv, ChanInv, WorldInv, NotifyChannel
  <1>2. {} \subseteq handlers /\ handlers \subseteq handlers
    OBVIOUS
  <1>3. CASE ~Has(chan, "BG_FLUSH")
    <2>1. Call(chan, frames, handlers)
      BY <1>3 DEF NotifyChannel
    <2> QED
      BY <1>1, <1>2, <2>1, CallStep
  <1>4. CASE Has(chan, "BG_FLUSH")
    <2>1. PICK async \in BOOLEAN : async = TRUE
      OBVIOUS
    <2>2. PICK r \in FlushChannel(chan, async) :
             Call(r, frames, {}) \/ Call(r, frames, handlers)
      BY <1>4, <2>1 DEF NotifyChannel
    <2>3. /\ OK(r, next) /\ Len(r.curOut) < BufSize
          /\ Kept(chan, r) /\ ShutAtLast(chan, r) /\ Accounted(chan, r, async)
      <3>1. Len(chan.curOut) <= BufSize
        BY <1>1
      <3> QED
        BY <1>1, <3>1, FlushFacts
    <2>4. Answered(r)
      BY <1>1, <2>1, <2>3, AnsweredByReport
    <2>5. /\ r.refCount = chan.refCount /\ r.interest = chan.interest
          /\ r.open = chan.open \/ r.refCount = 0
      BY <2>3 DEF Kept, ShutAtLast
    <2>6. PICK hs : hs \subseteq handlers /\ Call(r, frames, hs)
      BY <1>2, <2>2
    <2> QED
      BY <1>1, <2>3, <2>4, <2>5, <2>6, CallStep
  <1> QED
    BY <1>3, <1>4

LEMMA HandlerReturnsStep ==
  ASSUME IInv, HandlerReturns
  PROVE  IInv'
  <1>1. /\ OK(chan, next) /\ Answered(chan) /\ Len(chan.curOut) < BufSize
        /\ FramesOK(frames, handlers) /\ frames # <<>>
        /\ UNCHANGED <<registered, alive, handlers, next>>
    BY DEF IInv, ChanInv, WorldInv, HandlerReturns
  <1>2. PICK fs, hs : fs = Tail(frames) /\ hs = Head(frames)
    OBVIOUS
  <1>3. Call(chan, fs, hs)
    BY <1>2 DEF HandlerReturns
  <1>4. /\ frames \in Seq(SUBSET Interps) /\ Len(frames) \in Nat \ {0}
        /\ Len(frames) <= MaxDepth
        /\ \A f \in 1 .. Len(frames) : frames[f] \subseteq handlers
    BY <1>1, EmptySeq DEF FramesOK
  <1>5. /\ fs \in Seq(SUBSET Interps) /\ Len(fs) = Len(frames) - 1
        /\ \A f \in 1 .. Len(frames) - 1 : fs[f] = frames[f + 1]
    BY <1>1, <1>2, <1>4, TailFacts
  <1>6. hs = frames[1] /\ hs \subseteq handlers
    BY <1>1, <1>2, <1>4
  <1>7. FramesOK(fs, handlers) /\ Len(fs) < MaxDepth
    BY <1>4, <1>5 DEF FramesOK
  <1> QED
    BY <1>1, <1>3, <1>6, <1>7, CallStep

LEMMA ChannelEventStep ==
  ASSUME IInv, ChannelEventProc
  PROVE  IInv'
  <1>1. /\ OK(chan, next) /\ Answered(chan) /\ Len(chan.curOut) < BufSize
        /\ FramesOK(frames, handlers) /\ Len(frames) < MaxDepth
        /\ UNCHANGED <<registered, alive, handlers, next>>
        /\ chan \in ChannelState /\ chan.events > 0
    BY InvFacts DEF IInv, ChanInv, WorldInv, ChannelEventProc
  <1>2. chan.eventQueued = TRUE /\ chan.events = 1
    BY <1>1, FieldFacts DEF OK, EventsOK
  <1>3. PICK n \in Nat : n = chan.events - 1 /\ n = 0
    BY <1>2
  <1>4. PICK c : c = [chan EXCEPT !.events = n, !.eventQueued = FALSE]
    OBVIOUS
  <1>5. /\ c \in ChannelState /\ SameBytes(chan, c) /\ SameReport(chan, c) /\ Kept(chan, c)
        /\ c.events = 0 /\ c.eventQueued = FALSE
        /\ c.open = chan.open /\ c.watch = chan.watch /\ c.flags = chan.flags
    BY <1>1, <1>3, <1>4 DEF ChannelState, SameBytes, SameReport, Kept, Has
  <1>6. PICK q, k : q = [c EXCEPT !.events = k, !.eventQueued = TRUE] /\ k = c.events + 1
    OBVIOUS
  <1>7. k \in Nat /\ k = 1
    BY <1>5, <1>6
  <1>8. /\ q \in ChannelState /\ SameBytes(c, q) /\ SameReport(c, q) /\ Kept(c, q)
        /\ q.events = 1 /\ q.eventQueued = TRUE
        /\ q.open = c.open /\ q.watch = c.watch /\ q.flags = c.flags
    BY <1>5, <1>6, <1>7 DEF ChannelState, SameBytes, SameReport, Kept, Has
  <1>9. /\ Call(c, frames, {}) \/ Call(q, frames, handlers)
    <2>1. q = QueueChannelEvent(c)
      BY <1>6 DEF QueueChannelEvent
    <2>2. \/ Call(QueueChannelEvent(c), frames, handlers)
          \/ chan' = UpdateInterest(c) /\ UNCHANGED frames
      BY <1>3, <1>4 DEF ChannelEventProc
    <2> QED
      BY <2>1, <2>2 DEF Call
  <1>10. PICK d, hs : /\ d = c \/ d = q
                     /\ hs \subseteq handlers /\ Call(d, frames, hs)
    BY <1>9
  <1>11. /\ d \in ChannelState /\ EventsOK(d) /\ SameBytes(chan, d)
         /\ SameReport(chan, d) /\ Kept(chan, d)
         /\ d.open = chan.open /\ d.watch = chan.watch /\ d.flags = chan.flags
    <2>1. EventsOK(c) /\ EventsOK(q)
      BY <1>5, <1>8 DEF EventsOK
    <2>2. SameBytes(chan, q) /\ SameReport(chan, q) /\ Kept(chan, q)
      BY <1>5, <1>8 DEF SameBytes, SameReport, Kept
    <2> QED
      BY <1>5, <1>8, <1>10, <2>1, <2>2
  <1>12. OK(d, next)
    <2>1. Faithful(d, next)
      BY <1>1, <1>11, SameBytesFaithful DEF OK
    <2> QED
      BY <1>1, <1>11, <2>1 DEF OK, Watched, Has
  <1>13. Answered(d)
    BY <1>1, <1>11 DEF Answered, SameReport, Kept
  <1> QED
    BY <1>1, <1>10, <1>11, <1>12, <1>13, CallStep DEF Kept, SameBytes

-----------------------------------------------------------------------------
LEMMA InitIInv ==
  ASSUME Init
  PROVE  IInv
  <1>1. Cardinality(Interps) \in Nat
    BY FS_CardinalityType
  <1>2. <<>> \in Seq(Bytes) /\ <<>> \in Seq(SUBSET Interps) /\ Len(<<>>) = 0
    BY EmptySeq
  <1>3. chan \in ChannelState
    BY <1>1, <1>2 DEF Init, ChannelState, Flags
  <1>4. All(chan) = <<>>
    BY <1>2 DEF Init, All, Buffered
  <1>5. InOrderUpTo(<<>>, {}, 1)
    <2>1. \A x : x \in ToSet(<<>>) <=> \E i \in 1 .. Len(<<>>) : <<>>[i] = x
      BY <1>2, ToSetFacts
    <2>2. \A x : x \notin ToSet(<<>>)
      BY <1>2, <2>1
    <2> QED
      BY <1>2, <2>2 DEF InOrderUpTo, Increasing
  <1>6. OK(chan, next)
    <2>1. chan.lost = {} /\ next = 1
      BY DEF Init
    <2>2. EventsOK(chan) /\ Watched(chan)
      BY DEF Init, EventsOK, Watched, Has
    <2> QED
      BY <1>3, <1>4, <1>5, <2>1, <2>2 DEF OK, Faithful
  <1>7. Answered(chan) /\ Len(chan.curOut) < BufSize /\ next \in 1 .. MaxBytes + 1
    BY <1>2 DEF Init, Answered
  <1>8. FramesOK(frames, handlers)
    BY <1>2 DEF Init, FramesOK
  <1>9. WorldInv
    BY <1>8 DEF Init, WorldInv
  <1> QED
    BY <1>6, <1>7, <1>9 DEF IInv, ChanInv

LEMMA NextIInv ==
  ASSUME IInv, [Next]_vars
  PROVE  IInv'
  <1>1. CASE \E n \in 1 .. BufSize : Write(n)
    BY <1>1, WriteStep
  <1>2. CASE Flush
    BY <1>2, FlushStep
  <1>3. CASE \E blocking \in BOOLEAN : SetBlockMode(blocking)
    BY <1>3, SetBlockModeStep
  <1>4. CASE \E i \in Interps : CreateHandler(i) \/ DeleteHandler(i)
    BY <1>4, HandlerStep
  <1>5. CASE \E i \in Interps : Unregister(i)
    BY <1>5, UnregisterStep
  <1>6. CASE \E i \in Interps : DeleteChannelTable(i)
    BY <1>6, DeleteChannelTableStep
  <1>7. CASE CloseWrite
    BY <1>7, CloseWriteStep
  <1>8. CASE NotifyChannel
    BY <1>8, NotifyStep
  <1>9. CASE HandlerReturns
    BY <1>9, HandlerReturnsStep
  <1>10. CASE ChannelEventProc
    BY <1>10, ChannelEventStep
  <1>11. CASE DeviceDrains \/ DeviceBreaks
    BY <1>11, DeviceStep
  <1>12. CASE UNCHANGED vars
    BY <1>12 DEF vars, IInv, ChanInv, WorldInv
  <1> QED
    BY <1>1, <1>2, <1>3, <1>4, <1>5, <1>6, <1>7, <1>8, <1>9, <1>10, <1>11, <1>12
       DEF Next, ScriptStep, EventStep

\* What the three properties rest on: bytes in order in each intermediate
\* state of an operation, and the channel's picture of tables and handlers.
THEOREM Invariance == Spec => []IInv
  BY InitIInv, NextIInv, PTL DEF Spec

\* Types; no operation leaves a full current buffer, one channel event is
\* queued at most, the reference count and the interest are those of the
\* tables and of the handlers, and the notifier watches the device as long as
\* a background flush of the open channel is scheduled.
THEOREM TypeCorrect == Spec => []TypeOK
  <1>1. ASSUME IInv PROVE TypeOK
    <2>1. /\ chan \in ChannelState /\ Len(chan.curOut) < BufSize
          /\ Len(chan.curOut) \in Nat
      BY <1>1, InvFacts DEF IInv, ChanInv
    <2>2. /\ chan.eventQueued \in BOOLEAN /\ chan.interest \in BOOLEAN
          /\ chan.open \in BOOLEAN /\ chan.watch \in BOOLEAN
      BY <2>1, FieldFacts
    <2>3. chan.events = IF chan.eventQueued THEN 1 ELSE 0
      BY <1>1, <2>2 DEF IInv, ChanInv, OK, EventsOK
    <2>4. chan.interest = (handlers # {})
      BY <1>1, <2>2 DEF IInv, WorldInv
    <2>5. chan.open /\ Has(chan, "BG_FLUSH") => chan.watch
      BY <1>1, <2>2 DEF IInv, ChanInv, OK, Watched
    <2>6. ~IsBufferFull(chan.curOut)
      BY <2>1 DEF IsBufferFull
    <2>7. Len(frames) <= MaxDepth /\ \A f \in DOMAIN frames : frames[f] \subseteq handlers
      BY <1>1, LenProperties DEF IInv, WorldInv, FramesOK
    <2> QED
      BY <1>1, <2>1, <2>3, <2>4, <2>5, <2>6, <2>7 DEF IInv, WorldInv, TypeOK
  <1> QED
    BY <1>1, Invariance, PTL

\* What the device got and what is buffered is what was written, each byte
\* once and in order, less what an error made the channel throw away.
THEOREM BytesInOrder == Spec => []InOrder
  <1>1. ASSUME IInv PROVE InOrder
    <2>1. InOrderUpTo(chan.got \o Buffered(chan), chan.lost, next)
      BY <1>1 DEF IInv, ChanInv, OK, Faithful, All
    <2> QED
      BY <2>1 DEF InOrder, InOrderUpTo
  <1> QED
    BY <1>1, Invariance, PTL

\* Nothing is thrown away without an error that a caller got or that the next
\* operation reports, as long as somebody is left to be told.
THEOREM LossesReported == Spec => []LossReported
  <1>1. ASSUME IInv PROVE LossReported
    BY <1>1 DEF IInv, ChanInv, Answered, LossReported
  <1> QED
    BY <1>1, Invariance, PTL
=============================================================================

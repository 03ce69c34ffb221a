----------------------------- MODULE SeqLemmas ------------------------------
(***************************************************************************)
(* What InsertAt, RemoveAt, Front and Last of SequencesExt, and Unlinked   *)
(* of Lists, return, index by index: the form in which the proofs about    *)
(* linked lists and stacks use them.                                       *)
(***************************************************************************)
EXTENDS SequencesExt, SequenceTheorems, WellFoundedInduction, Lists, TLAPS

(* Concatenation, with its result named: the form SMT can use. *)
LEMMA ConcatFacts ==
  ASSUME NEW S, NEW a \in Seq(S), NEW b \in Seq(S), NEW t, t = a \o b
  PROVE  /\ t \in Seq(S) /\ Len(t) = Len(a) + Len(b)
         /\ \A i \in 1 .. Len(a) + Len(b) :
               t[i] = IF i <= Len(a) THEN a[i] ELSE b[i - Len(a)]
  <1>1. /\ a \o b \in Seq(S) /\ Len(a \o b) = Len(a) + Len(b)
        /\ \A i \in 1 .. Len(a) + Len(b) :
              (a \o b)[i] = IF i <= Len(a) THEN a[i] ELSE b[i - Len(a)]
    BY ConcatProperties, Zenon
  <1> QED
    BY <1>1, Zenon

(* Inserting e behind index p shifts what follows by one. *)
LEMMA InsertAtFacts ==
  ASSUME NEW S, NEW s \in Seq(S), NEW e \in S, NEW p \in 0 .. Len(s)
  PROVE  /\ InsertAt(s, p + 1, e) \in Seq(S)
         /\ Len(InsertAt(s, p + 1, e)) = Len(s) + 1
         /\ \A i \in 1 .. Len(s) + 1 : InsertAt(s, p + 1, e)[i] =
               IF i <= p THEN s[i] ELSE IF i = p + 1 THEN e ELSE s[i - 1]
  <1>0. Len(s) \in Nat
    BY LenProperties
  <1>1. PICK a : a = SubSeq(s, 1, p)
    OBVIOUS
  <1>2. PICK b : b = SubSeq(s, p + 1, Len(s))
    OBVIOUS
  <1>3. PICK t : t = a \o <<e>>
    OBVIOUS
  <1>4. PICK u : u = t \o b
    OBVIOUS
  <1>5. /\ a \in Seq(S) /\ Len(a) = p
        /\ \A i \in 1 .. p : a[i] = s[i]
    BY <1>0, <1>1, SubSeqProperties, ElementOfSeq
  <1>6. /\ b \in Seq(S) /\ Len(b) = Len(s) - p
        /\ \A i \in 1 .. Len(s) - p : b[i] = s[p + i]
    BY <1>0, <1>2, SubSeqProperties, ElementOfSeq
  <1>7. /\ t \in Seq(S) /\ Len(t) = p + 1
        /\ \A i \in 1 .. p : t[i] = s[i]
        /\ t[p + 1] = e
    <2>1. t = Append(a, e)
      BY <1>3, <1>5, AppendIsConcat, Zenon
    <2> QED
      BY <1>0, <1>5, <2>1, AppendProperties
  <1>8. /\ u \in Seq(S) /\ Len(u) = Len(s) + 1
        /\ \A i \in 1 .. Len(s) + 1 :
              u[i] = IF i <= p + 1 THEN t[i] ELSE b[i - (p + 1)]
    <2>1. /\ u \in Seq(S) /\ Len(u) = Len(t) + Len(b)
          /\ \A i \in 1 .. Len(t) + Len(b) :
                u[i] = IF i <= Len(t) THEN t[i] ELSE b[i - Len(t)]
      <3>1. t \in Seq(S) /\ b \in Seq(S)
        BY <1>6, <1>7
      <3> QED
        BY <1>4, <3>1, ConcatFacts
    <2> QED
      BY <1>0, <1>6, <1>7, <2>1
  <1>9. \A i \in 1 .. Len(s) + 1 :
          u[i] = IF i <= p THEN s[i] ELSE IF i = p + 1 THEN e ELSE s[i - 1]
    <2> SUFFICES ASSUME NEW i \in 1 .. Len(s) + 1
        PROVE u[i] = IF i <= p THEN s[i] ELSE IF i = p + 1 THEN e ELSE s[i - 1]
      OBVIOUS
    <2>1. CASE i <= p + 1
      BY <1>0, <1>7, <1>8, <2>1
    <2>2. CASE i > p + 1
      <3>1. i - (p + 1) \in 1 .. Len(s) - p /\ p + (i - (p + 1)) = i - 1
        BY <1>0, <2>2
      <3>2. b[i - (p + 1)] = s[i - 1]
        BY <1>6, <3>1
      <3>3. u[i] = b[i - (p + 1)]
        BY <1>0, <1>8, <2>2
      <3> QED
        BY <1>0, <2>2, <3>2, <3>3
    <2> QED
      BY <1>0, <2>1, <2>2
  <1>10. u = InsertAt(s, p + 1, e)
    <2>1. (p + 1) - 1 = p
      BY <1>0
    <2> QED
      BY <1>1, <1>2, <1>3, <1>4, <2>1, Zenon DEF InsertAt
  <1> QED
    BY <1>8, <1>9, <1>10, Zenon

(* Removing index p closes the gap. *)
LEMMA RemoveAtFacts ==
  ASSUME NEW S, NEW s \in Seq(S), NEW p \in 1 .. Len(s)
  PROVE  /\ RemoveAt(s, p) \in Seq(S)
         /\ Len(RemoveAt(s, p)) = Len(s) - 1
         /\ \A i \in 1 .. Len(s) - 1 : RemoveAt(s, p)[i] =
               IF i < p THEN s[i] ELSE s[i + 1]
  <1>0. Len(s) \in Nat
    BY LenProperties
  <1>1. PICK a : a = SubSeq(s, 1, p - 1)
    OBVIOUS
  <1>2. PICK b : b = SubSeq(s, p + 1, Len(s))
    OBVIOUS
  <1>3. PICK u : u = a \o b
    OBVIOUS
  <1>4. /\ a \in Seq(S) /\ Len(a) = p - 1
        /\ \A i \in 1 .. p - 1 : a[i] = s[i]
    BY <1>0, <1>1, SubSeqProperties, ElementOfSeq
  <1>5. /\ b \in Seq(S) /\ Len(b) = Len(s) - p
        /\ \A i \in 1 .. Len(s) - p : b[i] = s[p + i]
    BY <1>0, <1>2, SubSeqProperties, ElementOfSeq
  <1>6. /\ u \in Seq(S) /\ Len(u) = Len(s) - 1
        /\ \A i \in 1 .. Len(s) - 1 :
              u[i] = IF i <= p - 1 THEN a[i] ELSE b[i - (p - 1)]
    <2>1. /\ u \in Seq(S) /\ Len(u) = Len(a) + Len(b)
          /\ \A i \in 1 .. Len(a) + Len(b) :
                u[i] = IF i <= Len(a) THEN a[i] ELSE b[i - Len(a)]
      <3>1. a \in Seq(S) /\ b \in Seq(S)
        BY <1>4, <1>5
      <3> QED
        BY <1>3, <3>1, ConcatFacts
    <2> QED
      BY <1>0, <1>4, <1>5, <2>1
  <1>7. \A i \in 1 .. Len(s) - 1 : u[i] = IF i < p THEN s[i] ELSE s[i + 1]
    <2> SUFFICES ASSUME NEW i \in 1 .. Len(s) - 1
        PROVE u[i] = IF i < p THEN s[i] ELSE s[i + 1]
      OBVIOUS
    <2>1. CASE i < p
      BY <1>0, <1>4, <1>6, <2>1
    <2>2. CASE i >= p
      <3>1. i - (p - 1) \in 1 .. Len(s) - p /\ p + (i - (p - 1)) = i + 1
        BY <1>0, <2>2
      <3> QED
        BY <1>0, <1>5, <1>6, <2>2, <3>1
    <2> QED
      BY <1>0, <2>1, <2>2
  <1>8. u = RemoveAt(s, p)
    BY <1>1, <1>2, <1>3, Zenon DEF RemoveAt
  <1> QED
    BY <1>6, <1>7, <1>8, Zenon

(* Front drops the last element of a stack, Last is that element. *)
LEMMA FrontFacts ==
  ASSUME NEW S, NEW s \in Seq(S), s # <<>>
  PROVE  /\ Len(s) \in Nat \ {0}
         /\ Last(s) = s[Len(s)] /\ Last(s) \in S
         /\ Front(s) \in Seq(S)
         /\ Len(Front(s)) = Len(s) - 1
         /\ \A i \in 1 .. Len(s) - 1 : Front(s)[i] = s[i]
  <1>1. Len(s) \in Nat \ {0}
    BY EmptySeq
  <1>2. Last(s) = s[Len(s)]
    BY DEF Last
  <1>3. s[Len(s)] \in S
    BY <1>1, ElementOfSeq
  <1>4. PICK t : t = SubSeq(s, 1, Len(s) - 1)
    OBVIOUS
  <1>5. /\ t \in Seq(S) /\ Len(t) = Len(s) - 1
        /\ \A i \in 1 .. Len(s) - 1 : t[i] = s[i]
    <2>1. \A i \in 1 .. Len(s) - 1 : s[i] \in S
      BY <1>1, ElementOfSeq
    <2>2. PICK n \in Nat : n = Len(s) - 1
      BY <1>1
    <2>3. /\ t \in Seq(S) /\ Len(t) = IF 1 <= n THEN n - 1 + 1 ELSE 0
          /\ \A i \in 1 .. n - 1 + 1 : t[i] = s[1 + i - 1]
      BY <1>4, <2>1, <2>2, SubSeqProperties
    <2> QED
      BY <1>1, <2>2, <2>3
  <1>6. t = Front(s)
    BY <1>4, Zenon DEF Front
  <1> QED
    BY <1>1, <1>2, <1>3, <1>5, <1>6, Zenon

(* The elements of a sequence by their indices. *)
LEMMA ToSetFacts ==
  ASSUME NEW S, NEW s \in Seq(S)
  PROVE  /\ ToSet(s) \subseteq S
         /\ \A x : x \in ToSet(s) <=> \E i \in 1 .. Len(s) : s[i] = x
  BY LenProperties DEF ToSet

(* A stack, its top at the end of the sequence: pushing, and replacing the *)
(* top.                                                                    *)
LEMMA PushFacts ==
  ASSUME NEW S, NEW s \in Seq(S), NEW e \in S, NEW t, t = Append(s, e)
  PROVE  /\ t \in Seq(S) /\ t # <<>> /\ Len(t) = Len(s) + 1
         /\ \A i \in 1 .. Len(s) : t[i] = s[i]
         /\ t[Len(s) + 1] = e /\ t[Len(t)] = e
  <1>1. /\ t \in Seq(S) /\ Len(t) = Len(s) + 1 /\ Len(s) \in Nat
        /\ \A i \in 1 .. Len(s) : t[i] = s[i]
        /\ t[Len(s) + 1] = e
    BY AppendProperties, LenProperties
  <1> QED
    BY <1>1, EmptySeq

LEMMA ExceptFacts ==
  ASSUME NEW S, NEW s \in Seq(S), NEW p \in 1 .. Len(s), NEW e \in S,
         NEW t, t = [s EXCEPT ![p] = e]
  PROVE  /\ t \in Seq(S) /\ Len(t) = Len(s)
         /\ \A i \in 1 .. Len(s) : t[i] = IF i = p THEN e ELSE s[i]
  BY ExceptSeq, SMT

LEMMA TopFacts ==
  ASSUME NEW S, NEW s \in Seq(S), s # <<>>, NEW e \in S,
         NEW t, t = [s EXCEPT ![Len(s)] = e]
  PROVE  /\ t \in Seq(S) /\ t # <<>> /\ Len(t) = Len(s)
         /\ \A i \in 1 .. Len(s) - 1 : t[i] = s[i]
         /\ t[Len(s)] = e /\ t[Len(t)] = e
  <1>1. Len(s) \in Nat \ {0}
    BY EmptySeq, LenProperties
  <1>2. PICK n \in 1 .. Len(s) : n = Len(s)
    BY <1>1
  <1>3. t = [s EXCEPT ![n] = e]
    BY <1>2, Zenon
  <1>4. /\ t \in Seq(S) /\ Len(t) = Len(s)
        /\ \A i \in 1 .. Len(s) : t[i] = IF i = n THEN e ELSE s[i]
    BY <1>3, ExceptFacts, SMT
  <1>5. t[Len(s)] = e /\ \A i \in 1 .. Len(s) - 1 : t[i] = s[i]
    <2>1. ASSUME NEW i \in 1 .. Len(s) - 1 PROVE t[i] = s[i]
      BY <1>1, <1>2, <1>4
    <2> QED
      BY <1>2, <1>4, <2>1
  <1>6. t # <<>>
    BY <1>1, <1>4, EmptySeq
  <1> QED
    BY <1>4, <1>5, <1>6, Zenon

(* Inserting e to become index p. *)
LEMMA InsertedFacts ==
  ASSUME NEW S, NEW s \in Seq(S), NEW e \in S, NEW p \in 1 .. Len(s) + 1
  PROVE  /\ InsertAt(s, p, e) \in Seq(S)
         /\ Len(InsertAt(s, p, e)) = Len(s) + 1
         /\ \A i \in 1 .. Len(s) + 1 : InsertAt(s, p, e)[i] =
               IF i < p THEN s[i] ELSE IF i = p THEN e ELSE s[i - 1]
  <1>0. Len(s) \in Nat
    BY LenProperties
  <1>1. PICK q \in 0 .. Len(s) : p = q + 1
    <2>1. p - 1 \in 0 .. Len(s) /\ p = (p - 1) + 1
      BY <1>0
    <2> QED
      BY <2>1
  <1>2. PICK t : t = InsertAt(s, p, e)
    OBVIOUS
  <1>3. t = InsertAt(s, q + 1, e)
    BY <1>1, <1>2
  <1>4. /\ t \in Seq(S) /\ Len(t) = Len(s) + 1
        /\ \A i \in 1 .. Len(s) + 1 :
              t[i] = IF i <= q THEN s[i] ELSE IF i = q + 1 THEN e ELSE s[i - 1]
    <2>1. /\ InsertAt(s, q + 1, e) \in Seq(S)
          /\ Len(InsertAt(s, q + 1, e)) = Len(s) + 1
          /\ \A i \in 1 .. Len(s) + 1 : InsertAt(s, q + 1, e)[i] =
                IF i <= q THEN s[i] ELSE IF i = q + 1 THEN e ELSE s[i - 1]
      BY InsertAtFacts
    <2> QED
      BY <1>3, <2>1
  <1>5. \A i \in 1 .. Len(s) + 1 :
          t[i] = IF i < p THEN s[i] ELSE IF i = p THEN e ELSE s[i - 1]
    <2> SUFFICES ASSUME NEW i \in 1 .. Len(s) + 1
                 PROVE  t[i] = IF i < p THEN s[i] ELSE IF i = p THEN e ELSE s[i - 1]
      OBVIOUS
    <2>1. i <= q <=> i < p
      BY <1>0, <1>1
    <2> QED
      BY <1>1, <1>4, <2>1
  <1> QED
    BY <1>2, <1>4, <1>5, Zenon

(* The results of removals under a name. *)
LEMMA RemovedFacts ==
  ASSUME NEW S, NEW s \in Seq(S), NEW p \in 1 .. Len(s), NEW t, t = RemoveAt(s, p)
  PROVE  /\ t \in Seq(S) /\ Len(t) = Len(s) - 1
         /\ \A i \in 1 .. Len(s) - 1 : t[i] = IF i < p THEN s[i] ELSE s[i + 1]
  BY RemoveAtFacts

LEMMA TailFacts ==
  ASSUME NEW S, NEW s \in Seq(S), s # <<>>, NEW t, t = Tail(s)
  PROVE  /\ t \in Seq(S) /\ Len(t) = Len(s) - 1
         /\ \A i \in 1 .. Len(s) - 1 : t[i] = s[i + 1]
  BY HeadTailProperties

(* A nonempty set of natural numbers has a smallest member. *)
LEMMA SmallestOf ==
  ASSUME NEW T \in SUBSET Nat, T # {}
  PROVE  \E m \in T : \A k \in T : m <= k
  <1>1. PICK R : R = OpToRel(<, Nat)
    OBVIOUS
  <1>2. IsWellFoundedOn(R, Nat)
    BY <1>1, NatLessThanWellFounded
  <1>3. PICK m \in T : \A k \in T : ~(<<k, m>> \in R)
    BY <1>2, WFMin
  <1>4. \A k, l \in Nat : k < l => <<k, l>> \in R
    BY <1>1 DEF OpToRel
  <1>5. \A k \in T : ~(k < m)
    BY <1>3, <1>4
  <1>6. \A k \in T : k \in Nat /\ m \in Nat
    OBVIOUS
  <1>7. \A k \in T : m <= k
    BY <1>5, <1>6
  <1> QED
    BY <1>7

(* Induction over the natural numbers, with a set for the formula. *)
LEMMA NatSetInduction ==
  ASSUME NEW T, 0 \in T, \A n \in Nat : n \in T => n + 1 \in T
  PROVE  Nat \subseteq T
  <1>1. ASSUME NEW q \in Nat, q \notin T PROVE FALSE
    <2>1. PICK U \in SUBSET Nat : U = Nat \ T
      OBVIOUS
    <2>2. PICK m \in U : \A k \in U : m <= k
      BY <1>1, <2>1, SmallestOf
    <2>3. m - 1 \in Nat /\ m - 1 \in T
      BY <2>1, <2>2
    <2> QED
      BY <2>1, <2>2, <2>3
  <1> QED
    BY <1>1

(***************************************************************************)
(* Unlinked of Lists: the equation of its recursive function has a         *)
(* solution (KeptExists), and what it returns are the members that are not *)
(* in D, in their order (UnlinkedSelects): e gives the index of each in s. *)
(***************************************************************************)
KeepStep(s, D, n, before) ==
    IF n = 0 THEN <<>>
    ELSE IF s[n] \in D THEN before ELSE Append(before, s[n])

KeepsUpTo(f, s, D, N) == f = [n \in 0 .. N |-> KeepStep(s, D, n, f[n - 1])]

(* For a list of any length there is the function that Unlinked asks for. *)
LEMMA KeptExists ==
  ASSUME NEW s, NEW D, NEW N \in Nat
  PROVE  \E f : KeepsUpTo(f, s, D, N)
  <1> DEFINE T == {m \in Nat : \E f : KeepsUpTo(f, s, D, m)}
  <1>1. 0 \in T
    <2>1. PICK f : f = [n \in 0 .. 0 |-> <<>>]
      OBVIOUS
    <2>2. KeepsUpTo(f, s, D, 0)
      BY <2>1 DEF KeepStep, KeepsUpTo
    <2> QED
      BY <2>2
  <1>2. ASSUME NEW m \in Nat, m \in T PROVE m + 1 \in T
    <2>0. PICK f : KeepsUpTo(f, s, D, m)
      BY <1>2
    <2>1. f = [n \in 0 .. m |-> KeepStep(s, D, n, f[n - 1])]
      BY <2>0 DEF KeepsUpTo
    <2>2. PICK x : x = KeepStep(s, D, m + 1, f[m])
      OBVIOUS
    <2>3. PICK g : g = [n \in 0 .. m + 1 |-> IF n = m + 1 THEN x ELSE f[n]]
      OBVIOUS
    <2>4. ASSUME NEW n \in 0 .. m + 1 PROVE g[n] = KeepStep(s, D, n, g[n - 1])
      <3>1. CASE n = 0
        <4>1. g[n] = f[n] /\ f[n] = <<>>
          BY <2>1, <2>3, <3>1 DEF KeepStep
        <4> QED
          BY <4>1, <3>1 DEF KeepStep
      <3>2. CASE n = m + 1
        <4>1. g[n] = x /\ g[n - 1] = f[m]
          BY <2>3, <3>2
        <4> QED
          BY <4>1, <2>2, <3>2
      <3>3. CASE n \in 1 .. m
        <4>1. g[n] = f[n] /\ g[n - 1] = f[n - 1]
          BY <2>3, <3>3
        <4>2. f[n] = KeepStep(s, D, n, f[n - 1])
          BY <2>1, <3>3
        <4> QED
          BY <4>1, <4>2
      <3> QED
        BY <3>1, <3>2, <3>3
    <2>5. KeepsUpTo(g, s, D, m + 1)
      BY <2>3, <2>4 DEF KeepsUpTo
    <2> QED
      BY <2>5
  <1>3. Nat \subseteq T
    <2> HIDE DEF T
    <2> QED
      BY <1>1, <1>2, NatSetInduction
  <1> QED
    BY <1>3

Embeds(s, D, w, n, l, e) ==
    /\ \A i, j \in 1 .. l : i < j => e[i] < e[j]
    /\ \A i \in 1 .. l : w[i] = s[e[i]] /\ s[e[i]] \notin D
    /\ \A p \in 1 .. n : s[p] \notin D => \E i \in 1 .. l : e[i] = p

Selects(s, D, w, n) ==
    \E e \in [1 .. Len(w) -> 1 .. n] : Embeds(s, D, w, n, Len(w), e)

(* The form in which the prover applies the definition. *)
LEMMA SelectsBy ==
  ASSUME NEW s, NEW D, NEW w, NEW n, NEW l, l = Len(w),
         NEW e \in [1 .. l -> 1 .. n], Embeds(s, D, w, n, l, e)
  PROVE  Selects(s, D, w, n)
  BY DEF Selects

(* One more member of the list. *)
LEMMA SelectsStep ==
  ASSUME NEW S, NEW s \in Seq(S), NEW D, NEW m \in Nat, m + 1 <= Len(s),
         NEW w \in Seq(S), Selects(s, D, w, m),
         NEW x, x = KeepStep(s, D, m + 1, w)
  PROVE  x \in Seq(S) /\ Selects(s, D, x, m + 1)
  <1>1. PICK k : k = Len(w)
    OBVIOUS
  <1>2. PICK e \in [1 .. k -> 1 .. m] : Embeds(s, D, w, m, k, e)
    BY <1>1 DEF Selects
  <1>12. /\ \A i, j \in 1 .. k : i < j => e[i] < e[j]
         /\ \A i \in 1 .. k : w[i] = s[e[i]] /\ s[e[i]] \notin D
         /\ \A p \in 1 .. m : s[p] \notin D => \E i \in 1 .. k : e[i] = p
    BY <1>2 DEF Embeds
  <1>3. k \in Nat /\ Len(s) \in Nat
    BY <1>1
  <1>4. CASE s[m + 1] \in D
    <2>1. x = w
      BY <1>4 DEF KeepStep
    <2>2. e \in [1 .. k -> 1 .. m + 1]
      BY <1>2, <1>3
    <2>3. \A p \in 1 .. m + 1 : s[p] \notin D => \E i \in 1 .. k : e[i] = p
      <3> SUFFICES ASSUME NEW p \in 1 .. m + 1, s[p] \notin D
                   PROVE  \E i \in 1 .. k : e[i] = p
        OBVIOUS
      <3>1. p # m + 1
        BY <1>4
      <3>2. p \in 1 .. m
        BY <3>1
      <3> QED
        BY <1>12, <3>2
    <2>31. Embeds(s, D, w, m + 1, k, e)
      BY <2>3, <1>12 DEF Embeds
    <2>4. Selects(s, D, w, m + 1)
      BY <2>2, <2>31, <1>1, SelectsBy
    <2> QED
      BY <2>1, <2>4
  <1>5. CASE s[m + 1] \notin D
    <2>0. m + 1 \in 1 .. Len(s)
      BY <1>3
    <2>1. s[m + 1] \in S
      BY <2>0
    <2>2. PICK y : y = s[m + 1]
      OBVIOUS
    <2>20. y \in S /\ x = Append(w, y)
      BY <1>5, <2>1, <2>2 DEF KeepStep
    <2>3. /\ x \in Seq(S) /\ Len(x) = k + 1 /\ x[k + 1] = s[m + 1]
          /\ \A i \in 1 .. k : x[i] = w[i]
      <3>1. /\ x \in Seq(S) /\ x # <<>> /\ Len(x) = Len(w) + 1
            /\ \A i \in 1 .. Len(w) : x[i] = w[i]
            /\ x[Len(w) + 1] = y /\ x[Len(x)] = y
        <4>1. w \in Seq(S) /\ y \in S /\ x = Append(w, y)
          BY <2>20
        <4>2. x \in Seq(S) /\ Len(x) = Len(w) + 1 /\ x[Len(w) + 1] = y
          BY <4>1, PushFacts
        <4>3. x # <<>> /\ \A i \in 1 .. Len(w) : x[i] = w[i]
          BY <4>1, PushFacts
        <4> QED
          BY <4>2, <4>3
      <3> QED
        BY <3>1, <1>1, <2>2
    <2>4. PICK g : g = [i \in 1 .. k + 1 |-> IF i = k + 1 THEN m + 1 ELSE e[i]]
      OBVIOUS
    <2>5. \A i \in 1 .. k : g[i] = e[i] /\ e[i] \in 1 .. m
      <3>1. \A i \in 1 .. k : e[i] \in 1 .. m
        BY <1>2
      <3>2. \A i \in 1 .. k : i \in 1 .. k + 1 /\ i # k + 1
        BY <1>3
      <3> QED
        BY <3>1, <3>2, <2>4
    <2>6. g[k + 1] = m + 1
      BY <2>4, <1>3
    <2>7. \A i \in 1 .. k + 1 : i = k + 1 \/ i \in 1 .. k
      BY <1>3
    <2>8. \A i \in 1 .. k + 1 : g[i] \in 1 .. m + 1
      BY <2>5, <2>6, <2>7
    <2>9. g \in [1 .. k + 1 -> 1 .. m + 1]
      BY <2>4, <2>8
    <2>10. \A i, j \in 1 .. k + 1 : i < j => g[i] < g[j]
      <3> SUFFICES ASSUME NEW i \in 1 .. k + 1, NEW j \in 1 .. k + 1, i < j
                   PROVE  g[i] < g[j]
        OBVIOUS
      <3>1. i \in 1 .. k
        BY <1>3
      <3>2. CASE j = k + 1
        BY <3>1, <3>2, <2>5, <2>6
      <3>3. CASE j \in 1 .. k
        BY <3>1, <3>3, <2>5, <1>12
      <3> QED
        BY <3>2, <3>3, <2>7
    <2>11. \A i \in 1 .. k + 1 : x[i] = s[g[i]] /\ s[g[i]] \notin D
      BY <2>3, <2>5, <2>6, <2>7, <1>12, <1>5
    <2>12. \A p \in 1 .. m + 1 : s[p] \notin D => \E i \in 1 .. k + 1 : g[i] = p
      <3> SUFFICES ASSUME NEW p \in 1 .. m + 1, s[p] \notin D
                   PROVE  \E i \in 1 .. k + 1 : g[i] = p
        OBVIOUS
      <3>1. CASE p = m + 1
        BY <3>1, <2>6, <1>3
      <3>2. CASE p \in 1 .. m
        <4>1. PICK i \in 1 .. k : e[i] = p
          BY <3>2, <1>12
        <4>2. i \in 1 .. k + 1 /\ g[i] = p
          BY <4>1, <2>5, <1>3
        <4> QED
          BY <4>2
      <3> QED
        BY <3>1, <3>2
    <2>13. Embeds(s, D, x, m + 1, k + 1, g)
      BY <2>10, <2>11, <2>12 DEF Embeds
    <2> QED
      BY <2>3, <2>9, <2>13, SelectsBy
  <1> QED
    BY <1>4, <1>5

(* The whole list, by induction over the length of what was looked at. *)
LEMMA UnlinkedSelects ==
  ASSUME NEW S, NEW s \in Seq(S), NEW D
  PROVE  Unlinked(s, D) \in Seq(S) /\ Selects(s, D, Unlinked(s, D), Len(s))
  <1> DEFINE K == CHOOSE f : KeepsUpTo(f, s, D, Len(s))
  <1>0. Len(s) \in Nat
    OBVIOUS
  <1>1. K = [n \in 0 .. Len(s) |-> KeepStep(s, D, n, K[n - 1])]
    <2>1. PICK N \in Nat : N = Len(s)
      BY <1>0
    <2>2. \E f : KeepsUpTo(f, s, D, N)
      BY KeptExists
    <2>3. KeepsUpTo(K, s, D, Len(s))
      BY <2>1, <2>2, Zenon
    <2> QED
      BY <2>3 DEF KeepsUpTo
  <1>2. Unlinked(s, D) = K[Len(s)]
    BY DEF Unlinked, KeepStep, KeepsUpTo
  <1> HIDE DEF K
  <1> DEFINE T == {n \in Nat : n <= Len(s) => K[n] \in Seq(S) /\ Selects(s, D, K[n], n)}
  <1>3. 0 \in T
    <2>1. K[0] = <<>>
      BY <1>1, <1>0 DEF KeepStep
    <2>2. K[0] \in Seq(S) /\ Len(K[0]) = 0
      BY <2>1
    <2>3. PICK e : e = [i \in 1 .. 0 |-> 0]
      OBVIOUS
    <2>4. e \in [1 .. 0 -> 1 .. 0]
      BY <2>3
    <2>5. Embeds(s, D, K[0], 0, 0, e)
      BY DEF Embeds
    <2>6. Selects(s, D, K[0], 0)
      BY <2>2, <2>4, <2>5, SelectsBy
    <2> QED
      BY <2>2, <2>6
  <1>4. ASSUME NEW n \in Nat, n \in T PROVE n + 1 \in T
    <2> SUFFICES ASSUME n + 1 <= Len(s)
                 PROVE  K[n + 1] \in Seq(S) /\ Selects(s, D, K[n + 1], n + 1)
      OBVIOUS
    <2>1. K[n] \in Seq(S) /\ Selects(s, D, K[n], n)
      BY <1>4, <1>0
    <2>2. K[n + 1] = KeepStep(s, D, n + 1, K[n])
      BY <1>1, <1>0
    <2> QED
      BY <2>1, <2>2, SelectsStep
  <1>5. Nat \subseteq T
    <2> HIDE DEF T
    <2> QED
      BY <1>3, <1>4, NatSetInduction
  <1>6. Len(s) \in T
    BY <1>0, <1>5
  <1> QED
    BY <1>2, <1>6
=============================================================================

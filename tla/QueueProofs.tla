----------------------------- MODULE QueueProofs -----------------------------
(***************************************************************************)
(* The two arrays of lib/queue.js are a FIFO, for any items and lengths.   *)
(***************************************************************************)
EXTENDS Queue, TLAPS, SequenceTheorems

------------------------------------------------------------------------------
(* Type correctness                                                        *)

\* The offset stays within head.
LEMMA TypeStep == TypeOK /\ [Next]_vars => TypeOK'
<1> SUFFICES ASSUME TypeOK, [Next]_vars PROVE TypeOK'
  OBVIOUS
<1>1. Len(head) \in Nat /\ Len(tail) \in Nat /\ offset \in Nat /\ offset <= Len(head)
  BY DEF TypeOK
<1>2. ASSUME NEW x \in Items, Push(x) PROVE TypeOK'
  BY <1>2 DEF Push, TypeOK
<1>3. CASE Shift
  <2>1. CASE offset # Len(head)
    <3>1. offset + 1 \in 1..Len(head) /\ head[offset + 1] \in Items
      BY <1>1, <2>1 DEF TypeOK
    <3>2. answer' = head[offset + 1] /\ offset' = offset + 1 /\ UNCHANGED <<head, tail>>
      BY <1>3, <2>1 DEF Shift
    <3> QED BY <1>1, <3>1, <3>2 DEF TypeOK
  <2>2. CASE offset = Len(head)
    <3>1. head' = tail /\ tail' = <<>>
      BY <1>3, <2>2 DEF Shift
    <3>2. offset' \in 0..Len(tail)
      BY <1>1, <1>3, <2>2, EmptySeq DEF Shift, TypeOK
    <3>3. answer' \in Items \union Nat \union {Null}
      BY <1>1, <1>3, <2>2, EmptySeq DEF Shift, TypeOK
    <3> QED BY <3>1, <3>2, <3>3 DEF TypeOK
  <2> QED BY <2>1, <2>2
<1>4. CASE Length
  <2>1. Len(head) - offset + Len(tail) \in Nat
    BY <1>1
  <2> QED BY <1>4, <2>1 DEF Length, TypeOK
<1>5. CASE UNCHANGED vars
  BY <1>5 DEF vars, TypeOK
<1> QED BY <1>2, <1>3, <1>4, <1>5 DEF Next

\* shift never leaves the offset behind the end of head, where every later call
\* would find undefined.
THEOREM TypeCorrect == Spec => []TypeOK
<1>1. Init => TypeOK
  BY DEF Init, TypeOK
<1> QED BY <1>1, TypeStep, PTL DEF Spec

------------------------------------------------------------------------------
(* Refinement                                                              *)

\* What forEach shows of well-typed arrays.
LEMMA Contents ==
  ASSUME NEW h \in Seq(Items), NEW t \in Seq(Items), NEW o \in 0..Len(h)
  PROVE  LET c == SubSeq(h, o + 1, Len(h)) \o t IN
         /\ c \in Seq(Items) /\ Len(c) = Len(h) - o + Len(t)
         /\ \A i \in 1..(Len(h) - o) : c[i] = h[o + i]
         /\ \A i \in 1..Len(t) : c[Len(h) - o + i] = t[i]
<1> DEFINE s == SubSeq(h, o + 1, Len(h))
           c == s \o t
<1>1. Len(h) \in Nat /\ Len(t) \in Nat /\ o \in Nat /\ o <= Len(h)
  OBVIOUS
<1>2. \A i \in (o + 1)..Len(h) : h[i] \in Items
  BY <1>1
<1>3. /\ s \in Seq(Items) /\ Len(s) = Len(h) - o
      /\ \A i \in 1..(Len(h) - o) : s[i] = h[o + i]
  <2>1. o + 1 \in Int /\ Len(h) \in Int
    BY <1>1
  <2>2. /\ s \in Seq(Items)
        /\ Len(s) = IF o + 1 <= Len(h) THEN Len(h) - (o + 1) + 1 ELSE 0
        /\ \A i \in 1..(Len(h) - (o + 1) + 1) : s[i] = h[o + 1 + i - 1]
    BY <1>2, <2>1, SubSeqProperties
  <2> HIDE DEF s
  <2> QED BY <1>1, <2>2
<1> HIDE DEF s
<1>4. /\ c \in Seq(Items) /\ Len(c) = Len(s) + Len(t)
      /\ \A i \in 1..(Len(s) + Len(t)) : c[i] = IF i <= Len(s) THEN s[i] ELSE t[i - Len(s)]
  BY <1>3, ConcatProperties
<1> HIDE DEF c
<1>5. c \in Seq(Items) /\ Len(c) = Len(h) - o + Len(t)
  BY <1>1, <1>3, <1>4
<1>6. ASSUME NEW i \in 1..(Len(h) - o) PROVE c[i] = h[o + i]
  <2>1. i \in 1..(Len(s) + Len(t)) /\ i <= Len(s)
    BY <1>1, <1>3
  <2> QED BY <1>3, <1>4, <2>1
<1>7. ASSUME NEW i \in 1..Len(t) PROVE c[Len(h) - o + i] = t[i]
  <2> DEFINE k == Len(s) + i
  <2>1. k \in 1..(Len(s) + Len(t)) /\ ~(k <= Len(s)) /\ k - Len(s) = i /\ k = Len(h) - o + i
    BY <1>1, <1>3
  <2> HIDE DEF k
  <2>2. c[k] = t[i]
    BY <1>4, <2>1
  <2> QED BY <2>1, <2>2
<1> QED BY <1>5, <1>6, <1>7 DEF c, s

\* The head and the tail of a concatenation whose first part is not empty.
LEMMA HeadTailOfConcat ==
  ASSUME NEW S, NEW s \in Seq(S), NEW t \in Seq(S), s # <<>>
  PROVE  Head(s \o t) = Head(s) /\ Tail(s \o t) = Tail(s) \o t /\ s \o t # <<>>
<1> DEFINE c == s \o t
           r == Tail(s)
           e == r \o t
<1>1. Len(s) \in Nat /\ Len(t) \in Nat /\ Len(s) > 0
  BY EmptySeq
<1>2. /\ c \in Seq(S) /\ Len(c) = Len(s) + Len(t)
      /\ \A i \in 1..(Len(s) + Len(t)) : c[i] = IF i <= Len(s) THEN s[i] ELSE t[i - Len(s)]
  BY ConcatProperties
<1>3. /\ r \in Seq(S) /\ Len(r) = Len(s) - 1 /\ Head(s) = s[1]
      /\ \A i \in 1..Len(r) : r[i] = s[i + 1]
  BY <1>1, HeadTailProperties
<1> HIDE DEF c, r
<1>4. /\ e \in Seq(S) /\ Len(e) = Len(r) + Len(t)
      /\ \A i \in 1..(Len(r) + Len(t)) : e[i] = IF i <= Len(r) THEN r[i] ELSE t[i - Len(r)]
  BY <1>3, ConcatProperties
<1> HIDE DEF e
<1>5. c # <<>>
  BY <1>1, <1>2, EmptySeq
<1>6. /\ Head(c) = c[1] /\ Tail(c) \in Seq(S) /\ Len(Tail(c)) = Len(c) - 1
      /\ \A i \in 1..Len(Tail(c)) : Tail(c)[i] = c[i + 1]
  BY <1>2, <1>5, HeadTailProperties
<1>7. Head(c) = Head(s)
  BY <1>1, <1>2, <1>3, <1>6
<1>8. Tail(c) = e
  <2>1. Len(Tail(c)) = Len(e)
    BY <1>1, <1>2, <1>3, <1>4, <1>6
  <2>2. ASSUME NEW i \in 1..Len(e) PROVE Tail(c)[i] = e[i]
    <3>1. i + 1 \in 1..(Len(s) + Len(t)) /\ i \in 1..(Len(r) + Len(t)) /\ Tail(c)[i] = c[i + 1]
      BY <1>1, <1>3, <1>4, <1>6, <2>1
    <3>2. CASE i <= Len(r)
      BY <1>1, <1>2, <1>3, <1>4, <3>1, <3>2
    <3>3. CASE ~(i <= Len(r))
      <4>1. ~(i + 1 <= Len(s)) /\ i + 1 - Len(s) = i - Len(r)
        BY <1>1, <1>3, <3>3
      <4> QED BY <1>2, <1>4, <3>1, <3>3, <4>1
    <3> QED BY <3>2, <3>3
  <2> QED BY <1>4, <1>6, <2>1, <2>2, SeqEqual
<1> QED BY <1>5, <1>7, <1>8 DEF c, e, r

\* push appends.
LEMMA PushRefines ==
  ASSUME TypeOK, TypeOK', NEW x \in Items, Push(x)
  PROVE  Fifo!Push(x)
<1>1. /\ head \in Seq(Items) /\ tail \in Seq(Items) /\ offset \in 0..Len(head)
      /\ head' = head /\ offset' = offset /\ tail' = Append(tail, x) /\ answer' = answer
  BY DEF TypeOK, Push
<1> DEFINE c == ForEach
           u == Append(tail, x)
           n == Len(head) - offset
           d == Append(c, x)
<1>2. /\ u \in Seq(Items) /\ Len(u) = Len(tail) + 1 /\ u[Len(tail) + 1] = x
      /\ \A i \in 1..Len(tail) : u[i] = tail[i]
  BY <1>1
<1>3. n \in Nat /\ Len(tail) \in Nat
  BY <1>1
<1>4. /\ c \in Seq(Items) /\ Len(c) = n + Len(tail)
      /\ \A i \in 1..n : c[i] = head[offset + i]
      /\ \A i \in 1..Len(tail) : c[n + i] = tail[i]
  BY <1>1, Contents DEF ForEach
<1> HIDE DEF u
<1> DEFINE e == SubSeq(head, offset + 1, Len(head)) \o u
<1>5. /\ e \in Seq(Items) /\ Len(e) = n + Len(u)
      /\ \A i \in 1..n : e[i] = head[offset + i]
      /\ \A i \in 1..Len(u) : e[n + i] = u[i]
  BY <1>1, <1>2, Contents
<1>6. ForEach' = e
  BY <1>1 DEF ForEach, u
<1> HIDE DEF c, e, n
<1>7. /\ d \in Seq(Items) /\ Len(d) = Len(c) + 1 /\ d[Len(c) + 1] = x
      /\ \A i \in 1..Len(c) : d[i] = c[i]
  BY <1>4
<1> HIDE DEF d
<1>8. e = d
  <2>1. Len(e) = Len(d) /\ Len(e) = n + Len(tail) + 1
    BY <1>2, <1>3, <1>4, <1>5, <1>7
  <2>2. ASSUME NEW i \in 1..Len(e) PROVE e[i] = d[i]
    <3>1. CASE i <= n
      <4>1. i \in 1..n /\ i \in 1..Len(c)
        BY <1>3, <1>4, <2>1, <3>1
      <4> QED BY <1>4, <1>5, <1>7, <4>1
    <3>2. CASE i > n
      <4> DEFINE j == i - n
      <4>1. j \in 1..(Len(tail) + 1) /\ i = n + j
        BY <1>3, <2>1, <3>2
      <4> HIDE DEF j
      <4>2. e[i] = u[j]
        BY <1>2, <1>5, <4>1
      <4>3. CASE j <= Len(tail)
        <5>1. j \in 1..Len(tail) /\ i \in 1..Len(c)
          BY <1>3, <1>4, <4>1, <4>3
        <5> QED BY <1>2, <1>4, <1>7, <4>1, <4>2, <5>1
      <4>4. CASE j = Len(tail) + 1
        <5>1. i = Len(c) + 1
          BY <1>3, <1>4, <4>1, <4>4
        <5> QED BY <1>2, <1>7, <4>2, <4>4, <5>1
      <4> QED BY <1>3, <4>1, <4>3, <4>4
    <3> QED BY <1>3, <2>1, <3>1, <3>2
  <2> QED BY <1>5, <1>7, <2>1, <2>2, SeqEqual
<1> QED BY <1>1, <1>6, <1>8 DEF Fifo!Push, c, d

\* shift takes the oldest item, or answers null when there is none.
LEMMA ShiftRefines ==
  ASSUME TypeOK, Shift
  PROVE  Fifo!Shift
<1> DEFINE c == ForEach
<1>1. /\ head \in Seq(Items) /\ tail \in Seq(Items) /\ offset \in 0..Len(head)
      /\ Len(head) \in Nat /\ Len(tail) \in Nat
  BY DEF TypeOK
<1>2. CASE offset # Len(head)
  <2>1. answer' = head[offset + 1] /\ offset' = offset + 1 /\ UNCHANGED <<head, tail>>
    BY <1>2 DEF Shift
  <2> DEFINE s == SubSeq(head, offset + 1, Len(head))
             r == SubSeq(head, offset + 2, Len(head))
  <2>2. /\ Head(s) = head[offset + 1] /\ Tail(s) = r
    <3>1. offset + 1 \in 1..Len(head) /\ Len(head) \in (offset + 1)..Len(head)
          /\ (offset + 1) + 1 = offset + 2
      BY <1>1, <1>2
    <3> HIDE DEF s, r
    <3> QED BY <1>1, <3>1, HeadTailOfSubSeq DEF s, r
  <2>3. s \in Seq(Items) /\ s # <<>>
    <3>1. offset + 1 \in Int /\ Len(head) \in Int
          /\ \A i \in (offset + 1)..Len(head) : head[i] \in Items
      BY <1>1
    <3>2. s \in Seq(Items) /\ Len(s) = Len(head) - (offset + 1) + 1
      BY <1>1, <1>2, <3>1, SubSeqProperties
    <3> HIDE DEF s
    <3> QED BY <1>1, <1>2, <3>2, EmptySeq
  <2> HIDE DEF s, r
  <2>4. Head(s \o tail) = Head(s) /\ Tail(s \o tail) = Tail(s) \o tail /\ s \o tail # <<>>
    BY <1>1, <2>3, HeadTailOfConcat
  <2>5. c = s \o tail /\ ForEach' = r \o tail
    <3>1. offset' + 1 = offset + 2
      BY <1>1, <2>1
    <3> QED BY <2>1, <3>1 DEF ForEach, s, r
  <2>6. c # <<>> /\ answer' = Head(c) /\ ForEach' = Tail(c)
    BY <2>1, <2>2, <2>4, <2>5
  <2> HIDE DEF c
  <2> QED BY <2>6 DEF Fifo!Shift, c
<1>3. CASE offset = Len(head)
  <2>1. c = tail
    <3>1. SubSeq(head, offset + 1, Len(head)) = <<>>
      BY <1>1, <1>3, SubSeqEmpty
    <3> QED BY <1>1, <3>1, ConcatEmptySeq DEF ForEach
  <2>2. head' = tail /\ tail' = <<>>
    BY <1>3 DEF Shift
  <2>3. CASE tail = <<>>
    <3>1. answer' = Null /\ offset' = 0
      BY <1>3, <2>3 DEF Shift
    <3>2. ForEach' = <<>>
      <4>1. SubSeq(<<>>, 1, 0) = <<>>
        BY SubSeqEmpty
      <4>2. ForEach' = SubSeq(<<>>, 1, 0) \o <<>>
        BY <2>2, <2>3, <3>1 DEF ForEach
      <4> QED BY <4>1, <4>2
    <3> QED BY <2>1, <2>3, <3>1, <3>2 DEF Fifo!Shift
  <2>4. CASE tail # <<>>
    <3>1. answer' = tail[1] /\ offset' = 1
      BY <1>3, <2>4 DEF Shift
    <3>2. Tail(tail) = SubSeq(tail, 2, Len(tail)) /\ Tail(tail) \in Seq(Items)
          /\ Head(tail) = tail[1]
      BY <1>1, <2>4, TailIsSubSeq, HeadTailProperties
    <3>3. ForEach' = SubSeq(tail, 2, Len(tail)) \o <<>>
      BY <2>2, <3>1 DEF ForEach
    <3>4. ForEach' = Tail(tail)
      BY <3>2, <3>3, ConcatEmptySeq
    <3> QED BY <2>1, <2>4, <3>1, <3>2, <3>4 DEF Fifo!Shift
  <2> QED BY <2>3, <2>4
<1> QED BY <1>2, <1>3

\* Both kinds of arrays, filled and emptied in any order, are one FIFO: nothing is
\* lost, repeated or reordered when the arrays change places, and length is exact.
THEOREM QueueIsFifo == Spec => RefinesFifo
<1>1. Init => Fifo!Init
  <2> SUFFICES ASSUME Init PROVE Fifo!Init
    OBVIOUS
  <2>1. ForEach = SubSeq(<<>>, 1, 0) \o <<>> /\ answer = Null
    BY DEF Init, ForEach
  <2>2. SubSeq(<<>>, 1, 0) = <<>>
    BY SubSeqEmpty
  <2> QED BY <2>1, <2>2 DEF Fifo!Init
<1>2. TypeOK /\ TypeOK' /\ [Next]_vars => [Fifo!Next]_(Fifo!vars)
  <2> SUFFICES ASSUME TypeOK, TypeOK', [Next]_vars PROVE [Fifo!Next]_(Fifo!vars)
    OBVIOUS
  <2>1. ASSUME NEW x \in Items, Push(x) PROVE Fifo!Next
    BY <2>1, PushRefines DEF Fifo!Next
  <2>2. CASE Shift
    BY <2>2, ShiftRefines DEF Fifo!Next
  <2>3. CASE Length
    <3>1. Len(ForEach) = Len(head) - offset + Len(tail)
      BY Contents DEF TypeOK, ForEach
    <3>2. answer' = Len(head) - offset + Len(tail) /\ ForEach' = ForEach
      BY <2>3 DEF Length, ForEach
    <3> QED BY <3>1, <3>2 DEF Fifo!Next, Fifo!Length
  <2>4. CASE UNCHANGED vars
    BY <2>4 DEF vars, Fifo!vars, ForEach
  <2> QED BY <2>1, <2>2, <2>3, <2>4 DEF Next
<1> QED BY <1>1, <1>2, TypeCorrect, PTL DEF Spec, RefinesFifo, Fifo!Spec
==============================================================================

---------------------------- MODULE ParserProofs -----------------------------
(***************************************************************************)
(* However the bytes of a connection are cut into chunks, lib/parser/      *)
(* javascript.js emits the replies that the server sent, for any number of *)
(* replies, nested to any depth, of connections and of exceptions.         *)
(*                                                                         *)
(* First, by induction on how deep a reply is nested: _parseResult reads   *)
(* it completely or not at all, wherever it stands in a buffer and         *)
(* wherever the buffer ends (ReaderCorrect).  Then the invariant of the    *)
(* loop of execute().                                                      *)
(***************************************************************************)
EXTENDS ReplyParser, FiniteSetTheorems, SequenceTheorems, TLAPS

------------------------------------------------------------------------------
(* Induction over the numbers                                              *)

\* Of a set of numbers one is the least.
LEMMA LeastNatural ==
  ASSUME NEW T, T \subseteq Nat, T # {}
  PROVE  \E m \in T : \A k \in T : m <= k
<1>1. PICK n \in T : n \in Nat
  OBVIOUS
<1> DEFINE F == FiniteSubsetsOf(0..n)
           I == {0..k : k \in {k \in T : k <= n}}
<1>2. IsWellFoundedOn(StrictSubsetOrdering(0..n), F)
  BY FS_StrictSubsetOrderingWellFounded
<1>3. I \subseteq F /\ I # {}
  <2>1. \A k \in T : k <= n => IsFiniteSet(0..k) /\ 0..k \subseteq 0..n
    BY <1>1, FS_Interval
  <2> QED BY <2>1, <1>1 DEF FiniteSubsetsOf
<1>4. \E x \in I : \A y \in I : <<y, x>> \notin StrictSubsetOrdering(0..n)
  <2> HIDE DEF F, I
  <2> QED BY <1>2, <1>3, WFMin, Zenon
<1>5. PICK m \in T : m <= n /\ \A k \in T : k <= n => <<0..k, 0..m>> \notin StrictSubsetOrdering(0..n)
  BY <1>4
<1>6. ASSUME NEW k \in T, k < m PROVE FALSE
  <2>1. k \in Nat /\ m \in Nat /\ k <= n
    BY <1>1, <1>5, <1>6
  <2>2. 0..k \subseteq 0..m /\ 0..m \subseteq 0..n /\ m \in 0..m /\ m \notin 0..k
    BY <2>1, <1>1, <1>5, <1>6
  <2>3. <<0..k, 0..m>> \in StrictSubsetOrdering(0..n)
    BY <2>2 DEF StrictSubsetOrdering
  <2> QED BY <2>1, <2>3, <1>5
<1> QED BY <1>5, <1>6

\* A set that holds 0, and with a number the next one, holds them all.
LEMMA Induction ==
  ASSUME NEW S, 0 \in S, \A n \in Nat : n \in S => n + 1 \in S
  PROVE  Nat \subseteq S
<1> DEFINE T == {n \in Nat : n \notin S}
<1>1. SUFFICES ASSUME T # {} PROVE FALSE
  OBVIOUS
<1>2. \E m \in T : \A k \in T : m <= k
  <2>1. T \subseteq Nat
    OBVIOUS
  <2> HIDE DEF T
  <2> QED BY <1>1, <2>1, LeastNatural, Zenon
<1>3. PICK m \in T : \A k \in T : m <= k
  BY <1>2
<1>4. m # 0 /\ m - 1 \in Nat /\ m - 1 \in S
  BY <1>3, SMT
<1> QED BY <1>4, <1>3

------------------------------------------------------------------------------
(* Sequences                                                               *)

\* What a slice holds.
LEMMA SliceHolds ==
  ASSUME NEW s \in Seq(STRING), NEW f \in Nat, NEW t \in Nat, f <= t, t <= Len(s)
  PROVE  /\ Slice(s, f, t) \in Seq(STRING)
         /\ Len(Slice(s, f, t)) = t - f
         /\ \A i \in 1..(t - f) : Slice(s, f, t)[i] = s[f + i]
<1>1. \A i \in (f + 1)..t : s[i] \in STRING
  BY ElementOfSeq
<1>2. /\ SubSeq(s, f + 1, t) \in Seq(STRING)
      /\ Len(SubSeq(s, f + 1, t)) = IF f + 1 <= t THEN t - (f + 1) + 1 ELSE 0
      /\ \A i \in 1..(t - (f + 1) + 1) : SubSeq(s, f + 1, t)[i] = s[f + 1 + i - 1]
  BY <1>1, SubSeqProperties
<1> QED BY <1>2 DEF Slice

\* A slice of a slice.
LEMMA SliceOfSlice ==
  ASSUME NEW s \in Seq(STRING), NEW f \in Nat, NEW t \in Nat, f <= t, t <= Len(s),
         NEW i \in Nat, NEW j \in Nat, i <= j, j <= t - f
  PROVE  Slice(Slice(s, f, t), i, j) = Slice(s, f + i, f + j)
<1> DEFINE a == Slice(s, f, t)
           b == Slice(a, i, j)
           c == Slice(s, f + i, f + j)
<1>1. a \in Seq(STRING) /\ Len(a) = t - f /\ \A k \in 1..(t - f) : a[k] = s[f + k]
  BY SliceHolds
<1>2. b \in Seq(STRING) /\ Len(b) = j - i /\ \A k \in 1..(j - i) : b[k] = a[i + k]
  <2> HIDE DEF a
  <2> QED BY <1>1, SliceHolds
<1>3. c \in Seq(STRING) /\ Len(c) = j - i /\ \A k \in 1..(j - i) : c[k] = s[f + i + k]
  <2> DEFINE p == f + i
             q == f + j
  <2>1. p \in Nat /\ q \in Nat /\ p <= q /\ q <= Len(s) /\ q - p = j - i
    BY LenProperties
  <2> HIDE DEF p, q
  <2>2. /\ Slice(s, p, q) \in Seq(STRING) /\ Len(Slice(s, p, q)) = q - p
        /\ \A k \in 1..(q - p) : Slice(s, p, q)[k] = s[p + k]
    BY <2>1, SliceHolds
  <2> QED BY <2>1, <2>2 DEF p, q
<1> HIDE DEF a, b, c
<1>4. ASSUME NEW k \in 1..Len(b) PROVE b[k] = c[k]
  <2>1. k \in 1..(j - i) /\ i + k \in 1..(t - f) /\ f + (i + k) = f + i + k
    BY <1>2
  <2> QED BY <2>1, <1>1, <1>2, <1>3
<1>5. b = c
  BY <1>2, <1>3, <1>4, SeqEqual
<1> QED BY <1>5 DEF a, b, c

\* Two slices that meet.
LEMMA SlicesMeet ==
  ASSUME NEW s \in Seq(STRING), NEW f \in Nat, NEW g \in Nat, NEW t \in Nat,
         f <= g, g <= t, t <= Len(s)
  PROVE  Slice(s, f, g) \o Slice(s, g, t) = Slice(s, f, t)
<1> DEFINE a == Slice(s, f, g)
           b == Slice(s, g, t)
           c == Slice(s, f, t)
<1> Len(s) \in Nat /\ g <= Len(s) /\ f <= t
  BY LenProperties
<1>1. a \in Seq(STRING) /\ Len(a) = g - f /\ \A k \in 1..(g - f) : a[k] = s[f + k]
  BY SliceHolds
<1>2. b \in Seq(STRING) /\ Len(b) = t - g /\ \A k \in 1..(t - g) : b[k] = s[g + k]
  BY SliceHolds
<1>3. c \in Seq(STRING) /\ Len(c) = t - f /\ \A k \in 1..(t - f) : c[k] = s[f + k]
  BY SliceHolds
<1> HIDE DEF a, b, c
<1> DEFINE d == a \o b
<1>4. /\ d \in Seq(STRING) /\ Len(d) = Len(a) + Len(b)
      /\ \A k \in 1..(Len(a) + Len(b)) : d[k] = IF k <= Len(a) THEN a[k] ELSE b[k - Len(a)]
  BY <1>1, <1>2, ConcatProperties
<1> HIDE DEF d
<1>5. ASSUME NEW k \in 1..Len(c) PROVE d[k] = c[k]
  <2>1. k \in Nat /\ 1 <= k /\ k <= t - f /\ d[k] = IF k <= g - f THEN a[k] ELSE b[k - (g - f)]
    BY <1>1, <1>2, <1>3, <1>4
  <2>2. c[k] = s[f + k]
    BY <1>3
  <2>3. CASE k <= g - f
    BY <2>1, <2>2, <2>3, <1>1
  <2>4. CASE k > g - f
    <3>1. k - (g - f) \in 1..(t - g) /\ g + (k - (g - f)) = f + k
      BY <2>1, <2>4
    <3> QED BY <3>1, <2>1, <2>2, <2>4, <1>2
  <2> QED BY <2>1, <2>3, <2>4
<1>6. Len(d) = Len(c)
  BY <1>1, <1>2, <1>3, <1>4
<1>7. d = c
  BY <1>3, <1>4, <1>5, <1>6, SeqEqual
<1> QED BY <1>7 DEF a, b, c, d

------------------------------------------------------------------------------
(* The bytes of a stream of replies                                        *)

\* What a reply of the server is.
LEMMA RepliesAre ==
  \A r \in Replies : /\ r.type \in Types /\ r.bytes \in Seq(STRING) /\ r.value \in Seq(STRING)
                     /\ Len(r.bytes) \in Nat /\ WellFormed(r)
BY RepliesAssumption, LenProperties DEF IsReply, Reply

\* Sent does what its definition says: such a function exists for any number of
\* replies, by induction on how many.
LEMMA SentDef ==
  ASSUME NEW rs \in Seq(Replies)
  PROVE  Sent(rs) = [k \in 0..Len(rs) |-> IF k = 0 THEN <<>> ELSE Sent(rs)[k - 1] \o rs[k].bytes]
<1> DEFINE Solves(g, n) == g = [k \in 0..n |-> IF k = 0 THEN <<>> ELSE g[k - 1] \o rs[k].bytes]
           S == {n \in Nat : \E g : Solves(g, n)}
<1>1. 0 \in S
  <2> DEFINE g == [k \in 0..0 |-> <<>>]
  <2>1. Solves(g, 0)
    OBVIOUS
  <2> QED BY <2>1
<1>2. ASSUME NEW n \in Nat, n \in S PROVE n + 1 \in S
  <2>1. PICK g : Solves(g, n)
    BY <1>2
  <2> DEFINE h == [k \in 0..(n + 1) |-> IF k = n + 1 THEN g[n] \o rs[n + 1].bytes ELSE g[k]]
  <2>2. ASSUME NEW k \in 0..(n + 1)
        PROVE  h[k] = IF k = 0 THEN <<>> ELSE h[k - 1] \o rs[k].bytes
    <3>1. CASE k = n + 1
      <4>1. h[n + 1] = g[n] \o rs[n + 1].bytes
        OBVIOUS
      <4>2. n \in 0..(n + 1) /\ n # n + 1 /\ n + 1 # 0 /\ n = (n + 1) - 1
        OBVIOUS
      <4>3. h[n] = g[n]
        BY <4>2
      <4> HIDE DEF h
      <4> QED BY <3>1, <4>1, <4>2, <4>3
    <3>2. CASE k # n + 1
      <4>1. k \in 0..n /\ h[k] = g[k]
        BY <3>2
      <4>2. k # 0 => h[k - 1] = g[k - 1]
        BY <4>1
      <4>3. g[k] = IF k = 0 THEN <<>> ELSE g[k - 1] \o rs[k].bytes
        BY <2>1, <4>1
      <4> QED BY <4>1, <4>2, <4>3
    <3> QED BY <3>1, <3>2
  <2>3. h = [k \in 0..(n + 1) |-> h[k]]
    OBVIOUS
  <2>4. Solves(h, n + 1)
    <3> HIDE DEF h
    <3> QED BY <2>2, <2>3
  <2>5. \E f : Solves(f, n + 1)
    <3> HIDE DEF h, Solves
    <3> QED BY <2>4
  <2> QED BY <2>5
<1>3. Len(rs) \in S
  <2> HIDE DEF S
  <2>1. Nat \subseteq S
    BY <1>1, <1>2, Induction
  <2> QED BY <2>1, LenProperties
<1>4. \E g : Solves(g, Len(rs))
  BY <1>3
<1> QED BY <1>4 DEF Sent

\* The first replies have some bytes, and one more reply adds its own.
LEMMA SentType ==
  ASSUME NEW rs \in Seq(Replies)
  PROVE  /\ Sent(rs)[0] = <<>>
         /\ \A k \in 0..Len(rs) : Sent(rs)[k] \in Seq(STRING)
         /\ \A k \in 1..Len(rs) : Sent(rs)[k] = Sent(rs)[k - 1] \o rs[k].bytes
<1> Len(rs) \in Nat
  BY LenProperties
<1>1. \A k \in 0..Len(rs) : Sent(rs)[k] = IF k = 0 THEN <<>> ELSE Sent(rs)[k - 1] \o rs[k].bytes
  <2> DEFINE f == Sent(rs)
  <2>1. f = [k \in 0..Len(rs) |-> IF k = 0 THEN <<>> ELSE f[k - 1] \o rs[k].bytes]
    BY SentDef
  <2> HIDE DEF f
  <2>2. \A k \in 0..Len(rs) : f[k] = IF k = 0 THEN <<>> ELSE f[k - 1] \o rs[k].bytes
    BY <2>1
  <2> QED BY <2>2 DEF f
<1>2. 0 \in 0..Len(rs) /\ \A k \in 1..Len(rs) : k \in 0..Len(rs) /\ k # 0
  OBVIOUS
<1>3. Sent(rs)[0] = <<>>
  BY <1>1, <1>2, Zenon
<1>4. ASSUME NEW k \in 1..Len(rs) PROVE Sent(rs)[k] = Sent(rs)[k - 1] \o rs[k].bytes
  BY <1>1, <1>2, Zenon
<1> DEFINE S == {k \in Nat : k <= Len(rs) => Sent(rs)[k] \in Seq(STRING)}
<1>5. 0 \in S
  BY <1>3, EmptySeq
<1>6. ASSUME NEW k \in Nat, k \in S PROVE k + 1 \in S
  <2>1. CASE k + 1 <= Len(rs)
    <3>1. rs[k + 1].bytes \in Seq(STRING) /\ Sent(rs)[k] \in Seq(STRING)
      <4>1. rs[k + 1] \in Replies
        BY <2>1, ElementOfSeq
      <4> QED BY <4>1, <2>1, <1>6, RepliesAre
    <3>2. Sent(rs)[k] \o rs[k + 1].bytes \in Seq(STRING)
      BY <3>1, ConcatProperties
    <3>3. k + 1 \in 1..Len(rs) /\ (k + 1) - 1 = k
      BY <2>1
    <3>4. Sent(rs)[k + 1] = Sent(rs)[k] \o rs[k + 1].bytes
      BY <1>4, <3>3, Zenon
    <3>5. Sent(rs)[k + 1] \in Seq(STRING)
      BY <3>2, <3>4, Zenon
    <3> QED BY <3>5
  <2> QED BY <2>1
<1>7. Nat \subseteq S
  <2> HIDE DEF S
  <2> QED BY <1>5, <1>6, Induction
<1>8. ASSUME NEW k \in 0..Len(rs) PROVE Sent(rs)[k] \in Seq(STRING)
  BY <1>7
<1> QED BY <1>3, <1>4, <1>8

\* Where the replies end.
LEMMA Ends ==
  ASSUME NEW rs \in Seq(Replies)
  PROVE  /\ EndOf(rs, 0) = 0 /\ EndOf(rs, Len(rs)) = Len(StreamBytes(rs))
         /\ StreamBytes(rs) \in Seq(STRING)
         /\ \A k \in 0..Len(rs) : EndOf(rs, k) \in Nat
         /\ \A k \in 1..Len(rs) : /\ rs[k] \in Replies
                                 /\ EndOf(rs, k - 1) \in Nat /\ EndOf(rs, k) \in Nat
                                 /\ EndOf(rs, k) = EndOf(rs, k - 1) + Len(rs[k].bytes)
<1> Len(rs) \in Nat
  BY LenProperties
<1> /\ Len(rs) \in 0..Len(rs)
    /\ \A k \in 1..Len(rs) : k \in 0..Len(rs) /\ k - 1 \in 0..Len(rs)
  OBVIOUS
<1>1. EndOf(rs, 0) = 0
  BY SentType, EmptySeq DEF EndOf
<1>2. ASSUME NEW k \in 0..Len(rs) PROVE EndOf(rs, k) \in Nat
  <2>1. Sent(rs)[k] \in Seq(STRING)
    BY SentType
  <2> QED BY <2>1, LenProperties DEF EndOf
<1>3. ASSUME NEW k \in 1..Len(rs)
      PROVE  rs[k] \in Replies /\ EndOf(rs, k) = EndOf(rs, k - 1) + Len(rs[k].bytes)
  <2>1. rs[k] \in Replies
    BY ElementOfSeq
  <2>2. Sent(rs)[k - 1] \in Seq(STRING)
    BY SentType, Zenon
  <2>5. rs[k].bytes \in Seq(STRING)
    BY <2>1, RepliesAre
  <2>3. Len(Sent(rs)[k - 1] \o rs[k].bytes) = Len(Sent(rs)[k - 1]) + Len(rs[k].bytes)
    BY <2>2, <2>5, ConcatProperties
  <2>4. Sent(rs)[k] = Sent(rs)[k - 1] \o rs[k].bytes
    BY SentType
  <2> QED BY <2>1, <2>3, <2>4 DEF EndOf
<1>4. StreamBytes(rs) \in Seq(STRING)
  BY SentType, Zenon DEF StreamBytes
<1> QED BY <1>1, <1>2, <1>3, <1>4 DEF EndOf, StreamBytes

\* What has been sent stays at its place while more is sent.
LEMMA SentKept ==
  ASSUME NEW rs \in Seq(Replies), NEW j \in 0..Len(rs), NEW k \in j..Len(rs)
  PROVE  /\ EndOf(rs, j) <= EndOf(rs, k)
         /\ \A i \in 1..EndOf(rs, j) : Sent(rs)[k][i] = Sent(rs)[j][i]
<1> Len(rs) \in Nat
  BY LenProperties
<1> DEFINE Kept(m) == /\ EndOf(rs, j) <= EndOf(rs, m)
                      /\ \A i \in 1..EndOf(rs, j) : Sent(rs)[m][i] = Sent(rs)[j][i]
           S == {m \in Nat : m \in j..Len(rs) => Kept(m)}
<1>1. 0 \in S
  BY Ends
<1>2. ASSUME NEW m \in Nat, m \in S PROVE m + 1 \in S
  <2>1. SUFFICES ASSUME m + 1 \in j..Len(rs) PROVE Kept(m + 1)
    OBVIOUS
  <2>2. CASE m + 1 = j
    BY <2>2, Ends
  <2>3. CASE m + 1 # j
    <3>1. m \in j..Len(rs) /\ m \in 0..Len(rs) /\ m + 1 \in 1..Len(rs) /\ (m + 1) - 1 = m
      BY <2>1, <2>3
    <3>2. Kept(m)
      BY <1>2, <3>1
    <3> HIDE DEF S
    <3>3. rs[m + 1].bytes \in Seq(STRING) /\ Sent(rs)[m] \in Seq(STRING)
      BY <3>1, Ends, SentType, RepliesAre
    <3>4. EndOf(rs, m) \in Nat /\ EndOf(rs, j) \in Nat /\ Len(rs[m + 1].bytes) \in Nat
      BY <3>1, <3>3, Ends, LenProperties
    <3>5. Sent(rs)[m + 1] = Sent(rs)[m] \o rs[m + 1].bytes
      BY <3>1, SentType
    <3>6. \A i \in 1..(EndOf(rs, m) + Len(rs[m + 1].bytes)) :
             Sent(rs)[m + 1][i] = IF i <= EndOf(rs, m) THEN Sent(rs)[m][i]
                                  ELSE rs[m + 1].bytes[i - EndOf(rs, m)]
      BY <3>3, <3>5, ConcatProperties DEF EndOf
    <3>7. EndOf(rs, m + 1) = EndOf(rs, m) + Len(rs[m + 1].bytes)
      BY <3>1, Ends
    <3>8. ASSUME NEW i \in 1..EndOf(rs, j) PROVE Sent(rs)[m + 1][i] = Sent(rs)[j][i]
      <4>1. i \in 1..(EndOf(rs, m) + Len(rs[m + 1].bytes)) /\ i <= EndOf(rs, m)
        BY <3>2, <3>4
      <4> QED BY <4>1, <3>2, <3>6
    <3>9. EndOf(rs, j) <= EndOf(rs, m + 1)
      BY <3>2, <3>4, <3>7
    <3> QED BY <3>8, <3>9
  <2> QED BY <2>2, <2>3
<1>3. Nat \subseteq S
  <2> HIDE DEF S
  <2> QED BY <1>1, <1>2, Induction
<1>4. k \in Nat
  OBVIOUS
<1> QED BY <1>3, <1>4

\* The bytes of a reply stand where it is in the stream.
LEMMA ReplyAt ==
  ASSUME NEW rs \in Seq(Replies), NEW k \in 1..Len(rs), NEW i \in 1..Len(rs[k].bytes)
  PROVE  StreamBytes(rs)[EndOf(rs, k - 1) + i] = rs[k].bytes[i]
<1> Len(rs) \in Nat
  BY LenProperties
<1> DEFINE b == rs[k].bytes
           n == EndOf(rs, k - 1) + i
<1>1. b \in Seq(STRING) /\ Len(b) \in Nat
  BY Ends, RepliesAre
<1>2. /\ EndOf(rs, k - 1) \in Nat /\ EndOf(rs, k) = EndOf(rs, k - 1) + Len(b)
      /\ Sent(rs)[k - 1] \in Seq(STRING) /\ Sent(rs)[k] = Sent(rs)[k - 1] \o b
  <2>1. k - 1 \in 0..Len(rs)
    OBVIOUS
  <2>2. Sent(rs)[k - 1] \in Seq(STRING) /\ Sent(rs)[k] = Sent(rs)[k - 1] \o b
    BY <2>1, SentType, Zenon
  <2> QED BY <2>2, Ends
<1>3. /\ n \in 1..EndOf(rs, k) /\ n \in 1..(EndOf(rs, k - 1) + Len(b)) /\ n > EndOf(rs, k - 1)
      /\ n - EndOf(rs, k - 1) = i
  BY <1>1, <1>2
<1>4. StreamBytes(rs)[n] = Sent(rs)[k][n]
  BY <1>3, SentKept DEF StreamBytes
<1>5. \A m \in 1..(EndOf(rs, k - 1) + Len(b)) :
        Sent(rs)[k][m] = IF m <= EndOf(rs, k - 1) THEN Sent(rs)[k - 1][m] ELSE b[m - EndOf(rs, k - 1)]
  <2> HIDE DEF b
  <2> QED BY <1>1, <1>2, ConcatProperties DEF EndOf
<1>6. Sent(rs)[k][n] = b[i]
  <2> HIDE DEF b, n
  <2>1. EndOf(rs, k - 1) \in Nat /\ ~(n <= EndOf(rs, k - 1))
    BY <1>2, <1>3
  <2> QED BY <2>1, <1>3, <1>5
<1> QED BY <1>4, <1>6

\* A reply has four bytes at least, its type first, and ends with two that are no
\* type.
LEMMA BytesOfReply ==
  ASSUME NEW rs \in Seq(Replies), NEW k \in 1..Len(rs)
  PROVE  /\ EndOf(rs, k - 1) + 4 <= EndOf(rs, k) /\ EndOf(rs, k) <= Len(StreamBytes(rs))
         /\ rs[k].type \in Types
         /\ StreamBytes(rs)[EndOf(rs, k - 1) + 1] = rs[k].type
         /\ StreamBytes(rs)[EndOf(rs, k) - 1] \notin Types
         /\ StreamBytes(rs)[EndOf(rs, k)] \notin Types
<1> Len(rs) \in Nat
  BY LenProperties
<1> DEFINE b == rs[k].bytes
<1>1. /\ rs[k].type \in Types /\ Len(b) \in Nat /\ Len(b) >= 4 /\ b[1] = rs[k].type
      /\ b[Len(b) - 1] \in {CR, LF} /\ b[Len(b)] \in {CR, LF}
  BY Ends, RepliesAre DEF WellFormed
<1>2. {CR, LF} \cap Types = {}
  BY DEF CR, LF, Types
<1>3. EndOf(rs, k - 1) \in Nat /\ EndOf(rs, k) = EndOf(rs, k - 1) + Len(b)
  BY Ends
<1>4. EndOf(rs, k) <= Len(StreamBytes(rs))
  BY Ends, SentKept
<1>5. \A i \in 1..Len(b) : StreamBytes(rs)[EndOf(rs, k - 1) + i] = b[i]
  BY ReplyAt
<1> HIDE DEF b
<1>6. 1 \in 1..Len(b) /\ Len(b) - 1 \in 1..Len(b) /\ Len(b) \in 1..Len(b)
  BY <1>1
<1>7. StreamBytes(rs)[EndOf(rs, k)] = b[Len(b)]
  BY <1>3, <1>5, <1>6
<1>8. StreamBytes(rs)[EndOf(rs, k) - 1] = b[Len(b) - 1]
  <2>1. EndOf(rs, k) - 1 = EndOf(rs, k - 1) + (Len(b) - 1)
    BY <1>1, <1>3
  <2> QED BY <2>1, <1>5, <1>6
<1>9. EndOf(rs, k - 1) + 4 <= EndOf(rs, k)
  BY <1>1, <1>3
<1> QED BY <1>1, <1>2, <1>4, <1>5, <1>6, <1>7, <1>8, <1>9

------------------------------------------------------------------------------
(* Reading                                                                 *)

\* The bytes s stand at p in b, as far as b goes.
Holds(b, s, p) == \A i \in 1..Len(s) : p + i <= Len(b) => b[p + i] = s[i]

\* So do the parts of s.
LEMMA HoldsParts ==
  ASSUME NEW b \in Seq(STRING), NEW s \in Seq(STRING), NEW t \in Seq(STRING), NEW p \in Nat,
         Holds(b, s \o t, p)
  PROVE  /\ Holds(b, s, p) /\ Holds(b, t, p + Len(s))
         /\ s \o t \in Seq(STRING) /\ Len(s \o t) = Len(s) + Len(t)
<1> DEFINE c == s \o t
<1>1. /\ c \in Seq(STRING) /\ Len(c) = Len(s) + Len(t) /\ Len(s) \in Nat /\ Len(t) \in Nat
      /\ \A i \in 1..(Len(s) + Len(t)) : c[i] = IF i <= Len(s) THEN s[i] ELSE t[i - Len(s)]
  BY ConcatProperties, LenProperties
<1>2. \A i \in 1..(Len(s) + Len(t)) : p + i <= Len(b) => b[p + i] = c[i]
  BY <1>1 DEF Holds
<1> HIDE DEF c
<1>3. Holds(b, s, p)
  <2>1. ASSUME NEW i \in 1..Len(s), p + i <= Len(b) PROVE b[p + i] = s[i]
    <3>1. i \in 1..(Len(s) + Len(t)) /\ i <= Len(s)
      BY <1>1
    <3> QED BY <3>1, <2>1, <1>1, <1>2
  <2> QED BY <2>1 DEF Holds
<1>4. Holds(b, t, p + Len(s))
  <2>1. ASSUME NEW i \in 1..Len(t), p + Len(s) + i <= Len(b) PROVE b[p + Len(s) + i] = t[i]
    <3>1. PICK j \in 1..(Len(s) + Len(t)) : j = Len(s) + i
      BY <1>1
    <3>2. p + j = p + Len(s) + i /\ j > Len(s) /\ j - Len(s) = i
      BY <3>1, <1>1
    <3>3. b[p + j] = c[j] /\ c[j] = t[j - Len(s)]
      BY <3>1, <3>2, <2>1, <1>1, <1>2
    <3> QED BY <3>2, <3>3
  <2> QED BY <2>1 DEF Holds
<1> QED BY <1>1, <1>3, <1>4 DEF c

\* Where all of s is there, a slice of b is s.
LEMMA HoldsSlice ==
  ASSUME NEW b \in Seq(STRING), NEW s \in Seq(STRING), NEW p \in Nat,
         Holds(b, s, p), p + Len(s) <= Len(b)
  PROVE  Slice(b, p, p + Len(s)) = s
<1> DEFINE c == Slice(b, p, p + Len(s))
<1>1. Len(s) \in Nat /\ Len(b) \in Nat /\ p + Len(s) \in Nat /\ p <= p + Len(s) /\ p + Len(s) - p = Len(s)
  BY LenProperties
<1>2. c \in Seq(STRING) /\ Len(c) = Len(s) /\ \A i \in 1..Len(s) : c[i] = b[p + i]
  <2>1. PICK t \in Nat : t = p + Len(s)
    BY <1>1
  <2>2. /\ Slice(b, p, t) \in Seq(STRING) /\ Len(Slice(b, p, t)) = t - p
        /\ \A i \in 1..(t - p) : Slice(b, p, t)[i] = b[p + i]
    BY <2>1, <1>1, SliceHolds
  <2> QED BY <2>1, <2>2, <1>1
<1>3. \A i \in 1..Len(s) : p + i <= Len(b)
  BY <1>1
<1> HIDE DEF c
<1>4. \A i \in 1..Len(c) : c[i] = s[i]
  BY <1>2, <1>3 DEF Holds
<1>5. c = s
  BY <1>2, <1>4, SeqEqual
<1> QED BY <1>5 DEF c

\* Sequences of one and of two.
LEMMA OneTwo ==
  ASSUME NEW S, NEW x \in S, NEW y \in S
  PROVE  /\ <<x>> \in Seq(S) /\ Len(<<x>>) = 1 /\ <<x>>[1] = x
         /\ <<x, y>> \in Seq(S) /\ Len(<<x, y>>) = 2 /\ <<x, y>>[1] = x
OBVIOUS

\* What a line is made of.
LEMMA LineIs ==
  ASSUME NEW type \in STRING, NEW s \in Seq(STRING)
  PROVE  /\ Line(type, s) \in Seq(STRING) /\ Len(Line(type, s)) = Len(s) + 3
         /\ Line(type, s)[1] = type /\ Line(type, s)[Len(s) + 2] = CR
         /\ \A i \in 1..Len(s) : Line(type, s)[1 + i] = s[i]
<1>1. PICK t : t = <<type>>
  OBVIOUS
<1>2. t \in Seq(STRING) /\ Len(t) = 1 /\ t[1] = type
  BY <1>1, OneTwo, Zenon
<1>3. Crlf \in Seq(STRING) /\ Len(Crlf) = 2 /\ Crlf[1] = CR
  <2>1. CR \in STRING /\ LF \in STRING
    BY SymbolsAssumption
  <2> QED BY <2>1, OneTwo, Zenon DEF Crlf
<1>4. Len(s) \in Nat
  BY LenProperties
<1>5. PICK u : u = t \o s
  OBVIOUS
<1>6. /\ u \in Seq(STRING) /\ Len(u) = Len(t) + Len(s)
      /\ \A i \in 1..(Len(t) + Len(s)) : u[i] = IF i <= Len(t) THEN t[i] ELSE s[i - Len(t)]
  BY <1>2, <1>5, ConcatProperties, Zenon
<1>7. PICK v : v = u \o Crlf
  OBVIOUS
<1>8. /\ v \in Seq(STRING) /\ Len(v) = Len(u) + Len(Crlf)
      /\ \A i \in 1..(Len(u) + Len(Crlf)) : v[i] = IF i <= Len(u) THEN u[i] ELSE Crlf[i - Len(u)]
  <2>1. u \in Seq(STRING) /\ Crlf \in Seq(STRING)
    BY <1>3, <1>6
  <2> QED BY <2>1, <1>7, ConcatProperties, Zenon
<1>9. Len(v) = Len(s) + 3 /\ v[1] = type /\ v[Len(s) + 2] = CR
  <2>1. Len(u) = 1 + Len(s) /\ Len(Crlf) = 2 /\ Len(v) = Len(s) + 3
    BY <1>2, <1>3, <1>4, <1>6, <1>8
  <2>2. 1 \in 1..(Len(t) + Len(s)) /\ 1 \in 1..(Len(u) + Len(Crlf)) /\ 1 <= Len(t) /\ 1 <= Len(u)
    BY <2>1, <1>2, <1>4
  <2>3. v[1] = type
    BY <2>2, <1>2, <1>6, <1>8
  <2>4. PICK i \in 1..(Len(u) + Len(Crlf)) : i = Len(s) + 2 /\ ~(i <= Len(u)) /\ i - Len(u) = 1
    BY <2>1, <1>4
  <2>5. v[i] = CR
    BY <2>4, <1>3, <1>8
  <2> QED BY <2>1, <2>3, <2>4, <2>5
<1>10. ASSUME NEW i \in 1..Len(s) PROVE v[1 + i] = s[i]
  <2>1. PICK j \in 1..(Len(t) + Len(s)) : j = 1 + i
    BY <1>2, <1>4
  <2>2. j \in 1..(Len(u) + Len(Crlf)) /\ j <= Len(u) /\ ~(j <= Len(t)) /\ j - Len(t) = i
    BY <2>1, <1>2, <1>3, <1>4, <1>6
  <2> QED BY <2>1, <2>2, <1>6, <1>8
<1>11. v = Line(type, s)
  BY <1>1, <1>5, <1>7 DEF Line
<1> QED BY <1>8, <1>9, <1>10, <1>11

\* The line d, as far as the buffer goes: it is found when its CR is there.
LEMMA LineAt ==
  ASSUME NEW b \in Seq(STRING), NEW o \in Nat, NEW d \in Seq(STRING),
         \A i \in 1..Len(d) : d[i] \notin {CR, LF}, Holds(b, d, o),
         o + Len(d) + 1 <= Len(b) => b[o + Len(d) + 1] = CR
  PROVE  /\ HasLine(b, o) <=> o + Len(d) < Len(b)
         /\ HasLine(b, o) => LineEnd(b, o) = o + Len(d) /\ Slice(b, o, LineEnd(b, o)) = d
<1> DEFINE n == Len(d)
           z == Len(b)
<1>1. n \in Nat /\ z \in Nat
  BY LenProperties
<1>2. \A i \in 1..n : o + i <= z => b[o + i] = d[i]
  BY DEF Holds
<1>9. CR # LF /\ "undefined" # LF /\ "undefined" # CR
  BY DEF CR, LF
<1> HIDE DEF n, z
<1>3. ASSUME NEW e \in o..(z - 1), e < o + n PROVE Byte(b, e) # CR /\ Byte(b, e + 1) # LF
  <2> DEFINE i == e - o + 1
  <2>1. e \in Nat /\ e < z /\ i \in 1..n /\ o + i = e + 1 /\ e + 1 <= z
    BY <1>1, <1>3
  <2>2. Byte(b, e) = d[i]
    BY <2>1, <1>2 DEF Byte, z
  <2>3. CASE e + 1 < z
    <3>1. Byte(b, e + 1) = b[e + 2]
      BY <2>3, <2>1 DEF Byte, z
    <3>2. CASE i < n
      <4>1. i + 1 \in 1..n /\ o + (i + 1) = e + 2 /\ o + (i + 1) <= z
        BY <1>1, <2>1, <2>3, <3>2
      <4>2. b[e + 2] = d[i + 1]
        <5> HIDE DEF i
        <5> QED BY <4>1, <1>2
      <4> HIDE DEF i
      <4> QED BY <2>1, <2>2, <3>1, <4>1, <4>2 DEF n
    <3>3. CASE i = n
      <4>1. e + 2 = o + n + 1 /\ o + n + 1 <= z
        BY <1>1, <2>1, <2>3, <3>3
      <4>2. b[e + 2] = CR
        BY <4>1 DEF n, z
      <4> HIDE DEF i
      <4> QED BY <1>9, <2>1, <2>2, <3>1, <4>2 DEF n
    <3> HIDE DEF i
    <3> QED BY <1>1, <2>1, <3>2, <3>3
  <2>4. CASE ~(e + 1 < z)
    <3>1. Byte(b, e + 1) = "undefined"
      BY <2>4 DEF Byte, z
    <3> HIDE DEF i
    <3> QED BY <1>9, <2>1, <2>2, <3>1 DEF n
  <2> QED BY <2>3, <2>4
<1>4. LineEnds(b, o) = {e \in o..(z - 1) : Byte(b, e) = CR \/ Byte(b, e + 1) = LF}
  BY DEF LineEnds, z
<1>5. \A e \in LineEnds(b, o) : e \in Int /\ e >= o + n
  BY <1>1, <1>3, <1>4
<1>6. CASE o + n < z
  <2>1. o + n \in o..(z - 1) /\ Byte(b, o + n) = CR
    <3>1. o + n \in o..(z - 1) /\ o + n + 1 <= z
      BY <1>1, <1>6
    <3>2. b[o + n + 1] = CR
      BY <3>1 DEF n, z
    <3> QED BY <3>1, <3>2, <1>6 DEF Byte, z
  <2>2. o + n \in LineEnds(b, o)
    BY <2>1, <1>4
  <2>3. HasLine(b, o)
    BY <2>2 DEF HasLine
  <2>4. LineEnd(b, o) = o + n
    <3>1. \A x \in LineEnds(b, o) : (\A y \in LineEnds(b, o) : x <= y) => x = o + n
      BY <2>2, <1>1, <1>5
    <3>2. \A y \in LineEnds(b, o) : o + n <= y
      BY <1>5
    <3> QED BY <2>2, <3>1, <3>2 DEF LineEnd, Min
  <2>5. Slice(b, o, o + n) = d
    BY <1>1, <1>6, HoldsSlice DEF n, z
  <2> QED BY <1>6, <2>3, <2>4, <2>5 DEF n, z
<1>7. CASE ~(o + n < z)
  <2>1. LineEnds(b, o) = {}
    BY <1>1, <1>4, <1>5, <1>7
  <2> QED BY <2>1, <1>7 DEF HasLine, n, z
<1> QED BY <1>6, <1>7

\* A line that stands in the buffer, behind its type.
LEMMA LineFound ==
  ASSUME NEW b \in Seq(STRING), NEW p \in Nat, NEW type \in STRING, NEW d \in Seq(STRING),
         \A i \in 1..Len(d) : d[i] \notin {CR, LF}, Holds(b, Line(type, d), p)
  PROVE  /\ HasLine(b, p + 1) <=> p + 1 + Len(d) < Len(b)
         /\ HasLine(b, p + 1) => /\ LineEnd(b, p + 1) + 2 = p + Len(Line(type, d))
                                /\ Slice(b, p + 1, LineEnd(b, p + 1)) = d
<1>1. /\ Len(d) \in Nat /\ Len(b) \in Nat /\ Len(Line(type, d)) = Len(d) + 3
      /\ Line(type, d)[Len(d) + 2] = CR /\ \A i \in 1..Len(d) : Line(type, d)[1 + i] = d[i]
  BY LineIs, LenProperties
<1>2. \A i \in 1..(Len(d) + 3) : p + i <= Len(b) => b[p + i] = Line(type, d)[i]
  BY <1>1 DEF Holds
<1>3. PICK o \in Nat : o = p + 1
  OBVIOUS
<1>4. Holds(b, d, o)
  <2>1. ASSUME NEW i \in 1..Len(d), o + i <= Len(b) PROVE b[o + i] = d[i]
    <3>1. PICK j \in 1..(Len(d) + 3) : j = 1 + i
      BY <1>1
    <3>2. p + j = o + i
      BY <3>1, <1>3
    <3>3. b[p + j] = Line(type, d)[j]
      BY <3>2, <2>1, <1>2
    <3>4. Line(type, d)[j] = d[i]
      BY <3>1, <1>1
    <3> QED BY <3>2, <3>3, <3>4
  <2> QED BY <2>1 DEF Holds
<1>5. o + Len(d) + 1 <= Len(b) => b[o + Len(d) + 1] = CR
  <2>1. PICK j \in 1..(Len(d) + 3) : j = Len(d) + 2
    BY <1>1
  <2>2. p + j = o + Len(d) + 1
    BY <2>1, <1>1, <1>3
  <2> QED BY <2>1, <2>2, <1>1, <1>2
<1>6. /\ HasLine(b, o) <=> o + Len(d) < Len(b)
      /\ HasLine(b, o) => LineEnd(b, o) = o + Len(d) /\ Slice(b, o, LineEnd(b, o)) = d
  BY <1>4, <1>5, LineAt
<1>7. o + Len(d) + 2 = p + Len(Line(type, d)) /\ o = p + 1
  BY <1>1, <1>3
<1> QED BY <1>6, <1>7

------------------------------------------------------------------------------
(* Headers                                                                 *)

\* Numeral does what its definition says, for the same reason as Sent.
LEMMA NumeralDef ==
  ASSUME NEW ds, Len(ds) \in Nat
  PROVE  \A n \in 0..Len(ds) :
           Numeral(ds)[n] = IF n = 0 THEN 0 ELSE 10 * Numeral(ds)[n - 1] + DigitValue(ds[n])
<1> DEFINE Solves(g, m) == g = [n \in 0..m |-> IF n = 0 THEN 0 ELSE 10 * g[n - 1] + DigitValue(ds[n])]
           S == {m \in Nat : \E g : Solves(g, m)}
<1>1. 0 \in S
  <2> DEFINE g == [n \in 0..0 |-> 0]
  <2>1. Solves(g, 0)
    OBVIOUS
  <2> QED BY <2>1
<1>2. ASSUME NEW m \in Nat, m \in S PROVE m + 1 \in S
  <2>1. PICK g : Solves(g, m)
    BY <1>2
  <2> DEFINE h == [n \in 0..(m + 1) |-> IF n = m + 1 THEN 10 * g[m] + DigitValue(ds[m + 1]) ELSE g[n]]
  <2>2. ASSUME NEW n \in 0..(m + 1)
        PROVE  h[n] = IF n = 0 THEN 0 ELSE 10 * h[n - 1] + DigitValue(ds[n])
    <3>1. CASE n = m + 1
      <4>1. h[m + 1] = 10 * g[m] + DigitValue(ds[m + 1])
        OBVIOUS
      <4>2. m \in 0..(m + 1) /\ m # m + 1 /\ m + 1 # 0 /\ m = (m + 1) - 1
        OBVIOUS
      <4>3. h[m] = g[m]
        BY <4>2
      <4> HIDE DEF h
      <4> QED BY <3>1, <4>1, <4>2, <4>3, Zenon
    <3>2. CASE n # m + 1
      <4>1. n \in 0..m /\ h[n] = g[n]
        BY <3>2
      <4>2. n # 0 => h[n - 1] = g[n - 1]
        BY <4>1
      <4>3. g[n] = IF n = 0 THEN 0 ELSE 10 * g[n - 1] + DigitValue(ds[n])
        BY <2>1, <4>1
      <4> QED BY <4>1, <4>2, <4>3, Zenon
    <3> QED BY <3>1, <3>2
  <2>3. h = [n \in 0..(m + 1) |-> h[n]]
    OBVIOUS
  <2>4. Solves(h, m + 1)
    <3> HIDE DEF h
    <3> QED BY <2>2, <2>3
  <2>5. \E f : Solves(f, m + 1)
    <3> HIDE DEF h, Solves
    <3> QED BY <2>4
  <2> QED BY <2>5
<1>3. Len(ds) \in S
  <2> HIDE DEF S
  <2>1. Nat \subseteq S
    BY <1>1, <1>2, Induction
  <2> QED BY <2>1
<1>4. \E g : Solves(g, Len(ds))
  BY <1>3
<1> DEFINE f == Numeral(ds)
<1>5. f = [n \in 0..Len(ds) |-> IF n = 0 THEN 0 ELSE 10 * f[n - 1] + DigitValue(ds[n])]
  BY <1>4 DEF Numeral
<1> HIDE DEF f
<1>6. \A n \in 0..Len(ds) : f[n] = IF n = 0 THEN 0 ELSE 10 * f[n - 1] + DigitValue(ds[n])
  BY <1>5
<1> QED BY <1>6 DEF f

\* The ten digits are different, and none of them is a sign or a line end.
LEMMA DigitIs ==
  ASSUME NEW i \in 1..10
  PROVE  /\ Digits[i] \in STRING /\ Digits[i] \notin {CR, LF, "-"}
         /\ DigitValue(Digits[i]) = i - 1
<1>1. DOMAIN Digits = 1..10
  BY DEF Digits
<1>2. \A j \in 1..10 : Digits[j] = Digits[i] => j = i
  BY DEF Digits
<1>3. (CHOOSE j \in DOMAIN Digits : Digits[j] = Digits[i]) = i
  BY <1>1, <1>2
<1>4. Digits[i] \in STRING
  BY SymbolsAssumption
<1>5. Digits[i] \notin {CR, LF, "-"}
  BY DEF Digits, CR, LF
<1> QED BY <1>3, <1>4, <1>5 DEF DigitValue

\* The digits ds are the numeral of v.
IsNumeral(ds, v) ==
  /\ ds \in Seq(STRING) /\ \A i \in 1..Len(ds) : ds[i] \notin {CR, LF, "-"}
  /\ Numeral(ds)[Len(ds)] = v

\* No digits are the numeral of 0.
LEMMA NoDigits == IsNumeral(<<>>, 0)
<1>1. PICK ds \in Seq(STRING) : ds = <<>> /\ Len(ds) = 0
  BY EmptySeq
<1>2. Numeral(ds)[0] = 0
  BY <1>1, NumeralDef
<1>3. IsNumeral(ds, 0)
  BY <1>1, <1>2 DEF IsNumeral
<1> QED BY <1>1, <1>3

\* One more digit makes of a number ten times as much, and the digit.
LEMMA DigitAdded ==
  ASSUME NEW ds, NEW v \in Nat, IsNumeral(ds, v), NEW j \in 1..10
  PROVE  /\ IsNumeral(ds \o <<Digits[j]>>, 10 * v + (j - 1))
         /\ Len(ds \o <<Digits[j]>>) = Len(ds) + 1
<1>1. PICK y \in STRING : y = Digits[j] /\ y \notin {CR, LF, "-"} /\ DigitValue(y) = j - 1
  BY DigitIs
<1>2. PICK m \in Nat : m = Len(ds)
  BY LenProperties DEF IsNumeral
<1>3. PICK es : es = ds \o <<y>>
  OBVIOUS
<1>4. /\ es \in Seq(STRING) /\ Len(es) = m + 1 /\ es[m + 1] = y
      /\ \A i \in 1..m : es[i] = ds[i]
  <2>1. <<y>> \in Seq(STRING) /\ Len(<<y>>) = 1 /\ <<y>>[1] = y
    BY OneTwo
  <2> QED BY <1>2, <1>3, <2>1, ConcatProperties DEF IsNumeral
<1>5. /\ Numeral(ds)[0] = 0 /\ Numeral(es)[0] = 0
      /\ \A n \in 0..m : n + 1 <= m => Numeral(ds)[n + 1] = 10 * Numeral(ds)[n] + DigitValue(ds[n + 1])
      /\ \A n \in 0..m : Numeral(es)[n + 1] = 10 * Numeral(es)[n] + DigitValue(es[n + 1])
  <2>1. \A n \in 0..m : Numeral(ds)[n] = IF n = 0 THEN 0 ELSE 10 * Numeral(ds)[n - 1] + DigitValue(ds[n])
    BY <1>2, NumeralDef, Zenon
  <2>2. \A n \in 0..(m + 1) :
          Numeral(es)[n] = IF n = 0 THEN 0 ELSE 10 * Numeral(es)[n - 1] + DigitValue(es[n])
    <3>1. Len(es) \in Nat /\ Len(es) = m + 1
      BY <1>4
    <3> QED BY <3>1, NumeralDef, Zenon
  <2>3. 0 \in 0..m /\ 0 \in 0..(m + 1)
    OBVIOUS
  <2>4. ASSUME NEW n \in 0..m
        PROVE  /\ n + 1 # 0 /\ (n + 1) - 1 = n /\ n + 1 \in 0..(m + 1)
               /\ n + 1 <= m => n + 1 \in 0..m
    OBVIOUS
  <2>5. Numeral(ds)[0] = 0 /\ Numeral(es)[0] = 0
    BY <2>1, <2>2, <2>3, Zenon
  <2>6. \A n \in 0..m : n + 1 <= m => Numeral(ds)[n + 1] = 10 * Numeral(ds)[n] + DigitValue(ds[n + 1])
    BY <2>1, <2>4, Zenon
  <2>7. \A n \in 0..m : Numeral(es)[n + 1] = 10 * Numeral(es)[n] + DigitValue(es[n + 1])
    BY <2>2, <2>4, Zenon
  <2> QED BY <2>5, <2>6, <2>7
<1> DEFINE S == {n \in Nat : n <= m => Numeral(es)[n] = Numeral(ds)[n]}
<1>6. 0 \in S
  BY <1>5
<1>7. ASSUME NEW n \in Nat, n \in S PROVE n + 1 \in S
  <2>1. ASSUME n + 1 <= m PROVE Numeral(es)[n + 1] = Numeral(ds)[n + 1]
    <3>1. n \in 0..m /\ n <= m /\ n + 1 \in 1..m
      BY <2>1
    <3>2. Numeral(es)[n] = Numeral(ds)[n] /\ es[n + 1] = ds[n + 1]
      BY <1>4, <1>7, <3>1
    <3> QED BY <1>5, <2>1, <3>1, <3>2, Zenon
  <2> QED BY <2>1
<1>8. Nat \subseteq S
  <2> HIDE DEF S
  <2> QED BY <1>6, <1>7, Induction
<1>9. Numeral(es)[m] = v
  <2>1. Numeral(es)[m] = Numeral(ds)[m]
    BY <1>8
  <2> QED BY <1>2, <2>1 DEF IsNumeral
<1>10. Numeral(es)[m + 1] = 10 * v + (j - 1)
  <2>1. m \in 0..m
    OBVIOUS
  <2>2. Numeral(es)[m + 1] = 10 * Numeral(es)[m] + DigitValue(es[m + 1])
    BY <1>5, <2>1, Zenon
  <2> QED BY <1>1, <1>4, <1>9, <2>2, Zenon
<1>11. \A i \in 1..(m + 1) : es[i] \notin {CR, LF, "-"}
  <2>1. ASSUME NEW i \in 1..m PROVE es[i] \notin {CR, LF, "-"}
    BY <1>2, <1>4 DEF IsNumeral
  <2>2. \A i \in 1..(m + 1) : i \in 1..m \/ i = m + 1
    OBVIOUS
  <2> QED BY <1>1, <1>4, <2>1, <2>2, Zenon
<1>12. IsNumeral(es, 10 * v + (j - 1))
  BY <1>4, <1>10, <1>11, Zenon DEF IsNumeral
<1> QED BY <1>1, <1>2, <1>3, <1>4, <1>12

\* The digits of the numbers up to n.
IsDecimals(g, n) ==
  g = [k \in 0..n |-> (IF k < 10 THEN <<>> ELSE g[k \div 10]) \o <<Digits[(k % 10) + 1]>>]

\* Decimal does what its definition says, for the same reason as Sent.
LEMMA DecimalDef ==
  ASSUME NEW n \in Nat
  PROVE  \E g : IsDecimals(g, n) /\ Decimal(n) = g[n]
<1> DEFINE S == {m \in Nat : \E g : IsDecimals(g, m)}
<1>1. 0 \in S
  <2> DEFINE g == [k \in 0..0 |-> <<>> \o <<Digits[(k % 10) + 1]>>]
  <2>1. \A k \in 0..0 : k < 10
    OBVIOUS
  <2>2. \A k \in 0..0 : (IF k < 10 THEN <<>> ELSE g[k \div 10]) = <<>>
    BY <2>1, Zenon
  <2>3. g = [k \in 0..0 |-> (IF k < 10 THEN <<>> ELSE g[k \div 10]) \o <<Digits[(k % 10) + 1]>>]
    <3> DEFINE left(k)  == <<>> \o <<Digits[(k % 10) + 1]>>
               right(k) == (IF k < 10 THEN <<>> ELSE g[k \div 10]) \o <<Digits[(k % 10) + 1]>>
    <3>1. \A k \in 0..0 : left(k) = right(k)
      BY <2>2, Zenon
    <3>2. [k \in 0..0 |-> left(k)] = [k \in 0..0 |-> right(k)]
      <4> HIDE DEF left, right
      <4> QED BY <3>1
    <3> QED BY <3>2, Zenon
  <2>4. \E f : IsDecimals(f, 0)
    <3> HIDE DEF g
    <3> QED BY <2>3, Zenon DEF IsDecimals
  <2> QED BY <2>4
<1>2. ASSUME NEW m \in Nat, m \in S PROVE m + 1 \in S
  <2>1. PICK g : IsDecimals(g, m)
    BY <1>2
  <2> DEFINE made(f, k) == (IF k < 10 THEN <<>> ELSE f[k \div 10]) \o <<Digits[(k % 10) + 1]>>
             h == [k \in 0..(m + 1) |-> IF k = m + 1 THEN made(g, m + 1) ELSE g[k]]
  <2>2. g = [k \in 0..m |-> made(g, k)]
    BY <2>1, Zenon DEF IsDecimals
  <2>3. \A k \in 0..m : g[k] = made(g, k)
    <3> HIDE DEF made
    <3> QED BY <2>2
  <2>4. \A k \in 0..(m + 1) : k >= 10 => k \div 10 \in 0..m
    OBVIOUS
  <2>5. \A k \in 0..m : h[k] = g[k]
    <3> HIDE DEF made
    <3> QED OBVIOUS
  <2>6. h[m + 1] = made(g, m + 1)
    <3> HIDE DEF made
    <3> QED OBVIOUS
  <2>7. h = [k \in 0..(m + 1) |-> h[k]]
    <3> HIDE DEF made
    <3> QED OBVIOUS
  <2> HIDE DEF h
  <2>8. ASSUME NEW k \in 0..(m + 1) PROVE made(h, k) = made(g, k)
    <3>1. CASE k < 10
      BY <3>1, Zenon
    <3>2. CASE ~(k < 10)
      <4>1. k \div 10 \in 0..m
        BY <2>4, <3>2
      <4>2. h[k \div 10] = g[k \div 10]
        BY <2>5, <4>1, Zenon
      <4> QED BY <3>2, <4>2, Zenon
    <3> QED BY <3>1, <3>2
  <2> HIDE DEF made
  <2>9. \A k \in 0..(m + 1) : k \in 0..m \/ k = m + 1
    OBVIOUS
  <2>10. \A k \in 0..(m + 1) : h[k] = made(h, k)
    BY <2>3, <2>5, <2>6, <2>8, <2>9, Zenon
  <2>11. h = [k \in 0..(m + 1) |-> made(h, k)]
    BY <2>7, <2>10
  <2>12. IsDecimals(h, m + 1)
    BY <2>11, Zenon DEF IsDecimals, made
  <2> QED BY <2>12
<1>3. n \in S
  <2> HIDE DEF S
  <2> QED BY <1>1, <1>2, Induction
<1>4. \E g : IsDecimals(g, n)
  BY <1>3
<1> DEFINE f == CHOOSE g : IsDecimals(g, n)
<1>5. IsDecimals(f, n)
  BY <1>4, Zenon
<1>6. Decimal(n) = f[n]
  BY Zenon DEF Decimal, IsDecimals
<1> QED BY <1>5, <1>6, Zenon

\* A length, written in a header, is read as it is.
LEMMA DecimalIs ==
  ASSUME NEW n \in Nat
  PROVE  /\ Decimal(n) \in Seq(STRING)
         /\ \A i \in 1..Len(Decimal(n)) : Decimal(n)[i] \notin {CR, LF}
         /\ HeaderValue(Decimal(n)) = n
<1>1. PICK g : IsDecimals(g, n) /\ Decimal(n) = g[n]
  BY DecimalDef
<1>2. ASSUME NEW k \in 0..n
      PROVE  g[k] = (IF k < 10 THEN <<>> ELSE g[k \div 10]) \o <<Digits[(k % 10) + 1]>>
  <2> DEFINE made(j) == (IF j < 10 THEN <<>> ELSE g[j \div 10]) \o <<Digits[(j % 10) + 1]>>
  <2>1. g = [j \in 0..n |-> made(j)]
    BY <1>1, Zenon DEF IsDecimals
  <2>2. g[k] = made(k)
    <3> HIDE DEF made
    <3> QED BY <2>1
  <2> QED BY <2>2, Zenon
<1> DEFINE Good(k) == IsNumeral(g[k], k) /\ Len(g[k]) >= 1
           S == {m \in Nat : \A k \in 0..n : k <= m => Good(k)}
<1>3. ASSUME NEW k \in 0..n, \A j \in 0..n : j < k => Good(j)
      PROVE  Good(k)
  <2>1. PICK q \in Nat, r \in 0..9 : k \div 10 = q /\ k % 10 = r /\ k = 10 * q + r
    OBVIOUS
  <2>2. PICK i \in 1..10 : i = r + 1
    OBVIOUS
  <2>3. PICK ds : ds = (IF k < 10 THEN <<>> ELSE g[k \div 10])
    OBVIOUS
  <2>4. IsNumeral(ds, q)
    <3>1. CASE k < 10
      <4>1. q = 0 /\ ds = <<>>
        BY <2>1, <2>3, <3>1
      <4> QED BY <4>1, NoDigits, Zenon
    <3>2. CASE ~(k < 10)
      <4>1. q \in 0..n /\ q < k /\ ds = g[q]
        BY <2>1, <2>3, <3>2
      <4> QED BY <1>3, <4>1, Zenon
    <3> QED BY <3>1, <3>2
  <2>5. g[k] = ds \o <<Digits[i]>>
    BY <1>2, <2>1, <2>2, <2>3, Zenon
  <2>6. IsNumeral(ds \o <<Digits[i]>>, 10 * q + (i - 1)) /\ Len(ds \o <<Digits[i]>>) = Len(ds) + 1
    BY <2>4, DigitAdded
  <2>7. 10 * q + (i - 1) = k
    BY <2>1, <2>2
  <2>8. Len(ds) \in Nat
    BY <2>4, LenProperties DEF IsNumeral
  <2>9. IsNumeral(g[k], k)
    BY <2>5, <2>6, <2>7, Zenon
  <2>10. Len(g[k]) >= 1
    BY <2>5, <2>6, <2>8
  <2> QED BY <2>9, <2>10
<1> HIDE DEF Good
<1>4. 0 \in S
  <2>1. ASSUME NEW k \in 0..n, k <= 0 PROVE Good(k)
    <3>1. \A j \in 0..n : ~(j < k)
      BY <2>1
    <3> QED BY <1>3, <3>1, Zenon
  <2> QED BY <2>1
<1>5. ASSUME NEW m \in Nat, m \in S PROVE m + 1 \in S
  <2>1. ASSUME NEW k \in 0..n, k <= m + 1 PROVE Good(k)
    <3>1. \A j \in 0..n : j < k => j <= m
      BY <2>1
    <3>2. \A j \in 0..n : j <= m => Good(j)
      BY <1>5
    <3> QED BY <1>3, <3>1, <3>2, Zenon
  <2> QED BY <2>1
<1>6. Good(n)
  <2>1. Nat \subseteq S
    <3> HIDE DEF S
    <3> QED BY <1>4, <1>5, Induction
  <2>2. n \in S /\ n \in 0..n /\ n <= n
    BY <2>1
  <2> QED BY <2>2
<1>7. PICK ds \in Seq(STRING) : /\ ds = Decimal(n) /\ Numeral(ds)[Len(ds)] = n /\ Len(ds) >= 1
                               /\ \A i \in 1..Len(ds) : ds[i] \notin {CR, LF, "-"}
  BY <1>1, <1>6 DEF Good, IsNumeral
<1>8. HeaderValue(ds) = n
  <2>1. Head(ds) = ds[1] /\ 1 \in 1..Len(ds)
    BY <1>7, HeadTailProperties
  <2>2. Head(ds) # "-"
    BY <1>7, <2>1
  <2> QED BY <1>7, <2>2, Zenon DEF HeaderValue
<1> QED BY <1>7, <1>8

\* The header of a null reply.
LEMMA NullHeader ==
  /\ <<"-", "1">> \in Seq(STRING) /\ Len(<<"-", "1">>) = 2
  /\ \A i \in 1..2 : <<"-", "1">>[i] \notin {CR, LF}
  /\ HeaderValue(<<"-", "1">>) = -1
<1>1. Digits[2] = "1" /\ "-" \in STRING /\ Digits[2] \in STRING
  BY SymbolsAssumption DEF Digits
<1>2. <<"-", "1">> \in Seq(STRING) /\ Len(<<"-", "1">>) = 2
  BY <1>1, OneTwo
<1>3. \A i \in 1..2 : <<"-", "1">>[i] \notin {CR, LF}
  BY DEF CR, LF
<1>4. HeaderValue(<<"-", "1">>) = -Numeral(<<"1">>)[1]
  BY DEF HeaderValue
<1>5. Numeral(<<"1">>)[1] = 1
  <2>1. PICK d \in STRING : d = "1" /\ d = Digits[2]
    BY <1>1
  <2>2. PICK ds : ds = <<d>> /\ Len(ds) = 1 /\ ds[1] = d
    BY OneTwo
  <2>3. /\ Numeral(ds)[0] = 0
        /\ Numeral(ds)[1] = 10 * Numeral(ds)[0] + DigitValue(ds[1])
    <3>1. Len(ds) \in Nat /\ 0 \in 0..Len(ds) /\ 1 \in 0..Len(ds) /\ 1 - 1 = 0
      BY <2>2
    <3>2. \A n \in 0..Len(ds) :
            Numeral(ds)[n] = IF n = 0 THEN 0 ELSE 10 * Numeral(ds)[n - 1] + DigitValue(ds[n])
      BY <3>1, NumeralDef, Zenon
    <3> QED BY <3>1, <3>2
  <2>4. DigitValue(Digits[2]) = 2 - 1
    BY DigitIs
  <2> QED BY <2>1, <2>2, <2>3, <2>4
<1> QED BY <1>2, <1>3, <1>4, <1>5

------------------------------------------------------------------------------
(* Replies that are not arrays                                             *)

\* What is read is the value of something that ends at end, if all of it is there;
\* the last two bytes need not be.
Yields(b, x, value, end) ==
  /\ end <= Len(b) => x.complete
  /\ x.complete => x.value = value /\ x.offset = end /\ x.offset <= Len(b) + 2

\* _parseResult makes of the bytes at p the reply r.
ReadsAs(b, multi, r, p) ==
  Yields(b, ParseAt(b, multi, r.type, p + 1), r.value, p + Len(r.bytes))

\* The types are strings.
LEMMA TypesAre == \A type \in Types : type \in STRING
BY SymbolsAssumption

\* The text of a reply is a sequence of strings.
LEMMA TextIs == \A r \in Replies : Text(r) \in Seq(STRING) /\ Len(Text(r)) \in Nat
<1> SUFFICES ASSUME NEW r \in Replies PROVE Text(r) \in Seq(STRING) /\ Len(Text(r)) \in Nat
  OBVIOUS
<1>1. r.value \in Seq(STRING) /\ Len(r.value) \in Nat
  BY RepliesAre, LenProperties
<1>2. \A i \in 2..(Len(r.value) - 1) : r.value[i] \in STRING
  BY <1>1, ElementOfSeq
<1>3. Text(r) \in Seq(STRING)
  BY <1>1, <1>2, SubSeqProperties DEF Text
<1> QED BY <1>3, LenProperties

\* A status, an error or an integer.
LEMMA ReadsLine ==
  ASSUME NEW b \in Seq(STRING), NEW multi, NEW p \in Nat, NEW r, NEW s \in Seq(STRING),
         \A i \in 1..Len(s) : s[i] \notin {CR, LF},
         r.type \in {"+", "-", ":"}, r.bytes = Line(r.type, s),
         r.value = IF r.type = ":" THEN NumberValue(s) ELSE StringValue(s),
         Holds(b, r.bytes, p)
  PROVE  ReadsAs(b, multi, r, p)
<1>1. PICK type \in STRING : type = r.type
  BY TypesAre DEF Types
<1> DEFINE o == p + 1
<1>2. /\ HasLine(b, o) <=> p + 1 + Len(s) < Len(b)
      /\ HasLine(b, o) => /\ LineEnd(b, o) + 2 = p + Len(r.bytes)
                          /\ Slice(b, o, LineEnd(b, o)) = s
  <2>1. Line(type, s) = r.bytes
    BY <1>1
  <2>2. Holds(b, Line(type, s), p)
    BY <2>1
  <2>3. b \in Seq(STRING) /\ p \in Nat /\ type \in STRING /\ s \in Seq(STRING)
    OBVIOUS
  <2> HIDE DEF o
  <2> QED BY <2>1, <2>2, <2>3, LineFound DEF o
<1>3. Len(r.bytes) = Len(s) + 3 /\ Len(b) \in Nat /\ Len(s) \in Nat
  BY <1>1, LineIs, LenProperties
<1>4. ParseAt(b, multi, type, o) = ParseLine(b, type, o)
  BY <1>1 DEF ParseAt, ParseFlat
<1> HIDE DEF o
<1>5. CASE ~HasLine(b, o)
  <2>1. ~ParseAt(b, multi, type, o).complete
    BY <1>4, <1>5 DEF ParseLine, Incomplete
  <2>2. ~(p + Len(r.bytes) <= Len(b))
    BY <1>2, <1>3, <1>5
  <2> QED BY <2>1, <2>2, <1>1 DEF Yields, ReadsAs, o
<1>6. CASE HasLine(b, o)
  <2>1. ParseAt(b, multi, type, o) = Returns(r.value, LineEnd(b, o) + 2)
    BY <1>1, <1>2, <1>4, <1>6 DEF ParseLine
  <2>2. p + Len(r.bytes) <= Len(b) + 2
    BY <1>2, <1>3, <1>6
  <2>3. ParseAt(b, multi, type, o) = Returns(r.value, p + Len(r.bytes))
    BY <2>1, <1>2, <1>6
  <2> QED BY <2>2, <2>3, <1>1 DEF Yields, ReadsAs, Returns, o
<1> QED BY <1>5, <1>6

\* What ends a bulk reply.
LEMMA CrlfIs == Crlf \in Seq(STRING) /\ Len(Crlf) = 2
<1>1. CR \in STRING /\ LF \in STRING
  BY SymbolsAssumption
<1> QED BY <1>1, OneTwo, Zenon DEF Crlf

\* The parts of a bulk reply.
LEMMA BulkParts ==
  ASSUME NEW b \in Seq(STRING), NEW p \in Nat, NEW h \in Seq(STRING), NEW s \in Seq(STRING),
         Holds(b, h \o s \o Crlf, p)
  PROVE  /\ Holds(b, h, p) /\ Holds(b, s, p + Len(h))
         /\ Len(h \o s \o Crlf) = Len(h) + Len(s) + 2
<1>1. PICK u \in Seq(STRING) : u = h \o s
  BY ConcatProperties
<1>2. Holds(b, u \o Crlf, p)
  BY <1>1
<1>3. Holds(b, u, p) /\ Len(u \o Crlf) = Len(u) + 2
  <2>1. Holds(b, u, p)
    BY <1>2, CrlfIs, HoldsParts, Zenon
  <2>2. PICK c \in Seq(STRING) : c = Crlf /\ Len(c) = 2
    BY CrlfIs
  <2>3. Len(u \o c) = Len(u) + Len(c)
    OBVIOUS
  <2> QED BY <2>1, <2>2, <2>3
<1>4. Holds(b, h \o s, p)
  BY <1>1, <1>3
<1>5. Holds(b, h, p) /\ Holds(b, s, p + Len(h)) /\ Len(h \o s) = Len(h) + Len(s)
  <2>1. Holds(b, h, p) /\ Holds(b, s, p + Len(h))
    BY <1>4, HoldsParts, Zenon
  <2> QED BY <2>1
<1> QED BY <1>1, <1>3, <1>5

\* A bulk reply, of any bytes.
LEMMA ReadsBulk ==
  ASSUME NEW b \in Seq(STRING), NEW multi, NEW p \in Nat, NEW s \in Seq(STRING),
         Holds(b, Bulk(s).bytes, p)
  PROVE  ReadsAs(b, multi, Bulk(s), p)
<1>1. Len(b) \in Nat /\ Len(s) \in Nat /\ "$" \in STRING
  BY TypesAre, LenProperties DEF Types
<1>3. PICK d \in Seq(STRING) : /\ d = Decimal(Len(s)) /\ HeaderValue(d) = Len(s)
                              /\ \A i \in 1..Len(d) : d[i] \notin {CR, LF}
  BY <1>1, DecimalIs
<1>4. PICK h \in Seq(STRING) : h = Line("$", d) /\ Len(h) = Len(d) + 3
  BY <1>1, LineIs
<1>5. Bulk(s).bytes = h \o s \o Crlf /\ Bulk(s).type = "$" /\ Bulk(s).value = StringValue(s)
  BY <1>3, <1>4 DEF Bulk
<1>6. Holds(b, h, p) /\ Holds(b, s, p + Len(h)) /\ Len(Bulk(s).bytes) = Len(h) + Len(s) + 2
  BY <1>5, BulkParts
<1>7. PICK q \in Nat : q = p + Len(h)
  BY LenProperties
<1>8. PICK o \in Nat : o = p + 1
  OBVIOUS
<1>9. /\ HasLine(b, o) <=> o + Len(d) < Len(b)
      /\ HasLine(b, o) => LineEnd(b, o) + 2 = q /\ Slice(b, o, LineEnd(b, o)) = d
  <2>1. PICK type \in STRING : type = "$"
    BY <1>1
  <2>2. Holds(b, Line(type, d), p) /\ Line(type, d) = h
    BY <2>1, <1>4, <1>6
  <2>3. /\ HasLine(b, p + 1) <=> p + 1 + Len(d) < Len(b)
        /\ HasLine(b, p + 1) => /\ LineEnd(b, p + 1) + 2 = p + Len(Line(type, d))
                               /\ Slice(b, p + 1, LineEnd(b, p + 1)) = d
    <3>1. Holds(b, Line(type, d), p)
      BY <2>2
    <3>2. \A i \in 1..Len(d) : d[i] \notin {CR, LF}
      BY <1>3
    <3> QED BY <3>1, <3>2, LineFound, Zenon
  <2> QED BY <2>2, <2>3, <1>7, <1>8
<1>10. HasLine(b, o) => Header(b, o) = Len(s)
  BY <1>3, <1>9 DEF Header
<1>11. ParseAt(b, multi, "$", p + 1) = ParseBulk(b, o)
  BY <1>8 DEF ParseAt, ParseFlat
<1>12. p + Len(Bulk(s).bytes) = q + Len(s) + 2 /\ q = o + Len(d) + 2 /\ Len(d) \in Nat
  BY <1>1, <1>4, <1>6, <1>7, <1>8, LenProperties
<1>13. CASE ~HasLine(b, o)
  <2>1. ~ParseAt(b, multi, "$", p + 1).complete
    BY <1>11, <1>13 DEF ParseBulk, Incomplete
  <2>2. ~(p + Len(Bulk(s).bytes) <= Len(b))
    BY <1>1, <1>9, <1>12, <1>13
  <2> QED BY <2>1, <2>2, <1>5 DEF Yields, ReadsAs
<1>14. CASE HasLine(b, o) /\ q + Len(s) > Len(b)
  <2>1. Header(b, o) # -1
    BY <1>1, <1>10, <1>14
  <2>2. ParseBulk(b, o) = Incomplete
    BY <2>1, <1>9, <1>10, <1>14 DEF ParseBulk
  <2>3. ~ParseAt(b, multi, "$", p + 1).complete
    BY <2>2, <1>11 DEF Incomplete
  <2>4. ~(p + Len(Bulk(s).bytes) <= Len(b))
    BY <1>1, <1>12, <1>14
  <2> QED BY <2>3, <2>4, <1>5 DEF Yields, ReadsAs
<1>15. CASE HasLine(b, o) /\ q + Len(s) <= Len(b)
  <2>1. Header(b, o) # -1 /\ ~(q + Len(s) > Len(b))
    BY <1>1, <1>10, <1>15
  <2>2. Slice(b, q, q + Len(s)) = s
    BY <1>6, <1>7, <1>15, HoldsSlice
  <2>3. ParseBulk(b, o) = Returns(StringValue(s), q + Len(s) + 2)
    BY <2>1, <2>2, <1>9, <1>10, <1>15 DEF ParseBulk
  <2>4. ParseAt(b, multi, "$", p + 1) = Returns(Bulk(s).value, p + Len(Bulk(s).bytes))
    BY <2>3, <1>5, <1>11, <1>12
  <2>5. p + Len(Bulk(s).bytes) <= Len(b) + 2
    BY <1>1, <1>12, <1>15
  <2> QED BY <2>4, <2>5, <1>5 DEF Yields, ReadsAs, Returns
<1>16. q + Len(s) > Len(b) \/ q + Len(s) <= Len(b)
  BY <1>1
<1> QED BY <1>13, <1>14, <1>15, <1>16

\* The header of a null reply.
LEMMA NullLine ==
  ASSUME NEW b \in Seq(STRING), NEW p \in Nat, NEW type \in STRING,
         Holds(b, Line(type, <<"-", "1">>), p)
  PROVE  /\ Len(Line(type, <<"-", "1">>)) = 5
         /\ HasLine(b, p + 1) <=> p + 3 < Len(b)
         /\ HasLine(b, p + 1) => LineEnd(b, p + 1) + 2 = p + 5 /\ Header(b, p + 1) = -1
<1>1. PICK d \in Seq(STRING) : d = <<"-", "1">>
  BY NullHeader
<1>2. Len(d) = 2 /\ HeaderValue(d) = -1 /\ \A i \in 1..Len(d) : d[i] \notin {CR, LF}
  BY <1>1, NullHeader
<1>3. Len(Line(type, d)) = 5
  <2>1. Len(Line(type, d)) = Len(d) + 3
    BY LineIs, Zenon
  <2> QED BY <2>1, <1>2
<1>4. /\ HasLine(b, p + 1) <=> p + 1 + Len(d) < Len(b)
      /\ HasLine(b, p + 1) => /\ LineEnd(b, p + 1) + 2 = p + Len(Line(type, d))
                             /\ Slice(b, p + 1, LineEnd(b, p + 1)) = d
  <2>1. Holds(b, Line(type, d), p)
    BY <1>1
  <2> QED BY <2>1, <1>2, LineFound, Zenon
<1>5. HasLine(b, p + 1) => Header(b, p + 1) = -1
  BY <1>2, <1>4 DEF Header
<1>6. Len(b) \in Nat
  BY LenProperties
<1>7. Len(Line(type, <<"-", "1">>)) = 5
  BY <1>1, <1>3
<1>8. HasLine(b, p + 1) <=> p + 3 < Len(b)
  BY <1>2, <1>4, <1>6
<1>9. HasLine(b, p + 1) => LineEnd(b, p + 1) + 2 = p + 5
  BY <1>3, <1>4
<1> QED BY <1>5, <1>7, <1>8, <1>9

\* A null bulk reply.
LEMMA ReadsNullBulk ==
  ASSUME NEW b \in Seq(STRING), NEW multi, NEW p \in Nat, Holds(b, NullBulk.bytes, p)
  PROVE  ReadsAs(b, multi, NullBulk, p)
<1>1. NullBulk.bytes = Line("$", <<"-", "1">>) /\ NullBulk.type = "$" /\ NullBulk.value = NullValue
  BY DEF NullBulk
<1>2. Len(b) \in Nat /\ "$" \in STRING
  BY TypesAre, LenProperties DEF Types
<1>3. PICK o \in Nat : o = p + 1
  OBVIOUS
<1>4. /\ Len(NullBulk.bytes) = 5
      /\ HasLine(b, o) <=> p + 3 < Len(b)
      /\ HasLine(b, o) => LineEnd(b, o) + 2 = p + 5 /\ Header(b, o) = -1
  BY <1>1, <1>2, <1>3, NullLine
<1>5. ParseAt(b, multi, NullBulk.type, p + 1) = ParseBulk(b, o)
  BY <1>1, <1>3 DEF ParseAt, ParseFlat
<1>6. CASE ~HasLine(b, o)
  <2>1. ~ParseAt(b, multi, NullBulk.type, p + 1).complete
    BY <1>5, <1>6 DEF ParseBulk, Incomplete
  <2>2. ~(p + Len(NullBulk.bytes) <= Len(b))
    BY <1>2, <1>4, <1>6
  <2> QED BY <2>1, <2>2 DEF Yields, ReadsAs
<1>7. CASE HasLine(b, o)
  <2>1. ParseBulk(b, o) = Returns(NullValue, p + 5)
    BY <1>4, <1>7 DEF ParseBulk
  <2>2. p + 5 <= Len(b) + 2
    BY <1>2, <1>4, <1>7
  <2>3. ParseAt(b, multi, NullBulk.type, p + 1) = Returns(NullBulk.value, p + Len(NullBulk.bytes))
    BY <2>1, <1>1, <1>4, <1>5
  <2>4. p + Len(NullBulk.bytes) <= Len(b) + 2
    BY <2>2, <1>4
  <2> QED BY <2>3, <2>4 DEF Yields, ReadsAs, Returns
<1> QED BY <1>6, <1>7

------------------------------------------------------------------------------
(* Arrays                                                                  *)

\* The elements are read one after the other, as Elements says.
LEMMA ElementsDef ==
  ASSUME NEW b, NEW multi, NEW start, NEW size \in Nat
  PROVE  \A n \in 0..size :
           Elements(b, multi, start, size)[n] =
             IF n = 0 THEN Returns(<<>>, start)
             ELSE ParseElement(b, multi, Elements(b, multi, start, size)[n - 1])
<1> DEFINE Solves(g, m) ==
             g = [n \in 0..m |-> IF n = 0 THEN Returns(<<>>, start) ELSE ParseElement(b, multi, g[n - 1])]
           S == {m \in Nat : \E g : Solves(g, m)}
<1>1. 0 \in S
  <2> DEFINE g == [n \in 0..0 |-> Returns(<<>>, start)]
  <2>1. Solves(g, 0)
    OBVIOUS
  <2> QED BY <2>1
<1>2. ASSUME NEW m \in Nat, m \in S PROVE m + 1 \in S
  <2>1. PICK g : Solves(g, m)
    BY <1>2
  <2> DEFINE h == [n \in 0..(m + 1) |-> IF n = m + 1 THEN ParseElement(b, multi, g[m]) ELSE g[n]]
  <2>2. ASSUME NEW n \in 0..(m + 1)
        PROVE  h[n] = IF n = 0 THEN Returns(<<>>, start) ELSE ParseElement(b, multi, h[n - 1])
    <3>1. CASE n = m + 1
      <4>1. h[m + 1] = ParseElement(b, multi, g[m])
        OBVIOUS
      <4>2. m \in 0..(m + 1) /\ m # m + 1 /\ m + 1 # 0 /\ m = (m + 1) - 1
        OBVIOUS
      <4>3. h[m] = g[m]
        BY <4>2
      <4> HIDE DEF h
      <4> QED BY <3>1, <4>1, <4>2, <4>3, Zenon
    <3>2. CASE n # m + 1
      <4>1. n \in 0..m /\ h[n] = g[n]
        BY <3>2
      <4>2. n # 0 => h[n - 1] = g[n - 1]
        BY <4>1
      <4>3. g[n] = IF n = 0 THEN Returns(<<>>, start) ELSE ParseElement(b, multi, g[n - 1])
        BY <2>1, <4>1
      <4> QED BY <4>1, <4>2, <4>3, Zenon
    <3> QED BY <3>1, <3>2
  <2>3. h = [n \in 0..(m + 1) |-> h[n]]
    OBVIOUS
  <2>4. Solves(h, m + 1)
    <3> HIDE DEF h
    <3> QED BY <2>2, <2>3
  <2>5. \E f : Solves(f, m + 1)
    <3> HIDE DEF h, Solves
    <3> QED BY <2>4
  <2> QED BY <2>5
<1>3. size \in S
  <2> HIDE DEF S
  <2>1. Nat \subseteq S
    BY <1>1, <1>2, Induction
  <2> QED BY <2>1
<1>4. \E g : Solves(g, size)
  BY <1>3
<1> DEFINE f == Elements(b, multi, start, size)
<1>5. f = [n \in 0..size |-> IF n = 0 THEN Returns(<<>>, start) ELSE ParseElement(b, multi, f[n - 1])]
  BY <1>4 DEF Elements
<1> HIDE DEF f
<1>6. \A n \in 0..size : f[n] = IF n = 0 THEN Returns(<<>>, start) ELSE ParseElement(b, multi, f[n - 1])
  BY <1>5
<1> QED BY <1>6 DEF f

\* _parseResult calls itself as Nested says.
LEMMA NestedDef ==
  ASSUME NEW b, Len(b) \in Nat
  PROVE  \A n \in 0..Len(b) :
           Nested(b)[n] =
             [o \in Nat |-> IF n = 0 THEN Incomplete ELSE ParseMultiBulk(b, Nested(b)[n - 1], o)]
<1> DEFINE Solves(g, m) ==
             g = [n \in 0..m |-> [o \in Nat |-> IF n = 0 THEN Incomplete ELSE ParseMultiBulk(b, g[n - 1], o)]]
           S == {m \in Nat : \E g : Solves(g, m)}
<1>1. 0 \in S
  <2> DEFINE g == [n \in 0..0 |-> [o \in Nat |-> Incomplete]]
  <2>1. Solves(g, 0)
    OBVIOUS
  <2> QED BY <2>1
<1>2. ASSUME NEW m \in Nat, m \in S PROVE m + 1 \in S
  <2>1. PICK g : Solves(g, m)
    BY <1>2
  <2> DEFINE h == [n \in 0..(m + 1) |-> IF n = m + 1 THEN [o \in Nat |-> ParseMultiBulk(b, g[m], o)] ELSE g[n]]
  <2>2. ASSUME NEW n \in 0..(m + 1)
        PROVE  h[n] = [o \in Nat |-> IF n = 0 THEN Incomplete ELSE ParseMultiBulk(b, h[n - 1], o)]
    <3>1. CASE n = m + 1
      <4>1. h[m + 1] = [o \in Nat |-> ParseMultiBulk(b, g[m], o)]
        OBVIOUS
      <4>2. m \in 0..(m + 1) /\ m # m + 1 /\ m + 1 # 0 /\ m = (m + 1) - 1
        OBVIOUS
      <4>3. h[m] = g[m]
        BY <4>2
      <4> HIDE DEF h
      <4> QED BY <3>1, <4>1, <4>2, <4>3
    <3>2. CASE n # m + 1
      <4>1. n \in 0..m /\ h[n] = g[n]
        BY <3>2
      <4>2. n # 0 => h[n - 1] = g[n - 1]
        BY <4>1
      <4>3. g[n] = [o \in Nat |-> IF n = 0 THEN Incomplete ELSE ParseMultiBulk(b, g[n - 1], o)]
        BY <2>1, <4>1
      <4> QED BY <4>1, <4>2, <4>3
    <3> QED BY <3>1, <3>2
  <2>3. h = [n \in 0..(m + 1) |-> h[n]]
    OBVIOUS
  <2>4. Solves(h, m + 1)
    <3> HIDE DEF h
    <3> QED BY <2>2, <2>3
  <2>5. \E f : Solves(f, m + 1)
    <3> HIDE DEF h, Solves
    <3> QED BY <2>4
  <2> QED BY <2>5
<1>3. Len(b) \in S
  <2> HIDE DEF S
  <2>1. Nat \subseteq S
    BY <1>1, <1>2, Induction
  <2> QED BY <2>1
<1>4. \E g : Solves(g, Len(b))
  BY <1>3
<1> DEFINE f == Nested(b)
<1>5. f = [n \in 0..Len(b) |-> [o \in Nat |-> IF n = 0 THEN Incomplete ELSE ParseMultiBulk(b, f[n - 1], o)]]
  BY <1>4 DEF Nested
<1> HIDE DEF f
<1>6. \A n \in 0..Len(b) : f[n] = [o \in Nat |-> IF n = 0 THEN Incomplete ELSE ParseMultiBulk(b, f[n - 1], o)]
  BY <1>5
<1> QED BY <1>6 DEF f

\* One more element, from where the ones before it end.
LEMMA ReadsElement ==
  ASSUME NEW b \in Seq(STRING), NEW multi, NEW p \in Nat, NEW x, NEW e \in Replies,
         x.complete, x.offset = p, Holds(b, e.bytes, p), ReadsAs(b, multi, e, p)
  PROVE  Yields(b, ParseElement(b, multi, x), Append(x.value, e.value), p + Len(e.bytes))
<1> PICK y : y = ParseElement(b, multi, x)
  OBVIOUS
<1> SUFFICES Yields(b, y, Append(x.value, e.value), p + Len(e.bytes))
  OBVIOUS
<1>1. Len(b) \in Nat /\ Len(e.bytes) \in Nat /\ Len(e.bytes) >= 4 /\ e.bytes[1] = e.type
  BY RepliesAre, LenProperties DEF WellFormed
<1>2. CASE p + 1 > Len(b)
  <2>1. y = Incomplete
    BY <1>2 DEF ParseElement
  <2>2. ~y.complete
    BY <2>1 DEF Incomplete
  <2>3. ~(p + Len(e.bytes) <= Len(b))
    BY <1>1, <1>2
  <2> QED BY <2>2, <2>3 DEF Yields
<1>3. CASE ~(p + 1 > Len(b))
  <2>1. Byte(b, p) = e.type
    <3>1. 1 \in 1..Len(e.bytes) /\ p + 1 <= Len(b) /\ p < Len(b)
      BY <1>1, <1>3
    <3>2. b[p + 1] = e.bytes[1]
      BY <3>1 DEF Holds
    <3> QED BY <3>1, <3>2, <1>1 DEF Byte
  <2>2. PICK z : z = ParseAt(b, multi, e.type, p + 1)
    OBVIOUS
  <2>3. /\ p + Len(e.bytes) <= Len(b) => z.complete
        /\ z.complete => z.value = e.value /\ z.offset = p + Len(e.bytes) /\ z.offset <= Len(b) + 2
    BY <2>2 DEF Yields, ReadsAs
  <2>4. y =
          IF z.complete THEN Returns(Append(x.value, z.value), z.offset) ELSE Incomplete
    BY <1>3, <2>1, <2>2 DEF ParseElement
  <2>5. CASE z.complete
    <3>1. y = Returns(Append(x.value, e.value), z.offset)
      BY <2>3, <2>4, <2>5
    <3> QED BY <3>1, <2>3, <2>5 DEF Returns, Yields
  <2>6. CASE ~z.complete
    <3>1. ~y.complete
      BY <2>4, <2>6 DEF Incomplete
    <3> QED BY <3>1, <2>3, <2>6 DEF Yields
  <2> QED BY <2>5, <2>6
<1> QED BY <1>2, <1>3

\* One more value.
LEMMA AppendValue ==
  ASSUME NEW es \in Seq(Replies), NEW n \in 1..Len(es)
  PROVE  Append([i \in 1..(n - 1) |-> es[i].value], es[n].value) = [i \in 1..n |-> es[i].value]
<1>1. Len(es) \in Nat
  BY LenProperties
<1>2. \A i \in 1..Len(es) : es[i].value \in Seq(STRING)
  BY ElementOfSeq, RepliesAre
<1>3. PICK V : V = Seq(STRING)
  OBVIOUS
<1>4. PICK v : v = [i \in 1..Len(es) |-> es[i].value]
  OBVIOUS
<1>5. \A i \in 1..Len(es) : v[i] = es[i].value /\ v[i] \in V
  BY <1>2, <1>3, <1>4
<1>6. n - 1 \in Nat /\ n \in Nat /\ n <= Len(es)
  BY <1>1
<1>7. PICK s : s = [i \in 1..(n - 1) |-> v[i]]
  OBVIOUS
<1>8. s \in Seq(V) /\ Len(s) = n - 1 /\ \A i \in 1..(n - 1) : s[i] = v[i]
  BY <1>5, <1>6, <1>7
<1>9. PICK t : t = [i \in 1..n |-> v[i]]
  OBVIOUS
<1>10. t \in Seq(V) /\ Len(t) = n /\ \A i \in 1..n : t[i] = v[i]
  BY <1>5, <1>6, <1>9
<1>11. PICK u : u = Append(s, v[n])
  OBVIOUS
<1>12. u \in Seq(V) /\ Len(u) = n /\ u[n] = v[n] /\ \A i \in 1..(n - 1) : u[i] = v[i]
  <2>1. v[n] \in V
    BY <1>5
  <2>2. /\ u \in Seq(V) /\ Len(u) = Len(s) + 1 /\ u[Len(s) + 1] = v[n]
        /\ \A i \in 1..Len(s) : u[i] = s[i]
    BY <2>1, <1>8, <1>11, AppendProperties
  <2> QED BY <2>2, <1>6, <1>8
<1>13. \A i \in 1..n : u[i] = t[i]
  <2>1. \A i \in 1..n : i \in 1..(n - 1) \/ i = n
    BY <1>6
  <2> QED BY <2>1, <1>10, <1>12
<1>14. u = t
  BY <1>10, <1>12, <1>13, SeqEqual
<1>15. s = [i \in 1..(n - 1) |-> es[i].value] /\ t = [i \in 1..n |-> es[i].value] /\ v[n] = es[n].value
  <2>1. \A i \in 1..n : v[i] = es[i].value
    BY <1>5, <1>6
  <2> QED BY <2>1, <1>6, <1>7, <1>9
<1> QED BY <1>11, <1>14, <1>15

\* Where a stream stands, so do its replies.
LEMMA HoldsElement ==
  ASSUME NEW b \in Seq(STRING), NEW q \in Nat, NEW es \in Seq(Replies),
         Holds(b, StreamBytes(es), q), NEW n \in 1..Len(es)
  PROVE  Holds(b, es[n].bytes, q + EndOf(es, n - 1))
<1>1. Len(es) \in Nat
  BY LenProperties
<1>2. PICK c \in Nat, l \in Nat : c = EndOf(es, n - 1) /\ l = Len(es[n].bytes) /\ EndOf(es, n) = c + l
  BY Ends, RepliesAre
<1>3. ASSUME NEW i \in 1..l, q + c + i <= Len(b) PROVE b[q + c + i] = es[n].bytes[i]
  <2>1. PICK j \in Nat : j = c + i /\ q + j = q + c + i /\ 1 <= j /\ j <= c + l
    OBVIOUS
  <2>2. StreamBytes(es)[j] = es[n].bytes[i]
    BY <2>1, <1>2, ReplyAt
  <2>3. c + l <= Len(StreamBytes(es)) /\ Len(StreamBytes(es)) \in Nat
    <3>1. n \in 0..Len(es) /\ Len(es) \in n..Len(es) /\ Len(es) \in 0..Len(es)
      BY <1>1
    <3>2. EndOf(es, n) <= EndOf(es, Len(es))
      BY <3>1, SentKept
    <3> QED BY <3>1, <3>2, <1>2, Ends, LenProperties
  <2>4. j \in 1..Len(StreamBytes(es))
    BY <2>1, <2>3
  <2>5. b[q + j] = StreamBytes(es)[j]
    BY <2>1, <2>4, <1>3 DEF Holds
  <2> QED BY <2>1, <2>2, <2>5
<1> QED BY <1>2, <1>3 DEF Holds

\* All the elements.
LEMMA ReadsElements ==
  ASSUME NEW b \in Seq(STRING), NEW multi, NEW q \in Nat, NEW es \in Seq(Replies),
         Holds(b, StreamBytes(es), q),
         \A n \in 1..Len(es) : ReadsAs(b, multi, es[n], q + EndOf(es, n - 1))
  PROVE  \A n \in 0..Len(es) :
           LET x == Elements(b, multi, q, Len(es))[n]
           IN  /\ q + EndOf(es, n) <= Len(b) => x.complete
               /\ x.complete => /\ x.value = [i \in 1..n |-> es[i].value]
                                /\ x.offset = q + EndOf(es, n)
                                /\ n = 0 \/ x.offset <= Len(b) + 2
<1>1. Len(es) \in Nat /\ Len(b) \in Nat
  BY LenProperties
<1>2. PICK f : f = Elements(b, multi, q, Len(es))
  OBVIOUS
<1>3. \A n \in 0..Len(es) : f[n] = IF n = 0 THEN Returns(<<>>, q) ELSE ParseElement(b, multi, f[n - 1])
  BY <1>1, <1>2, ElementsDef
<1> DEFINE Good(n) == /\ q + EndOf(es, n) <= Len(b) => f[n].complete
                      /\ f[n].complete => /\ f[n].value = [i \in 1..n |-> es[i].value]
                                          /\ f[n].offset = q + EndOf(es, n)
                                          /\ n = 0 \/ f[n].offset <= Len(b) + 2
           S == {n \in Nat : n <= Len(es) => Good(n)}
<1>4. 0 \in S
  <2>1. f[0] = Returns(<<>>, q) /\ EndOf(es, 0) = 0
    BY <1>1, <1>3, Ends
  <2>2. <<>> = [i \in 1..0 |-> es[i].value]
    OBVIOUS
  <2>3. f[0].complete /\ f[0].value = <<>> /\ f[0].offset = q
    BY <2>1 DEF Returns
  <2>4. Good(0)
    BY <2>1, <2>2, <2>3
  <2> QED BY <2>4
<1>5. ASSUME NEW m \in Nat, m \in S PROVE m + 1 \in S
  <2>1. SUFFICES ASSUME m + 1 <= Len(es) PROVE Good(m + 1)
    OBVIOUS
  <2>2. PICK n \in 1..Len(es) : n = m + 1 /\ n - 1 = m
    BY <2>1, <1>1
  <2>3. Good(m)
    BY <1>5, <2>1, <1>1
  <2>4. PICK p \in Nat : p = q + EndOf(es, m)
    BY <2>2, Ends
  <2>5. /\ es[n] \in Replies /\ EndOf(es, n) = EndOf(es, m) + Len(es[n].bytes)
        /\ EndOf(es, m) \in Nat /\ EndOf(es, n) \in Nat /\ Len(es[n].bytes) \in Nat
    BY <2>2, Ends, RepliesAre
  <2>6. Holds(b, es[n].bytes, p)
    BY <2>2, <2>4, HoldsElement
  <2>7. ReadsAs(b, multi, es[n], p)
    BY <2>2, <2>4
  <2>8. f[n] = ParseElement(b, multi, f[m])
    BY <1>1, <1>3, <2>2
  <2>9. p + Len(es[n].bytes) = q + EndOf(es, n)
    BY <2>4, <2>5
  <2>10. CASE f[m].complete
    <3>1. f[m].offset = p /\ f[m].value = [i \in 1..(n - 1) |-> es[i].value]
      BY <2>2, <2>3, <2>4, <2>10
    <3>2. /\ p + Len(es[n].bytes) <= Len(b) => f[n].complete
          /\ f[n].complete => /\ f[n].value = Append(f[m].value, es[n].value)
                              /\ f[n].offset = p + Len(es[n].bytes) /\ f[n].offset <= Len(b) + 2
      <4>1. PICK x, e : x = f[m] /\ e = es[n]
        OBVIOUS
      <4>2. e \in Replies /\ x.complete /\ x.offset = p /\ Holds(b, e.bytes, p) /\ ReadsAs(b, multi, e, p)
        BY <4>1, <2>5, <2>6, <2>7, <2>10, <3>1
      <4>3. Yields(b, ParseElement(b, multi, x), Append(x.value, e.value), p + Len(e.bytes))
        BY <4>2, ReadsElement, Zenon
      <4>4. Yields(b, f[n], Append(f[m].value, es[n].value), p + Len(es[n].bytes))
        BY <4>1, <4>3, <2>8, Zenon
      <4> QED BY <4>4 DEF Yields
    <3>3. Append(f[m].value, es[n].value) = [i \in 1..n |-> es[i].value]
      BY <3>1, AppendValue
    <3> QED BY <3>2, <3>3, <2>2, <2>9
  <2>11. CASE ~f[m].complete
    <3>1. f[n] = Incomplete
      BY <2>8, <2>11 DEF ParseElement
    <3>2. ~f[n].complete
      BY <3>1 DEF Incomplete
    <3>3. ~(q + EndOf(es, m) <= Len(b))
      BY <2>3, <2>11
    <3>4. ~(q + EndOf(es, n) <= Len(b))
      BY <3>3, <2>5, <1>1
    <3> QED BY <3>2, <3>4, <2>2
  <2> QED BY <2>10, <2>11
<1>6. Nat \subseteq S
  <2> HIDE DEF S
  <2> QED BY <1>4, <1>5, Induction
<1>7. ASSUME NEW n \in 0..Len(es) PROVE Good(n)
  BY <1>6, <1>1
<1> QED BY <1>2, <1>7

\* Every element takes a byte at least.
LEMMA EndGrows ==
  ASSUME NEW es \in Seq(Replies)
  PROVE  EndOf(es, Len(es)) >= Len(es)
<1>1. Len(es) \in Nat
  BY LenProperties
<1> DEFINE S == {n \in Nat : n <= Len(es) => EndOf(es, n) >= n}
<1>2. 0 \in S
  BY Ends
<1>3. ASSUME NEW m \in Nat, m \in S PROVE m + 1 \in S
  <2>1. SUFFICES ASSUME m + 1 <= Len(es) PROVE EndOf(es, m + 1) >= m + 1
    OBVIOUS
  <2>2. PICK n \in 1..Len(es) : n = m + 1 /\ n - 1 = m
    BY <2>1, <1>1
  <2>3. PICK c, e : c = EndOf(es, m) /\ e = EndOf(es, n)
    OBVIOUS
  <2>4. EndOf(es, n - 1) + 4 <= EndOf(es, n) /\ EndOf(es, n - 1) \in Nat /\ EndOf(es, n) \in Nat
    BY BytesOfReply, Ends
  <2>5. c \in Nat /\ e \in Nat /\ c + 4 <= e /\ c >= m
    BY <2>2, <2>3, <2>4, <1>1, <1>3, <2>1
  <2>6. e >= m + 1
    BY <2>5
  <2> QED BY <2>2, <2>3, <2>6
<1>4. Nat \subseteq S
  <2> HIDE DEF S
  <2> QED BY <1>2, <1>3, Induction
<1> QED BY <1>1, <1>4

\* A multi bulk reply, when its elements are read.
LEMMA ReadsMulti ==
  ASSUME NEW b \in Seq(STRING), NEW multi, NEW p \in Nat, NEW es \in Seq(Replies),
         Holds(b, Multi(es).bytes, p),
         \A q \in Nat, n \in 1..Len(es) :
           q >= p + 3 /\ Holds(b, StreamBytes(es), q) => ReadsAs(b, multi, es[n], q + EndOf(es, n - 1))
  PROVE  Yields(b, ParseMultiBulk(b, multi, p + 1), Multi(es).value, p + Len(Multi(es).bytes))
<1>1. Len(b) \in Nat /\ Len(es) \in Nat
  BY LenProperties
<1>2. PICK type \in STRING : type = "*"
  BY TypesAre DEF Types
<1>3. PICK d \in Seq(STRING) : /\ d = Decimal(Len(es)) /\ HeaderValue(d) = Len(es)
                              /\ \A i \in 1..Len(d) : d[i] \notin {CR, LF}
  BY <1>1, DecimalIs
<1>4. PICK h \in Seq(STRING) : h = Line(type, d) /\ Len(h) = Len(d) + 3
  BY LineIs
<1>5. PICK u \in Seq(STRING) : u = StreamBytes(es)
  BY Ends
<1>6. /\ Multi(es).bytes = h \o u
      /\ Multi(es).value = ArrayValue([i \in DOMAIN es |-> es[i].value])
  BY <1>2, <1>3, <1>4, <1>5 DEF Multi
<1>7. Holds(b, h, p) /\ Holds(b, u, p + Len(h))
  <2>1. Holds(b, h \o u, p)
    BY <1>6
  <2> QED BY <2>1, HoldsParts, Zenon
<1>8. PICK q \in Nat : q = p + Len(h)
  BY LenProperties
<1>9. PICK o \in Nat : o = p + 1
  OBVIOUS
<1>10. /\ HasLine(b, o) <=> o + Len(d) < Len(b)
       /\ HasLine(b, o) => LineEnd(b, o) + 2 = q /\ Slice(b, o, LineEnd(b, o)) = d
  <2>1. Holds(b, Line(type, d), p)
    BY <1>4, <1>7
  <2>2. \A i \in 1..Len(d) : d[i] \notin {CR, LF}
    BY <1>3
  <2>3. /\ HasLine(b, p + 1) <=> p + 1 + Len(d) < Len(b)
        /\ HasLine(b, p + 1) => /\ LineEnd(b, p + 1) + 2 = p + Len(Line(type, d))
                               /\ Slice(b, p + 1, LineEnd(b, p + 1)) = d
    BY <2>1, <2>2, LineFound, Zenon
  <2> QED BY <2>3, <1>4, <1>8, <1>9
<1>11. HasLine(b, o) => Header(b, o) = Len(es)
  BY <1>3, <1>10 DEF Header
<1>12. PICK size \in Nat, end \in Nat, total \in Nat :
         size = Len(es) /\ end = q + EndOf(es, size) /\ total = EndOf(es, size)
  BY <1>1, Ends
<1>13. Len(u) = total /\ total >= size
  BY <1>5, <1>12, Ends, EndGrows
<1>14. p + Len(Multi(es).bytes) = end /\ q = o + Len(d) + 2 /\ Len(d) \in Nat /\ q >= p + 3
  <2>1. Len(h \o u) = Len(h) + Len(u)
    OBVIOUS
  <2>2. Len(d) \in Nat
    BY LenProperties
  <2>3. q = p + Len(d) + 3
    BY <2>2, <1>4, <1>8
  <2>4. q = o + Len(d) + 2 /\ q >= p + 3
    BY <2>2, <2>3, <1>9
  <2>5. Len(Multi(es).bytes) = Len(h) + total
    BY <2>1, <1>6, <1>13
  <2>6. p + Len(Multi(es).bytes) = q + total
    BY <2>2, <2>5, <1>4, <1>8
  <2>7. end = q + total
    BY <1>12
  <2> QED BY <2>2, <2>4, <2>6, <2>7
<1>15. PICK f : f = Elements(b, multi, q, size)
  OBVIOUS
<1>16. Holds(b, StreamBytes(es), q)
  BY <1>5, <1>7, <1>8
<1>17. \A n \in 1..Len(es) : ReadsAs(b, multi, es[n], q + EndOf(es, n - 1))
  BY <1>14, <1>16
<1>18. /\ end <= Len(b) => f[size].complete
       /\ f[size].complete => /\ f[size].value = [i \in 1..size |-> es[i].value]
                              /\ f[size].offset = end
                              /\ size = 0 \/ f[size].offset <= Len(b) + 2
  <2>1. \A n \in 0..Len(es) :
           LET x == Elements(b, multi, q, Len(es))[n]
           IN  /\ q + EndOf(es, n) <= Len(b) => x.complete
               /\ x.complete => /\ x.value = [i \in 1..n |-> es[i].value]
                                /\ x.offset = q + EndOf(es, n)
                                /\ n = 0 \/ x.offset <= Len(b) + 2
    BY <1>16, <1>17, ReadsElements, Zenon
  <2>2. Len(es) \in 0..Len(es)
    BY <1>1
  <2> QED BY <2>1, <2>2, <1>12, <1>15
<1>19. [i \in 1..size |-> es[i].value] = [i \in DOMAIN es |-> es[i].value]
  BY <1>12, LenProperties
<1> DEFINE x == ParseMultiBulk(b, multi, o)
<1>20. CASE ~HasLine(b, o)
  <2>1. x = Incomplete
    BY <1>20 DEF ParseMultiBulk
  <2>2. ~x.complete
    BY <2>1 DEF Incomplete
  <2>3. ~(end <= Len(b))
    BY <1>1, <1>10, <1>12, <1>14, <1>20
  <2> QED BY <2>2, <2>3, <1>9, <1>14 DEF Yields
<1>21. CASE HasLine(b, o) /\ size > 0 /\ size > Len(b) - q
  <2>1. x = Incomplete
    BY <1>10, <1>11, <1>12, <1>21 DEF ParseMultiBulk
  <2>2. ~x.complete
    BY <2>1 DEF Incomplete
  <2>3. ~(end <= Len(b))
    BY <1>1, <1>12, <1>13, <1>21
  <2> QED BY <2>2, <2>3, <1>9, <1>14 DEF Yields
<1>22. CASE HasLine(b, o) /\ ~(size > 0 /\ size > Len(b) - q) /\ f[size].complete
  <2>1. x = Returns(ArrayValue(f[size].value), f[size].offset)
    <3>1. ~(size < 0) /\ LineEnd(b, o) + 2 = q /\ Header(b, o) = size
      BY <1>10, <1>11, <1>12, <1>22
    <3>2. Elements(b, multi, LineEnd(b, o) + 2, Header(b, o))[Header(b, o)] = f[size]
      BY <3>1, <1>15
    <3> QED BY <3>1, <3>2, <1>22 DEF ParseMultiBulk
  <2>2. x = Returns(Multi(es).value, end)
    BY <2>1, <1>6, <1>18, <1>19, <1>22
  <2>3. end <= Len(b) + 2
    <3>1. CASE size = 0
      <4>1. total = 0
        BY <3>1, <1>12, Ends
      <4> QED BY <4>1, <1>1, <1>10, <1>12, <1>14, <1>22
    <3>2. CASE size # 0
      BY <3>2, <1>18, <1>22
    <3> QED BY <3>1, <3>2
  <2> QED BY <2>2, <2>3, <1>9, <1>14 DEF Yields, Returns
<1>23. CASE HasLine(b, o) /\ ~(size > 0 /\ size > Len(b) - q) /\ ~f[size].complete
  <2>1. x = Incomplete
    <3>1. ~(size < 0) /\ LineEnd(b, o) + 2 = q /\ Header(b, o) = size
      BY <1>10, <1>11, <1>12, <1>23
    <3>2. Elements(b, multi, LineEnd(b, o) + 2, Header(b, o))[Header(b, o)] = f[size]
      BY <3>1, <1>15
    <3> QED BY <3>1, <3>2, <1>23 DEF ParseMultiBulk
  <2>2. ~x.complete
    BY <2>1 DEF Incomplete
  <2>3. ~(end <= Len(b))
    BY <1>18, <1>23
  <2> QED BY <2>2, <2>3, <1>9, <1>14 DEF Yields
<1> QED BY <1>20, <1>21, <1>22, <1>23

\* A null multi bulk reply.
LEMMA ReadsNullMulti ==
  ASSUME NEW b \in Seq(STRING), NEW multi, NEW p \in Nat, Holds(b, NullMulti.bytes, p)
  PROVE  Yields(b, ParseMultiBulk(b, multi, p + 1), NullMulti.value, p + Len(NullMulti.bytes))
<1>1. NullMulti.bytes = Line("*", <<"-", "1">>) /\ NullMulti.value = NullValue
  BY DEF NullMulti
<1>2. Len(b) \in Nat /\ "*" \in STRING
  BY TypesAre, LenProperties DEF Types
<1>3. PICK o \in Nat : o = p + 1
  OBVIOUS
<1>4. /\ Len(NullMulti.bytes) = 5
      /\ HasLine(b, o) <=> p + 3 < Len(b)
      /\ HasLine(b, o) => LineEnd(b, o) + 2 = p + 5 /\ Header(b, o) = -1
  BY <1>1, <1>2, <1>3, NullLine
<1>5. PICK x : x = ParseMultiBulk(b, multi, o)
  OBVIOUS
<1>6. CASE ~HasLine(b, o)
  <2>1. ~x.complete
    BY <1>5, <1>6 DEF ParseMultiBulk, Incomplete
  <2>2. ~(p + Len(NullMulti.bytes) <= Len(b))
    BY <1>2, <1>4, <1>6
  <2> QED BY <2>1, <2>2, <1>3, <1>5 DEF Yields
<1>7. CASE HasLine(b, o)
  <2>1. x = Returns(NullValue, p + 5)
    BY <1>4, <1>5, <1>7 DEF ParseMultiBulk
  <2>2. p + 5 <= Len(b) + 2
    BY <1>2, <1>4, <1>7
  <2>3. x = Returns(NullMulti.value, p + Len(NullMulti.bytes))
    BY <2>1, <1>1, <1>4
  <2>4. p + Len(NullMulti.bytes) <= Len(b) + 2
    BY <2>2, <1>4
  <2> QED BY <2>3, <2>4, <1>3, <1>5 DEF Yields, Returns
<1> QED BY <1>6, <1>7

------------------------------------------------------------------------------
(* Every reply                                                             *)

\* A reply is no array, and is read, or it is null, or an array of replies that are
\* nested less deep.
LEMMA RepliesMade ==
  ASSUME NEW r \in Replies
  PROVE  \/ /\ r.type # "*"
            /\ \A multi : \A b \in Seq(STRING), p \in Nat : Holds(b, r.bytes, p) => ReadsAs(b, multi, r, p)
         \/ r = NullMulti
         \/ \E es \in Seq(Replies) : /\ r = Multi(es)
                                     /\ \A i \in 1..Len(es) : Nesting[es[i]] < Nesting[r]
<1> DEFINE E == {e \in Replies : Nesting[e] < Nesting[r]}
<1>1. IsReply(r, E)
  BY RepliesAssumption
<1>2. PICK s \in Seq(STRING) : s = Text(r) /\ DOMAIN s = 1..Len(s)
  BY TextIs, LenProperties
<1>3. CASE r = NullBulk
  <2>1. r.type # "*"
    BY <1>3 DEF NullBulk
  <2> QED BY <2>1, <1>3, ReadsNullBulk
<1>4. CASE IsLine(s) /\ r \in {Status(s), Error(s), Integer(s)}
  <2>1. \A i \in 1..Len(s) : s[i] \notin {CR, LF}
    BY <1>2, <1>4 DEF IsLine
  <2>2. r.type \in {"+", "-", ":"} /\ r.type # "*"
    BY <1>4 DEF Status, Error, Integer
  <2>3. r.bytes = Line(r.type, s)
    BY <1>4 DEF Status, Error, Integer
  <2>4. r.value = IF r.type = ":" THEN NumberValue(s) ELSE StringValue(s)
    BY <1>4 DEF Status, Error, Integer
  <2>5. ASSUME NEW b \in Seq(STRING), NEW p \in Nat, NEW multi, Holds(b, r.bytes, p)
        PROVE  ReadsAs(b, multi, r, p)
    BY <2>1, <2>2, <2>3, <2>4, <2>5, ReadsLine
  <2> QED BY <2>2, <2>5
<1>5. CASE r = Bulk(s)
  <2>1. r.type # "*"
    BY <1>5 DEF Bulk
  <2>2. ASSUME NEW b \in Seq(STRING), NEW p \in Nat, NEW multi, Holds(b, r.bytes, p)
        PROVE  ReadsAs(b, multi, r, p)
    <3>1. Holds(b, Bulk(s).bytes, p)
      BY <1>5, <2>2
    <3>2. ReadsAs(b, multi, Bulk(s), p)
      BY <3>1, <1>5, ReadsBulk, Zenon
    <3> QED BY <3>2, <1>5
  <2> QED BY <2>1, <2>2
<1>6. CASE \E n \in 0..Len(r.bytes) : \E rs \in [1..n -> E] : r = Multi(rs)
  <2>1. PICK n \in Nat : \E rs \in [1..n -> E] : r = Multi(rs)
    <3>1. PICK l \in Nat : l = Len(r.bytes)
      BY RepliesAre
    <3>2. PICK n \in 0..l : \E rs \in [1..n -> E] : r = Multi(rs)
      BY <1>6, <3>1
    <3> HIDE DEF E
    <3> QED BY <3>2
  <2>2. PICK es \in [1..n -> E] : r = Multi(es)
    BY <2>1
  <2>3. es \in Seq(Replies) /\ Len(es) = n
    OBVIOUS
  <2>4. \A i \in 1..Len(es) : Nesting[es[i]] < Nesting[r]
    BY <2>3
  <2> QED BY <2>2, <2>3, <2>4
<1> HIDE DEF E
<1> QED BY <1>1, <1>2, <1>3, <1>4, <1>5, <1>6 DEF IsReply

\* An array, when its elements are read one call deeper.
LEMMA ReadsNested ==
  ASSUME NEW r \in Replies, r.type = "*", NEW b \in Seq(STRING), NEW d \in 0..Len(b), NEW p \in Nat,
         d >= Len(b) - p,
         d > 0 => Yields(b, ParseMultiBulk(b, Nested(b)[d - 1], p + 1), r.value, p + Len(r.bytes))
  PROVE  ReadsAs(b, Nested(b)[d], r, p)
<1>1. Len(b) \in Nat /\ Len(r.bytes) \in Nat /\ Len(r.bytes) >= 4
  BY RepliesAre, LenProperties DEF WellFormed
<1>2. Nested(b)[d] = [o \in Nat |-> IF d = 0 THEN Incomplete ELSE ParseMultiBulk(b, Nested(b)[d - 1], o)]
  BY <1>1, NestedDef
<1>3. p + 1 \in Nat
  OBVIOUS
<1>4. ParseAt(b, Nested(b)[d], r.type, p + 1) = Nested(b)[d][p + 1]
  BY DEF ParseAt
<1>5. CASE d = 0
  <2>1. Nested(b)[d][p + 1] = Incomplete
    BY <1>2, <1>3, <1>5
  <2>2. ~(p + Len(r.bytes) <= Len(b))
    BY <1>1, <1>5
  <2> QED BY <2>1, <2>2, <1>4 DEF ReadsAs, Yields, Incomplete
<1>6. CASE d # 0
  <2>1. Nested(b)[d][p + 1] = ParseMultiBulk(b, Nested(b)[d - 1], p + 1)
    BY <1>2, <1>3, <1>6
  <2>2. d > 0
    BY <1>1, <1>6
  <2> QED BY <2>1, <2>2, <1>4 DEF ReadsAs
<1> QED BY <1>5, <1>6

\* How a reply is read, for all that are nested less than m deep.
ReadDown(m) ==
  \A r \in Replies : Nesting[r] < m =>
    \A b \in Seq(STRING) : \A d \in 0..Len(b), p \in Nat :
      d >= Len(b) - p /\ Holds(b, r.bytes, p) => ReadsAs(b, Nested(b)[d], r, p)

\* One deeper.
LEMMA ReadsDeeper ==
  ASSUME NEW m \in Nat, ReadDown(m)
  PROVE  ReadDown(m + 1)
<1>1. SUFFICES ASSUME NEW r \in Replies, Nesting[r] < m + 1, NEW b \in Seq(STRING), NEW d \in 0..Len(b),
                      NEW p \in Nat, d >= Len(b) - p, Holds(b, r.bytes, p)
               PROVE  ReadsAs(b, Nested(b)[d], r, p)
  BY DEF ReadDown
<1>2. Len(b) \in Nat
  BY LenProperties
<1>3. CASE r = NullMulti
  <2>1. Yields(b, ParseMultiBulk(b, Nested(b)[d - 1], p + 1), NullMulti.value, p + Len(NullMulti.bytes))
    <3>1. Holds(b, NullMulti.bytes, p)
      BY <1>1, <1>3
    <3> QED BY <3>1, ReadsNullMulti, Zenon
  <2>2. Yields(b, ParseMultiBulk(b, Nested(b)[d - 1], p + 1), r.value, p + Len(r.bytes))
    BY <2>1, <1>3
  <2>3. r.type = "*"
    BY <1>3 DEF NullMulti
  <2> QED BY <2>2, <2>3, <1>1, ReadsNested
<1>4. ASSUME NEW es \in Seq(Replies), r = Multi(es),
             \A i \in 1..Len(es) : Nesting[es[i]] < Nesting[r]
      PROVE  ReadsAs(b, Nested(b)[d], r, p)
  <2>1. ASSUME d > 0
        PROVE  Yields(b, ParseMultiBulk(b, Nested(b)[d - 1], p + 1), r.value, p + Len(r.bytes))
    <3>1. ASSUME NEW q \in Nat, NEW n \in 1..Len(es), q >= p + 3, Holds(b, StreamBytes(es), q)
          PROVE  ReadsAs(b, Nested(b)[d - 1], es[n], q + EndOf(es, n - 1))
      <4>1. es[n] \in Replies /\ EndOf(es, n - 1) \in Nat
        BY Ends
      <4>2. PICK c \in Nat : c = q + EndOf(es, n - 1) /\ c >= p + 3
        BY <4>1, <3>1
      <4>3. Holds(b, es[n].bytes, c)
        BY <4>2, <3>1, HoldsElement
      <4>4. d - 1 \in 0..Len(b) /\ d - 1 >= Len(b) - c
        BY <4>2, <2>1, <1>1, <1>2
      <4>5. Nesting[es[n]] < m
        <5>1. Nesting[es[n]] \in Nat /\ Nesting[r] \in Nat
          BY <4>1, RepliesAssumption
        <5> QED BY <5>1, <4>1, <1>1, <1>4
      <4>6. ReadsAs(b, Nested(b)[d - 1], es[n], c)
        BY <4>1, <4>3, <4>4, <4>5 DEF ReadDown
      <4> QED BY <4>2, <4>6
    <3>2. Holds(b, Multi(es).bytes, p)
      BY <1>1, <1>4
    <3>3. Yields(b, ParseMultiBulk(b, Nested(b)[d - 1], p + 1), Multi(es).value, p + Len(Multi(es).bytes))
      BY <3>1, <3>2, <1>4, ReadsMulti
    <3> QED BY <3>3, <1>4
  <2>2. r.type = "*"
    BY <1>4 DEF Multi
  <2> QED BY <2>1, <2>2, <1>1, ReadsNested
<1>5. CASE r.type # "*" /\ \A multi : \A c \in Seq(STRING), q \in Nat :
                              Holds(c, r.bytes, q) => ReadsAs(c, multi, r, q)
  BY <1>1, <1>5
<1> QED BY <1>3, <1>4, <1>5, RepliesMade

\* A reply of any depth, anywhere in any buffer.
LEMMA ReadsReplies ==
  ASSUME NEW r \in Replies, NEW b \in Seq(STRING), NEW p \in Nat, Holds(b, r.bytes, p)
  PROVE  ReadsAs(b, Nested(b)[Len(b)], r, p)
<1> DEFINE S == {m \in Nat : ReadDown(m)}
<1>1. 0 \in S
  <2>1. \A x \in Replies : ~(Nesting[x] < 0)
    BY RepliesAssumption
  <2> QED BY <2>1 DEF ReadDown
<1>2. ASSUME NEW m \in Nat, m \in S PROVE m + 1 \in S
  BY <1>2, ReadsDeeper
<1>3. Nat \subseteq S
  <2> HIDE DEF S
  <2> QED BY <1>1, <1>2, Induction
<1>4. PICK m \in Nat : Nesting[r] < m
  <2>1. Nesting[r] \in Nat /\ Nesting[r] + 1 \in Nat /\ Nesting[r] < Nesting[r] + 1
    BY RepliesAssumption
  <2> QED BY <2>1
<1>5. ReadDown(m)
  BY <1>3
<1>6. Len(b) \in 0..Len(b) /\ Len(b) >= Len(b) - p
  <2>1. Len(b) \in Nat
    BY LenProperties
  <2> QED BY <2>1
<1> QED BY <1>4, <1>5, <1>6 DEF ReadDown

\* The streams are sequences of replies.
LEMMA StreamsAreReplies == \A rs \in ReplyStreams : rs \in Seq(Replies)
BY StreamsAssumption

\* _parseResult reads every reply of every stream, from any buffer that the stream is
\* cut into.
LEMMA ReaderCorrect == \A rs \in ReplyStreams : Reads(rs)
<1> SUFFICES ASSUME NEW rs \in Seq(Replies), NEW k \in 1..Len(rs), NEW from \in 0..EndOf(rs, k - 1),
                    NEW to \in (EndOf(rs, k - 1) + 4)..Len(StreamBytes(rs))
             PROVE  ReadsReply(rs, k, from, to)
  <2>1. \A rs \in Seq(Replies) : DOMAIN rs = 1..Len(rs)
    BY LenProperties
  <2> QED BY <2>1, StreamsAreReplies DEF Reads
<1>1. StreamBytes(rs) \in Seq(STRING) /\ Len(StreamBytes(rs)) \in Nat
  BY Ends, LenProperties
<1>2. PICK c \in Nat, l \in Nat :
        /\ c = EndOf(rs, k - 1) /\ l = Len(rs[k].bytes) /\ EndOf(rs, k) = c + l
        /\ rs[k] \in Replies
  BY Ends, RepliesAre
<1>3. from \in Nat /\ to \in Nat /\ from <= c /\ c + 4 <= to /\ from <= to /\ to <= Len(StreamBytes(rs))
  BY <1>1, <1>2
<1>4. PICK b \in Seq(STRING) : /\ b = Slice(StreamBytes(rs), from, to) /\ Len(b) = to - from
                              /\ \A i \in 1..(to - from) : b[i] = StreamBytes(rs)[from + i]
  BY <1>1, <1>3, SliceHolds
<1>5. PICK p \in Nat : p = c - from
  BY <1>3
<1>6. Holds(b, rs[k].bytes, p)
  <2>1. ASSUME NEW i \in 1..l, p + i <= Len(b) PROVE b[p + i] = rs[k].bytes[i]
    <3>1. p + i \in 1..(to - from) /\ from + (p + i) = c + i
      BY <2>1, <1>3, <1>4, <1>5
    <3>2. b[p + i] = StreamBytes(rs)[c + i]
      BY <3>1, <1>4
    <3>3. StreamBytes(rs)[c + i] = rs[k].bytes[i]
      BY <1>2, ReplyAt
    <3> QED BY <3>2, <3>3
  <2> QED BY <2>1, <1>2 DEF Holds
<1>7. PICK x : x = ParseResult(b, rs[k].type, p + 1)
  OBVIOUS
<1>8. Yields(b, x, rs[k].value, p + l)
  <2>1. ReadsAs(b, Nested(b)[Len(b)], rs[k], p)
    BY <1>2, <1>6, ReadsReplies
  <2> QED BY <2>1, <1>2, <1>7 DEF ReadsAs, ParseResult
<1>9. p + 1 = EndOf(rs, k - 1) - from + 1
  BY <1>2, <1>3, <1>5
<1>10. x = ParseResult(Slice(StreamBytes(rs), from, to), rs[k].type, EndOf(rs, k - 1) - from + 1)
  BY <1>4, <1>7, <1>9
<1>11. PICK e \in Nat, n \in Nat : e = EndOf(rs, k) /\ n = Len(b)
  <2>1. c + l \in Nat
    OBVIOUS
  <2>2. EndOf(rs, k) \in Nat
    BY <2>1, <1>2, Zenon
  <2>3. Len(b) \in Nat
    BY LenProperties
  <2> QED BY <2>2, <2>3
<1>12. /\ e <= to => p + l <= n
       /\ p + l = e - from
       /\ p + l <= n + 2 => e <= to + 2
  <2>1. e = c + l /\ n = to - from
    BY <1>2, <1>4, <1>11
  <2> QED BY <2>1, <1>3, <1>5
<1>13. /\ EndOf(rs, k) <= to => p + l <= Len(b)
       /\ p + l = EndOf(rs, k) - from
       /\ p + l <= Len(b) + 2 => EndOf(rs, k) <= to + 2
  BY <1>11, <1>12
<1> QED BY <1>8, <1>10, <1>13 DEF Yields, ReadsReply
------------------------------------------------------------------------------
(* The invariant                                                           *)

Bytes     == StreamBytes(replies)
ArrivedTo == Len(Bytes) - Len(wire)       \* how much of the stream has arrived,
Base      == ArrivedTo - Len(buffer)      \* where the buffer begins in it,
Place     == Base + offset                \* and the parser stands
Told      == Len(emitted)
End       == EndOf(replies, Told)         \* where the last emitted reply ends

ParserTypes ==
  /\ replies \in ReplyStreams /\ wire \in Seq(STRING) /\ buffer \in Seq(STRING) /\ offset \in Nat
  /\ emitted \in Seq([error : BOOLEAN, value : Seq(STRING)])
  /\ executing \in BOOLEAN /\ stalled \in BOOLEAN
  /\ connections \in 1..MaxConnections /\ throws \in 0..MaxThrows

\* buffer and wire are what the stream has between Base and the end.
BytesInv ==
  /\ Base \in Nat
  /\ buffer = Slice(Bytes, Base, ArrivedTo) /\ wire = Slice(Bytes, ArrivedTo, Len(Bytes))

\* The events so far are the first replies.
EventsInv == Told <= Len(replies) /\ \A i \in 1..Told : emitted[i] = Expected[i]

\* The parser stands at the end of the last reply, or in its line end; it has gone
\* past the buffer, by two bytes at most, only to the very end of a reply.
PlaceInv ==
  /\ Place <= End /\ End <= Place + 2 /\ offset <= Len(buffer) + 2
  /\ Place = End \/ offset <= Len(buffer)

\* The next reply, if there is one, has not arrived.
NextToCome == Told = Len(replies) \/ ArrivedTo < EndOf(replies, Told + 1)

\* Once execute has returned it waits for that.
WaitInv == ~executing /\ ~stalled => NextToCome

ParserInv == ParserTypes /\ BytesInv /\ EventsInv /\ PlaceInv /\ WaitInv


\* The numbers the invariant is about are numbers.
LEMMA Numbers ==
  ASSUME ParserTypes, BytesInv, EventsInv
  PROVE  /\ replies \in Seq(Replies) /\ Len(replies) \in Nat /\ Told \in 0..Len(replies)
         /\ Bytes \in Seq(STRING) /\ Len(Bytes) \in Nat /\ Len(wire) \in Nat /\ Len(buffer) \in Nat
         /\ ArrivedTo \in Nat /\ ArrivedTo <= Len(Bytes) /\ Base \in Nat /\ Base <= ArrivedTo
         /\ Len(buffer) = ArrivedTo - Base /\ Place \in Nat /\ Place = Base + offset /\ End \in Nat
<1>1. replies \in Seq(Replies) /\ Len(replies) \in Nat
  BY StreamsAreReplies, LenProperties DEF ParserTypes
<1>2. Bytes \in Seq(STRING) /\ Len(Bytes) \in Nat
  BY <1>1, Ends, LenProperties DEF Bytes
<1>3. Len(wire) \in Nat /\ Len(buffer) \in Nat /\ Told \in Nat
  BY LenProperties DEF ParserTypes, Told
<1>4. Base \in Nat /\ offset \in Nat /\ Told <= Len(replies)
  BY DEF BytesInv, ParserTypes, EventsInv
<1>5. Told \in 0..Len(replies)
  BY <1>1, <1>3, <1>4
<1>6. End \in Nat
  BY <1>1, <1>5, Ends DEF End
<1> QED BY <1>1, <1>2, <1>3, <1>4, <1>5, <1>6 DEF ArrivedTo, Base, Place

\* Where a turn of the loop finds a type, a reply begins that has not been emitted;
\* where it finds none, it stands in the line end of the last one.
LEMMA TurnMeets ==
  ASSUME ParserTypes, BytesInv, EventsInv, PlaceInv, ~TooShort
  PROVE  /\ offset + 4 <= Len(buffer)
         /\ Byte(buffer, offset) \in Types =>
              /\ Place = End /\ Told + 1 \in 1..Len(replies) /\ End + 4 <= ArrivedTo
              /\ Byte(buffer, offset) = replies[Told + 1].type
         /\ Byte(buffer, offset) \notin Types => Place < End
<1>1. /\ replies \in Seq(Replies) /\ Len(replies) \in Nat /\ Told \in 0..Len(replies)
      /\ Bytes \in Seq(STRING) /\ Len(Bytes) \in Nat /\ Len(buffer) \in Nat
      /\ ArrivedTo \in Nat /\ ArrivedTo <= Len(Bytes) /\ Base \in Nat /\ Base <= ArrivedTo
      /\ Len(buffer) = ArrivedTo - Base /\ Place \in Nat /\ Place = Base + offset /\ End \in Nat
  BY Numbers
<1>2. offset \in Nat /\ offset + 4 <= Len(buffer)
  <2>1. offset \in Nat
    BY DEF ParserTypes
  <2> QED BY <2>1, <1>1 DEF TooShort, BytesRemaining
<1>3. Byte(buffer, offset) = Bytes[Place + 1]
  <2>1. Byte(buffer, offset) = buffer[offset + 1]
    BY <1>1, <1>2 DEF Byte
  <2>2. offset + 1 \in 1..(ArrivedTo - Base)
    BY <1>1, <1>2
  <2>3. Slice(Bytes, Base, ArrivedTo)[offset + 1] = Bytes[Base + (offset + 1)]
    BY <1>1, <2>2, SliceHolds
  <2>4. Base + (offset + 1) = Place + 1
    BY <1>1, <1>2
  <2> QED BY <2>1, <2>3, <2>4 DEF BytesInv
<1>4. CASE Place = End
  <2>1. Told # Len(replies)
    <3>1. End + 4 <= Len(Bytes)
      BY <1>1, <1>2, <1>4
    <3> QED BY <3>1, <1>1, Ends DEF End, Bytes
  <2>2. Told + 1 \in 1..Len(replies) /\ (Told + 1) - 1 = Told
    BY <2>1, <1>1
  <2>3. replies[Told + 1].type \in Types /\ Bytes[End + 1] = replies[Told + 1].type
    <3>1. /\ replies[Told + 1].type \in Types
          /\ StreamBytes(replies)[EndOf(replies, (Told + 1) - 1) + 1] = replies[Told + 1].type
      BY <1>1, <2>2, BytesOfReply
    <3> QED BY <3>1, <2>2 DEF Bytes, End
  <2>4. End + 4 <= ArrivedTo
    BY <1>1, <1>2, <1>4
  <2> QED BY <1>2, <1>3, <1>4, <2>2, <2>3, <2>4
<1>5. CASE Place # End
  <2>1. Place < End /\ (Place + 1 = End \/ Place + 1 = End - 1)
    BY <1>1, <1>5 DEF PlaceInv
  <2>2. Told \in 1..Len(replies)
    <3>1. Told # 0
      BY <1>1, <2>1, Ends DEF End
    <3> QED BY <3>1, <1>1
  <2>3. Bytes[End] \notin Types /\ Bytes[End - 1] \notin Types
    BY <1>1, <2>2, BytesOfReply DEF Bytes, End
  <2> QED BY <1>2, <1>3, <2>1, <2>3
<1> QED BY <1>4, <1>5

\* What _parseResult then makes of the reply that begins there.
LEMMA ReadsNext ==
  ASSUME ParserTypes, BytesInv, EventsInv, PlaceInv, ~TooShort,
         Byte(buffer, offset) \in Types
  PROVE  LET r == ParseResult(buffer, Byte(buffer, offset), offset + 1)
             e == EndOf(replies, Told + 1)
         IN  /\ e <= ArrivedTo => r.complete
             /\ r.complete => /\ r.value = replies[Told + 1].value
                              /\ r.offset = e - Base /\ e <= ArrivedTo + 2
<1> DEFINE k == Told + 1
<1>1. /\ replies \in Seq(Replies) /\ Len(replies) \in Nat /\ Told \in 0..Len(replies)
      /\ Len(Bytes) \in Nat /\ Len(buffer) \in Nat
      /\ ArrivedTo \in Nat /\ ArrivedTo <= Len(Bytes) /\ Base \in Nat
      /\ Len(buffer) = ArrivedTo - Base /\ Place = Base + offset /\ End \in Nat
  BY Numbers
<1>2. offset \in Nat /\ replies \in ReplyStreams
  BY DEF ParserTypes
<1>3. /\ Place = End /\ k \in 1..Len(replies) /\ End + 4 <= ArrivedTo
      /\ Byte(buffer, offset) = replies[k].type
  BY TurnMeets
<1>4. k - 1 = Told /\ EndOf(replies, k - 1) = End
  BY <1>1 DEF End
<1>5. Base \in 0..EndOf(replies, k - 1) /\ ArrivedTo \in (EndOf(replies, k - 1) + 4)..Len(StreamBytes(replies))
  BY <1>1, <1>2, <1>3, <1>4 DEF Bytes
<1>6. DOMAIN replies = 1..Len(replies)
  BY <1>1, LenProperties
<1>7. ReadsReply(replies, k, Base, ArrivedTo)
  <2>1. Reads(replies)
    BY <1>2, ReaderCorrect
  <2> HIDE DEF k
  <2> QED BY <2>1, <1>3, <1>5, <1>6 DEF Reads
<1>8. EndOf(replies, k - 1) - Base + 1 = offset + 1
  BY <1>1, <1>2, <1>3, <1>4
<1>9. Slice(StreamBytes(replies), Base, ArrivedTo) = buffer
  BY DEF BytesInv, Bytes
<1> HIDE DEF k
<1>10. LET r == ParseResult(buffer, Byte(buffer, offset), offset + 1)
       IN  /\ EndOf(replies, k) <= ArrivedTo => r.complete
           /\ r.complete => /\ r.value = replies[k].value
                            /\ r.offset = EndOf(replies, k) - Base /\ EndOf(replies, k) <= ArrivedTo + 2
  BY <1>3, <1>7, <1>8, <1>9, Zenon DEF ReadsReply
<1> QED BY <1>10 DEF k

------------------------------------------------------------------------------
(* The steps                                                               *)

\* A new connection: everything is still to come.
Fresh ==
  /\ ParserTypes
  /\ wire = StreamBytes(replies) /\ buffer = <<>> /\ offset = 0 /\ emitted = <<>>

\* A new parser with nothing received yet satisfies the invariant.
LEMMA FreshInv == Fresh => ParserInv
<1> SUFFICES ASSUME Fresh PROVE ParserInv
  OBVIOUS
<1>1. ParserTypes /\ Len(buffer) = 0 /\ Told = 0 /\ offset = 0
  BY DEF Fresh, Told
<1>2. replies \in Seq(Replies) /\ Len(replies) \in Nat
  BY <1>1, StreamsAreReplies, LenProperties DEF ParserTypes
<1>3. Bytes \in Seq(STRING) /\ Len(Bytes) \in Nat /\ wire = Bytes
  BY <1>2, Ends, LenProperties DEF Bytes, Fresh
<1>4. ArrivedTo = 0 /\ Base = 0 /\ Place = 0
  BY <1>1, <1>3 DEF ArrivedTo, Base, Place
<1>5. Slice(Bytes, 0, 0) = <<>> /\ Slice(Bytes, 0, Len(Bytes)) = Bytes
  BY <1>3, SubSeqFull, SubSeqEmpty DEF Slice
<1>6. BytesInv
  BY <1>3, <1>4, <1>5 DEF BytesInv, Fresh
<1>7. EventsInv
  BY <1>1, <1>2 DEF EventsInv
<1>8. End = 0
  BY <1>1, <1>2, Ends DEF End
<1>9. PlaceInv
  BY <1>1, <1>4, <1>8 DEF PlaceInv
<1>10. WaitInv
  <2>1. CASE Len(replies) = 0
    BY <2>1, <1>1 DEF WaitInv, NextToCome
  <2>2. CASE Len(replies) # 0
    <3>1. Told + 1 \in 1..Len(replies) /\ (Told + 1) - 1 = 0
      BY <2>2, <1>1, <1>2
    <3>2. EndOf(replies, 0) + 4 <= EndOf(replies, Told + 1)
      BY <3>1, <1>2, BytesOfReply
    <3>3. EndOf(replies, 0) = 0 /\ EndOf(replies, Told + 1) \in Nat
      BY <3>1, <1>2, Ends
    <3> QED BY <3>2, <3>3, <1>4 DEF WaitInv, NextToCome
  <2> QED BY <2>1, <2>2
<1> QED BY <1>1, <1>6, <1>7, <1>9, <1>10 DEF ParserInv

\* So it holds at first,
LEMMA InitStep == Init => ParserInv
<1> SUFFICES ASSUME Init PROVE Fresh
  BY FreshInv
<1>1. StreamBytes(replies) \in Seq(STRING)
  BY StreamsAreReplies, Ends DEF Init
<1>2. MaxConnections \in Nat \ {0} /\ MaxThrows \in Nat
  BY ParserAssumption
<1>3. <<>> \in Seq(STRING) /\ <<>> \in Seq([error : BOOLEAN, value : Seq(STRING)])
  BY EmptySeq
<1>4. offset \in Nat /\ connections \in 1..MaxConnections /\ throws \in 0..MaxThrows
  BY <1>2 DEF Init
<1> QED BY <1>1, <1>3, <1>4, Zenon DEF Init, Fresh, ParserTypes

\* and when the connection is made again.
LEMMA ReconnectStep == ParserInv /\ Reconnect => ParserInv'
<1> SUFFICES ASSUME ParserInv, Reconnect PROVE Fresh'
  BY FreshInv, PTL
<1>1. replies' \in ReplyStreams /\ StreamBytes(replies') \in Seq(STRING)
  BY StreamsAreReplies, Ends DEF Reconnect
<1>2. connections' \in 1..MaxConnections
  BY ParserAssumption DEF Reconnect, ParserInv, ParserTypes
<1>3. <<>> \in Seq(STRING) /\ <<>> \in Seq([error : BOOLEAN, value : Seq(STRING)])
  BY EmptySeq
<1> QED BY <1>1, <1>2, <1>3 DEF Reconnect, InitParser, Fresh, ParserInv, ParserTypes

\* A chunk: the buffer begins where the parser stands or, when it has gone past the
\* buffer, with the chunk, of which it then reads the rest of the line end again.
LEMMA ExecuteStep == ParserInv /\ Execute => ParserInv'
<1> SUFFICES ASSUME ParserInv, Execute PROVE ParserInv'
  OBVIOUS
<1> USE DEF ParserInv
<1>1. /\ replies \in Seq(Replies) /\ Told \in Nat
      /\ Bytes \in Seq(STRING) /\ Len(Bytes) \in Nat /\ Len(buffer) \in Nat /\ Len(wire) \in Nat
      /\ ArrivedTo \in Nat /\ ArrivedTo <= Len(Bytes) /\ Base \in Nat /\ Base <= ArrivedTo
      /\ Len(buffer) = ArrivedTo - Base /\ Place \in Nat /\ Place = Base + offset /\ End \in Nat
      /\ Len(wire) = Len(Bytes) - ArrivedTo /\ offset \in Nat
  BY Numbers DEF ArrivedTo, ParserTypes
<1>2. PICK n \in 1..Len(wire) : AppendChunk(Slice(wire, 0, n)) /\ wire' = Slice(wire, n, Len(wire))
  BY DEF Execute
<1> n \in Nat
  OBVIOUS
<1>a. PICK T \in Nat : T = ArrivedTo + n
  BY <1>1
<1>3. T \in Nat /\ ArrivedTo <= T /\ T <= Len(Bytes) /\ n \in Nat /\ n <= Len(wire)
  BY <1>1, <1>a
<1>4. Slice(wire, 0, n) = Slice(Bytes, ArrivedTo, T) /\ wire' = Slice(Bytes, T, Len(Bytes))
  <2>1. wire = Slice(Bytes, ArrivedTo, Len(Bytes))
    BY DEF BytesInv
  <2>2. \A i \in Nat, j \in Nat : i <= j /\ j <= Len(Bytes) - ArrivedTo =>
           Slice(wire, i, j) = Slice(Bytes, ArrivedTo + i, ArrivedTo + j)
    <3>1. Bytes \in Seq(STRING) /\ ArrivedTo \in Nat /\ Len(Bytes) \in Nat
          /\ ArrivedTo <= Len(Bytes) /\ Len(Bytes) <= Len(Bytes)
      BY <1>1
    <3>2. ASSUME NEW i \in Nat, NEW j \in Nat, i <= j, j <= Len(Bytes) - ArrivedTo
          PROVE  Slice(Slice(Bytes, ArrivedTo, Len(Bytes)), i, j) = Slice(Bytes, ArrivedTo + i, ArrivedTo + j)
      <4> DEFINE t == Len(Bytes)
      <4>1. t \in Nat /\ ArrivedTo <= t /\ t <= Len(Bytes) /\ j <= t - ArrivedTo
        BY <3>1, <3>2
      <4> HIDE DEF t
      <4>2. Slice(Slice(Bytes, ArrivedTo, t), i, j) = Slice(Bytes, ArrivedTo + i, ArrivedTo + j)
        BY <3>1, <3>2, <4>1, SliceOfSlice
      <4> QED BY <4>2 DEF t
    <3> QED BY <3>2, <2>1, Zenon
  <2>3. /\ Slice(wire, 0, n) = Slice(Bytes, ArrivedTo + 0, ArrivedTo + n)
        /\ Slice(wire, n, Len(wire)) = Slice(Bytes, ArrivedTo + n, ArrivedTo + Len(wire))
    BY <1>1, <1>3, <2>2
  <2>4. ArrivedTo + 0 = ArrivedTo /\ ArrivedTo + Len(wire) = Len(Bytes)
    BY <1>1
  <2> QED BY <2>3, <2>4, <1>2, <1>a
<1>5. \E f \in Nat : /\ f <= ArrivedTo /\ f <= End /\ End <= f + 2
                    /\ buffer' = Slice(Bytes, f, T)
  <2>1. CASE offset >= Len(buffer)
    <3>1. buffer' = Slice(Bytes, ArrivedTo, T)
      BY <2>1, <1>2, <1>4 DEF AppendChunk
    <3>2. ArrivedTo <= End /\ End <= ArrivedTo + 2
      BY <2>1, <1>1 DEF PlaceInv
    <3> QED BY <1>1, <3>1, <3>2
  <2>2. CASE ~(offset >= Len(buffer))
    <3>1. Place <= ArrivedTo /\ Base + Len(buffer) = ArrivedTo /\ offset <= Len(buffer)
      BY <2>2, <1>1
    <3>2. Slice(buffer, offset, Len(buffer)) = Slice(Bytes, Place, ArrivedTo)
      <4>1. buffer = Slice(Bytes, Base, ArrivedTo)
        BY DEF BytesInv
      <4>2. Slice(buffer, offset, Len(buffer)) = Slice(Bytes, Base + offset, Base + Len(buffer))
        BY <1>1, <3>1, <4>1, SliceOfSlice
      <4> QED BY <4>2, <3>1, <1>1
    <3>3. Slice(Bytes, Place, ArrivedTo) \o Slice(Bytes, ArrivedTo, T) = Slice(Bytes, Place, T)
      <4>1. /\ Bytes \in Seq(STRING) /\ Place \in Nat /\ ArrivedTo \in Nat /\ T \in Nat
            /\ Place <= ArrivedTo /\ ArrivedTo <= T /\ T <= Len(Bytes)
        BY <1>1, <1>3, <3>1
      <4> QED BY <4>1, SlicesMeet
    <3>4. buffer' = Slice(Bytes, Place, T)
      BY <2>2, <1>2, <1>4, <3>2, <3>3 DEF AppendChunk
    <3>5. Place <= End /\ End <= Place + 2
      BY DEF PlaceInv
    <3> QED BY <1>1, <3>1, <3>4, <3>5
  <2> QED BY <2>1, <2>2
<1>6. PICK f \in Nat : /\ f <= ArrivedTo /\ f <= End /\ End <= f + 2
                     /\ buffer' = Slice(Bytes, f, T)
  BY <1>5
<1>7. /\ offset' = 0 /\ executing' = TRUE /\ stalled' = FALSE
      /\ UNCHANGED <<replies, emitted, connections, throws>>
  BY <1>2 DEF Execute, AppendChunk
<1>b. f \in Nat /\ f <= T /\ Len(Bytes) <= Len(Bytes)
  BY <1>1, <1>3, <1>6
<1>8. buffer' \in Seq(STRING) /\ Len(buffer') = T - f
  BY <1>1, <1>3, <1>6, <1>b, SliceHolds, Zenon
<1>9. wire' \in Seq(STRING) /\ Len(wire') = Len(Bytes) - T
  BY <1>1, <1>3, <1>4, <1>b, SliceHolds, Zenon
<1>10. Bytes' = Bytes /\ Told' = Told /\ End' = End
  BY <1>7 DEF Bytes, Told, End
<1>11. ArrivedTo' = T /\ Base' = f /\ Place' = f
  BY <1>1, <1>3, <1>7, <1>8, <1>9, <1>10 DEF ArrivedTo, Base, Place
<1>12. ParserTypes'
  BY <1>7, <1>8, <1>9 DEF ParserTypes
<1>13. BytesInv'
  BY <1>4, <1>6, <1>10, <1>11 DEF BytesInv
<1>14. EventsInv'
  BY <1>7, <1>10 DEF EventsInv, Expected
<1>15. PlaceInv'
  BY <1>3, <1>6, <1>7, <1>8, <1>10, <1>11 DEF PlaceInv
<1>16. WaitInv'
  BY <1>7 DEF WaitInv
<1> QED BY <1>12, <1>13, <1>14, <1>15, <1>16

\* A turn of the loop leaves the buffer as it is.
LEMMA TurnKeeps ==
  ASSUME ParserTypes, BytesInv, UNCHANGED <<replies, wire, buffer>>
  PROVE  Bytes' = Bytes /\ ArrivedTo' = ArrivedTo /\ Base' = Base /\ BytesInv'
<1>1. Bytes' = Bytes
  BY DEF Bytes
<1>2. ArrivedTo' = ArrivedTo
  BY <1>1 DEF ArrivedTo
<1>3. Base' = Base
  BY <1>2 DEF Base
<1> QED BY <1>1, <1>2, <1>3 DEF BytesInv

\* A turn that emits nothing, and what it may change: the parser stands where the
\* invariant allows, and stops only when the next reply has not arrived.
LEMMA SilentTurn ==
  ASSUME ParserInv, UNCHANGED <<replies, wire, buffer, emitted, stalled, connections, throws>>,
         executing' \in BOOLEAN, offset' \in Nat,
         \/ offset' = offset
         \/ offset' = offset + 1 /\ offset < Len(buffer) /\ Place < End,
         executing' = FALSE => NextToCome
  PROVE  ParserInv'
<1>1. Bytes' = Bytes /\ ArrivedTo' = ArrivedTo /\ Base' = Base /\ BytesInv'
  BY TurnKeeps DEF ParserInv
<1>2. Told' = Told /\ End' = End
  BY DEF Told, End
<1>3. /\ Base \in Nat /\ Len(buffer) \in Nat /\ Place \in Nat /\ Place = Base + offset
      /\ End \in Nat /\ offset \in Nat
  BY Numbers DEF ParserInv, ParserTypes
<1>4. Place' = Base + offset'
  BY <1>1 DEF Place
<1>5. ParserTypes'
  BY DEF ParserInv, ParserTypes
<1>6. EventsInv'
  BY <1>2 DEF ParserInv, EventsInv, Expected
<1>7. PlaceInv'
  <2>1. PlaceInv
    BY DEF ParserInv
  <2>2. CASE offset' = offset
    BY <2>1, <2>2, <1>2, <1>3, <1>4 DEF PlaceInv
  <2>3. CASE offset' = offset + 1 /\ offset < Len(buffer) /\ Place < End
    BY <2>1, <2>3, <1>2, <1>3, <1>4 DEF PlaceInv
  <2> QED BY <2>2, <2>3
<1>8. WaitInv'
  BY <1>1, <1>2 DEF WaitInv, NextToCome, ParserInv
<1> QED BY <1>1, <1>5, <1>6, <1>7, <1>8 DEF ParserInv

\* A turn that emits a reply emits the next one, and goes to its end.
LEMMA EmitTurn ==
  ASSUME ParserInv, ~TooShort, Byte(buffer, offset) \in Types,
         ParseResult(buffer, Byte(buffer, offset), offset + 1).complete,
         Emit(Byte(buffer, offset), ParseResult(buffer, Byte(buffer, offset), offset + 1)),
         executing, UNCHANGED <<replies, wire, buffer, connections>>
  PROVE  ParserInv'
<1> DEFINE type == Byte(buffer, offset)
           r    == ParseResult(buffer, type, offset + 1)
           k    == Told + 1
           ev   == Event(type, r.value)
<1>1. /\ replies \in Seq(Replies) /\ Len(replies) \in Nat /\ Told \in 0..Len(replies)
      /\ ArrivedTo \in Nat /\ Base \in Nat /\ Len(buffer) \in Nat /\ Len(buffer) = ArrivedTo - Base
      /\ Place = Base + offset /\ End \in Nat /\ offset \in Nat
  BY Numbers DEF ParserInv, ParserTypes
<1>2. Place = End /\ k \in 1..Len(replies) /\ type = replies[k].type
  BY TurnMeets DEF ParserInv
<1>3. /\ r.value = replies[k].value /\ r.offset = EndOf(replies, k) - Base
      /\ EndOf(replies, k) <= ArrivedTo + 2
  BY ReadsNext DEF ParserInv
<1>4. /\ emitted' = Append(emitted, ev) /\ offset' = r.offset
      /\ executing' \in BOOLEAN /\ stalled' \in BOOLEAN /\ throws' \in 0..MaxThrows
      /\ executing' \/ stalled'
  <2>1. stalled \in BOOLEAN /\ executing \in BOOLEAN /\ throws \in 0..MaxThrows /\ MaxThrows \in Nat
    BY ParserAssumption DEF ParserInv, ParserTypes
  <2>2. throws < MaxThrows => throws + 1 \in 0..MaxThrows
    BY <2>1
  <2>3. CASE UNCHANGED <<executing, stalled, throws>>
    BY <2>1, <2>3 DEF Emit
  <2>4. CASE throws < MaxThrows /\ executing' = FALSE /\ stalled' = TRUE /\ throws' = throws + 1
    BY <2>2, <2>4 DEF Emit
  <2> QED BY <2>3, <2>4 DEF Emit
<1>5. Bytes' = Bytes /\ ArrivedTo' = ArrivedTo /\ Base' = Base /\ BytesInv'
  BY TurnKeeps DEF ParserInv
<1>6. replies[k] \in Replies /\ EndOf(replies, k) \in Nat /\ End + 4 <= EndOf(replies, k)
  <2>1. replies[k] \in Replies /\ EndOf(replies, k) \in Nat
    BY <1>1, <1>2, Ends
  <2>2. EndOf(replies, k - 1) + 4 <= EndOf(replies, k)
    BY <1>1, <1>2, BytesOfReply
  <2>3. k - 1 = Told
    BY <1>1
  <2> QED BY <2>1, <2>2, <2>3 DEF End
<1>7. ev = Expected[k] /\ ev \in [error : BOOLEAN, value : Seq(STRING)]
  <2>1. k \in DOMAIN replies
    BY <1>1, <1>2, LenProperties
  <2>2. Expected[k] = Event(replies[k].type, replies[k].value)
    BY <2>1 DEF Expected
  <2>3. replies[k].value \in Seq(STRING)
    BY <1>6, RepliesAre
  <2> QED BY <2>2, <2>3, <1>2, <1>3 DEF Event
<1> HIDE DEF ev, r, type
<1>8. emitted \in Seq([error : BOOLEAN, value : Seq(STRING)]) /\ Told = Len(emitted)
  BY DEF ParserInv, ParserTypes, Told
<1>9. /\ emitted' \in Seq([error : BOOLEAN, value : Seq(STRING)]) /\ Told' = k
      /\ \A i \in 1..Told : emitted'[i] = emitted[i]
      /\ emitted'[k] = ev
  BY <1>4, <1>7, <1>8 DEF Told
<1>10. End' = EndOf(replies, k) /\ Expected' = Expected
  BY <1>9 DEF End, Expected
<1>11. Place' = Base + offset' /\ offset' \in Nat /\ Place' = End' /\ offset' <= Len(buffer) + 2
  <2>1. Place' = Base + offset'
    BY <1>5 DEF Place
  <2>2. offset' = EndOf(replies, k) - Base
    BY <1>3, <1>4
  <2> DEFINE e == EndOf(replies, k)
  <2>3. e \in Nat /\ End + 4 <= e /\ e <= ArrivedTo + 2 /\ End' = e /\ offset' = e - Base
    BY <2>2, <1>3, <1>6, <1>10
  <2> HIDE DEF e
  <2> QED BY <2>1, <2>3, <1>1, <1>2
<1>12. ParserTypes'
  BY <1>4, <1>9, <1>11 DEF ParserInv, ParserTypes
<1>13. EventsInv'
  <2>1. \A i \in 1..Told : emitted[i] = Expected[i]
    BY DEF ParserInv, EventsInv
  <2>2. \A i \in 1..k : i \in 1..Told \/ i = k
    BY <1>1
  <2>3. \A i \in 1..k : emitted'[i] = Expected[i]
    BY <2>1, <2>2, <1>7, <1>9
  <2>4. Told' <= Len(replies') /\ \A i \in 1..Told' : emitted'[i] = Expected'[i]
    BY <2>3, <1>1, <1>2, <1>9, <1>10
  <2> QED BY <2>4 DEF EventsInv
<1>14. PlaceInv'
  BY <1>6, <1>10, <1>11 DEF PlaceInv
<1>15. WaitInv'
  BY <1>4 DEF WaitInv
<1> QED BY <1>5, <1>12, <1>13, <1>14, <1>15 DEF ParserInv

\* A turn of the loop keeps the invariant, whichever way it goes.
LEMMA IterateStep == ParserInv /\ Iterate => ParserInv'
<1> SUFFICES ASSUME ParserInv, Iterate PROVE ParserInv'
  OBVIOUS
<1> DEFINE type == Byte(buffer, offset)
           r    == ParseResult(buffer, type, offset + 1)
<1>1. executing /\ UNCHANGED <<replies, wire, buffer, connections>>
  BY DEF Iterate
<1>2. /\ Len(replies) \in Nat /\ Told \in 0..Len(replies) /\ replies \in Seq(Replies)
      /\ ArrivedTo \in Nat /\ Base \in Nat /\ Len(buffer) \in Nat /\ Len(buffer) = ArrivedTo - Base
      /\ Place = Base + offset /\ End \in Nat /\ offset \in Nat
  BY Numbers DEF ParserInv, ParserTypes
<1>3. CASE TooShort /\ executing' = FALSE /\ UNCHANGED <<offset, emitted, stalled, throws>>
  <2>1. Told = Len(replies) \/ ArrivedTo < EndOf(replies, Told + 1)
    <3>1. SUFFICES ASSUME Told # Len(replies) PROVE ArrivedTo < EndOf(replies, Told + 1)
      OBVIOUS
    <3>2. Told + 1 \in 1..Len(replies) /\ (Told + 1) - 1 = Told
      BY <1>2, <3>1
    <3>3. End + 4 <= EndOf(replies, Told + 1) /\ EndOf(replies, Told + 1) \in Nat
      BY <1>2, <3>2, BytesOfReply, Ends DEF End
    <3>4. ArrivedTo < Place + 4
      BY <1>2, <1>3 DEF TooShort, BytesRemaining
    <3>5. Place <= End
      BY DEF ParserInv, PlaceInv
    <3> QED BY <1>2, <3>3, <3>4, <3>5
  <2>2. UNCHANGED <<replies, wire, buffer, emitted, stalled, connections, throws>>
    BY <1>1, <1>3
  <2>3. executing' \in BOOLEAN /\ offset' \in Nat /\ offset' = offset
    BY <1>2, <1>3
  <2>4. \/ offset' = offset
        \/ offset' = offset + 1 /\ offset < Len(buffer) /\ Place < End
    BY <2>3
  <2>5. NextToCome
    BY <2>1 DEF NextToCome
  <2>6. executing' \in BOOLEAN /\ offset' \in Nat
    BY <2>3
  <2> QED BY <2>2, <2>4, <2>5, <2>6, SilentTurn, Zenon
<1>4. CASE ~TooShort /\ type \in Types /\ r.complete /\ Emit(type, r)
  BY <1>1, <1>4, EmitTurn
<1>5. CASE ~TooShort /\ type \in Types /\ ~r.complete /\ Rewind /\ UNCHANGED <<emitted, stalled, throws>>
  <2>1. ArrivedTo < EndOf(replies, Told + 1)
    <3>1. EndOf(replies, Told + 1) <= ArrivedTo => r.complete
      BY <1>5, ReadsNext DEF ParserInv
    <3>2. EndOf(replies, Told + 1) \in Nat
      <4>1. Told + 1 \in 1..Len(replies)
        BY <1>5, TurnMeets DEF ParserInv
      <4> QED BY <4>1, <1>2, Ends
    <3> QED BY <3>1, <3>2, <1>2, <1>5
  <2>2. executing' = FALSE /\ offset' = offset
    BY <1>5 DEF Rewind
  <2>3. UNCHANGED <<replies, wire, buffer, emitted, stalled, connections, throws>>
    BY <1>1, <1>5
  <2>4. executing' \in BOOLEAN /\ offset' \in Nat /\ offset' = offset
    BY <1>2, <2>2
  <2>5. NextToCome
    BY <2>1 DEF NextToCome
  <2>6. executing' \in BOOLEAN /\ offset' \in Nat
    BY <2>4
  <2>7. \/ offset' = offset
        \/ offset' = offset + 1 /\ offset < Len(buffer) /\ Place < End
    BY <2>4
  <2> QED BY <2>3, <2>5, <2>6, <2>7, SilentTurn, Zenon
<1>6. CASE ~TooShort /\ type \notin Types /\ offset' = offset + 1 /\ UNCHANGED <<executing, emitted, stalled, throws>>
  <2>1. offset + 4 <= Len(buffer) /\ Place < End
    BY <1>6, TurnMeets DEF ParserInv
  <2>2. executing' \in BOOLEAN /\ executing' # FALSE
    BY <1>1, <1>6 DEF ParserInv, ParserTypes
  <2>3. UNCHANGED <<replies, wire, buffer, emitted, stalled, connections, throws>>
    BY <1>1, <1>6
  <2>4. offset' \in Nat /\ offset' = offset + 1 /\ offset < Len(buffer)
    BY <1>2, <1>6, <2>1
  <2> QED BY <2>1, <2>2, <2>3, <2>4, SilentTurn, Zenon
<1> QED BY <1>3, <1>4, <1>5, <1>6 DEF Iterate

------------------------------------------------------------------------------
(* The theorems                                                            *)

\* The invariant is inductive.
LEMMA Step == ParserInv /\ [Next]_vars => ParserInv'
<1> SUFFICES ASSUME ParserInv, [Next]_vars PROVE ParserInv'
  OBVIOUS
<1>1. CASE UNCHANGED vars
  <2>1. UNCHANGED <<replies, wire, buffer, emitted, stalled, connections, throws>> /\ executing' = executing
        /\ offset' = offset
    BY <1>1 DEF vars
  <2>2. Bytes' = Bytes /\ ArrivedTo' = ArrivedTo /\ Base' = Base /\ BytesInv'
    BY <2>1, TurnKeeps DEF ParserInv
  <2>3. Told' = Told /\ End' = End /\ Place' = Place
    BY <2>1, <2>2 DEF Told, End, Place
  <2>4. ParserTypes' /\ EventsInv' /\ PlaceInv' /\ WaitInv'
    BY <2>1, <2>2, <2>3 DEF ParserInv, ParserTypes, EventsInv, Expected, PlaceInv, WaitInv, NextToCome
  <2> QED BY <2>2, <2>4 DEF ParserInv
<1> QED BY <1>1, ExecuteStep, IterateStep, ReconnectStep DEF Next

\* What the invariant says in the end.
LEMMA InvSays == ParserInv => TypeOK /\ RepliesRead /\ RepliesAsSent /\ NothingHeldBack
<1> SUFFICES ASSUME ParserInv PROVE TypeOK /\ RepliesRead /\ RepliesAsSent /\ NothingHeldBack
  OBVIOUS
<1>1. /\ replies \in Seq(Replies) /\ Len(replies) \in Nat /\ Told \in 0..Len(replies)
      /\ ArrivedTo \in Nat /\ Len(buffer) \in Nat
  BY Numbers DEF ParserInv
<1>2. DOMAIN replies = 1..Len(replies) /\ DOMAIN emitted = 1..Told
  BY <1>1, LenProperties DEF Told, ParserInv, ParserTypes
<1>3. TypeOK
  <2>1. offset \in 0..(Len(buffer) + 2)
    BY <1>1 DEF ParserInv, PlaceInv, ParserTypes
  <2>2. \A i \in DOMAIN emitted : emitted[i].error \in BOOLEAN
    <3>1. \A i \in DOMAIN emitted : emitted[i] \in [error : BOOLEAN, value : Seq(STRING)]
      BY <1>2, ElementOfSeq DEF Told, ParserInv, ParserTypes
    <3> QED BY <3>1
  <2> QED BY <2>1, <2>2 DEF TypeOK, ParserInv, ParserTypes
<1>4. RepliesAsSent
  <2>1. Len(Expected) = Len(replies) /\ Len(emitted) = Told /\ Told <= Len(replies)
    BY <1>1, <1>2 DEF Expected, Told
  <2>2. SubSeq(emitted, 1, Told) = SubSeq(Expected, 1, Told)
    BY <1>1 DEF ParserInv, EventsInv
  <2> QED BY <2>1, <2>2 DEF RepliesAsSent, IsPrefix
<1>5. NothingHeldBack
  <2>1. SUFFICES ASSUME ~executing, ~stalled, NEW k \in 1..Len(replies), EndOf(replies, k) <= ArrivedTo
                 PROVE  k <= Told
    BY <1>2 DEF NothingHeldBack, Arrived, ArrivedTo, Bytes, Told
  <2>2. SUFFICES ASSUME Told < k PROVE FALSE
    BY <1>1
  <2>3. Told # Len(replies) /\ Told + 1 \in 0..Len(replies) /\ k \in (Told + 1)..Len(replies)
    BY <1>1, <2>2
  <2>4. ArrivedTo < EndOf(replies, Told + 1)
    BY <2>1, <2>3 DEF ParserInv, WaitInv, NextToCome
  <2>5. EndOf(replies, Told + 1) <= EndOf(replies, k)
    BY <1>1, <2>3, SentKept
  <2>6. EndOf(replies, Told + 1) \in Nat /\ EndOf(replies, k) \in Nat
    BY <1>1, <2>3, Ends
  <2> QED BY <1>1, <2>1, <2>4, <2>5, <2>6
<1>6. RepliesRead
  BY ReaderCorrect DEF RepliesRead, ParserInv, ParserTypes
<1> QED BY <1>3, <1>4, <1>5, <1>6

\* It holds of every state.
LEMMA ParserInvariant == Spec => []ParserInv
<1>1. ParserInv /\ [Next]_vars => ParserInv'
  BY Step
<1> QED BY <1>1, InitStep, PTL DEF Spec

\* The parser's state is well-typed: its offset is never more than two bytes behind
\* the buffer.
THEOREM ParserTyped == Spec => []TypeOK
<1> QED BY ParserInvariant, InvSays, PTL

\* _parseResult reads a reply completely or not at all, wherever it stands in the
\* buffer and wherever the buffer ends.
THEOREM RepliesAlwaysRead == Spec => []RepliesRead
<1> QED BY ParserInvariant, InvSays, PTL

\* What the parser emits is what the server sent, in order and each reply once,
\* however the bytes are cut, a listener throws or a connection is lost.
THEOREM EmitsAsSent == Spec => []RepliesAsSent
<1> QED BY ParserInvariant, InvSays, PTL

\* When execute returns, everything that has arrived has been emitted.
THEOREM EmitsAtOnce == Spec => []NothingHeldBack
<1> QED BY ParserInvariant, InvSays, PTL

==============================================================================

-------------------------- MODULE BlockCodecProofs --------------------------
(***************************************************************************)
(* Proofs about the block encoder and the assembler.  For every list of    *)
(* records with keys that fit the encoder's buffers, however the merger    *)
(* cuts keys and values into words and however the packer stalls, what     *)
(* leaves the encoder is the LevelDB block of the records; and the         *)
(* assembler writes only behind the blocks and sees every rejected burst.  *)
(***************************************************************************)
EXTENDS BlockCodec, TLAPS, SequenceTheorems, WellFoundedInduction

-----------------------------------------------------------------------------
(* Induction over the natural numbers, for a set instead of an operator.   *)

\* A set that holds 0 and, with each number, the next one holds them all.
LEMMA SetInduction ==
    ASSUME NEW S, 0 \in S, \A n \in Nat : n \in S => n + 1 \in S
    PROVE  \A n \in Nat : n \in S
<1> DEFINE T == Nat \ S
<1> SUFFICES ASSUME T /= {} PROVE FALSE
  OBVIOUS
<1>1. IsWellFoundedOn(OpToRel(<, Nat), Nat)
  BY NatLessThanWellFounded, Zenon
<1>2. PICK x \in T : \A y \in T : ~ (<<y, x>> \in OpToRel(<, Nat))
  BY <1>1, WFMin, Zenon
<1>3. \A y \in T : ~(y < x)
  BY <1>2 DEF OpToRel
<1>4. x \in Nat /\ x /= 0
  OBVIOUS
<1>5. x - 1 \in Nat /\ x - 1 < x /\ (x - 1) + 1 = x
  BY <1>4
<1>6. x - 1 \notin T
  BY <1>3, <1>5
<1> QED BY <1>5, <1>6

-----------------------------------------------------------------------------
(* Sequences.                                                              *)

\* The parts of a concatenation.
LEMMA Concat ==
    ASSUME NEW S, NEW s \in Seq(S), NEW t \in Seq(S)
    PROVE  /\ s \o t \in Seq(S) /\ Len(s \o t) = Len(s) + Len(t)
           /\ Len(s) \in Nat /\ Len(t) \in Nat
           /\ \A i \in 1..Len(s) : (s \o t)[i] = s[i]
           /\ \A i \in 1..Len(t) : (s \o t)[Len(s) + i] = t[i]
<1>1. Len(s) \in Nat /\ Len(t) \in Nat
  OBVIOUS
<1>2. s \o t \in Seq(S) /\ Len(s \o t) = Len(s) + Len(t)
  BY ConcatProperties
<1>3. \A i \in 1..Len(s) + Len(t) : (s \o t)[i] = IF i <= Len(s) THEN s[i] ELSE t[i - Len(s)]
  BY ConcatProperties
<1> DEFINE m == Len(s)
           n == Len(t)
<1>4. \A i \in 1..m : i \in 1..m + n /\ i <= m
  BY <1>1
<1>5. \A i \in 1..n : m + i \in 1..m + n /\ ~(m + i <= m) /\ (m + i) - m = i
  BY <1>1
<1> HIDE DEF m, n
<1>6. \A i \in 1..m : (s \o t)[i] = s[i]
  BY <1>3, <1>4 DEF m, n
<1>7. \A i \in 1..n : (s \o t)[m + i] = t[i]
  BY <1>3, <1>5 DEF m, n
<1> QED BY <1>1, <1>2, <1>6, <1>7 DEF m, n

\* Concatenation is associative, and the empty sequence adds nothing.
LEMMA ConcatAssoc ==
    ASSUME NEW S, NEW s \in Seq(S), NEW t \in Seq(S), NEW u \in Seq(S)
    PROVE  (s \o t) \o u = s \o (t \o u)
BY ConcatAssociative

LEMMA ConcatEmpty ==
    ASSUME NEW S, NEW s \in Seq(S)
    PROVE  s \o <<>> = s /\ <<>> \o s = s /\ <<>> \in Seq(S)
BY ConcatEmptySeq

\* A piece of a sequence.
LEMMA Piece ==
    ASSUME NEW S, NEW s \in Seq(S), NEW a \in Nat, NEW b \in Nat, a <= b, b <= Len(s)
    PROVE  /\ SubSeq(s, a + 1, b) \in Seq(S) /\ Len(SubSeq(s, a + 1, b)) = b - a
           /\ \A i \in 1..b - a : SubSeq(s, a + 1, b)[i] = s[a + i]
<1>1. a + 1 \in Int /\ b \in Int /\ \A i \in a + 1..b : i \in 1..Len(s)
  OBVIOUS
<1>2. \A i \in a + 1..b : s[i] \in S
  BY <1>1
<1> DEFINE p == SubSeq(s, a + 1, b)
<1>3. /\ p \in Seq(S) /\ Len(p) = IF a + 1 <= b THEN b - (a + 1) + 1 ELSE 0
      /\ \A i \in 1..b - (a + 1) + 1 : p[i] = s[(a + 1) + i - 1]
  BY <1>1, <1>2, SubSeqProperties
<1> HIDE DEF p
<1>4. Len(p) = b - a
  BY <1>3
<1>5. ASSUME NEW i \in 1..b - a PROVE p[i] = s[a + i]
  <2>1. i \in 1..b - (a + 1) + 1 /\ (a + 1) + i - 1 = a + i
    OBVIOUS
  <2> QED BY <1>3, <2>1
<1> QED BY <1>3, <1>4, <1>5 DEF p

\* Pieces that meet.
LEMMA PiecesMeet ==
    ASSUME NEW S, NEW s \in Seq(S), NEW a \in Nat, NEW b \in Nat, NEW c \in Nat,
           a <= b, b <= c, c <= Len(s)
    PROVE  SubSeq(s, a + 1, b) \o SubSeq(s, b + 1, c) = SubSeq(s, a + 1, c)
<1>1. /\ a + 1 \in 1..Len(s) + 1 /\ b \in (a + 1) - 1..Len(s) /\ c \in b..Len(s)
  OBVIOUS
<1> QED BY <1>1, ConcatAdjacentSubSeq

\* A sequence given element by element.
LEMMA SeqByElement ==
    ASSUME NEW S, NEW n \in Nat, NEW f \in [1..n -> S]
    PROVE  f \in Seq(S) /\ Len(f) = n /\ DOMAIN f = 1..n
<1>1. f \in Seq(S)
  <2>1. f = [i \in 1..n |-> f[i]] /\ \A i \in 1..n : f[i] \in S
    OBVIOUS
  <2>2. [i \in 1..n |-> f[i]] \in Seq(S)
    BY <2>1
  <2> QED BY ONLY <2>1, <2>2
<1>2. DOMAIN f = 1..n /\ DOMAIN f = 1..Len(f) /\ Len(f) \in Nat
  BY <1>1, LenProperties
<1> QED BY <1>1, <1>2

\* FlattenSeq is the last of the concatenations of the first i sequences.
LEMMA FlattenFun ==
    ASSUME NEW S, NEW q \in Seq(Seq(S)), Len(q) > 0
    PROVE  \E g : /\ \A i \in 1..Len(q) : g[i] \in Seq(S)
                  /\ g[1] = q[1]
                  /\ \A i \in 2..Len(q) : g[i] = g[i - 1] \o q[i]
                  /\ FlattenSeq(q) = g[Len(q)]
<1> DEFINE N == Len(q)
           F(g, n) == [i \in 1..n |-> IF i = 1 THEN q[i] ELSE g[i - 1] \o q[i]]
           T == {n \in Nat : \E g : g = F(g, n)}
<1>0. N \in Nat /\ \A i \in 1..N : q[i] \in Seq(S)
  OBVIOUS
<1>1. 0 \in T
  <2> DEFINE e == [i \in 1..0 |-> <<>>]
  <2>1. e = F(e, 0)
    OBVIOUS
  <2> HIDE DEF e
  <2>2. \E g : g = F(g, 0)
    BY <2>1
  <2> QED BY <2>2
<1>2. ASSUME NEW n \in Nat, n \in T PROVE n + 1 \in T
  <2>1. PICK g : g = F(g, n)
    BY <1>2
  <2> DEFINE v == IF n = 0 THEN q[1] ELSE g[n] \o q[n + 1]
             h == [i \in 1..n + 1 |-> IF i = n + 1 THEN v ELSE g[i]]
  <2>2. ASSUME NEW i \in 1..n + 1
        PROVE  h[i] = IF i = 1 THEN q[i] ELSE h[i - 1] \o q[i]
    <3>1. CASE i = n + 1
      <4>1. CASE n = 0
        BY <3>1, <4>1
      <4>2. CASE n /= 0
        <5>0. i - 1 = n /\ i /= 1 /\ n \in 1..n + 1 /\ n /= n + 1
          BY <3>1, <4>2
        <5>1. h[i] = v /\ h[n] = g[n]
          BY <3>1, <5>0
        <5> QED BY <3>1, <4>2, <5>0, <5>1
      <4> QED BY <4>1, <4>2
    <3>2. CASE i /= n + 1
      <4>1. i \in 1..n /\ h[i] = g[i]
        BY <3>2
      <4>2. g[i] = IF i = 1 THEN q[i] ELSE g[i - 1] \o q[i]
        BY <2>1, <4>1
      <4>3. CASE i /= 1
        <5>1. i - 1 \in 1..n + 1 /\ i - 1 /= n + 1
          BY <4>1, <4>3
        <5>2. h[i - 1] = g[i - 1]
          BY <5>1
        <5> QED BY <4>1, <4>2, <5>2
      <4>4. CASE i = 1
        BY <4>1, <4>2, <4>4
      <4> QED BY <4>3, <4>4
    <3> QED BY <3>1, <3>2
  <2>3. h = F(h, n + 1)
    BY <2>2
  <2> HIDE DEF h
  <2>4. \E f : f = F(f, n + 1)
    BY <2>3
  <2>5. n + 1 \in Nat
    OBVIOUS
  <2> HIDE DEF F
  <2> QED BY <2>4, <2>5 DEF T
<1> HIDE DEF T
<1>3. N \in T
  BY <1>0, <1>1, <1>2, SetInduction
<1>4. PICK g : g = F(g, N)
  BY <1>3 DEF T
<1> DEFINE flatten == CHOOSE f : f = F(f, N)
<1>5. FlattenSeq(q) = flatten[N]
  BY DEF FlattenSeq
<1>6. flatten = F(flatten, N)
  BY <1>4
<1> HIDE DEF flatten
<1>7. flatten[1] = q[1] /\ \A i \in 2..N : flatten[i] = flatten[i - 1] \o q[i]
  <2>1. 1 \in 1..N /\ \A i \in 2..N : i \in 1..N /\ i /= 1
    BY <1>0
  <2> HIDE DEF N
  <2> QED BY <1>6, <2>1
<1> DEFINE U == {n \in Nat : n + 1 <= N => flatten[n + 1] \in Seq(S)}
<1>8. 0 \in U
  BY <1>0, <1>7
<1>9. ASSUME NEW n \in Nat, n \in U PROVE n + 1 \in U
  <2> SUFFICES ASSUME (n + 1) + 1 <= N PROVE flatten[(n + 1) + 1] \in Seq(S)
    OBVIOUS
  <2>1. n + 1 <= N /\ (n + 1) + 1 \in 2..N /\ ((n + 1) + 1) - 1 = n + 1 /\ (n + 1) + 1 \in 1..N
    BY <1>0
  <2>2. flatten[n + 1] \in Seq(S) /\ q[(n + 1) + 1] \in Seq(S)
    BY <1>0, <1>9, <2>1
  <2>3. flatten[(n + 1) + 1] = flatten[n + 1] \o q[(n + 1) + 1]
    BY <1>7, <2>1
  <2> QED BY <2>2, <2>3, Concat
<1> HIDE DEF U
<1>10. \A n \in Nat : n \in U
  BY <1>8, <1>9, SetInduction
<1>11. ASSUME NEW i \in 1..N PROVE flatten[i] \in Seq(S)
  <2>1. i - 1 \in Nat /\ (i - 1) + 1 = i /\ i <= N
    BY <1>0
  <2> QED BY <1>10, <2>1 DEF U
<1> QED BY <1>5, <1>7, <1>11

LEMMA FlattenEmpty ==
    FlattenSeq(<<>>) = <<>>
<1>1. Len(<<>>) = 0
  OBVIOUS
<1> QED BY <1>1 DEF FlattenSeq

\* One more sequence is put behind what the others make.
LEMMA FlattenAppend ==
    ASSUME NEW S, NEW q \in Seq(Seq(S)), NEW x \in Seq(S)
    PROVE  /\ FlattenSeq(q) \in Seq(S)
           /\ FlattenSeq(Append(q, x)) = FlattenSeq(q) \o x
<1> DEFINE r == Append(q, x)
           N == Len(q)
<1>1. /\ r \in Seq(Seq(S)) /\ Len(r) = N + 1 /\ r[N + 1] = x /\ N \in Nat
      /\ \A i \in 1..N : r[i] = q[i]
  BY AppendProperties
<1> HIDE DEF r
<1>2. PICK h : /\ h[1] = r[1]
               /\ \A i \in 2..N + 1 : h[i] = h[i - 1] \o r[i]
               /\ FlattenSeq(r) = h[N + 1]
  <2>1. Len(r) > 0
    BY <1>1
  <2>2. \E g : /\ \A i \in 1..Len(r) : g[i] \in Seq(S)
               /\ g[1] = r[1]
               /\ \A i \in 2..Len(r) : g[i] = g[i - 1] \o r[i]
               /\ FlattenSeq(r) = g[Len(r)]
    BY <1>1, <2>1, FlattenFun
  <2> HIDE DEF N
  <2> QED BY <1>1, <2>2
<1>3. CASE N = 0
  <2>1. q = <<>>
    BY <1>3
  <2>2. FlattenSeq(q) = <<>> /\ FlattenSeq(q) \o x = x /\ <<>> \in Seq(S)
    BY <2>1, FlattenEmpty, ConcatEmpty
  <2>3. FlattenSeq(r) = x
    BY <1>1, <1>2, <1>3
  <2> QED BY <2>2, <2>3 DEF r
<1>4. CASE N /= 0
  <2>1. PICK g : /\ \A i \in 1..N : g[i] \in Seq(S)
                 /\ g[1] = q[1]
                 /\ \A i \in 2..N : g[i] = g[i - 1] \o q[i]
                 /\ FlattenSeq(q) = g[N]
    <3>1. Len(q) > 0
      BY <1>1, <1>4
    <3> QED BY <3>1, FlattenFun
  <2> DEFINE T == {n \in Nat : n + 1 <= N => g[n + 1] = h[n + 1]}
  <2> HIDE DEF N
  <2>2. 0 \in T
    <3>1. 1 \in 1..N
      BY <1>1, <1>4
    <3>2. g[1] = h[1]
      BY <1>1, <1>2, <2>1, <3>1
    <3> QED BY <3>2
  <2>3. ASSUME NEW n \in Nat, n \in T PROVE n + 1 \in T
    <3> SUFFICES ASSUME (n + 1) + 1 <= N PROVE g[(n + 1) + 1] = h[(n + 1) + 1]
      OBVIOUS
    <3>1. /\ n + 1 <= N /\ (n + 1) + 1 \in 2..N /\ ((n + 1) + 1) - 1 = n + 1
          /\ (n + 1) + 1 \in 1..N /\ (n + 1) + 1 \in 2..N + 1
      BY <1>1
    <3>2. g[n + 1] = h[n + 1]
      BY <2>3, <3>1
    <3>3. g[(n + 1) + 1] = g[n + 1] \o q[(n + 1) + 1]
      BY <2>1, <3>1
    <3>4. h[(n + 1) + 1] = h[n + 1] \o r[(n + 1) + 1]
      BY <1>2, <3>1
    <3>5. r[(n + 1) + 1] = q[(n + 1) + 1]
      BY <1>1, <3>1
    <3> QED BY ONLY <3>2, <3>3, <3>4, <3>5
  <2> HIDE DEF T
  <2>4. \A n \in Nat : n \in T
    BY <2>2, <2>3, SetInduction
  <2>5. g[N] = h[N]
    <3>1. N - 1 \in Nat /\ (N - 1) + 1 = N /\ N <= N
      BY <1>1, <1>4
    <3> QED BY <2>4, <3>1 DEF T
  <2>6. h[N + 1] = h[N] \o x
    <3>1. N + 1 \in 2..N + 1 /\ (N + 1) - 1 = N
      BY <1>1, <1>4
    <3> QED BY <1>1, <1>2, <3>1
  <2>7. g[N] \in Seq(S)
    BY <1>1, <1>4, <2>1
  <2> QED BY <1>2, <2>1, <2>5, <2>6, <2>7 DEF r
<1> QED BY <1>3, <1>4

-----------------------------------------------------------------------------
(* Varints and fixed-width numbers are sequences of bytes.                 *)

LEMMA DivBounds ==
    ASSUME NEW a \in Nat, NEW d \in Nat \ {0}
    PROVE  a \div d \in Nat /\ (a \div d) * d <= a /\ a < (a \div d) * d + d
OBVIOUS

LEMMA DivUnique ==
    ASSUME NEW a \in Nat, NEW d \in Nat \ {0}, NEW q \in Nat, q * d <= a, a < q * d + d
    PROVE  a \div d = q
BY DivBounds

LEMMA DivSmaller ==
    ASSUME NEW n \in Nat, n >= Radix
    PROVE  n \div Radix \in 0..n - 1
<1>1. Radix \in Nat \ {0} /\ Radix >= 2
  BY FormatAssumption
<1> DEFINE d == n \div Radix
<1>2. d \in Nat /\ d * Radix <= n
  BY <1>1, DivBounds
<1> HIDE DEF d
<1>3. d * 2 <= d * Radix
  BY <1>1, <1>2
<1>4. d * Radix \in Nat
  BY <1>1, <1>2
<1>5. d * 2 <= n
  BY <1>2, <1>3, <1>4
<1>6. d < n
  BY <1>1, <1>2, <1>5
<1> QED BY <1>2, <1>6 DEF d

\* The body of varint, over the function g.
VarintBody(g, n) ==
    IF n < Radix THEN <<n>> ELSE <<Radix + (n % Radix)>> \o g[n \div Radix]

VarintTo(g, m) == g = [n \in 0..m |-> VarintBody(g, n)]

\* Functions with the equations of varint agree where both are defined.
LEMMA VarintUnique ==
    ASSUME NEW g, NEW h, NEW m \in Nat, NEW k \in Nat, VarintTo(g, m), VarintTo(h, k)
    PROVE  \A n \in Nat : n <= m /\ n <= k => g[n] = h[n]
<1> DEFINE W == {n \in Nat : \A j \in 0..n : j <= m /\ j <= k => g[j] = h[j]}
<1>0. Radix \in Nat \ {0, 1}
  BY FormatAssumption
<1>a. ASSUME NEW j \in Nat, j <= m, j <= k,
             \A i \in 0..j - 1 : i <= m /\ i <= k => g[i] = h[i]
      PROVE  g[j] = h[j]
  <2>1. j \in 0..m /\ j \in 0..k
    BY <1>a
  <2>2. g[j] = VarintBody(g, j) /\ h[j] = VarintBody(h, j)
    BY <2>1 DEF VarintTo
  <2>3. CASE j < Radix
    BY <2>2, <2>3 DEF VarintBody
  <2>4. CASE ~(j < Radix)
    <3> DEFINE d == j \div Radix
    <3>1. d \in 0..j - 1
      BY <1>0, <2>4, DivSmaller
    <3> HIDE DEF d
    <3>2. d <= m /\ d <= k
      BY <1>a, <3>1
    <3>3. g[d] = h[d]
      BY <1>a, <3>1, <3>2
    <3> QED BY <2>2, <2>4, <3>3 DEF VarintBody, d
  <2> QED BY <2>3, <2>4
<1>1. 0 \in W
  <2>1. \A i \in 0..0 - 1 : FALSE
    OBVIOUS
  <2>2. 0 \in Nat /\ 0 <= m /\ 0 <= k
    OBVIOUS
  <2>3. g[0] = h[0]
    BY <1>a, <2>1, <2>2
  <2> QED BY <2>3
<1>2. ASSUME NEW n \in Nat, n \in W PROVE n + 1 \in W
  <2> SUFFICES ASSUME NEW j \in 0..n + 1, j <= m, j <= k PROVE g[j] = h[j]
    OBVIOUS
  <2>1. CASE j \in 0..n
    BY <1>2, <2>1
  <2>2. CASE j = n + 1
    <3>1. \A i \in 0..j - 1 : i \in 0..n
      BY <2>2
    <3>2. j \in Nat
      OBVIOUS
    <3> QED BY <1>a, <1>2, <3>1, <3>2
  <2> QED BY <2>1, <2>2
<1> HIDE DEF W
<1>3. \A n \in Nat : n \in W
  BY <1>1, <1>2, SetInduction
<1>4. \A n \in Nat : n \in 0..n
  OBVIOUS
<1> QED BY <1>3, <1>4 DEF W

\* There is such a function up to every number.
LEMMA VarintExists ==
    ASSUME NEW m \in Nat
    PROVE  \E g : VarintTo(g, m)
<1> DEFINE T == {n \in Nat : \E g : VarintTo(g, n)}
<1>0. Radix \in Nat \ {0, 1}
  BY FormatAssumption
<1>1. 0 \in T
  <2> DEFINE e == [n \in 0..0 |-> <<0>>]
  <2>1. \A n \in 0..0 : VarintBody(e, n) = <<0>>
    BY <1>0 DEF VarintBody
  <2>2. e = [n \in 0..0 |-> VarintBody(e, n)]
    BY <2>1
  <2> HIDE DEF e
  <2> QED BY <2>2 DEF VarintTo
<1>2. ASSUME NEW n \in Nat, n \in T PROVE n + 1 \in T
  <2>1. PICK g : VarintTo(g, n)
    BY <1>2
  <2> DEFINE h == [i \in 0..n + 1 |-> IF i = n + 1 THEN VarintBody(g, n + 1) ELSE g[i]]
  <2>2. ASSUME NEW i \in 0..n + 1 PROVE h[i] = VarintBody(h, i)
    <3>1. h[i] = VarintBody(g, i)
      <4>1. CASE i = n + 1
        BY <4>1
      <4>2. CASE i /= n + 1
        <5>1. i \in 0..n /\ h[i] = g[i]
          BY <4>2
        <5> QED BY <2>1, <5>1 DEF VarintTo
      <4> QED BY <4>1, <4>2
    <3>2. CASE i < Radix
      BY <3>1, <3>2 DEF VarintBody
    <3>3. CASE ~(i < Radix)
      <4> DEFINE d == i \div Radix
      <4>1. d \in 0..i - 1
        BY <1>0, <3>3, DivSmaller
      <4> HIDE DEF d
      <4>2. d \in 0..n + 1 /\ d /= n + 1
        BY <4>1
      <4>3. h[d] = g[d]
        BY <4>2
      <4> HIDE DEF h
      <4> QED BY <3>1, <3>3, <4>3 DEF VarintBody, d
    <3> QED BY <3>2, <3>3
  <2>3. h = [i \in 0..n + 1 |-> VarintBody(h, i)]
    <3> DEFINE b == [i \in 0..n + 1 |-> VarintBody(h, i)]
    <3>1. \A i \in 0..n + 1 : b[i] = h[i]
      BY <2>2
    <3>2. DOMAIN h = 0..n + 1
      OBVIOUS
    <3> QED BY <3>1, <3>2
  <2> HIDE DEF h
  <2> QED BY <2>3 DEF VarintTo
<1> HIDE DEF T
<1>3. m \in T
  BY <1>1, <1>2, SetInduction
<1> QED BY <1>3 DEF T

LEMMA VarintDef ==
    \A n \in Nat : varint[n] = VarintBody(varint, n)
<1> DEFINE c(m) == CHOOSE g : VarintTo(g, m)
           G == [n \in Nat |-> c(n)[n]]
<1>0. Radix \in Nat \ {0, 1}
  BY FormatAssumption
<1>1. \A m \in Nat : VarintTo(c(m), m)
  BY VarintExists
<1> HIDE DEF c
<1>2. ASSUME NEW n \in Nat PROVE G[n] = VarintBody(G, n)
  <2>1. G[n] = VarintBody(c(n), n)
    <3>1. n \in 0..n
      OBVIOUS
    <3>2. c(n) = [i \in 0..n |-> VarintBody(c(n), i)]
      BY <1>1 DEF VarintTo
    <3> QED BY <3>1, <3>2
  <2>2. CASE n < Radix
    BY <2>1, <2>2 DEF VarintBody
  <2>3. CASE ~(n < Radix)
    <3> DEFINE d == n \div Radix
    <3>1. d \in 0..n - 1
      BY <1>0, <2>3, DivSmaller
    <3> HIDE DEF d
    <3>2. d \in Nat /\ d <= n /\ d <= d
      BY <3>1
    <3>3. c(n)[d] = c(d)[d]
      BY <1>1, <3>2, VarintUnique
    <3>4. G[d] = c(d)[d]
      BY <3>2
    <3> HIDE DEF G
    <3> QED BY <2>1, <2>3, <3>3, <3>4 DEF VarintBody, d
  <2> QED BY <2>2, <2>3
<1>3. G = [n \in Nat |-> VarintBody(G, n)]
  <2> DEFINE b == [n \in Nat |-> VarintBody(G, n)]
  <2>1. \A n \in Nat : b[n] = G[n]
    BY <1>2
  <2>2. DOMAIN G = Nat
    OBVIOUS
  <2> QED BY <2>1, <2>2
<1> HIDE DEF G
<1>4. \E v : v = [n \in Nat |-> VarintBody(v, n)]
  BY <1>3
<1>5. varint = CHOOSE v : v = [n \in Nat |-> VarintBody(v, n)]
  BY DEF varint, VarintBody
<1>6. varint = [n \in Nat |-> VarintBody(varint, n)]
  BY <1>4, <1>5
<1> QED BY <1>6

\* A varint is made of bytes.
LEMMA VarintType ==
    \A n \in Nat : varint[n] \in Seq(Byte)
<1> DEFINE T == {n \in Nat : \A j \in 0..n : varint[j] \in Seq(Byte)}
<1>0. Radix \in Nat \ {0, 1} /\ Byte = 0..2 * Radix - 1
  BY FormatAssumption DEF Byte
<1>a. ASSUME NEW j \in Nat, \A i \in 0..j - 1 : varint[i] \in Seq(Byte)
      PROVE  varint[j] \in Seq(Byte)
  <2>1. varint[j] = VarintBody(varint, j)
    BY VarintDef
  <2>2. CASE j < Radix
    <3>1. j \in Byte
      BY <1>0, <2>2
    <3> QED BY <2>1, <2>2, <3>1 DEF VarintBody
  <2>3. CASE ~(j < Radix)
    <3> DEFINE d == j \div Radix
               b == Radix + (j % Radix)
    <3>0. j \in Nat /\ j >= Radix
      BY <1>0, <2>3
    <3>1. d \in 0..j - 1
      BY ONLY <3>0, DivSmaller
    <3>2. j % Radix \in 0..Radix - 1
      BY <1>0
    <3>3. b \in Byte
      BY <1>0, <3>2
    <3> HIDE DEF d, b
    <3>4. varint[d] \in Seq(Byte) /\ <<b>> \in Seq(Byte)
      BY <1>a, <3>1, <3>3
    <3>5. varint[j] = <<b>> \o varint[d]
      BY <2>1, <2>3 DEF VarintBody, b, d
    <3> QED BY ONLY <3>4, <3>5, Concat
  <2> QED BY <2>2, <2>3
<1>1. 0 \in T
  <2>1. \A i \in 0..0 - 1 : FALSE
    OBVIOUS
  <2>2. varint[0] \in Seq(Byte)
    BY <1>a, <2>1
  <2> QED BY <2>2
<1>2. ASSUME NEW n \in Nat, n \in T PROVE n + 1 \in T
  <2>1. \A j \in 0..n : varint[j] \in Seq(Byte)
    BY <1>2
  <2>2. varint[n + 1] \in Seq(Byte)
    <3>1. \A i \in 0..(n + 1) - 1 : i \in 0..n
      OBVIOUS
    <3>2. n + 1 \in Nat
      OBVIOUS
    <3> QED BY <1>a, <2>1, <3>1, <3>2
  <2>3. \A j \in 0..n + 1 : j \in 0..n \/ j = n + 1
    OBVIOUS
  <2> QED BY <2>1, <2>2, <2>3
<1> HIDE DEF T
<1>3. \A n \in Nat : n \in T
  BY <1>1, <1>2, SetInduction
<1>4. \A n \in Nat : n \in 0..n
  OBVIOUS
<1> QED BY <1>3, <1>4 DEF T

\* What the bytes of a block are taken from.
Symbol == Byte \cup {Fixed(n)[i] : n \in Nat, i \in 1..FixedBytes}

LEMMA FixedType ==
    ASSUME NEW n \in Nat
    PROVE  Fixed(n) \in Seq(Symbol) /\ Len(Fixed(n)) = FixedBytes
<1>1. FixedBytes \in Nat
  BY FormatAssumption
<1>2. DOMAIN Fixed(n) = 1..FixedBytes /\ Fixed(n) = [i \in 1..FixedBytes |-> Fixed(n)[i]]
  BY DEF Fixed
<1>3. \A i \in 1..FixedBytes : Fixed(n)[i] \in Symbol
  BY DEF Symbol
<1> DEFINE f == Fixed(n)
<1> HIDE DEF f
<1>4. f \in [1..FixedBytes -> Symbol]
  BY <1>2, <1>3 DEF f
<1>5. f \in Seq(Symbol) /\ Len(f) = FixedBytes
  BY ONLY <1>1, <1>4, SeqByElement
<1> QED BY ONLY <1>5 DEF f

LEMMA BytesAreSymbols ==
    ASSUME NEW s \in Seq(Byte)
    PROVE  s \in Seq(Symbol)
<1>1. Byte \subseteq Symbol
  BY DEF Symbol
<1> QED BY <1>1, SeqMonotonic

-----------------------------------------------------------------------------
(* Prefixes.                                                               *)

LEMMA PrefixOf ==
    ASSUME NEW S, NEW s \in Seq(S), NEW t \in Seq(S)
    PROVE  IsPrefix(s, s \o t)
<1> DEFINE n == Len(s)
<1>1. /\ s \o t \in Seq(S) /\ Len(s \o t) = n + Len(t) /\ n \in Nat /\ Len(t) \in Nat
      /\ \A i \in 1..n : (s \o t)[i] = s[i]
  BY Concat
<1>2. SubSeq(s, 1, n) = s
  BY SubSeqFull
<1>3. SubSeq(s \o t, 1, n) = s
  <2> DEFINE u == s \o t
             p == SubSeq(u, 0 + 1, n)
  <2>1. n <= Len(u) /\ 0 <= n
    BY <1>1
  <2> HIDE DEF u
  <2>2. /\ p \in Seq(S) /\ Len(p) = n - 0
        /\ \A i \in 1..n - 0 : p[i] = u[0 + i]
    BY <1>1, <2>1, Piece DEF u
  <2> HIDE DEF p
  <2>3. Len(p) = n /\ \A i \in 1..n : p[i] = s[i]
    BY <1>1, <2>2 DEF u
  <2>4. p = s
    BY <2>2, <2>3, SeqEqual
  <2>5. 0 + 1 = 1
    OBVIOUS
  <2> QED BY <2>4, <2>5 DEF p, u
<1>4. n <= Len(s \o t)
  BY <1>1
<1> QED BY <1>2, <1>3, <1>4 DEF IsPrefix

\* A prefix agrees with the sequence.
LEMMA PrefixAgrees ==
    ASSUME NEW S, NEW p \in Seq(S), NEW s \in Seq(S), IsPrefix(p, s)
    PROVE  Len(p) <= Len(s) /\ \A i \in 1..Len(p) : p[i] = s[i]
<1> DEFINE n == Len(p)
<1>1. n \in Nat /\ n <= Len(s) /\ SubSeq(p, 1, n) = SubSeq(s, 1, n)
  BY DEF IsPrefix
<1>2. SubSeq(p, 1, n) = p
  BY SubSeqFull
<1> DEFINE q == SubSeq(s, 0 + 1, n)
<1>3. \A i \in 1..n - 0 : q[i] = s[0 + i]
  BY <1>1, Piece
<1>4. q = p
  <2>1. 0 + 1 = 1
    OBVIOUS
  <2> QED BY <1>1, <1>2, <2>1
<1> HIDE DEF q
<1>5. \A i \in 1..n : q[i] = s[i]
  BY <1>1, <1>3
<1> QED BY <1>1, <1>4, <1>5

\* Where two sequences part is the length of what they have in common.
LEMMA CommonPrefix ==
    ASSUME NEW S, NEW a \in Seq(S), NEW b \in Seq(S), NEW n \in Nat,
           n <= Len(a), n <= Len(b), \A i \in 1..n : a[i] = b[i],
           n = Len(a) \/ n = Len(b) \/ a[n + 1] /= b[n + 1]
    PROVE  Len(LongestCommonPrefix({a, b})) = n
<1> DEFINE CP == CommonPrefixes({a, b})
<1>0. Len(a) \in Nat /\ Len(b) \in Nat
  OBVIOUS
<1>1. ASSUME NEW x \in CP PROVE Len(x) \in Nat /\ Len(x) <= n
  <2>1. /\ x \in Prefixes(a) \/ x \in Prefixes(b)
        /\ IsPrefix(x, a) /\ IsPrefix(x, b)
    BY <1>1 DEF CommonPrefixes
  <2>2. ASSUME NEW s \in Seq(S), x \in Prefixes(s) PROVE x \in Seq(S)
    <3>1. PICK l \in 0..Len(s) : x = SubSeq(s, 1, l)
      BY <2>2 DEF Prefixes
    <3>2. l \in Nat /\ 0 <= l /\ l <= Len(s) /\ 0 + 1 = 1
      BY <3>1
    <3>3. SubSeq(s, 0 + 1, l) \in Seq(S)
      BY <3>2, Piece
    <3> QED BY <3>1, <3>2, <3>3
  <2>3. x \in Seq(S)
    BY <2>1, <2>2
  <2>4. /\ Len(x) <= Len(a) /\ Len(x) <= Len(b)
        /\ \A i \in 1..Len(x) : x[i] = a[i] /\ x[i] = b[i]
    BY <2>1, <2>3, PrefixAgrees
  <2>5. Len(x) \in Nat
    BY <2>3
  <2>6. ASSUME ~(Len(x) <= n) PROVE FALSE
    <3>1. n + 1 \in 1..Len(x) /\ n /= Len(a) /\ n /= Len(b)
      BY <1>0, <2>4, <2>5, <2>6
    <3>2. a[n + 1] = b[n + 1]
      BY <2>4, <3>1
    <3> QED BY <3>1, <3>2
  <2> QED BY <2>5, <2>6
<1> DEFINE p == SubSeq(a, 1, n)
           q == SubSeq(b, 1, n)
<1>2. p \in CP /\ Len(p) = n
  <2>1. 0 + 1 = 1 /\ 0 <= n /\ n - 0 = n /\ \A i \in 1..n : 0 + i = i
    OBVIOUS
  <2>2. /\ SubSeq(a, 0 + 1, n) \in Seq(S) /\ Len(SubSeq(a, 0 + 1, n)) = n - 0
        /\ \A i \in 1..n - 0 : SubSeq(a, 0 + 1, n)[i] = a[0 + i]
    BY Piece
  <2>3. /\ SubSeq(b, 0 + 1, n) \in Seq(S) /\ Len(SubSeq(b, 0 + 1, n)) = n - 0
        /\ \A i \in 1..n - 0 : SubSeq(b, 0 + 1, n)[i] = b[0 + i]
    BY Piece
  <2>4. p \in Seq(S) /\ Len(p) = n /\ \A i \in 1..n : p[i] = a[i]
    BY <2>1, <2>2
  <2>5. q \in Seq(S) /\ Len(q) = n /\ \A i \in 1..n : q[i] = b[i]
    BY <2>1, <2>3
  <2>6. n \in 0..Len(a)
    BY <1>0
  <2>7. p \in Prefixes(a)
    BY <2>6 DEF Prefixes
  <2> HIDE DEF p, q
  <2>8. p = q
    BY <2>4, <2>5, SeqEqual
  <2>9. SubSeq(p, 1, n) = p
    BY <2>4, SubSeqFull
  <2>10. IsPrefix(p, a) /\ IsPrefix(p, b)
    BY <2>4, <2>8, <2>9 DEF IsPrefix, p, q
  <2> QED BY <2>4, <2>7, <2>10 DEF CommonPrefixes
<1> HIDE DEF CP, p
<1> DEFINE l == LongestCommonPrefix({a, b})
<1>3. \E x \in CP : \A y \in CP : Len(y) <= Len(x)
  BY <1>1, <1>2
<1>4. l = CHOOSE x \in CP : \A y \in CP : Len(y) <= Len(x)
  BY DEF LongestCommonPrefix, CP
<1>5. l \in CP /\ \A y \in CP : Len(y) <= Len(l)
  BY <1>3, <1>4
<1> HIDE DEF l
<1>6. n <= Len(l) /\ Len(l) <= n /\ Len(l) \in Nat
  BY <1>1, <1>2, <1>5
<1>7. Len(l) = n
  BY <1>6
<1> QED BY <1>7 DEF l

\* There is a place where two sequences part.
LEMMA Parting ==
    ASSUME NEW S, NEW a \in Seq(S), NEW b \in Seq(S)
    PROVE  \E n \in Nat : /\ n <= Len(a) /\ n <= Len(b) /\ \A i \in 1..n : a[i] = b[i]
                          /\ n = Len(a) \/ n = Len(b) \/ a[n + 1] /= b[n + 1]
<1> SUFFICES ASSUME ~\E n \in Nat :
                       /\ n <= Len(a) /\ n <= Len(b) /\ \A i \in 1..n : a[i] = b[i]
                       /\ n = Len(a) \/ n = Len(b) \/ a[n + 1] /= b[n + 1]
             PROVE  FALSE
  OBVIOUS
<1> DEFINE T == {n \in Nat : n <= Len(a) /\ n <= Len(b) /\ \A i \in 1..n : a[i] = b[i]}
<1>0. Len(a) \in Nat /\ Len(b) \in Nat
  OBVIOUS
<1>1. 0 \in T
  BY <1>0
<1>2. ASSUME NEW n \in Nat, n \in T PROVE n + 1 \in T
  <2>1. n <= Len(a) /\ n <= Len(b) /\ \A i \in 1..n : a[i] = b[i]
    BY <1>2
  <2>2. n /= Len(a) /\ n /= Len(b) /\ a[n + 1] = b[n + 1]
    BY <2>1
  <2>3. n + 1 <= Len(a) /\ n + 1 <= Len(b) /\ \A i \in 1..n + 1 : i \in 1..n \/ i = n + 1
    BY <1>0, <2>1, <2>2
  <2> QED BY <2>1, <2>2, <2>3
<1> HIDE DEF T
<1>3. \A n \in Nat : n \in T
  BY <1>1, <1>2, SetInduction
<1>4. Len(a) + 1 \in T
  BY <1>0, <1>3
<1>5. Len(a) + 1 <= Len(a)
  BY <1>4 DEF T
<1> QED BY <1>0, <1>5

-----------------------------------------------------------------------------
(* The block of a list of records.                                         *)

Record == [key : Seq(Byte), value : Seq(Byte)]

\* The entries of the first k records, and the restart offsets of the first m
\* restart points as they stand in the block.
Ent(R, k) == Entries(SubSeq(R, 1, k), RestartInterval)
Rst(R, m) == [j \in 1..m |-> Fixed(Len(Ent(R, (j - 1) * RestartInterval)))]

LEMMA RecordType ==
    ASSUME NEW R \in Seq(Record), NEW i \in 1..Len(R)
    PROVE  /\ R[i].key \in Seq(Byte) /\ R[i].value \in Seq(Byte)
           /\ Len(R[i].key) \in Nat /\ Len(R[i].value) \in Nat
<1> DEFINE r == R[i]
<1>1. r \in Record
  BY ElementOfSeq
<1> HIDE DEF r
<1>2. r.key \in Seq(Byte) /\ r.value \in Seq(Byte)
  BY <1>1 DEF Record
<1>3. Len(r.key) \in Nat /\ Len(r.value) \in Nat
  BY <1>2
<1> QED BY <1>2, <1>3 DEF r

LEMMA SharedIs ==
    ASSUME NEW R \in Seq(Record), NEW i \in 1..Len(R)
    PROVE  /\ Shared(R, RestartInterval, i) \in Nat
           /\ Shared(R, RestartInterval, i) <= Len(R[i].key)
<1>1. R[i].key \in Seq(Byte) /\ Len(R[i].key) \in Nat
  BY RecordType
<1>2. CASE (i - 1) % RestartInterval = 0
  BY <1>1, <1>2 DEF Shared
<1>3. CASE ~((i - 1) % RestartInterval = 0)
  <2>1. i - 1 \in 1..Len(R)
    <3>1. 0 % RestartInterval = 0
      BY EncoderAssumption
    <3>2. i /= 1
      BY <1>3, <3>1
    <3> QED BY <3>2
  <2>2. R[i - 1].key \in Seq(Byte)
    BY <2>1, RecordType
  <2> DEFINE a == R[i - 1].key
             b == R[i].key
  <2> HIDE DEF a, b
  <2>3. a \in Seq(Byte) /\ b \in Seq(Byte)
    BY <1>1, <2>2 DEF a, b
  <2>4. PICK n \in Nat : /\ n <= Len(a) /\ n <= Len(b) /\ \A k \in 1..n : a[k] = b[k]
                         /\ n = Len(a) \/ n = Len(b) \/ a[n + 1] /= b[n + 1]
    BY <2>3, Parting
  <2>5. Len(LongestCommonPrefix({a, b})) = n
    BY <2>3, <2>4, CommonPrefix
  <2>6. Shared(R, RestartInterval, i) = n
    BY <1>3, <2>5 DEF Shared, a, b
  <2> QED BY <2>4, <2>6 DEF b
<1> QED BY <1>2, <1>3

\* The parts of an entry.
LEMMA EntryParts ==
    ASSUME NEW R \in Seq(Record), NEW i \in 1..Len(R)
    PROVE  /\ R[i].key \in Seq(Symbol) /\ R[i].value \in Seq(Symbol)
           /\ Lengths(R, RestartInterval, i) \in Seq(Symbol)
           /\ SubSeq(R[i].key, Shared(R, RestartInterval, i) + 1, Len(R[i].key)) \in Seq(Symbol)
           /\ Entry(R, RestartInterval, i) \in Seq(Symbol)
<1> DEFINE key == R[i].key
           value == R[i].value
           n == Shared(R, RestartInterval, i)
<1>1. key \in Seq(Byte) /\ value \in Seq(Byte) /\ Len(key) \in Nat /\ Len(value) \in Nat
  BY RecordType
<1>2. n \in Nat /\ n <= Len(key)
  BY SharedIs
<1> HIDE DEF key, value, n
<1>3. Len(key) - n \in Nat
  BY <1>1, <1>2
<1>4. varint[n] \in Seq(Byte) /\ varint[Len(key) - n] \in Seq(Byte) /\ varint[Len(value)] \in Seq(Byte)
  BY <1>1, <1>2, <1>3, VarintType
<1> DEFINE l == Lengths(R, RestartInterval, i)
           k == SubSeq(key, n + 1, Len(key))
<1>5. l = (varint[n] \o varint[Len(key) - n]) \o varint[Len(value)]
  BY DEF Lengths, key, value, n
<1>6. varint[n] \o varint[Len(key) - n] \in Seq(Byte)
  BY <1>4, Concat
<1>7. l \in Seq(Byte)
  BY <1>4, <1>5, <1>6, Concat
<1>8. k \in Seq(Byte)
  BY <1>1, <1>2, Piece
<1>9. Entry(R, RestartInterval, i) = (l \o k) \o value
  BY DEF Entry, key, value, n
<1> HIDE DEF l, k
<1>10. l \o k \in Seq(Byte)
  BY <1>7, <1>8, Concat
<1>11. Entry(R, RestartInterval, i) \in Seq(Byte)
  BY <1>1, <1>9, <1>10, Concat
<1>12. /\ key \in Seq(Symbol) /\ value \in Seq(Symbol) /\ l \in Seq(Symbol) /\ k \in Seq(Symbol)
       /\ Entry(R, RestartInterval, i) \in Seq(Symbol)
  BY <1>1, <1>7, <1>8, <1>11, BytesAreSymbols
<1> QED BY <1>12 DEF key, value, n, l, k

\* A list's beginning.
LEMMA Beginning ==
    ASSUME NEW S, NEW R \in Seq(S), NEW k \in 0..Len(R)
    PROVE  /\ SubSeq(R, 1, k) \in Seq(S) /\ Len(SubSeq(R, 1, k)) = k
           /\ DOMAIN SubSeq(R, 1, k) = 1..k
           /\ \A i \in 1..k : SubSeq(R, 1, k)[i] = R[i]
<1>1. k \in Nat /\ 0 <= k /\ k <= Len(R) /\ 0 + 1 = 1 /\ k - 0 = k /\ \A i \in 1..k : 0 + i = i
  OBVIOUS
<1> DEFINE p == SubSeq(R, 0 + 1, k)
<1>2. /\ p \in Seq(S) /\ Len(p) = k - 0 /\ \A i \in 1..k - 0 : p[i] = R[0 + i]
  BY <1>1, Piece
<1> HIDE DEF p
<1>3. p \in Seq(S) /\ Len(p) = k /\ \A i \in 1..k : p[i] = R[i]
  BY <1>1, <1>2
<1>4. DOMAIN p = 1..k
  BY <1>3, LenProperties
<1> QED BY <1>1, <1>3, <1>4 DEF p

\* What follows a record does not change its entry.
LEMMA EntrySame ==
    ASSUME NEW R \in Seq(Record), NEW k \in 0..Len(R), NEW i \in 1..k
    PROVE  Entry(SubSeq(R, 1, k), RestartInterval, i) = Entry(R, RestartInterval, i)
<1> DEFINE Q == SubSeq(R, 1, k)
<1>1. \A j \in 1..k : Q[j] = R[j]
  BY Beginning
<1> HIDE DEF Q
<1>2. Q[i] = R[i]
  BY <1>1
<1>3. Shared(Q, RestartInterval, i) = Shared(R, RestartInterval, i)
  <2>1. CASE (i - 1) % RestartInterval = 0
    BY <2>1 DEF Shared
  <2>2. CASE ~((i - 1) % RestartInterval = 0)
    <3>1. 0 % RestartInterval = 0
      BY EncoderAssumption
    <3>2. i - 1 \in 1..k
      BY <2>2, <3>1
    <3>3. Q[i - 1] = R[i - 1]
      BY <1>1, <3>2
    <3> QED BY <1>2, <3>3 DEF Shared
  <2> QED BY <2>1, <2>2
<1>4. Lengths(Q, RestartInterval, i) = Lengths(R, RestartInterval, i)
  BY <1>2, <1>3 DEF Lengths
<1>5. Entry(Q, RestartInterval, i) = Entry(R, RestartInterval, i)
  BY <1>2, <1>3, <1>4 DEF Entry
<1> QED BY <1>5 DEF Q

\* The list of the entries of the first k records.
EntryList(R, k) == [i \in 1..k |-> Entry(R, RestartInterval, i)]

LEMMA EntriesAre ==
    ASSUME NEW R \in Seq(Record), NEW k \in 0..Len(R)
    PROVE  /\ EntryList(R, k) \in Seq(Seq(Symbol)) /\ Len(EntryList(R, k)) = k
           /\ Ent(R, k) = FlattenSeq(EntryList(R, k))
<1> DEFINE Q == SubSeq(R, 1, k)
           f == EntryList(R, k)
<1>1. DOMAIN Q = 1..k
  BY Beginning
<1>2. \A i \in 1..k : Entry(Q, RestartInterval, i) = Entry(R, RestartInterval, i)
  BY EntrySame
<1> HIDE DEF Q
<1>3. [i \in DOMAIN Q |-> Entry(Q, RestartInterval, i)] = f
  BY <1>1, <1>2 DEF EntryList
<1>4. Ent(R, k) = FlattenSeq(f)
  BY <1>3 DEF Ent, Entries, Q
<1>5. \A i \in 1..k : i \in 1..Len(R)
  OBVIOUS
<1>6. f \in [1..k -> Seq(Symbol)]
  BY <1>5, EntryParts DEF EntryList
<1> HIDE DEF f
<1>7. k \in Nat
  OBVIOUS
<1>8. f \in Seq(Seq(Symbol)) /\ Len(f) = k
  BY ONLY <1>6, <1>7, SeqByElement
<1> QED BY <1>4, <1>8 DEF f

LEMMA EntEmpty ==
    ASSUME NEW R \in Seq(Record)
    PROVE  Ent(R, 0) = <<>>
<1>1. 0 \in 0..Len(R)
  OBVIOUS
<1>2. Ent(R, 0) = FlattenSeq(EntryList(R, 0)) /\ Len(EntryList(R, 0)) = 0
      /\ EntryList(R, 0) \in Seq(Seq(Symbol))
  BY <1>1, EntriesAre
<1>3. EntryList(R, 0) = <<>>
  BY <1>2
<1> QED BY <1>2, <1>3, FlattenEmpty

\* One more record adds its entry.
LEMMA EntStep ==
    ASSUME NEW R \in Seq(Record), NEW k \in 1..Len(R)
    PROVE  /\ Ent(R, k - 1) \in Seq(Symbol)
           /\ Entry(R, RestartInterval, k) \in Seq(Symbol)
           /\ Ent(R, k) = Ent(R, k - 1) \o Entry(R, RestartInterval, k)
<1> DEFINE e == Entry(R, RestartInterval, k)
           q == EntryList(R, k - 1)
           r == EntryList(R, k)
<1>1. k - 1 \in 0..Len(R) /\ k \in 0..Len(R) /\ (k - 1) + 1 = k
  OBVIOUS
<1>2. q \in Seq(Seq(Symbol)) /\ Len(q) = k - 1 /\ Ent(R, k - 1) = FlattenSeq(q)
  BY <1>1, EntriesAre
<1>3. r \in Seq(Seq(Symbol)) /\ Len(r) = k /\ Ent(R, k) = FlattenSeq(r)
  BY <1>1, EntriesAre
<1>4. e \in Seq(Symbol)
  BY EntryParts
<1>5. \A i \in 1..k - 1 : q[i] = r[i]
  BY DEF EntryList
<1>6. r[k] = e
  BY DEF EntryList
<1> HIDE DEF q, r, e
<1>7. /\ Append(q, e) \in Seq(Seq(Symbol)) /\ Len(Append(q, e)) = (k - 1) + 1
      /\ \A i \in 1..k - 1 : Append(q, e)[i] = q[i]
      /\ Append(q, e)[(k - 1) + 1] = e
  <2>0. q \in Seq(Seq(Symbol))
    BY <1>2
  <2>1. /\ Append(q, e) \in Seq(Seq(Symbol)) /\ Len(Append(q, e)) = Len(q) + 1
        /\ \A i \in 1..Len(q) : Append(q, e)[i] = q[i]
        /\ Append(q, e)[Len(q) + 1] = e
    BY ONLY <2>0, <1>4, AppendProperties
  <2> QED BY <1>2, <2>1
<1>8. Append(q, e) = r
  <2> DEFINE a == Append(q, e)
  <2> HIDE DEF a
  <2>1. a \in Seq(Seq(Symbol)) /\ Len(a) = Len(r)
    BY <1>1, <1>3, <1>7 DEF a
  <2>2. \A i \in 1..Len(a) : i \in 1..k - 1 \/ i = k
    BY <1>1, <1>3, <2>1
  <2>3. \A i \in 1..Len(a) : a[i] = r[i]
    BY <1>1, <1>5, <1>6, <1>7, <2>2 DEF a
  <2>4. a = r
    BY <1>3, <2>1, <2>3, SeqEqual
  <2> QED BY <2>4 DEF a
<1>9. FlattenSeq(q) \in Seq(Symbol) /\ FlattenSeq(Append(q, e)) = FlattenSeq(q) \o e
  BY <1>2, <1>4, FlattenAppend
<1> QED BY <1>2, <1>3, <1>4, <1>8, <1>9 DEF e

LEMMA EntType ==
    ASSUME NEW R \in Seq(Record), NEW k \in 0..Len(R)
    PROVE  Ent(R, k) \in Seq(Symbol) /\ Len(Ent(R, k)) \in Nat
<1> DEFINE q == EntryList(R, k)
<1>1. q \in Seq(Seq(Symbol)) /\ Ent(R, k) = FlattenSeq(q)
  BY EntriesAre
<1>2. <<>> \in Seq(Symbol)
  OBVIOUS
<1> HIDE DEF q
<1>3. FlattenSeq(q) \in Seq(Symbol)
  BY <1>1, <1>2, FlattenAppend
<1>4. Ent(R, k) \in Seq(Symbol)
  BY <1>1, <1>3
<1> QED BY <1>4

\* Strings of symbols and their concatenation as operators of their own, which
\* stay unexpanded where only their laws matter.
Str == Seq(Symbol)
Cat(a, b) == a \o b

LEMMA CatStr ==
    ASSUME NEW a \in Str, NEW b \in Str
    PROVE  Cat(a, b) \in Str /\ Len(Cat(a, b)) = Len(a) + Len(b) /\ Len(a) \in Nat /\ Len(b) \in Nat
<1>1. a \in Seq(Symbol) /\ b \in Seq(Symbol)
  BY DEF Str
<1>2. /\ a \o b \in Seq(Symbol) /\ Len(a \o b) = Len(a) + Len(b)
      /\ Len(a) \in Nat /\ Len(b) \in Nat
  BY <1>1, Concat
<1> QED BY <1>2 DEF Str, Cat

LEMMA CatAssoc ==
    ASSUME NEW a \in Str, NEW b \in Str, NEW c \in Str
    PROVE  Cat(Cat(a, b), c) = Cat(a, Cat(b, c))
<1>1. a \in Seq(Symbol) /\ b \in Seq(Symbol) /\ c \in Seq(Symbol)
  BY DEF Str
<1>2. (a \o b) \o c = a \o (b \o c)
  BY <1>1, ConcatAssoc
<1> QED BY <1>2 DEF Cat

LEMMA CatFour ==
    ASSUME NEW a \in Str, NEW b \in Str, NEW c \in Str, NEW d \in Str
    PROVE  Cat(a, Cat(Cat(b, c), d)) = Cat(Cat(Cat(a, b), c), d)
<1>1. Cat(b, c) \in Str
  BY CatStr
<1>2. Cat(Cat(a, Cat(b, c)), d) = Cat(a, Cat(Cat(b, c), d))
  BY <1>1, CatAssoc
<1>3. Cat(Cat(a, b), c) = Cat(a, Cat(b, c))
  BY CatAssoc
<1> QED BY <1>2, <1>3

\* A record's entry in its parts.
LEMMA EntParts ==
    ASSUME NEW R \in Seq(Record), NEW k \in 1..Len(R)
    PROVE  Ent(R, k) = ((Ent(R, k - 1) \o Lengths(R, RestartInterval, k))
                        \o SubSeq(R[k].key, Shared(R, RestartInterval, k) + 1, Len(R[k].key)))
                       \o R[k].value
<1> DEFINE a == Ent(R, k - 1)
           l == Lengths(R, RestartInterval, k)
           s == SubSeq(R[k].key, Shared(R, RestartInterval, k) + 1, Len(R[k].key))
           v == R[k].value
<1>1. a \in Seq(Symbol) /\ Ent(R, k) = a \o Entry(R, RestartInterval, k)
  BY EntStep
<1>2. l \in Seq(Symbol) /\ s \in Seq(Symbol) /\ v \in Seq(Symbol)
  BY EntryParts
<1>3. Entry(R, RestartInterval, k) = (l \o s) \o v
  BY DEF Entry
<1> HIDE DEF a, l, s, v
<1>4. a \in Str /\ l \in Str /\ s \in Str /\ v \in Str
  BY <1>1, <1>2 DEF Str
<1>5. Cat(a, Cat(Cat(l, s), v)) = Cat(Cat(Cat(a, l), s), v)
  BY ONLY <1>4, CatFour
<1>6. a \o ((l \o s) \o v) = ((a \o l) \o s) \o v
  BY ONLY <1>5 DEF Cat
<1> QED BY <1>1, <1>3, <1>6 DEF a, l, s, v

\* One more restart offset.
LEMMA RstStep ==
    ASSUME NEW R \in Seq(Record), NEW m \in Nat,
           \A j \in 1..m : (j - 1) * RestartInterval \in 0..Len(R)
    PROVE  /\ Rst(R, m) \in Seq(Seq(Symbol)) /\ Len(Rst(R, m)) = m
           /\ FlattenSeq(Rst(R, m)) \in Seq(Symbol)
<1> DEFINE o(j) == Ent(R, (j - 1) * RestartInterval)
<1>1. \A j \in 1..m : Len(o(j)) \in Nat
  BY EntType
<1> HIDE DEF o
<1>2. \A j \in 1..m : Fixed(Len(o(j))) \in Seq(Symbol)
  BY <1>1, FixedType
<1> DEFINE f == Rst(R, m)
<1>3. f = [j \in 1..m |-> Fixed(Len(o(j)))]
  BY DEF Rst, o
<1> HIDE DEF f
<1>4. f \in [1..m -> Seq(Symbol)]
  BY <1>2, <1>3
<1>5. f \in Seq(Seq(Symbol)) /\ Len(f) = m
  BY ONLY <1>4, SeqByElement, m \in Nat
<1>6. <<>> \in Seq(Symbol)
  OBVIOUS
<1>7. FlattenSeq(f) \in Seq(Symbol)
  BY <1>5, <1>6, FlattenAppend
<1> QED BY <1>5, <1>7 DEF f

LEMMA RstNext ==
    ASSUME NEW R \in Seq(Record), NEW m \in Nat,
           \A j \in 1..m + 1 : (j - 1) * RestartInterval \in 0..Len(R)
    PROVE  /\ Fixed(Len(Ent(R, m * RestartInterval))) \in Seq(Symbol)
           /\ Len(Fixed(Len(Ent(R, m * RestartInterval)))) = FixedBytes
           /\ FlattenSeq(Rst(R, m + 1))
              = FlattenSeq(Rst(R, m)) \o Fixed(Len(Ent(R, m * RestartInterval)))
<1> DEFINE q == Rst(R, m)
           r == Rst(R, m + 1)
           x == Fixed(Len(Ent(R, m * RestartInterval)))
<1>1. m + 1 \in Nat /\ m + 1 \in 1..m + 1 /\ (m + 1) - 1 = m /\ \A j \in 1..m : j \in 1..m + 1
  OBVIOUS
<1>2. q \in Seq(Seq(Symbol)) /\ Len(q) = m
  BY <1>1, RstStep
<1>3. r \in Seq(Seq(Symbol)) /\ Len(r) = m + 1
  BY <1>1, RstStep
<1>4. x \in Seq(Symbol) /\ Len(x) = FixedBytes
  <2>1. m * RestartInterval \in 0..Len(R)
    BY <1>1
  <2>2. Len(Ent(R, m * RestartInterval)) \in Nat
    BY <2>1, EntType
  <2> QED BY <2>2, FixedType
<1>5. \A j \in 1..m : r[j] = q[j]
  BY <1>1 DEF Rst
<1>6. r[m + 1] = x
  BY <1>1 DEF Rst
<1> HIDE DEF q, r, x
<1>7. /\ Append(q, x) \in Seq(Seq(Symbol)) /\ Len(Append(q, x)) = m + 1
      /\ \A i \in 1..m : Append(q, x)[i] = q[i]
      /\ Append(q, x)[m + 1] = x
  <2>0. q \in Seq(Seq(Symbol)) /\ x \in Seq(Symbol)
    BY <1>2, <1>4
  <2>1. /\ Append(q, x) \in Seq(Seq(Symbol)) /\ Len(Append(q, x)) = Len(q) + 1
        /\ \A i \in 1..Len(q) : Append(q, x)[i] = q[i]
        /\ Append(q, x)[Len(q) + 1] = x
    BY ONLY <2>0, AppendProperties
  <2> QED BY <1>2, <2>1
<1>8. Append(q, x) = r
  <2> DEFINE a == Append(q, x)
  <2> HIDE DEF a
  <2>1. a \in Seq(Seq(Symbol)) /\ Len(a) = Len(r)
    BY <1>3, <1>7 DEF a
  <2>2. \A i \in 1..Len(a) : i \in 1..m \/ i = m + 1
    BY <1>3, <2>1
  <2>3. \A i \in 1..Len(a) : a[i] = r[i]
    BY <1>5, <1>6, <1>7, <2>2 DEF a
  <2>4. a = r
    BY <1>3, <2>1, <2>3, SeqEqual
  <2> QED BY <2>4 DEF a
<1>9. FlattenSeq(Append(q, x)) = FlattenSeq(q) \o x
  BY <1>2, <1>4, FlattenAppend
<1>10. FlattenSeq(r) = FlattenSeq(q) \o x
  BY <1>8, <1>9
<1> QED BY <1>4, <1>10 DEF q, r, x

\* Every restart point that is counted is a record.
LEMMA RestartsInside ==
    ASSUME NEW n \in Nat \ {0}, NEW j \in 1..(n - 1) \div RestartInterval + 1
    PROVE  (j - 1) * RestartInterval \in 0..n /\ (n - 1) \div RestartInterval + 1 \in Nat
<1> DEFINE I == RestartInterval
           q == (n - 1) \div I
<1>1. I \in Nat \ {0} /\ n - 1 \in Nat
  BY EncoderAssumption
<1>2. q \in Nat /\ q * I <= n - 1
  BY <1>1, DivBounds
<1> HIDE DEF I, q
<1>3. j - 1 \in Nat /\ j - 1 <= q
  BY <1>2 DEF I, q
<1>4. \A a, b, c \in Nat : a <= b => a * c \in Nat /\ a * c <= b * c
  OBVIOUS
<1>5. (j - 1) * I \in Nat /\ (j - 1) * I <= q * I
  BY <1>1, <1>2, <1>3, <1>4
<1>6. \A a, b \in Nat : a <= b /\ b <= n - 1 => a \in 0..n
  OBVIOUS
<1>7. q * I \in Nat
  BY <1>1, <1>2
<1>8. (j - 1) * I \in 0..n
  BY <1>2, <1>5, <1>6, <1>7
<1> QED BY <1>2, <1>8 DEF I, q

\* The block in its parts.
LEMMA BlockShape ==
    ASSUME NEW R \in Seq(Record), R /= <<>>, NEW m, m = (Len(R) - 1) \div RestartInterval + 1
    PROVE  /\ m \in Nat
           /\ \A j \in 1..m : (j - 1) * RestartInterval \in 0..Len(R)
           /\ Ent(R, Len(R)) \in Seq(Symbol) /\ FlattenSeq(Rst(R, m)) \in Seq(Symbol)
           /\ Fixed(m) \in Seq(Symbol) /\ Len(Fixed(m)) = FixedBytes
           /\ BlockOf(R, RestartInterval) = (Ent(R, Len(R)) \o FlattenSeq(Rst(R, m))) \o Fixed(m)
<1>1. Len(R) \in Nat \ {0} /\ Len(R) - 1 \in Nat
  OBVIOUS
<1>2. m \in Nat
  <2>1. RestartInterval \in Nat \ {0}
    BY EncoderAssumption
  <2> DEFINE q == (Len(R) - 1) \div RestartInterval
  <2>2. q \in Nat
    BY <1>1, <2>1, DivBounds
  <2> HIDE DEF q
  <2> QED BY <2>2 DEF q
<1>3. \A j \in 1..m : (j - 1) * RestartInterval \in 0..Len(R)
  BY <1>1, RestartsInside
<1>4. Ent(R, Len(R)) \in Seq(Symbol)
  BY <1>1, EntType
<1>5. FlattenSeq(Rst(R, m)) \in Seq(Symbol)
  BY <1>2, <1>3, RstStep
<1>6. Fixed(m) \in Seq(Symbol) /\ Len(Fixed(m)) = FixedBytes
  BY <1>2, FixedType
<1>7. SubSeq(R, 1, Len(R)) = R
  BY SubSeqFull
<1>8. Ent(R, Len(R)) = Entries(R, RestartInterval)
  BY <1>7 DEF Ent
<1>9. BlockOf(R, RestartInterval) = (Ent(R, Len(R)) \o FlattenSeq(Rst(R, m))) \o Fixed(m)
  BY <1>8 DEF BlockOf, Rst, Ent
<1> QED BY <1>2, <1>3, <1>4, <1>5, <1>6, <1>9

\* The same in terms of strings.
Flat(R, m) == FlattenSeq(Rst(R, m))
Lens(R, k) == Lengths(R, RestartInterval, k)
Rest(R, k) == SubSeq(R[k].key, Shared(R, RestartInterval, k) + 1, Len(R[k].key))
Block(R) == BlockOf(R, RestartInterval)

LEMMA EntStr ==
    ASSUME NEW R \in Seq(Record), NEW k \in 0..Len(R)
    PROVE  Ent(R, k) \in Str
BY EntType DEF Str

LEMMA PartsStr ==
    ASSUME NEW R \in Seq(Record), NEW k \in 1..Len(R)
    PROVE  /\ Ent(R, k - 1) \in Str /\ Lens(R, k) \in Str /\ Rest(R, k) \in Str
           /\ R[k].value \in Str
           /\ Ent(R, k) = Cat(Cat(Cat(Ent(R, k - 1), Lens(R, k)), Rest(R, k)), R[k].value)
<1>1. Ent(R, k - 1) \in Str
  BY EntStep DEF Str
<1>2. Lens(R, k) \in Str /\ Rest(R, k) \in Str /\ R[k].value \in Str
  BY EntryParts DEF Str, Lens, Rest
<1>3. Ent(R, k) = Cat(Cat(Cat(Ent(R, k - 1), Lens(R, k)), Rest(R, k)), R[k].value)
  BY EntParts DEF Cat, Lens, Rest
<1> QED BY <1>1, <1>2, <1>3

LEMMA FlatStr ==
    ASSUME NEW R \in Seq(Record), NEW m \in Nat,
           \A j \in 1..m : (j - 1) * RestartInterval \in 0..Len(R)
    PROVE  Flat(R, m) \in Str
BY RstStep DEF Flat, Str

LEMMA FlatNext ==
    ASSUME NEW R \in Seq(Record), NEW m \in Nat,
           \A j \in 1..m + 1 : (j - 1) * RestartInterval \in 0..Len(R)
    PROVE  /\ Fixed(Len(Ent(R, m * RestartInterval))) \in Str
           /\ Len(Fixed(Len(Ent(R, m * RestartInterval)))) = FixedBytes
           /\ Flat(R, m + 1) = Cat(Flat(R, m), Fixed(Len(Ent(R, m * RestartInterval))))
BY RstNext DEF Flat, Str, Cat

LEMMA FlatEmpty ==
    ASSUME NEW R \in Seq(Record)
    PROVE  Flat(R, 0) = <<>>
<1>1. \A j \in 1..0 : (j - 1) * RestartInterval \in 0..Len(R)
  OBVIOUS
<1>2. Rst(R, 0) \in Seq(Seq(Symbol)) /\ Len(Rst(R, 0)) = 0
  BY <1>1, RstStep
<1>3. Rst(R, 0) = <<>>
  BY <1>2
<1> QED BY <1>3, FlattenEmpty DEF Flat

LEMMA BlockStr ==
    ASSUME NEW R \in Seq(Record), R /= <<>>, NEW m, m = (Len(R) - 1) \div RestartInterval + 1
    PROVE  /\ m \in Nat /\ Block(R) \in Str
           /\ \A j \in 1..m : (j - 1) * RestartInterval \in 0..Len(R)
           /\ Ent(R, Len(R)) \in Str /\ Flat(R, m) \in Str
           /\ Fixed(m) \in Str /\ Len(Fixed(m)) = FixedBytes
           /\ Block(R) = Cat(Cat(Ent(R, Len(R)), Flat(R, m)), Fixed(m))
<1>1. /\ m \in Nat
      /\ \A j \in 1..m : (j - 1) * RestartInterval \in 0..Len(R)
  BY BlockShape
<1>2. /\ Ent(R, Len(R)) \in Str /\ Flat(R, m) \in Str
      /\ Fixed(m) \in Str /\ Len(Fixed(m)) = FixedBytes
  BY BlockShape DEF Str, Flat
<1>3. Block(R) = Cat(Cat(Ent(R, Len(R)), Flat(R, m)), Fixed(m))
  BY BlockShape DEF Block, Cat, Flat
<1>4. Cat(Ent(R, Len(R)), Flat(R, m)) \in Str
  BY <1>2, CatStr
<1>5. Cat(Cat(Ent(R, Len(R)), Flat(R, m)), Fixed(m)) \in Str
  BY <1>2, <1>4, CatStr
<1> QED BY <1>1, <1>2, <1>3, <1>5

\* A block begins with s, and something follows.
Begins(s, b) ==
    /\ s \in Str /\ b \in Str
    /\ \E t \in Str : b = Cat(s, t) /\ Len(t) >= FixedBytes

LEMMA BeginsPart ==
    ASSUME NEW s \in Str, NEW u \in Str, NEW b, Begins(Cat(s, u), b)
    PROVE  Begins(s, b)
<1>1. PICK t \in Str : b = Cat(Cat(s, u), t) /\ Len(t) >= FixedBytes
  BY DEF Begins
<1>2. b = Cat(s, Cat(u, t))
  BY <1>1, CatAssoc
<1>3. Cat(u, t) \in Str /\ Len(Cat(u, t)) = Len(u) + Len(t) /\ Len(u) \in Nat /\ Len(t) \in Nat
  BY CatStr
<1>4. FixedBytes \in Nat
  BY FormatAssumption
<1>5. Len(Cat(u, t)) >= FixedBytes
  BY <1>1, <1>3, <1>4
<1>6. b \in Str
  BY DEF Begins
<1> QED BY <1>2, <1>3, <1>5, <1>6 DEF Begins

LEMMA PrefixStr ==
    ASSUME NEW s \in Str, NEW t \in Str
    PROVE  IsPrefix(s, Cat(s, t))
<1>1. s \in Seq(Symbol) /\ t \in Seq(Symbol)
  BY DEF Str
<1>2. IsPrefix(s, s \o t)
  BY <1>1, PrefixOf
<1> QED BY <1>2 DEF Cat

LEMMA BeginsPrefix ==
    ASSUME NEW s, NEW b, Begins(s, b)
    PROVE  IsPrefix(s, b) /\ Len(b) \in Nat /\ Len(s) \in Nat /\ Len(s) < Len(b)
<1>1. s \in Str /\ b \in Str
  BY DEF Begins
<1>2. PICK t \in Str : b = Cat(s, t) /\ Len(t) >= FixedBytes
  BY DEF Begins
<1>3. IsPrefix(s, Cat(s, t))
  BY <1>1, PrefixStr
<1>4. Len(Cat(s, t)) = Len(s) + Len(t) /\ Len(s) \in Nat /\ Len(t) \in Nat
  BY <1>1, CatStr
<1>5. FixedBytes \in Nat \ {0}
  BY FormatAssumption
<1> QED BY <1>2, <1>3, <1>4, <1>5

\* The block begins with the entries and any number of the restart offsets.
LEMMA FlatBegins ==
    ASSUME NEW R \in Seq(Record), R /= <<>>, NEW m, m = (Len(R) - 1) \div RestartInterval + 1,
           NEW k \in 0..m
    PROVE  /\ Cat(Ent(R, Len(R)), Flat(R, k)) \in Str
           /\ Begins(Cat(Ent(R, Len(R)), Flat(R, k)), Block(R))
<1> DEFINE b == Block(R)
           a == Ent(R, Len(R))
           T == {d \in Nat : d <= m => Begins(Cat(a, Flat(R, m - d)), b)}
<1>1. /\ m \in Nat /\ b \in Str /\ a \in Str /\ Flat(R, m) \in Str
      /\ Fixed(m) \in Str /\ Len(Fixed(m)) = FixedBytes
      /\ b = Cat(Cat(a, Flat(R, m)), Fixed(m))
  BY BlockStr
<1>2. \A j \in 1..m : (j - 1) * RestartInterval \in 0..Len(R)
  BY BlockStr
<1> HIDE DEF a, b
<1>3. 0 \in T
  <2>1. Cat(a, Flat(R, m)) \in Str
    BY <1>1, CatStr
  <2>2. Len(Fixed(m)) >= FixedBytes
    BY <1>1, FormatAssumption
  <2>3. Begins(Cat(a, Flat(R, m)), b)
    BY ONLY <1>1, <2>1, <2>2 DEF Begins
  <2>4. m - 0 = m
    BY <1>1
  <2> QED BY <2>3, <2>4
<1>4. ASSUME NEW d \in Nat, d \in T PROVE d + 1 \in T
  <2> SUFFICES ASSUME d + 1 <= m PROVE Begins(Cat(a, Flat(R, m - (d + 1))), b)
    OBVIOUS
  <2> DEFINE n == m - (d + 1)
  <2>1. n \in Nat /\ n + 1 = m - d /\ d <= m /\ \A j \in 1..n + 1 : j \in 1..m
    BY <1>1
  <2>2. \A j \in 1..n : j \in 1..n + 1
    BY <2>1
  <2> HIDE DEF n
  <2>3. Begins(Cat(a, Flat(R, n + 1)), b)
    BY <1>4, <2>1
  <2>4. \A j \in 1..n + 1 : (j - 1) * RestartInterval \in 0..Len(R)
    BY <1>2, <2>1
  <2>5. \A j \in 1..n : (j - 1) * RestartInterval \in 0..Len(R)
    BY <2>2, <2>4
  <2> DEFINE x == Fixed(Len(Ent(R, n * RestartInterval)))
             f == Flat(R, n)
  <2>6. x \in Str /\ Flat(R, n + 1) = Cat(f, x)
    BY <2>1, <2>4, FlatNext
  <2>7. f \in Str
    BY <2>1, <2>5, FlatStr
  <2> HIDE DEF x, f
  <2>8. Cat(a, Cat(f, x)) = Cat(Cat(a, f), x) /\ Cat(a, f) \in Str
    BY <1>1, <2>6, <2>7, CatAssoc, CatStr
  <2>9. Begins(Cat(Cat(a, f), x), b)
    BY <2>3, <2>6, <2>8
  <2>10. Begins(Cat(a, f), b)
    BY <2>6, <2>8, <2>9, BeginsPart
  <2> QED BY <2>10 DEF f, n
<1> HIDE DEF T
<1>5. \A d \in Nat : d \in T
  BY <1>3, <1>4, SetInduction
<1>6. m - k \in Nat /\ m - k <= m /\ m - (m - k) = k
  BY <1>1
<1>7. m - k \in T
  BY <1>5, <1>6
<1>8. Begins(Cat(a, Flat(R, m - (m - k))), b)
  BY <1>6, <1>7 DEF T
<1>9. Begins(Cat(a, Flat(R, k)), b)
  BY <1>6, <1>8
<1>10. Cat(a, Flat(R, k)) \in Str
  BY <1>9 DEF Begins
<1> QED BY <1>9, <1>10 DEF a, b

\* The block begins with the entries of its first records.
LEMMA EntBegins ==
    ASSUME NEW R \in Seq(Record), R /= <<>>, NEW k \in 0..Len(R)
    PROVE  Begins(Ent(R, k), Block(R))
<1> DEFINE b == Block(R)
           n == Len(R)
           T == {d \in Nat : d <= n => Begins(Ent(R, n - d), b)}
           m == (Len(R) - 1) \div RestartInterval + 1
<1>0. n \in Nat
  OBVIOUS
<1>1. m \in Nat /\ Ent(R, n) \in Str /\ Flat(R, m) \in Str
  BY BlockStr
<1>2. 0 \in T
  <2>1. m \in 0..m
    BY <1>1
  <2>2. Begins(Cat(Ent(R, n), Flat(R, m)), b)
    BY <2>1, FlatBegins
  <2> HIDE DEF b, m, n
  <2>3. Begins(Ent(R, n), b)
    BY <1>1, <2>2, BeginsPart
  <2>4. n - 0 = n
    BY <1>0
  <2> QED BY <2>3, <2>4
<1> HIDE DEF b, m
<1>3. ASSUME NEW d \in Nat, d \in T PROVE d + 1 \in T
  <2> SUFFICES ASSUME d + 1 <= n PROVE Begins(Ent(R, n - (d + 1)), b)
    OBVIOUS
  <2>1. n - d \in 1..Len(R) /\ (n - d) - 1 = n - (d + 1) /\ d <= n
    BY <1>0
  <2>2. Begins(Ent(R, n - d), b)
    BY <1>3, <2>1
  <2> DEFINE a == Ent(R, (n - d) - 1)
             e == Entry(R, RestartInterval, n - d)
  <2>3. a \in Str /\ e \in Str /\ Ent(R, n - d) = Cat(a, e)
    BY <2>1, EntStep DEF Str, Cat
  <2> HIDE DEF a, e
  <2>4. Begins(Cat(a, e), b)
    BY <2>2, <2>3
  <2>5. Begins(a, b)
    BY <2>3, <2>4, BeginsPart
  <2> QED BY <2>1, <2>5 DEF a
<1> HIDE DEF T
<1>4. \A d \in Nat : d \in T
  BY <1>2, <1>3, SetInduction
<1>5. n - k \in Nat /\ n - k <= n /\ n - (n - k) = k
  BY <1>0
<1>6. n - k \in T
  BY <1>4, <1>5
<1>7. Begins(Ent(R, n - (n - k)), b)
  BY <1>5, <1>6 DEF T
<1> QED BY <1>5, <1>7 DEF b

\* Quotient and remainder of the number of a record.
LEMMA Quotient ==
    ASSUME NEW q \in Nat, NEW e \in Nat, NEW d \in Nat \ {0}, e < d
    PROVE  (q * d + e) \div d = q /\ (q * d + e) % d = e
<1> DEFINE a == q * d + e
<1>1. q * d \in Nat
  OBVIOUS
<1>2. a \in Nat /\ q * d <= a /\ a < q * d + d
  BY <1>1
<1> HIDE DEF a
<1>3. a \div d = q
  BY <1>2, DivUnique
<1>4. a % d = a - (a \div d) * d
  BY <1>2
<1>5. a % d = a - q * d
  BY <1>3, <1>4
<1>6. a % d = e
  BY <1>1, <1>5 DEF a
<1> QED BY <1>3, <1>6 DEF a

\* A set of numbers that is not empty has a least one.
LEMMA MinOf ==
    ASSUME NEW S, S \subseteq Nat, S /= {}
    PROVE  Min(S) \in S /\ \A y \in S : Min(S) <= y
<1>1. IsWellFoundedOn(OpToRel(<, Nat), Nat)
  BY NatLessThanWellFounded, Zenon
<1>2. PICK x \in S : \A y \in S : ~ (<<y, x>> \in OpToRel(<, Nat))
  BY <1>1, WFMin, Zenon
<1>3. \A y \in S : ~(y < x)
  BY <1>2 DEF OpToRel
<1>4. \A y \in S : x <= y
  BY <1>3
<1> QED BY <1>4 DEF Min

\* The shared length at a restart point, and elsewhere.
LEMMA SharedZero ==
    ASSUME NEW R \in Seq(Record), NEW k \in 1..Len(R), NEW q \in Nat, k - 1 = q * RestartInterval
    PROVE  Shared(R, RestartInterval, k) = 0
<1>1. RestartInterval \in Nat \ {0} /\ 0 < RestartInterval /\ 0 \in Nat
  BY EncoderAssumption
<1> DEFINE I == RestartInterval
<1>2. (q * I + 0) % I = 0
  BY <1>1, Quotient
<1>3. \A a \in Nat : a + 0 = a
  OBVIOUS
<1>4. q * I \in Nat
  BY <1>1
<1>5. (k - 1) % RestartInterval = 0
  BY <1>2, <1>3, <1>4
<1> QED BY <1>5 DEF Shared

LEMMA SharedBetween ==
    ASSUME NEW R \in Seq(Record), NEW k \in 2..Len(R), NEW q \in Nat, NEW e \in Nat, e /= 0,
           e < RestartInterval, k - 1 = q * RestartInterval + e,
           NEW n \in Nat, n <= Len(R[k].key), n <= Len(R[k - 1].key),
           \A i \in 1..n : R[k].key[i] = R[k - 1].key[i],
           n = Len(R[k].key) \/ n = Len(R[k - 1].key) \/ R[k].key[n + 1] /= R[k - 1].key[n + 1]
    PROVE  Shared(R, RestartInterval, k) = n
<1>1. RestartInterval \in Nat \ {0}
  BY EncoderAssumption
<1>2. (q * RestartInterval + e) % RestartInterval = e
  BY <1>1, Quotient
<1>3. (k - 1) % RestartInterval /= 0
  BY <1>2
<1> DEFINE a == R[k - 1].key
           b == R[k].key
<1>4. k \in 1..Len(R) /\ k - 1 \in 1..Len(R)
  OBVIOUS
<1>5. a \in Seq(Byte) /\ b \in Seq(Byte)
  BY <1>4, RecordType
<1>6. /\ n <= Len(a) /\ n <= Len(b) /\ \A i \in 1..n : a[i] = b[i]
      /\ n = Len(a) \/ n = Len(b) \/ a[n + 1] /= b[n + 1]
  OBVIOUS
<1> HIDE DEF a, b
<1>7. Len(LongestCommonPrefix({a, b})) = n
  BY <1>5, <1>6, CommonPrefix
<1> QED BY <1>3, <1>7 DEF Shared, a, b

-----------------------------------------------------------------------------
(* The inductive invariant.                                                *)

States == {"WAIT_RECORD", "RECV_KEY", "WRITE_VARINTS", "WRITE_KEY", "STREAM_VALUE",
           "APPEND_RESTARTS", "APPEND_RST_CNT", "FINISH", "IDLE"}

\* The registers.
EncShape ==
    enc = [state |-> enc.state, error |-> enc.error,
           prev_buf_sel |-> enc.prev_buf_sel, key_buf |-> enc.key_buf,
           prev_key_len |-> enc.prev_key_len, key_len |-> enc.key_len,
           value_len |-> enc.value_len, shared_len |-> enc.shared_len,
           unshared_len |-> enc.unshared_len, mismatch_found |-> enc.mismatch_found,
           is_restart_point |-> enc.is_restart_point, recv_idx |-> enc.recv_idx,
           block_write_index |-> enc.block_write_index,
           block_copy_idx |-> enc.block_copy_idx, value_rem |-> enc.value_rem,
           restart_offset_mem |-> enc.restart_offset_mem,
           restart_emit_idx |-> enc.restart_emit_idx,
           entries_since_restart |-> enc.entries_since_restart,
           output_block_bytes |-> enc.output_block_bytes]

EncFlags ==
    /\ enc.state \in States /\ enc.error \in BOOLEAN
    /\ enc.mismatch_found \in BOOLEAN /\ enc.is_restart_point \in BOOLEAN

EncRegisters ==
    /\ enc.prev_buf_sel \in {0, 1}
    /\ enc.key_buf \in [{0, 1} -> [0..MaxKeyBytes - 1 -> Int]]
    /\ enc.prev_key_len \in Nat /\ enc.key_len \in Nat /\ enc.value_len \in Nat
    /\ enc.shared_len \in Int /\ enc.unshared_len \in Int
    /\ enc.recv_idx \in Nat /\ enc.block_write_index \in Nat /\ enc.block_copy_idx \in Nat
    /\ enc.value_rem \in Int /\ enc.restart_offset_mem \in Seq(Nat)
    /\ enc.restart_emit_idx \in Nat /\ enc.entries_since_restart \in Nat
    /\ enc.output_block_bytes \in Nat

EncType ==
    /\ records \in Inputs /\ fed \in 0..Len(records)
    /\ emit \in Str /\ out \in Str
    /\ EncShape /\ EncFlags /\ EncRegisters

\* The encoder is busy with record number fed; the ones before are through.
InRecord == enc.state \in {"RECV_KEY", "WRITE_VARINTS", "WRITE_KEY", "STREAM_VALUE"}
written == IF InRecord THEN fed - 1 ELSE fed

Sent == Cat(out, emit)

\* The offsets noted are those of every RestartInterval-th record, and the
\* records since the last of them are counted.
RestartInv ==
    /\ enc.restart_offset_mem /= <<>>
    /\ \A j \in 1..Len(enc.restart_offset_mem) :
           /\ (j - 1) * RestartInterval <= Len(records)
           /\ enc.restart_offset_mem[j] = Len(Ent(records, (j - 1) * RestartInterval))
    /\ written = (Len(enc.restart_offset_mem) - 1) * RestartInterval
                 + enc.entries_since_restart
    /\ enc.entries_since_restart <= RestartInterval
    /\ ~InRecord /\ fed > 0 => enc.entries_since_restart > 0
    /\ InRecord =>
           /\ fed > 0
           /\ enc.entries_since_restart < RestartInterval
           /\ enc.is_restart_point <=> (enc.entries_since_restart = 0 /\ fed > 1)

\* The buffer marked as previous holds the key of the last record written.
PrevInv ==
    IF written = 0 THEN enc.prev_key_len = 0
    ELSE /\ enc.prev_key_len = Len(records[written].key)
         /\ \A i \in 1..enc.prev_key_len :
                enc.key_buf[enc.prev_buf_sel][i - 1] = records[written].key[i]

\* The other one holds what has come of the current key.
KeyInv ==
    InRecord =>
        /\ enc.key_len = Len(records[fed].key)
        /\ enc.value_len = Len(records[fed].value)
        /\ enc.recv_idx <= enc.key_len
        /\ \A i \in 1..enc.recv_idx :
               enc.key_buf[1 - enc.prev_buf_sel][i - 1] = records[fed].key[i]

\* How far the key received so far agrees with the previous one, the p bytes
\* that the buffer f holds: in the first s bytes, and not beyond (the keys part).
Agrees(key, f, p, s) ==
    s \in Nat /\ s <= p /\ \A i \in 1..s : key[i] = f[i - 1]
Parted(key, f, p, s) ==
    s = p \/ key[s + 1] /= f[s]

MatchInv ==
    enc.state = "RECV_KEY" =>
        /\ enc.recv_idx < enc.key_len
        /\ enc.is_restart_point => enc.shared_len = 0
        /\ ~enc.is_restart_point =>
               /\ enc.shared_len <= enc.recv_idx
               /\ Agrees(records[fed].key, enc.key_buf[enc.prev_buf_sel],
                         enc.prev_key_len, enc.shared_len)
               /\ enc.mismatch_found =>
                      Parted(records[fed].key, enc.key_buf[enc.prev_buf_sel],
                             enc.prev_key_len, enc.shared_len)
               /\ ~enc.mismatch_found => enc.shared_len = enc.recv_idx

\* Once the key is complete its lengths are the entry's.
LengthInv ==
    enc.state \in {"WRITE_VARINTS", "WRITE_KEY", "STREAM_VALUE"} =>
        /\ enc.recv_idx = enc.key_len
        /\ enc.shared_len = Shared(records, RestartInterval, fed)
        /\ enc.unshared_len = enc.key_len - enc.shared_len

\* The end of the list has been met, and every restart point is noted.
TailInv ==
    enc.state \in {"APPEND_RESTARTS", "APPEND_RST_CNT", "FINISH", "IDLE"} =>
        /\ fed = Len(records)
        /\ Len(enc.restart_offset_mem) = (Len(records) - 1) \div RestartInterval + 1

\* What has been sent is the block up to the place the state stands for.
Start == Cat(Ent(records, written), Lens(records, fed))

OutInv ==
    /\ enc.state \in {"WAIT_RECORD", "RECV_KEY", "WRITE_VARINTS"} =>
           Sent = Ent(records, written)
    /\ enc.state = "WRITE_KEY" =>
           /\ enc.block_copy_idx <= enc.unshared_len
           /\ Sent = Cat(Start, SubSeq(records[fed].key, enc.shared_len + 1,
                                     enc.shared_len + enc.block_copy_idx))
    /\ enc.state = "STREAM_VALUE" =>
           /\ 0 <= enc.value_rem /\ enc.value_rem <= enc.value_len
           /\ Sent = Cat(Cat(Start, Rest(records, fed)),
                         SubSeq(records[fed].value, 1, enc.value_len - enc.value_rem))
    /\ enc.state = "APPEND_RESTARTS" =>
           /\ enc.restart_emit_idx <= Len(enc.restart_offset_mem)
           /\ Sent = Cat(Ent(records, fed), Flat(records, enc.restart_emit_idx))
    /\ enc.state = "APPEND_RST_CNT" =>
           Sent = Cat(Ent(records, fed), Flat(records, Len(enc.restart_offset_mem)))
    /\ enc.state \in {"FINISH", "IDLE"} =>
           Sent = Block(records) /\ enc.output_block_bytes = Len(Block(records))
    /\ enc.state = "IDLE" => emit = <<>>
    /\ enc.state \notin {"FINISH", "IDLE"} => enc.block_write_index = Len(Sent)

\* A block given up has begun as it should and would have been too long.
GivenUp ==
    /\ enc.state = "IDLE"
    /\ IsPrefix(Sent, Block(records))
    /\ Len(Block(records)) > MaxBlockBytes

EncInv ==
    /\ EncType
    /\ enc.error => GivenUp
    /\ ~enc.error => RestartInv /\ PrevInv /\ KeyInv /\ MatchInv /\ LengthInv /\ TailInv /\ OutInv

-----------------------------------------------------------------------------
(* Facts that every step needs.                                            *)

LEMMA RecordsType ==
    ASSUME EncType
    PROVE  /\ records \in Seq(Record) /\ records /= <<>>
           /\ Len(records) \in Nat \ {0} /\ fed \in Nat /\ fed <= Len(records)
           /\ \A i \in 1..Len(records) :
                  /\ Len(records[i].key) \in 1..MaxKeyBytes
                  /\ records[i].key \in Seq(Byte) /\ records[i].value \in Seq(Byte)
                  /\ Len(records[i].value) \in Nat
<1>1. records \in Inputs /\ fed \in 0..Len(records)
  BY DEF EncType
<1>2. /\ records \in Seq(Record) \ {<<>>}
      /\ \A i \in DOMAIN records : Len(records[i].key) \in 1..MaxKeyBytes
  BY <1>1, EncoderAssumption DEF Record
<1>3. DOMAIN records = 1..Len(records) /\ Len(records) \in Nat \ {0}
  BY <1>2
<1>4. \A i \in 1..Len(records) : /\ records[i].key \in Seq(Byte) /\ records[i].value \in Seq(Byte)
                                 /\ Len(records[i].value) \in Nat
  BY <1>2, RecordType
<1> QED BY <1>1, <1>2, <1>3, <1>4

\* A key fits its buffer.
LEMMA KeysInBuffer ==
    ASSUME KeysFit, EncType, NEW i \in 1..Len(records)
    PROVE  Len(records[i].key) <= KeyBufBytes
<1>1. records \in Inputs
  BY DEF EncType
<1>2. i \in DOMAIN records
  BY RecordsType
<1> QED BY <1>1, <1>2 DEF KeysFit

LEMMA EmptyStr ==
    <<>> \in Str /\ \A s \in Str : Cat(s, <<>>) = s /\ Cat(<<>>, s) = s
<1>1. <<>> \in Seq(Symbol)
  OBVIOUS
<1>2. ASSUME NEW s \in Seq(Symbol) PROVE s \o <<>> = s /\ <<>> \o s = s
  BY ConcatEmpty
<1> QED BY <1>1, <1>2 DEF Str, Cat

LEMMA BytesAreStr ==
    ASSUME NEW s \in Seq(Byte)
    PROVE  s \in Str
BY BytesAreSymbols DEF Str

\* A word goes into the output register.
LEMMA SentEmit ==
    ASSUME EncType, NEW w \in Str, Emit(w), out' = out
    PROVE  /\ Sent \in Str /\ Sent' = Cat(Sent, w) /\ Len(Sent) \in Nat /\ Len(w) \in Nat
           /\ Len(Sent') = Len(Sent) + Len(w) /\ emit' \in Str
<1>1. out \in Str /\ emit \in Str
  BY DEF EncType
<1>2. emit = <<>> /\ emit' = w
  BY DEF Emit
<1>3. Sent = out
  BY <1>1, <1>2, EmptyStr DEF Sent
<1>4. Sent' = Cat(out, w)
  BY <1>2 DEF Sent
<1>5. Len(Cat(out, w)) = Len(out) + Len(w) /\ Len(out) \in Nat /\ Len(w) \in Nat
  BY <1>1, CatStr
<1> QED BY <1>1, <1>2, <1>3, <1>4, <1>5

LEMMA SentStr ==
    ASSUME EncType
    PROVE  Sent \in Str /\ Len(Sent) \in Nat
<1>1. out \in Str /\ emit \in Str
  BY DEF EncType
<1>2. Cat(out, emit) \in Str
  BY <1>1, CatStr
<1>3. \A s \in Str : Len(s) \in Nat
  BY DEF Str
<1> QED BY <1>2, <1>3 DEF Sent

\* The packer takes a word.
LEMMA SentTaken ==
    ASSUME EncType, OutputAccepted
    PROVE  Sent' = Sent /\ EncType'
<1>1. out \in Str /\ emit \in Str
  BY DEF EncType
<1>2. out' = Cat(out, emit) /\ emit' = <<>> /\ records' = records /\ fed' = fed /\ enc' = enc
  BY DEF OutputAccepted, Cat
<1>3. Cat(out, emit) \in Str
  BY <1>1, CatStr
<1>4. out' \in Str /\ emit' \in Str
  BY <1>2, <1>3, EmptyStr
<1>5. Sent' = Sent
  BY <1>2, <1>3, EmptyStr DEF Sent
<1>6. EncShape'
  BY <1>2 DEF EncType, EncShape
<1>7. EncFlags' /\ EncRegisters'
  BY <1>2 DEF EncType, EncFlags, EncRegisters
<1>8. records' \in Inputs /\ fed' \in 0..Len(records')
  BY <1>2 DEF EncType
<1> QED BY <1>4, <1>5, <1>6, <1>7, <1>8 DEF EncType

\* Pieces of keys and values as strings.
LEMMA PieceStr ==
    ASSUME NEW s \in Seq(Byte), NEW a \in Nat, NEW b \in Nat, a <= b, b <= Len(s)
    PROVE  SubSeq(s, a + 1, b) \in Str /\ Len(SubSeq(s, a + 1, b)) = b - a
<1> DEFINE p == SubSeq(s, a + 1, b)
<1>1. p \in Seq(Byte) /\ Len(p) = b - a
  BY Piece
<1> HIDE DEF p
<1>2. p \in Str
  BY <1>1, BytesAreStr
<1> QED BY <1>1, <1>2 DEF p

LEMMA PiecesStr ==
    ASSUME NEW s \in Seq(Byte), NEW a \in Nat, NEW b \in Nat, NEW c \in Nat,
           a <= b, b <= c, c <= Len(s)
    PROVE  Cat(SubSeq(s, a + 1, b), SubSeq(s, b + 1, c)) = SubSeq(s, a + 1, c)
BY PiecesMeet DEF Cat

LEMMA Whole ==
    ASSUME NEW s \in Seq(Byte)
    PROVE  SubSeq(s, 0 + 1, Len(s)) = s
<1>1. 0 + 1 = 1
  OBVIOUS
<1>2. SubSeq(s, 1, Len(s)) = s
  BY SubSeqFull
<1> QED BY <1>1, <1>2

LEMMA NoPiece ==
    ASSUME NEW s \in Seq(Byte), NEW a \in Nat
    PROVE  SubSeq(s, a + 1, a) = <<>>
<1>1. a + 1 > a /\ a + 1 \in Int /\ a \in Int
  OBVIOUS
<1> QED BY <1>1

\* Within a record.
LEMMA RecordFacts ==
    ASSUME EncType, RestartInv, InRecord
    PROVE  /\ fed \in 1..Len(records) /\ written = fed - 1 /\ written \in 0..Len(records)
           /\ Ent(records, written) \in Str /\ Lens(records, fed) \in Str
           /\ Rest(records, fed) \in Str /\ records[fed].value \in Str
           /\ Start \in Str /\ Cat(Start, Rest(records, fed)) \in Str
           /\ Ent(records, fed) = Cat(Cat(Start, Rest(records, fed)), records[fed].value)
           /\ records[fed].key \in Seq(Byte) /\ records[fed].value \in Seq(Byte)
           /\ Len(records[fed].key) \in 1..MaxKeyBytes /\ Len(records[fed].value) \in Nat
           /\ Shared(records, RestartInterval, fed) \in Nat
           /\ Shared(records, RestartInterval, fed) <= Len(records[fed].key)
<1>1. records \in Seq(Record) /\ Len(records) \in Nat /\ fed \in Nat /\ fed <= Len(records)
  BY RecordsType
<1>2. fed > 0
  BY DEF RestartInv
<1>3. fed \in 1..Len(records) /\ fed - 1 \in 0..Len(records)
  BY <1>1, <1>2
<1>4. written = fed - 1
  BY DEF written
<1> DEFINE a == Ent(records, fed - 1)
           l == Lens(records, fed)
           r == Rest(records, fed)
           v == records[fed].value
<1>5. a \in Str /\ l \in Str /\ r \in Str /\ v \in Str /\ Ent(records, fed) = Cat(Cat(Cat(a, l), r), v)
  BY <1>1, <1>3, PartsStr
<1> HIDE DEF a, l, r, v
<1>6. Cat(a, l) \in Str
  BY <1>5, CatStr
<1>7. Cat(Cat(a, l), r) \in Str
  BY <1>5, <1>6, CatStr
<1>8. Start = Cat(a, l) /\ Ent(records, written) = a
  BY <1>4 DEF Start, a, l
<1>9. /\ records[fed].key \in Seq(Byte) /\ records[fed].value \in Seq(Byte)
      /\ Len(records[fed].key) \in 1..MaxKeyBytes /\ Len(records[fed].value) \in Nat
  BY <1>3, RecordsType
<1>10. /\ Shared(records, RestartInterval, fed) \in Nat
       /\ Shared(records, RestartInterval, fed) <= Len(records[fed].key)
  BY <1>1, <1>3, SharedIs
<1>11. /\ l \in Str /\ r \in Str /\ v \in Str /\ Start \in Str /\ Cat(Start, r) \in Str
       /\ Ent(records, fed) = Cat(Cat(Start, r), v) /\ Ent(records, written) \in Str
  BY <1>5, <1>6, <1>7, <1>8
<1> QED BY <1>3, <1>4, <1>9, <1>10, <1>11 DEF l, r, v

\* What has been sent is a beginning of the block.
LEMMA SentBegins ==
    ASSUME EncInv, ~enc.error, enc.state \notin {"FINISH", "IDLE"}
    PROVE  Begins(Sent, Block(records))
<1>1. EncType /\ RestartInv /\ KeyInv /\ LengthInv /\ TailInv /\ OutInv
  BY DEF EncInv
<1>2. records \in Seq(Record) /\ records /= <<>> /\ Len(records) \in Nat \ {0}
  BY <1>1, RecordsType
<1>3. enc.state \in States
  BY <1>1 DEF EncType, EncFlags
<1> DEFINE b == Block(records)
<1>4. \A k \in 0..Len(records) : Begins(Ent(records, k), b)
  BY <1>2, EntBegins
<1>5. CASE enc.state \in {"WAIT_RECORD", "RECV_KEY", "WRITE_VARINTS"}
  <2>1. Sent = Ent(records, written)
    BY <1>1, <1>5 DEF OutInv
  <2>2. written \in 0..Len(records)
    <3>1. fed \in 0..Len(records)
      BY <1>1 DEF EncType, EncRegisters
    <3>2. InRecord => fed > 0
      BY <1>1 DEF RestartInv
    <3> QED BY <3>1, <3>2 DEF written
  <2> QED BY <1>4, <2>1, <2>2
<1>6. ASSUME InRecord
      PROVE  /\ Begins(Cat(Cat(Start, Rest(records, fed)), records[fed].value), b)
             /\ Begins(Cat(Start, Rest(records, fed)), b)
  <2> DEFINE hr == Cat(Start, Rest(records, fed))
             v == records[fed].value
  <2>1. fed \in 1..Len(records) /\ hr \in Str /\ v \in Str /\ Ent(records, fed) = Cat(hr, v)
    BY <1>1, <1>6, RecordFacts
  <2>2. fed \in 0..Len(records)
    BY <2>1
  <2> HIDE DEF hr, v
  <2>3. Begins(Cat(hr, v), b)
    BY <1>4, <2>1, <2>2
  <2>4. Begins(hr, b)
    BY <2>1, <2>3, BeginsPart
  <2> QED BY <2>3, <2>4 DEF hr, v
<1>7. CASE enc.state = "WRITE_KEY"
  <2> DEFINE key == records[fed].key
             sh == enc.shared_len
             c == enc.block_copy_idx
             n == Len(key)
             d == sh + c
             p == SubSeq(key, sh + 1, d)
             q == SubSeq(key, d + 1, n)
  <2>1. InRecord
    BY <1>7 DEF InRecord
  <2>2. /\ key \in Seq(Byte) /\ n \in 1..MaxKeyBytes
        /\ Shared(records, RestartInterval, fed) \in Nat /\ Start \in Str
    BY <1>1, <2>1, RecordFacts
  <2>3. sh = Shared(records, RestartInterval, fed) /\ enc.unshared_len = enc.key_len - sh
    BY <1>1, <1>7 DEF LengthInv
  <2>4. enc.key_len = n
    BY <1>1, <2>1 DEF KeyInv
  <2>5. c \in Nat
    BY <1>1 DEF EncType, EncRegisters
  <2>6. c <= enc.unshared_len /\ Sent = Cat(Start, p)
    BY <1>1, <1>7 DEF OutInv
  <2>7. Rest(records, fed) = SubSeq(key, sh + 1, n)
    BY <2>3 DEF Rest
  <2> HIDE DEF key, sh, c, n
  <2>8. sh \in Nat /\ n \in Nat /\ d \in Nat /\ sh <= d /\ d <= n
    BY <2>2, <2>3, <2>4, <2>5, <2>6
  <2> HIDE DEF d
  <2>9. key \in Seq(Byte) /\ n <= Len(key)
    BY <2>2, <2>8 DEF n
  <2>10. p \in Str /\ q \in Str
    <3>1. Len(key) = n
      BY DEF n
    <3> QED BY <2>8, <2>9, <3>1, PieceStr
  <2>11. Cat(p, q) = SubSeq(key, sh + 1, n)
    BY ONLY <2>8, <2>9, PiecesStr
  <2>12. Begins(Cat(Start, Cat(p, q)), b)
    BY <1>6, <2>1, <2>7, <2>11
  <2> HIDE DEF p, q, b
  <2>13. Cat(Cat(Start, p), q) = Cat(Start, Cat(p, q)) /\ Cat(Start, p) \in Str
    BY <2>2, <2>10, CatAssoc, CatStr
  <2>14. Begins(Cat(Cat(Start, p), q), b)
    BY <2>12, <2>13
  <2>15. Begins(Cat(Start, p), b)
    BY <2>10, <2>13, <2>14, BeginsPart
  <2> QED BY <2>6, <2>15 DEF b
<1>8. CASE enc.state = "STREAM_VALUE"
  <2> DEFINE v == records[fed].value
             hr == Cat(Start, Rest(records, fed))
             n == Len(v)
             c == enc.value_len - enc.value_rem
             p == SubSeq(v, 0 + 1, c)
             q == SubSeq(v, c + 1, n)
  <2>1. InRecord
    BY <1>8 DEF InRecord
  <2>2. v \in Seq(Byte) /\ n \in Nat /\ hr \in Str
    BY <1>1, <2>1, RecordFacts
  <2>3. enc.value_len = n
    BY <1>1, <2>1 DEF KeyInv
  <2>4. /\ 0 <= enc.value_rem /\ enc.value_rem <= enc.value_len
        /\ Sent = Cat(hr, SubSeq(v, 1, c))
    BY <1>1, <1>8 DEF OutInv
  <2>5. enc.value_rem \in Int
    BY <1>1 DEF EncType, EncRegisters
  <2>6. c \in Nat /\ 0 <= c /\ c <= n /\ 0 + 1 = 1
    BY <2>2, <2>3, <2>4, <2>5
  <2>7. n = Len(v) /\ n <= Len(v)
    BY <2>2
  <2> HIDE DEF v, hr, n, c
  <2>8. p \in Str /\ q \in Str
    <3>0. 0 \in Nat /\ c <= Len(v) /\ v \in Seq(Byte) /\ n \in Nat /\ c \in Nat
      BY <2>2, <2>6, <2>7
    <3>1. p \in Str
      BY ONLY <2>6, <3>0, PieceStr
    <3>2. q \in Str
      BY ONLY <2>6, <2>7, <3>0, PieceStr
    <3> QED BY <3>1, <3>2
  <2>9. Cat(p, q) = SubSeq(v, 0 + 1, n)
    <3>0. 0 \in Nat /\ v \in Seq(Byte) /\ n \in Nat /\ c \in Nat /\ 0 <= c /\ c <= n /\ n <= Len(v)
      BY <2>2, <2>6, <2>7
    <3> QED BY ONLY <3>0, PiecesStr
  <2>10. SubSeq(v, 0 + 1, n) = v
    BY <2>2, <2>7, Whole
  <2>11. Begins(Cat(hr, v), b)
    BY <1>6, <2>1 DEF hr, v
  <2>12. Begins(Cat(hr, Cat(p, q)), b)
    BY <2>9, <2>10, <2>11
  <2>13. Sent = Cat(hr, p)
    BY <2>4, <2>6
  <2> HIDE DEF p, q, b
  <2>14. Cat(Cat(hr, p), q) = Cat(hr, Cat(p, q)) /\ Cat(hr, p) \in Str
    BY <2>2, <2>8, CatAssoc, CatStr
  <2>15. Begins(Cat(Cat(hr, p), q), b)
    BY <2>12, <2>14
  <2>16. Begins(Cat(hr, p), b)
    BY <2>8, <2>14, <2>15, BeginsPart
  <2> QED BY <2>13, <2>16 DEF b
<1>9. CASE enc.state \in {"APPEND_RESTARTS", "APPEND_RST_CNT"}
  <2> DEFINE m == Len(enc.restart_offset_mem)
  <2>1. fed = Len(records) /\ m = (Len(records) - 1) \div RestartInterval + 1
    BY <1>1, <1>9 DEF TailInv
  <2>2. m \in Nat /\ enc.restart_emit_idx \in Nat
    BY <1>1 DEF EncType, EncRegisters
  <2>3. \A k \in 0..m : Begins(Cat(Ent(records, Len(records)), Flat(records, k)), b)
    BY <1>2, <2>1, FlatBegins
  <2>4. \E k \in 0..m : Sent = Cat(Ent(records, fed), Flat(records, k))
    <3>1. CASE enc.state = "APPEND_RESTARTS"
      BY <1>1, <2>2, <3>1 DEF OutInv
    <3>2. CASE enc.state = "APPEND_RST_CNT"
      BY <1>1, <2>2, <3>2 DEF OutInv
    <3> QED BY <1>9, <3>1, <3>2
  <2> QED BY <2>1, <2>3, <2>4
<1> QED BY <1>3, <1>5, <1>7, <1>8, <1>9 DEF States

-----------------------------------------------------------------------------
(* Every step keeps the invariant.                                         *)

\* The word goes to the packer: nothing else changes.
LEMMA OutputAcceptedStep ==
    ASSUME EncInv, OutputAccepted
    PROVE  EncInv'
<1>1. EncType
  BY DEF EncInv
<1>2. Sent' = Sent /\ EncType'
  BY <1>1, SentTaken
<1>3. enc' = enc /\ records' = records /\ fed' = fed /\ emit' = <<>>
  BY DEF OutputAccepted
<1>4. InRecord' = InRecord
  BY <1>3 DEF InRecord
<1>5. written' = written
  BY <1>3, <1>4 DEF written
<1>6. GivenUp => GivenUp'
  BY <1>2, <1>3 DEF GivenUp
<1>7. RestartInv => RestartInv'
  BY <1>3, <1>4, <1>5 DEF RestartInv
<1>8. PrevInv => PrevInv'
  BY <1>3, <1>5 DEF PrevInv
<1>9. KeyInv => KeyInv'
  BY <1>3, <1>4 DEF KeyInv
<1>10. MatchInv => MatchInv'
  BY <1>3 DEF MatchInv
<1>11. LengthInv => LengthInv'
  BY <1>3 DEF LengthInv
<1>12. TailInv => TailInv'
  BY <1>3 DEF TailInv
<1>13. Start' = Start
  BY <1>3, <1>5 DEF Start
<1>14. OutInv => OutInv'
  BY <1>2, <1>3, <1>5, <1>13 DEF OutInv
<1> QED BY <1>2, <1>3, <1>6, <1>7, <1>8, <1>9, <1>10, <1>11, <1>12, <1>14 DEF EncInv

\* A block that is given up has more than MaxBlockBytes.
LEMMA WriteFailsStep ==
    ASSUME EncInv, WriteFails, ~enc.error, enc.state \notin {"FINISH", "IDLE"}
    PROVE  EncInv'
<1>1. EncType /\ OutInv
  BY DEF EncInv
<1>2. enc' = [enc EXCEPT !.state = "IDLE", !.error = TRUE] /\ emit' = emit /\ out' = out
      /\ records' = records /\ fed' = fed /\ enc.block_write_index >= MaxBlockBytes
  BY DEF WriteFails, Full
<1>3. EncType'
  BY <1>1, <1>2 DEF EncType, EncShape, EncFlags, EncRegisters, States
<1>4. enc'.state = "IDLE" /\ enc'.error = TRUE
  BY <1>1, <1>2 DEF EncType, EncShape
<1>5. Begins(Sent, Block(records))
  BY SentBegins
<1>6. /\ IsPrefix(Sent, Block(records)) /\ Len(Block(records)) \in Nat
      /\ Len(Sent) \in Nat /\ Len(Sent) < Len(Block(records))
  BY <1>5, BeginsPrefix
<1>7. enc.block_write_index = Len(Sent)
  BY <1>1 DEF OutInv
<1>8. Len(Block(records)) > MaxBlockBytes
  BY <1>2, <1>6, <1>7, FormatAssumption
<1>9. Sent' = Sent
  BY <1>2 DEF Sent
<1>10. GivenUp'
  BY <1>2, <1>4, <1>6, <1>8, <1>9 DEF GivenUp
<1> QED BY <1>3, <1>4, <1>10 DEF EncInv

LEMMA TakeRecordStep ==
    ASSUME EncInv, TakeRecord
    PROVE  EncInv'
<1> DEFINE r == records[fed + 1]
           m == Len(enc.restart_offset_mem)
           e == enc.entries_since_restart
           I == RestartInterval
           restart == e = I
<1>0. enc.state = "WAIT_RECORD" /\ fed < Len(records) /\ fed' = fed + 1
      /\ emit' = emit /\ out' = out /\ records' = records
  BY DEF TakeRecord
<1>1. ~enc.error /\ EncType /\ RestartInv /\ PrevInv /\ OutInv
  BY <1>0 DEF EncInv, GivenUp
<1>2. /\ enc'.state = "RECV_KEY" /\ enc'.error = enc.error /\ enc'.recv_idx = 0
      /\ enc'.key_len = Len(r.key) /\ enc'.value_len = Len(r.value)
      /\ enc'.shared_len = 0 /\ enc'.mismatch_found = FALSE
      /\ enc'.is_restart_point = restart
      /\ enc'.restart_offset_mem = IF restart THEN Append(enc.restart_offset_mem, enc.block_write_index)
                                   ELSE enc.restart_offset_mem
      /\ enc'.entries_since_restart = IF restart THEN 0 ELSE e
      /\ enc'.prev_key_len = enc.prev_key_len /\ enc'.prev_buf_sel = enc.prev_buf_sel
      /\ enc'.key_buf = enc.key_buf /\ enc'.block_write_index = enc.block_write_index
  BY <1>1 DEF EncType, EncShape, TakeRecord
<1>3. /\ records \in Seq(Record) /\ Len(records) \in Nat \ {0} /\ fed \in Nat
      /\ \A i \in 1..Len(records) : Len(records[i].key) \in 1..MaxKeyBytes /\ Len(records[i].value) \in Nat
  BY <1>1, RecordsType
<1>4. fed + 1 \in 1..Len(records) /\ fed + 1 \in 0..Len(records)
  BY <1>0, <1>3
<1>5. Len(r.key) \in 1..MaxKeyBytes /\ Len(r.value) \in Nat
  BY <1>3, <1>4
<1>5a. Len(r.key) \in Nat /\ Len(r.key) > 0
  BY <1>5, FormatAssumption
<1>6. e \in Nat /\ m \in Nat /\ I \in Nat \ {0} /\ enc.block_write_index \in Nat
      /\ enc.restart_offset_mem \in Seq(Nat)
  BY <1>1, EncoderAssumption DEF EncType, EncRegisters
<1>7. EncType'
  <2> HIDE DEF r
  <2>1. EncShape'
    BY <1>1 DEF EncType, EncShape, TakeRecord
  <2>2. enc'.restart_offset_mem \in Seq(Nat) /\ enc'.entries_since_restart \in Nat
    BY <1>2, <1>6
  <2>3. enc'.unshared_len = enc.unshared_len /\ enc'.block_copy_idx = enc.block_copy_idx
        /\ enc'.value_rem = enc.value_rem /\ enc'.restart_emit_idx = enc.restart_emit_idx
        /\ enc'.output_block_bytes = enc.output_block_bytes
    BY <1>1 DEF EncType, EncShape, TakeRecord
  <2>4. EncFlags /\ EncRegisters
    BY <1>1 DEF EncType
  <2>5. EncFlags'
    <3>1. restart \in BOOLEAN /\ FALSE \in BOOLEAN /\ "RECV_KEY" \in States
      BY DEF States
    <3> QED BY <1>2, <2>4, <3>1, Zenon DEF EncFlags
  <2>6. EncRegisters'
    <3>1. /\ enc'.prev_buf_sel \in {0, 1} /\ enc'.key_buf \in [{0, 1} -> [0..MaxKeyBytes - 1 -> Int]]
          /\ enc'.prev_key_len \in Nat /\ enc'.unshared_len \in Int
          /\ enc'.block_write_index \in Nat /\ enc'.block_copy_idx \in Nat
          /\ enc'.value_rem \in Int /\ enc'.restart_emit_idx \in Nat
          /\ enc'.output_block_bytes \in Nat
      BY <1>2, <2>3, <2>4, Zenon DEF EncRegisters
    <3>2. 0 \in Nat /\ 0 \in Int
      OBVIOUS
    <3>3. /\ enc'.key_len \in Nat /\ enc'.value_len \in Nat
          /\ enc'.shared_len \in Int /\ enc'.recv_idx \in Nat
      BY <1>2, <1>5, <1>5a, <3>2, Zenon
    <3> QED BY <2>2, <3>1, <3>3, Zenon DEF EncRegisters
  <2> QED BY <1>0, <1>1, <1>4, <2>1, <2>5, <2>6 DEF EncType
<1> HIDE DEF r
<1>8. ~InRecord /\ InRecord'
  BY <1>0, <1>2 DEF InRecord
<1>9. written = fed /\ written' = fed
  BY <1>0, <1>3, <1>8 DEF written
<1>10. /\ enc.restart_offset_mem /= <<>>
       /\ \A j \in 1..m : /\ (j - 1) * I <= Len(records)
                          /\ enc.restart_offset_mem[j] = Len(Ent(records, (j - 1) * I))
       /\ fed = (m - 1) * I + e /\ e <= I /\ (fed > 0 => e > 0)
  BY <1>1, <1>8, <1>9 DEF RestartInv
<1>11. Sent = Ent(records, fed) /\ enc.block_write_index = Len(Sent)
  BY <1>0, <1>1, <1>9 DEF OutInv
<1>12. RestartInv'
  <2>1. CASE restart
    <3> DEFINE offs == enc'.restart_offset_mem
    <3>1. offs = Append(enc.restart_offset_mem, enc.block_write_index) /\ enc'.entries_since_restart = 0
          /\ enc'.is_restart_point = TRUE
      BY <1>2, <2>1
    <3>2. /\ offs /= <<>> /\ Len(offs) = m + 1
          /\ \A j \in 1..m : offs[j] = enc.restart_offset_mem[j]
          /\ offs[m + 1] = enc.block_write_index
      BY <1>6, <3>1
    <3>3. \A a, b \in Nat : a > 0 => (a - 1) * b + b = a * b
      OBVIOUS
    <3>4. m > 0
      BY <1>6, <1>10
    <3>5. fed = m * I
      BY <1>6, <1>10, <2>1, <3>3, <3>4
    <3>6. \A a, b \in Nat : a > 0 /\ b > 0 => a * b > 0
      OBVIOUS
    <3>7. fed > 0
      BY <1>6, <3>4, <3>5, <3>6
    <3> HIDE DEF offs
    <3>8. \A j \in 1..m + 1 : /\ (j - 1) * I <= Len(records)
                              /\ offs[j] = Len(Ent(records, (j - 1) * I))
      <4> SUFFICES ASSUME NEW j \in 1..m + 1
                   PROVE  (j - 1) * I <= Len(records) /\ offs[j] = Len(Ent(records, (j - 1) * I))
        OBVIOUS
      <4>1. CASE j \in 1..m
        BY <1>10, <3>2, <4>1
      <4>2. CASE j = m + 1
        <5>1. j - 1 = m
          BY <1>6, <4>2
        <5>2. fed <= Len(records)
          BY <1>0, <1>3
        <5> QED BY <1>11, <3>2, <3>5, <4>2, <5>1, <5>2
      <4>3. \A a \in Nat : \A i \in 1..a + 1 : i \in 1..a \/ i = a + 1
        BY SMT
      <4>4. j \in 1..m \/ j = m + 1
        BY <1>6, <4>3, Zenon
      <4> QED BY <4>1, <4>2, <4>4, Zenon
    <3>9. fed = ((m + 1) - 1) * I + 0
      <4>1. (m + 1) - 1 = m
        BY <1>6
      <4>2. fed + 0 = fed
        BY <1>3
      <4> QED BY <3>5, <4>1, <4>2
    <3>10. fed' > 0 /\ fed' > 1 /\ 0 <= I /\ 0 < I
      BY <1>0, <1>3, <1>6, <3>7
    <3> QED BY <1>0, <1>8, <1>9, <3>1, <3>2, <3>8, <3>9, <3>10 DEF RestartInv, offs
  <2>2. CASE ~restart
    <3>1. enc'.restart_offset_mem = enc.restart_offset_mem /\ enc'.entries_since_restart = e
          /\ enc'.is_restart_point = FALSE
      BY <1>2, <2>2
    <3>2. e < I /\ fed' > 0
      BY <1>0, <1>3, <1>6, <1>10, <2>2
    <3>3. ~(e = 0 /\ fed' > 1)
      BY <1>0, <1>3, <1>6, <1>10
    <3> QED BY <1>0, <1>8, <1>9, <1>10, <3>1, <3>2, <3>3 DEF RestartInv
  <2> QED BY <2>1, <2>2
<1>13. PrevInv'
  BY <1>0, <1>1, <1>2, <1>9 DEF PrevInv
<1>14. KeyInv'
  BY <1>0, <1>2, <1>5a DEF KeyInv, r
<1>15. MatchInv'
  <2>1. enc.prev_key_len \in Nat
    BY <1>1 DEF EncType, EncRegisters
  <2>2. Agrees(records'[fed'].key, enc'.key_buf[enc'.prev_buf_sel], enc'.prev_key_len, 0)
    BY <1>2, <2>1 DEF Agrees
  <2>3. 0 <= 0 /\ 0 < Len(r.key)
    BY <1>5a
  <2> QED BY <1>2, <2>2, <2>3 DEF MatchInv
<1>16. LengthInv' /\ TailInv'
  BY <1>2 DEF LengthInv, TailInv
<1>17. OutInv'
  <2>1. Sent' = Sent
    BY <1>0 DEF Sent
  <2> QED BY <1>0, <1>2, <1>9, <1>11, <2>1 DEF OutInv
<1> QED BY <1>1, <1>2, <1>7, <1>12, <1>13, <1>14, <1>15, <1>16, <1>17 DEF EncInv

LEMMA EndOfRecordsStep ==
    ASSUME EncInv, EndOfRecords
    PROVE  EncInv'
<1> DEFINE m == Len(enc.restart_offset_mem)
           e == enc.entries_since_restart
           I == RestartInterval
<1>0. enc.state = "WAIT_RECORD" /\ fed = Len(records) /\ fed' = fed
      /\ emit' = emit /\ out' = out /\ records' = records
  BY DEF EndOfRecords
<1>1. ~enc.error /\ EncType /\ RestartInv /\ PrevInv /\ OutInv
  BY <1>0 DEF EncInv, GivenUp
<1>2. enc' = [enc EXCEPT !.state = "APPEND_RESTARTS", !.restart_emit_idx = 0]
  BY DEF EndOfRecords
<1>3. EncType'
  <2>1. EncShape'
    BY <1>1, <1>2 DEF EncType, EncShape
  <2>2. EncFlags' /\ EncRegisters'
    BY <1>1, <1>2 DEF EncType, EncShape, EncFlags, EncRegisters, States
  <2> QED BY <1>0, <1>1, <2>1, <2>2 DEF EncType
<1>4. /\ enc'.state = "APPEND_RESTARTS" /\ enc'.restart_emit_idx = 0 /\ enc'.error = enc.error
      /\ enc'.restart_offset_mem = enc.restart_offset_mem
      /\ enc'.entries_since_restart = enc.entries_since_restart
      /\ enc'.prev_key_len = enc.prev_key_len /\ enc'.prev_buf_sel = enc.prev_buf_sel
      /\ enc'.key_buf = enc.key_buf /\ enc'.block_write_index = enc.block_write_index
  BY <1>1, <1>2 DEF EncType, EncShape
<1>5. ~InRecord /\ ~InRecord'
  BY <1>0, <1>4 DEF InRecord
<1>6. written = fed /\ written' = fed
  BY <1>0, <1>5 DEF written
<1>7. RestartInv'
  BY <1>0, <1>1, <1>4, <1>5, <1>6 DEF RestartInv
<1>8. PrevInv'
  BY <1>0, <1>1, <1>4, <1>6 DEF PrevInv
<1>9. KeyInv' /\ MatchInv' /\ LengthInv'
  BY <1>4, <1>5 DEF KeyInv, MatchInv, LengthInv
<1>10. records \in Seq(Record) /\ Len(records) \in Nat \ {0}
  BY <1>1, RecordsType
<1>11. TailInv'
  <2>1. e \in Nat /\ m \in Nat /\ I \in Nat \ {0}
    BY <1>1, EncoderAssumption DEF EncType, EncRegisters
  <2>2. enc.restart_offset_mem \in Seq(Nat) /\ enc.restart_offset_mem /= <<>>
    BY <1>1 DEF EncType, EncRegisters, RestartInv
  <2>3. m > 0 /\ m - 1 \in Nat /\ (m - 1) + 1 = m
    BY <2>1, <2>2
  <2>4. fed = (m - 1) * I + e /\ e <= I
    BY <1>1, <1>6 DEF RestartInv
  <2>5. e > 0
    BY <1>0, <1>1, <1>5, <1>10 DEF RestartInv
  <2>6. e - 1 \in Nat /\ e - 1 < I
    BY <2>1, <2>4, <2>5
  <2> DEFINE p == (m - 1) * I
  <2>7. p \in Nat
    BY <2>1, <2>3
  <2>8. (p + (e - 1)) \div I = m - 1
    <3> DEFINE q == m - 1
               f == e - 1
    <3>1. q \in Nat /\ f \in Nat /\ I \in Nat \ {0} /\ f < I
      BY <2>1, <2>3, <2>6
    <3> HIDE DEF q, f, I
    <3>2. (q * I + f) \div I = q
      BY ONLY <3>1, Quotient
    <3> QED BY <3>2 DEF q, f, I, p
  <2> HIDE DEF p
  <2>9. Len(records) - 1 = p + (e - 1)
    <3>1. Len(records) = p + e
      BY <1>0, <2>4 DEF p
    <3> QED BY <2>1, <2>5, <2>7, <3>1
  <2>10. m = (Len(records) - 1) \div I + 1
    BY <2>3, <2>8, <2>9
  <2> QED BY <1>0, <1>4, <2>10 DEF TailInv
<1>12. OutInv'
  <2>1. Sent' = Sent
    BY <1>0 DEF Sent
  <2>2. Sent = Ent(records, fed) /\ enc.block_write_index = Len(Sent)
    BY <1>0, <1>1, <1>6 DEF OutInv
  <2>3. Sent \in Str
    BY <1>1, SentStr
  <2>4. Cat(Sent, Flat(records, 0)) = Sent
    BY <1>10, <2>3, FlatEmpty, EmptyStr
  <2>5. 0 <= Len(enc.restart_offset_mem)
    BY <1>1 DEF EncType, EncRegisters
  <2> QED BY <1>0, <1>4, <2>1, <2>2, <2>4, <2>5 DEF OutInv
<1> QED BY <1>1, <1>3, <1>4, <1>7, <1>8, <1>9, <1>11, <1>12 DEF EncInv

LEMMA RecordDoneStep ==
    ASSUME EncInv, RecordDone
    PROVE  EncInv'
<1> DEFINE m == Len(enc.restart_offset_mem)
           e == enc.entries_since_restart
           I == RestartInterval
<1>0. enc.state = "STREAM_VALUE" /\ enc.value_rem = 0 /\ fed' = fed
      /\ emit' = emit /\ out' = out /\ records' = records
  BY DEF RecordDone
<1>1. ~enc.error /\ EncType /\ RestartInv /\ KeyInv /\ LengthInv /\ OutInv
  BY <1>0 DEF EncInv, GivenUp
<1>2. enc' = [enc EXCEPT !.state = "WAIT_RECORD",
                         !.prev_key_len = enc.key_len,
                         !.prev_buf_sel = 1 - enc.prev_buf_sel,
                         !.entries_since_restart = enc.entries_since_restart + 1]
  BY DEF RecordDone
<1>3. /\ enc'.state = "WAIT_RECORD" /\ enc'.error = enc.error
      /\ enc'.restart_offset_mem = enc.restart_offset_mem
      /\ enc'.entries_since_restart = e + 1
      /\ enc'.prev_key_len = enc.key_len /\ enc'.prev_buf_sel = 1 - enc.prev_buf_sel
      /\ enc'.key_buf = enc.key_buf /\ enc'.block_write_index = enc.block_write_index
  BY <1>1, <1>2 DEF EncType, EncShape
<1>4. EncType'
  <2>1. EncShape'
    BY <1>1, <1>2 DEF EncType, EncShape
  <2>2. /\ enc'.mismatch_found = enc.mismatch_found /\ enc'.is_restart_point = enc.is_restart_point
        /\ enc'.key_len = enc.key_len /\ enc'.value_len = enc.value_len
        /\ enc'.shared_len = enc.shared_len /\ enc'.unshared_len = enc.unshared_len
        /\ enc'.recv_idx = enc.recv_idx /\ enc'.block_copy_idx = enc.block_copy_idx
        /\ enc'.value_rem = enc.value_rem /\ enc'.restart_emit_idx = enc.restart_emit_idx
        /\ enc'.output_block_bytes = enc.output_block_bytes
    BY <1>1, <1>2 DEF EncType, EncShape
  <2>3. EncFlags /\ EncRegisters
    BY <1>1 DEF EncType
  <2>4. EncFlags'
    BY <1>3, <2>2, <2>3 DEF EncFlags, States
  <2>5. e + 1 \in Nat /\ 1 - enc.prev_buf_sel \in {0, 1}
    BY <2>3 DEF EncRegisters
  <2>6. EncRegisters'
    BY <1>3, <2>2, <2>3, <2>5 DEF EncRegisters
  <2> QED BY <1>0, <1>1, <2>1, <2>4, <2>6 DEF EncType
<1>5. InRecord /\ ~InRecord'
  BY <1>0, <1>3 DEF InRecord
<1>6. /\ fed \in 1..Len(records) /\ written = fed - 1
      /\ Ent(records, fed) = Cat(Cat(Start, Rest(records, fed)), records[fed].value)
      /\ records[fed].value \in Seq(Byte)
  BY <1>1, <1>5, RecordFacts
<1>7. written' = fed
  BY <1>0, <1>5 DEF written
<1>8. e \in Nat /\ m \in Nat /\ I \in Nat \ {0} /\ fed \in Nat /\ fed > 0
  <2>1. e \in Nat /\ enc.restart_offset_mem \in Seq(Nat)
    BY <1>1 DEF EncType, EncRegisters
  <2>2. I \in Nat \ {0}
    BY EncoderAssumption
  <2>3. fed \in Nat /\ fed > 0
    BY <1>6
  <2>4. m \in Nat
    BY <2>1
  <2> QED BY <2>1, <2>2, <2>3, <2>4
<1>9. RestartInv'
  <2> DEFINE p == (m - 1) * I
  <2>1. p \in Int /\ fed - 1 = p + e /\ e < I
    BY <1>1, <1>5, <1>6, <1>8 DEF RestartInv
  <2> HIDE DEF p
  <2>2. fed = p + (e + 1) /\ e + 1 <= I /\ e + 1 > 0
    BY <1>8, <2>1
  <2>3. /\ enc.restart_offset_mem /= <<>>
        /\ \A j \in 1..m : /\ (j - 1) * I <= Len(records)
                           /\ enc.restart_offset_mem[j] = Len(Ent(records, (j - 1) * I))
    BY <1>1 DEF RestartInv
  <2> QED BY <1>0, <1>3, <1>5, <1>7, <2>2, <2>3 DEF RestartInv, p
<1>10. PrevInv'
  <2>1. /\ enc.key_len = Len(records[fed].key) /\ enc.recv_idx = enc.key_len
        /\ \A i \in 1..enc.recv_idx :
               enc.key_buf[1 - enc.prev_buf_sel][i - 1] = records[fed].key[i]
    BY <1>0, <1>1, <1>5 DEF KeyInv, LengthInv
  <2> QED BY <1>0, <1>3, <1>7, <1>8, <2>1 DEF PrevInv
<1>11. KeyInv' /\ MatchInv' /\ LengthInv' /\ TailInv'
  BY <1>3, <1>5 DEF KeyInv, MatchInv, LengthInv, TailInv
<1>12. OutInv'
  <2> DEFINE v == records[fed].value
             hr == Cat(Start, Rest(records, fed))
  <2>1. Sent' = Sent
    BY <1>0 DEF Sent
  <2>2. Sent = Cat(hr, SubSeq(v, 1, enc.value_len - enc.value_rem)) /\ enc.block_write_index = Len(Sent)
    BY <1>0, <1>1 DEF OutInv
  <2>3. enc.value_len = Len(v) /\ Len(v) - 0 = Len(v)
    BY <1>1, <1>5, <1>6 DEF KeyInv
  <2>4. SubSeq(v, 0 + 1, Len(v)) = v /\ 0 + 1 = 1
    BY <1>6, Whole
  <2>5. SubSeq(v, 1, enc.value_len - enc.value_rem) = v
    BY <1>0, <2>3, <2>4
  <2>6. Sent = Ent(records, fed)
    BY <1>6, <2>2, <2>5
  <2> QED BY <1>0, <1>3, <1>7, <2>1, <2>2, <2>6 DEF OutInv
<1> QED BY <1>1, <1>3, <1>4, <1>9, <1>10, <1>11, <1>12 DEF EncInv

LEMMA FinishStep ==
    ASSUME EncInv, Finish
    PROVE  EncInv'
<1>0. enc.state = "FINISH" /\ emit = <<>> /\ fed' = fed
      /\ emit' = emit /\ out' = out /\ records' = records
  BY DEF Finish
<1>1. ~enc.error /\ EncType /\ RestartInv /\ PrevInv /\ TailInv /\ OutInv
  BY <1>0 DEF EncInv, GivenUp
<1>2. enc' = [enc EXCEPT !.state = "IDLE"]
  BY DEF Finish
<1>3. EncType'
  <2>1. EncShape'
    BY <1>1, <1>2 DEF EncType, EncShape
  <2>2. EncFlags' /\ EncRegisters'
    BY <1>1, <1>2 DEF EncType, EncShape, EncFlags, EncRegisters, States
  <2> QED BY <1>0, <1>1, <2>1, <2>2 DEF EncType
<1>4. /\ enc'.state = "IDLE" /\ enc'.error = enc.error
      /\ enc'.restart_offset_mem = enc.restart_offset_mem
      /\ enc'.entries_since_restart = enc.entries_since_restart
      /\ enc'.prev_key_len = enc.prev_key_len /\ enc'.prev_buf_sel = enc.prev_buf_sel
      /\ enc'.key_buf = enc.key_buf /\ enc'.output_block_bytes = enc.output_block_bytes
  BY <1>1, <1>2 DEF EncType, EncShape
<1>5. ~InRecord /\ ~InRecord'
  BY <1>0, <1>4 DEF InRecord
<1>6. written = fed /\ written' = fed
  BY <1>0, <1>5 DEF written
<1>7. RestartInv'
  BY <1>0, <1>1, <1>4, <1>5, <1>6 DEF RestartInv
<1>8. PrevInv'
  BY <1>0, <1>1, <1>4, <1>6 DEF PrevInv
<1>9. KeyInv' /\ MatchInv' /\ LengthInv'
  BY <1>4, <1>5 DEF KeyInv, MatchInv, LengthInv
<1>10. TailInv'
  BY <1>0, <1>1, <1>4 DEF TailInv
<1>11. OutInv'
  <2>1. Sent' = Sent
    BY <1>0 DEF Sent
  <2> QED BY <1>0, <1>1, <1>4, <2>1 DEF OutInv
<1> QED BY <1>1, <1>3, <1>4, <1>7, <1>8, <1>9, <1>10, <1>11 DEF EncInv

LEMMA AppendRestartCountStep ==
    ASSUME EncInv, AppendRestartCount
    PROVE  EncInv'
<1> DEFINE m == Len(enc.restart_offset_mem)
<1>0. enc.state = "APPEND_RST_CNT" /\ Emit(Fixed(m)) /\ fed' = fed
      /\ out' = out /\ records' = records
  BY DEF AppendRestartCount
<1>1. ~enc.error /\ EncType /\ RestartInv /\ PrevInv /\ TailInv /\ OutInv
  BY <1>0 DEF EncInv, GivenUp
<1>2. enc' = [enc EXCEPT !.state = "FINISH",
                  !.output_block_bytes = enc.block_write_index + FixedBytes]
  BY DEF AppendRestartCount
<1>3. fed = Len(records) /\ m = (Len(records) - 1) \div RestartInterval + 1
  BY <1>0, <1>1 DEF TailInv
<1>4. records \in Seq(Record) /\ records /= <<>>
  BY <1>1, RecordsType
<1>5. /\ m \in Nat /\ Fixed(m) \in Str /\ Len(Fixed(m)) = FixedBytes
      /\ Block(records) = Cat(Cat(Ent(records, Len(records)), Flat(records, m)), Fixed(m))
  BY <1>3, <1>4, BlockStr
<1>6. Sent = Cat(Ent(records, fed), Flat(records, m)) /\ enc.block_write_index = Len(Sent)
  BY <1>0, <1>1 DEF OutInv
<1>7. /\ Sent' = Cat(Sent, Fixed(m)) /\ Len(Sent') = Len(Sent) + Len(Fixed(m)) /\ emit' \in Str
  BY <1>0, <1>1, <1>5, SentEmit
<1>8. Sent' = Block(records) /\ enc.block_write_index + FixedBytes = Len(Block(records))
  BY <1>3, <1>5, <1>6, <1>7
<1>9. enc.block_write_index + FixedBytes \in Nat
  <2>1. enc.block_write_index \in Nat
    BY <1>1, Zenon DEF EncType, EncRegisters
  <2>2. \A a, b \in Nat : a + b \in Nat
    BY SMT
  <2>3. FixedBytes \in Nat
    BY FormatAssumption
  <2> QED BY <2>1, <2>2, <2>3, Zenon
<1>10. EncType'
  <2>1. EncShape'
    BY <1>1, <1>2 DEF EncType, EncShape
  <2>2. EncFlags'
    BY <1>1, <1>2 DEF EncType, EncShape, EncFlags, States
  <2>3. EncRegisters'
    BY <1>1, <1>2, <1>9 DEF EncType, EncShape, EncRegisters
  <2> QED BY <1>0, <1>1, <1>7, <2>1, <2>2, <2>3 DEF EncType
<1>11. /\ enc'.state = "FINISH" /\ enc'.error = enc.error
       /\ enc'.restart_offset_mem = enc.restart_offset_mem
       /\ enc'.entries_since_restart = enc.entries_since_restart
       /\ enc'.prev_key_len = enc.prev_key_len /\ enc'.prev_buf_sel = enc.prev_buf_sel
       /\ enc'.key_buf = enc.key_buf
       /\ enc'.output_block_bytes = enc.block_write_index + FixedBytes
  BY <1>1, <1>2 DEF EncType, EncShape
<1>12. ~InRecord /\ ~InRecord'
  BY <1>0, <1>11 DEF InRecord
<1>13. written = fed /\ written' = fed
  BY <1>0, <1>12 DEF written
<1>14. RestartInv'
  BY <1>0, <1>1, <1>11, <1>12, <1>13 DEF RestartInv
<1>15. PrevInv'
  BY <1>0, <1>1, <1>11, <1>13 DEF PrevInv
<1>16. KeyInv' /\ MatchInv' /\ LengthInv'
  BY <1>11, <1>12 DEF KeyInv, MatchInv, LengthInv
<1>17. TailInv'
  BY <1>0, <1>1, <1>3, <1>11 DEF TailInv
<1>18. OutInv'
  BY <1>0, <1>8, <1>11 DEF OutInv
<1> QED BY <1>1, <1>10, <1>11, <1>14, <1>15, <1>16, <1>17, <1>18 DEF EncInv

\* Writing a record, the encoder leaves alone what it knows of it.
SameRecord ==
    /\ fed' = fed /\ records' = records
    /\ enc.state \in {"WRITE_VARINTS", "WRITE_KEY", "STREAM_VALUE"}
    /\ enc'.state \in {"WRITE_KEY", "STREAM_VALUE"} /\ enc'.error = enc.error
    /\ enc'.restart_offset_mem = enc.restart_offset_mem
    /\ enc'.entries_since_restart = enc.entries_since_restart
    /\ enc'.is_restart_point = enc.is_restart_point
    /\ enc'.prev_key_len = enc.prev_key_len /\ enc'.prev_buf_sel = enc.prev_buf_sel
    /\ enc'.key_buf = enc.key_buf /\ enc'.recv_idx = enc.recv_idx
    /\ enc'.key_len = enc.key_len /\ enc'.value_len = enc.value_len
    /\ enc'.shared_len = enc.shared_len /\ enc'.unshared_len = enc.unshared_len

LEMMA RecordFrame ==
    ASSUME EncInv, ~enc.error, SameRecord
    PROVE  /\ RestartInv' /\ PrevInv' /\ KeyInv' /\ MatchInv' /\ LengthInv' /\ TailInv'
           /\ Start' = Start /\ InRecord /\ InRecord'
<1>1. RestartInv /\ PrevInv /\ KeyInv /\ LengthInv
  BY DEF EncInv
<1>2. InRecord /\ InRecord'
  BY DEF InRecord, SameRecord
<1>3. written' = written
  BY <1>2 DEF written, SameRecord
<1>4. RestartInv'
  BY <1>1, <1>2, <1>3 DEF RestartInv, SameRecord
<1>5. PrevInv'
  BY <1>1, <1>3 DEF PrevInv, SameRecord
<1>6. KeyInv'
  BY <1>1, <1>2 DEF KeyInv, SameRecord
<1>7. LengthInv'
  BY <1>1 DEF LengthInv, SameRecord
<1>8. MatchInv' /\ TailInv'
  BY DEF MatchInv, TailInv, SameRecord
<1>9. Start' = Start
  BY <1>3 DEF Start, SameRecord
<1> QED BY <1>2, <1>4, <1>5, <1>6, <1>7, <1>8, <1>9

\* What is known of the record that is being written.
LEMMA WritingFacts ==
    ASSUME EncInv, ~enc.error, enc.state \in {"WRITE_VARINTS", "WRITE_KEY", "STREAM_VALUE"}
    PROVE  /\ EncType /\ InRecord /\ OutInv
           /\ fed \in 1..Len(records) /\ written = fed - 1
           /\ enc.key_len = Len(records[fed].key) /\ enc.value_len = Len(records[fed].value)
           /\ enc.key_len \in 1..MaxKeyBytes /\ enc.value_len \in Nat
           /\ records[fed].key \in Seq(Byte) /\ records[fed].value \in Seq(Byte)
           /\ enc.shared_len = Shared(records, RestartInterval, fed)
           /\ enc.shared_len \in Nat /\ enc.unshared_len \in Nat
           /\ enc.unshared_len = enc.key_len - enc.shared_len
           /\ enc.shared_len + enc.unshared_len = enc.key_len
           /\ Start \in Str /\ Rest(records, fed) \in Str /\ Lens(records, fed) \in Str
           /\ Cat(Start, Rest(records, fed)) \in Str
           /\ Rest(records, fed) = SubSeq(records[fed].key, enc.shared_len + 1, enc.key_len)
           /\ \A i \in 1..enc.key_len :
                  enc.key_buf[1 - enc.prev_buf_sel][i - 1] = records[fed].key[i]
<1>1. EncType /\ RestartInv /\ KeyInv /\ LengthInv /\ OutInv
  BY DEF EncInv
<1>2. InRecord
  BY DEF InRecord
<1>3. /\ fed \in 1..Len(records) /\ written = fed - 1
      /\ Lens(records, fed) \in Str /\ Rest(records, fed) \in Str
      /\ Start \in Str /\ Cat(Start, Rest(records, fed)) \in Str
      /\ records[fed].key \in Seq(Byte) /\ records[fed].value \in Seq(Byte)
      /\ Len(records[fed].key) \in 1..MaxKeyBytes /\ Len(records[fed].value) \in Nat
      /\ Shared(records, RestartInterval, fed) \in Nat
      /\ Shared(records, RestartInterval, fed) <= Len(records[fed].key)
  BY <1>1, <1>2, RecordFacts
<1>4. /\ enc.key_len = Len(records[fed].key) /\ enc.value_len = Len(records[fed].value)
      /\ \A i \in 1..enc.recv_idx :
             enc.key_buf[1 - enc.prev_buf_sel][i - 1] = records[fed].key[i]
  BY <1>1, <1>2 DEF KeyInv
<1>5. /\ enc.recv_idx = enc.key_len
      /\ enc.shared_len = Shared(records, RestartInterval, fed)
      /\ enc.unshared_len = enc.key_len - enc.shared_len
  BY <1>1 DEF LengthInv
<1>6. enc.key_len \in 1..MaxKeyBytes /\ enc.shared_len \in Nat /\ enc.shared_len <= enc.key_len
  BY <1>3, <1>4, <1>5
<1>7. enc.unshared_len \in Nat /\ enc.shared_len + enc.unshared_len = enc.key_len
  BY <1>5, <1>6
<1>8. Rest(records, fed) = SubSeq(records[fed].key, enc.shared_len + 1, enc.key_len)
  BY <1>4, <1>5 DEF Rest
<1>9. \A i \in 1..enc.key_len : enc.key_buf[1 - enc.prev_buf_sel][i - 1] = records[fed].key[i]
  BY <1>4, <1>5
<1>10. enc.value_len \in Nat
  BY <1>3, <1>4
<1> QED BY <1>1, <1>2, <1>3, <1>4, <1>5, <1>6, <1>7, <1>8, <1>9, <1>10

LEMMA WriteVarintsStep ==
    ASSUME EncInv, WriteVarints
    PROVE  EncInv'
<1>0. enc.state = "WRITE_VARINTS"
  BY DEF WriteVarints
<1>1. ~enc.error
  BY <1>0 DEF EncInv, GivenUp
<1>2. CASE WriteFails
  BY <1>0, <1>1, <1>2, WriteFailsStep
<1>3. CASE ~WriteFails
  <2> DEFINE word == (varint[enc.shared_len] \o varint[enc.unshared_len]) \o varint[enc.value_len]
             key == records[fed].key
             v == records[fed].value
  <2>1. /\ Emit(word) /\ out' = out /\ records' = records /\ fed' = fed
        /\ enc' = [enc EXCEPT
                  !.block_write_index = enc.block_write_index + Len(word),
                  !.block_copy_idx = 0,
                  !.value_rem = IF enc.unshared_len = 0 THEN enc.value_len ELSE enc.value_rem,
                  !.state = IF enc.unshared_len = 0 THEN "STREAM_VALUE" ELSE "WRITE_KEY"]
    BY <1>3 DEF WriteVarints
  <2>2. /\ EncType /\ OutInv /\ written = fed - 1
        /\ enc.key_len = Len(key) /\ enc.value_len = Len(v)
        /\ enc.shared_len = Shared(records, RestartInterval, fed)
        /\ enc.unshared_len = enc.key_len - enc.shared_len
        /\ enc.shared_len \in Nat /\ enc.unshared_len \in Nat /\ enc.value_len \in Nat
        /\ enc.shared_len + enc.unshared_len = enc.key_len
        /\ Start \in Str /\ Lens(records, fed) \in Str
        /\ Rest(records, fed) = SubSeq(key, enc.shared_len + 1, enc.key_len)
        /\ key \in Seq(Byte) /\ v \in Seq(Byte)
    BY <1>0, <1>1, WritingFacts
  <2>3. word = Lens(records, fed)
    BY <2>2 DEF Lens, Lengths
  <2> HIDE DEF word
  <2>4. /\ Sent' = Cat(Sent, word) /\ Len(Sent') = Len(Sent) + Len(word) /\ emit' \in Str
        /\ Len(Sent) \in Nat /\ Len(word) \in Nat
    BY <2>1, <2>2, <2>3, SentEmit
  <2>5. Sent = Ent(records, written) /\ enc.block_write_index = Len(Sent)
    BY <1>0, <2>2 DEF OutInv
  <2>6. Sent' = Start
    BY <2>3, <2>4, <2>5 DEF Start
  <2>7. /\ enc'.block_write_index = enc.block_write_index + Len(word) /\ enc'.block_copy_idx = 0
        /\ enc'.value_rem = (IF enc.unshared_len = 0 THEN enc.value_len ELSE enc.value_rem)
        /\ enc'.state = (IF enc.unshared_len = 0 THEN "STREAM_VALUE" ELSE "WRITE_KEY")
        /\ enc'.error = enc.error /\ enc'.mismatch_found = enc.mismatch_found
        /\ enc'.restart_offset_mem = enc.restart_offset_mem
        /\ enc'.entries_since_restart = enc.entries_since_restart
        /\ enc'.is_restart_point = enc.is_restart_point
        /\ enc'.prev_key_len = enc.prev_key_len /\ enc'.prev_buf_sel = enc.prev_buf_sel
        /\ enc'.key_buf = enc.key_buf /\ enc'.recv_idx = enc.recv_idx
        /\ enc'.key_len = enc.key_len /\ enc'.value_len = enc.value_len
        /\ enc'.shared_len = enc.shared_len /\ enc'.unshared_len = enc.unshared_len
        /\ enc'.restart_emit_idx = enc.restart_emit_idx
        /\ enc'.output_block_bytes = enc.output_block_bytes
    BY <2>1, <2>2 DEF EncType, EncShape
  <2>8. SameRecord
    BY <1>0, <2>1, <2>7 DEF SameRecord
  <2>9. /\ RestartInv' /\ PrevInv' /\ KeyInv' /\ MatchInv' /\ LengthInv' /\ TailInv'
        /\ Start' = Start
    BY <1>1, <2>8, RecordFrame
  <2>10. EncType'
    <3>1. EncShape'
      BY <2>1, <2>2 DEF EncType, EncShape
    <3>2. EncFlags /\ EncRegisters
      BY <2>2 DEF EncType
    <3>3. EncFlags'
      BY <2>7, <3>2 DEF EncFlags, States
    <3>4. enc'.block_write_index \in Nat /\ enc'.value_rem \in Int
      BY <2>2, <2>4, <2>5, <2>7, <3>2 DEF EncRegisters
    <3>a. 0 \in Nat
      OBVIOUS
    <3>b. enc'.block_copy_idx \in Nat
      BY <2>7, <3>a, Zenon
    <3>5. EncRegisters'
      BY <2>7, <3>2, <3>4, <3>b, Zenon DEF EncRegisters
    <3> QED BY <2>1, <2>2, <2>4, <3>1, <3>3, <3>5 DEF EncType
  <2>11. enc'.block_write_index = Len(Sent')
    BY <2>4, <2>5, <2>7
  <2>12. OutInv'
    <3>1. \A a \in Nat : SubSeq(key, a + 1, a) = <<>>
      BY <2>2, NoPiece
    <3>2. Cat(Start, <<>>) = Start
      BY <2>2, EmptyStr
    <3>3. CASE enc.unshared_len = 0
      <4>1. enc'.state = "STREAM_VALUE" /\ enc'.value_rem = enc.value_len
        BY <2>7, <3>3
      <4>2. enc.key_len = enc.shared_len
        BY <2>2, <3>3
      <4>3. Rest(records, fed) = <<>>
        BY <2>2, <3>1, <4>2
      <4>4. SubSeq(v, 0 + 1, 0) = <<>> /\ 0 + 1 = 1 /\ 0 \in Nat
        BY <2>2, NoPiece
      <4>5. enc.value_len - enc.value_len = 0
        BY <2>2
      <4>6. Cat(Cat(Start, Rest(records, fed)), SubSeq(v, 1, enc.value_len - enc.value_len)) = Start
        BY <3>2, <4>3, <4>4, <4>5
      <4>7. 0 <= enc.value_len /\ enc.value_len <= enc.value_len
        BY <2>2
      <4> QED BY <2>1, <2>6, <2>7, <2>9, <2>11, <4>1, <4>6, <4>7 DEF OutInv
    <3>4. CASE enc.unshared_len /= 0
      <4>1. enc'.state = "WRITE_KEY"
        BY <2>7, <3>4
      <4>2. enc.shared_len + 0 = enc.shared_len /\ 0 <= enc.unshared_len
        BY <2>2
      <4>3. Cat(Start, SubSeq(key, enc.shared_len + 1, enc.shared_len + 0)) = Start
        BY <2>2, <3>1, <3>2, <4>2
      <4> QED BY <2>1, <2>6, <2>7, <2>9, <2>11, <4>1, <4>2, <4>3 DEF OutInv
    <3> QED BY <3>3, <3>4
  <2> QED BY <1>1, <2>7, <2>9, <2>10, <2>12 DEF EncInv
<1> QED BY <1>2, <1>3

\* The n cells of a buffer from index b on.
Cells(f, b, n) == [k \in 1..n |-> f[b + k - 1]]

\* A word read from the buffer is a piece of the key.
LEMMA BufferWord ==
    ASSUME NEW key \in Seq(Byte), NEW f, NEW b \in Nat, NEW n \in Nat, b + n <= Len(key),
           \A i \in 1..Len(key) : f[i - 1] = key[i]
    PROVE  Cells(f, b, n) = SubSeq(key, b + 1, b + n)
<1> DEFINE w == [k \in 1..n |-> f[b + k - 1]]
           c == b + n
           p == SubSeq(key, b + 1, c)
<1>1. c \in Nat /\ b <= c /\ c <= Len(key) /\ c - b = n /\ Len(key) \in Nat
  OBVIOUS
<1>2. p \in Seq(Byte) /\ Len(p) = c - b /\ \A i \in 1..c - b : p[i] = key[b + i]
  BY <1>1, Piece
<1>3. \A i \in 1..n : b + i \in 1..Len(key) /\ (b + i) - 1 = b + i - 1
  BY <1>1
<1> HIDE DEF c, p
<1>4. \A i \in 1..n : w[i] = key[b + i]
  BY <1>3
<1>5. \A i \in 1..n : key[b + i] \in Byte
  BY <1>3, ElementOfSeq
<1>6. w \in [1..n -> Byte]
  BY <1>4, <1>5
<1> HIDE DEF w
<1>7. w \in Seq(Byte) /\ Len(w) = n
  BY ONLY <1>6, SeqByElement, n \in Nat
<1>8. Len(w) = Len(p) /\ \A i \in 1..Len(w) : w[i] = p[i]
  BY <1>1, <1>2, <1>4, <1>7
<1>9. w = p
  BY <1>2, <1>7, <1>8, SeqEqual
<1> QED BY <1>9 DEF Cells, w, p, c

LEMMA MinPair ==
    ASSUME NEW a \in Nat, NEW b \in Nat
    PROVE  Min({a, b}) \in Nat /\ Min({a, b}) <= a /\ Min({a, b}) <= b
           /\ (Min({a, b}) = a \/ Min({a, b}) = b)
<1>1. {a, b} \subseteq Nat /\ {a, b} /= {}
  OBVIOUS
<1>2. Min({a, b}) \in {a, b} /\ \A y \in {a, b} : Min({a, b}) <= y
  BY <1>1, MinOf
<1> QED BY <1>2

LEMMA WriteKeyStep ==
    ASSUME EncInv, WriteKey
    PROVE  EncInv'
<1> DEFINE key == records[fed].key
           v == records[fed].value
           sh == enc.shared_len
           c == enc.block_copy_idx
           n == Min({WordBytes, enc.unshared_len - c})
           b == sh + c
           d == b + n
           f == enc.key_buf[1 - enc.prev_buf_sel]
           word == [k \in 1..n |-> f[b + k - 1]]
<1>0. enc.state = "WRITE_KEY"
  BY DEF WriteKey
<1>1. ~enc.error
  BY <1>0 DEF EncInv, GivenUp
<1>2. /\ EncType /\ OutInv /\ written = fed - 1
      /\ enc.key_len = Len(key) /\ enc.value_len = Len(v)
      /\ sh \in Nat /\ enc.unshared_len \in Nat /\ enc.value_len \in Nat
      /\ sh + enc.unshared_len = enc.key_len
      /\ Start \in Str /\ Rest(records, fed) = SubSeq(key, sh + 1, enc.key_len)
      /\ Cat(Start, Rest(records, fed)) \in Str
      /\ key \in Seq(Byte) /\ v \in Seq(Byte)
      /\ \A i \in 1..enc.key_len : f[i - 1] = key[i]
  BY <1>0, <1>1, WritingFacts
<1>3. /\ c <= enc.unshared_len /\ Sent = Cat(Start, SubSeq(key, sh + 1, b))
      /\ enc.block_write_index = Len(Sent)
  BY <1>0, <1>2 DEF OutInv
<1>4. c \in Nat /\ EncFlags /\ EncRegisters
  BY <1>2 DEF EncType, EncRegisters
<1>5. enc.unshared_len - c \in Nat /\ WordBytes \in Nat /\ WordBytes > 0
  BY <1>2, <1>3, <1>4, FormatAssumption
<1>6. n \in Nat /\ n <= enc.unshared_len - c /\ (n = 0 => enc.unshared_len - c = 0)
  BY <1>5, MinPair
<1>7. \/ /\ n = 0
         /\ enc' = [enc EXCEPT !.state = "STREAM_VALUE", !.value_rem = enc.value_len]
         /\ UNCHANGED <<emit, out, records, fed>>
      \/ WriteFails
      \/ /\ n # 0 /\ Emit(word)
         /\ enc' = [enc EXCEPT !.block_write_index = enc.block_write_index + n,
                               !.block_copy_idx = c + n]
         /\ UNCHANGED <<out, records, fed>>
  BY DEF WriteKey
<1> HIDE DEF n
<1>8. CASE WriteFails
  BY <1>0, <1>1, <1>8, WriteFailsStep
<1>9. CASE /\ n = 0
           /\ enc' = [enc EXCEPT !.state = "STREAM_VALUE", !.value_rem = enc.value_len]
           /\ UNCHANGED <<emit, out, records, fed>>
  <2>1. /\ enc'.state = "STREAM_VALUE" /\ enc'.value_rem = enc.value_len
        /\ enc'.block_write_index = enc.block_write_index /\ enc'.block_copy_idx = c
        /\ enc'.error = enc.error /\ enc'.mismatch_found = enc.mismatch_found
        /\ enc'.restart_offset_mem = enc.restart_offset_mem
        /\ enc'.entries_since_restart = enc.entries_since_restart
        /\ enc'.is_restart_point = enc.is_restart_point
        /\ enc'.prev_key_len = enc.prev_key_len /\ enc'.prev_buf_sel = enc.prev_buf_sel
        /\ enc'.key_buf = enc.key_buf /\ enc'.recv_idx = enc.recv_idx
        /\ enc'.key_len = enc.key_len /\ enc'.value_len = enc.value_len
        /\ enc'.shared_len = enc.shared_len /\ enc'.unshared_len = enc.unshared_len
        /\ enc'.restart_emit_idx = enc.restart_emit_idx
        /\ enc'.output_block_bytes = enc.output_block_bytes
    BY <1>2, <1>9 DEF EncType, EncShape
  <2>2. SameRecord
    BY <1>0, <1>9, <2>1 DEF SameRecord
  <2>3. /\ RestartInv' /\ PrevInv' /\ KeyInv' /\ MatchInv' /\ LengthInv' /\ TailInv'
        /\ Start' = Start
    BY <1>1, <2>2, RecordFrame
  <2>4. EncType'
    <3>1. EncShape'
      BY <1>2, <1>9 DEF EncType, EncShape
    <3>2. EncFlags'
      BY <1>4, <2>1 DEF EncFlags, States
    <3>a. enc'.value_rem \in Int
      BY <1>2, <2>1
    <3>3. EncRegisters'
      BY <1>4, <2>1, <3>a DEF EncRegisters
    <3> QED BY <1>2, <1>9, <3>1, <3>2, <3>3 DEF EncType
  <2>5. Sent' = Sent
    BY <1>9 DEF Sent
  <2>6. b = enc.key_len
    BY <1>2, <1>4, <1>6, <1>9
  <2>7. Sent = Cat(Start, Rest(records, fed))
    BY <1>2, <1>3, <2>6
  <2>8. SubSeq(v, 0 + 1, 0) = <<>> /\ 0 + 1 = 1 /\ 0 \in Nat
    BY <1>2, NoPiece
  <2>9. enc.value_len - enc.value_len = 0 /\ 0 <= enc.value_len /\ enc.value_len <= enc.value_len
    BY <1>2
  <2>10. Cat(Cat(Start, Rest(records, fed)), SubSeq(v, 1, enc.value_len - enc.value_len)) = Sent
    BY <1>2, <2>7, <2>8, <2>9, EmptyStr
  <2>11. OutInv'
    BY <1>3, <1>9, <2>1, <2>3, <2>5, <2>9, <2>10 DEF OutInv
  <2> QED BY <1>1, <2>1, <2>3, <2>4, <2>11 DEF EncInv
<1>10. CASE /\ n # 0 /\ Emit(word)
            /\ enc' = [enc EXCEPT !.block_write_index = enc.block_write_index + n,
                                  !.block_copy_idx = c + n]
            /\ UNCHANGED <<out, records, fed>>
  <2>1. /\ enc'.state = "WRITE_KEY" /\ enc'.value_rem = enc.value_rem
        /\ enc'.block_write_index = enc.block_write_index + n /\ enc'.block_copy_idx = c + n
        /\ enc'.error = enc.error /\ enc'.mismatch_found = enc.mismatch_found
        /\ enc'.restart_offset_mem = enc.restart_offset_mem
        /\ enc'.entries_since_restart = enc.entries_since_restart
        /\ enc'.is_restart_point = enc.is_restart_point
        /\ enc'.prev_key_len = enc.prev_key_len /\ enc'.prev_buf_sel = enc.prev_buf_sel
        /\ enc'.key_buf = enc.key_buf /\ enc'.recv_idx = enc.recv_idx
        /\ enc'.key_len = enc.key_len /\ enc'.value_len = enc.value_len
        /\ enc'.shared_len = enc.shared_len /\ enc'.unshared_len = enc.unshared_len
        /\ enc'.restart_emit_idx = enc.restart_emit_idx
        /\ enc'.output_block_bytes = enc.output_block_bytes
    BY <1>0, <1>2, <1>10 DEF EncType, EncShape
  <2>2. SameRecord
    BY <1>0, <1>10, <2>1 DEF SameRecord
  <2>3. /\ RestartInv' /\ PrevInv' /\ KeyInv' /\ MatchInv' /\ LengthInv' /\ TailInv'
        /\ Start' = Start
    BY <1>1, <2>2, RecordFrame
  <2> HIDE DEF key, sh, c, f
  <2>4. /\ b \in Nat /\ d \in Nat /\ sh <= b /\ b <= d /\ d <= Len(key) /\ b <= Len(key)
        /\ d - b = n /\ sh + (c + n) = d /\ c + n <= enc.unshared_len /\ c + n \in Nat
    <3>1. \A x, y, z, u, k \in Nat :
            z <= u - y /\ x + u = k =>
               /\ x + y \in Nat /\ x + y + z \in Nat /\ x <= x + y /\ x + y <= x + y + z
               /\ x + y + z <= k /\ x + y <= k /\ (x + y + z) - (x + y) = z
               /\ x + (y + z) = x + y + z /\ y + z <= u /\ y + z \in Nat
      BY SMT
    <3>2. sh \in Nat /\ c \in Nat /\ n \in Nat /\ enc.unshared_len \in Nat /\ Len(key) \in Nat
      BY <1>2, <1>4, <1>6
    <3>3. n <= enc.unshared_len - c /\ sh + enc.unshared_len = Len(key)
      BY <1>2, <1>6, Zenon
    <3> QED BY <3>1, <3>2, <3>3
  <2> DEFINE p == SubSeq(key, sh + 1, b)
             w == SubSeq(key, b + 1, d)
  <2>5. word = w
    <3>1. \A i \in 1..Len(key) : f[i - 1] = key[i]
      BY <1>2
    <3>2. key \in Seq(Byte) /\ b \in Nat /\ n \in Nat /\ b + n <= Len(key)
      BY <1>2, <1>6, <2>4
    <3> HIDE DEF b
    <3>3. Cells(f, b, n) = SubSeq(key, b + 1, b + n)
      BY ONLY <3>1, <3>2, BufferWord
    <3> QED BY ONLY <3>3 DEF Cells, word, w, d
  <2> HIDE DEF b, d, word
  <2>6. key \in Seq(Byte) /\ sh \in Nat
    BY <1>2
  <2>7. p \in Str
    BY ONLY <2>4, <2>6, PieceStr
  <2>8. w \in Str /\ Len(w) = d - b
    BY ONLY <2>4, <2>6, PieceStr
  <2>9. Cat(p, w) = SubSeq(key, sh + 1, d)
    BY ONLY <2>4, <2>6, PiecesStr
  <2> HIDE DEF p, w
  <2>10. Emit(w) /\ out' = out
    BY <1>10, <2>5
  <2>11. /\ Sent' = Cat(Sent, w) /\ Len(Sent') = Len(Sent) + Len(w) /\ emit' \in Str
         /\ Len(Sent) \in Nat /\ Len(w) \in Nat
    BY <1>2, <2>8, <2>10, SentEmit
  <2>12. Sent' = Cat(Start, Cat(p, w))
    BY <1>2, <1>3, <2>7, <2>8, <2>11, CatAssoc DEF p
  <2>13. Sent' = Cat(Start, SubSeq(key, sh + 1, sh + (c + n)))
    BY <2>4, <2>9, <2>12
  <2>14. enc'.block_write_index = Len(Sent') /\ enc'.block_write_index \in Nat
    BY <1>3, <2>1, <2>4, <2>8, <2>11
  <2>15. EncType'
    <3>1. EncShape'
      BY <1>2, <1>10 DEF EncType, EncShape
    <3>2. EncFlags'
      BY <1>4, <2>1 DEF EncFlags, States
    <3>3. EncRegisters'
      BY <1>4, <2>1, <2>4, <2>14 DEF EncRegisters
    <3> QED BY <1>2, <1>10, <2>11, <3>1, <3>2, <3>3 DEF EncType
  <2>16. OutInv'
    BY <1>10, <2>1, <2>3, <2>4, <2>13, <2>14 DEF OutInv, key, sh
  <2> QED BY <1>1, <2>1, <2>3, <2>15, <2>16 DEF EncInv
<1> QED BY <1>7, <1>8, <1>9, <1>10

LEMMA StreamValueStep ==
    ASSUME EncInv, NEW n \in 1..WordBytes, StreamValue(n)
    PROVE  EncInv'
<1> DEFINE v == records[fed].value
           hr == Cat(Start, Rest(records, fed))
           s == enc.value_len - enc.value_rem
           d == s + n
<1>0. enc.state = "STREAM_VALUE" /\ n <= enc.value_rem
  BY DEF StreamValue
<1>1. ~enc.error
  BY <1>0 DEF EncInv, GivenUp
<1>2. CASE WriteFails
  BY <1>0, <1>1, <1>2, WriteFailsStep
<1>3. CASE ~WriteFails
  <2>1. /\ Emit(SubSeq(v, s + 1, d)) /\ UNCHANGED <<out, records, fed>>
        /\ enc' = [enc EXCEPT !.block_write_index = enc.block_write_index + n,
                              !.value_rem = enc.value_rem - n]
    BY <1>3 DEF StreamValue
  <2>2. /\ EncType /\ OutInv /\ enc.value_len = Len(v) /\ enc.value_len \in Nat
        /\ hr \in Str /\ v \in Seq(Byte)
    BY <1>0, <1>1, WritingFacts
  <2>3. /\ 0 <= enc.value_rem /\ enc.value_rem <= enc.value_len
        /\ Sent = Cat(hr, SubSeq(v, 1, s)) /\ enc.block_write_index = Len(Sent)
    BY <1>0, <2>2 DEF OutInv
  <2>4. EncFlags /\ EncRegisters /\ enc.value_rem \in Int
    BY <2>2 DEF EncType, EncRegisters
  <2>5. /\ enc'.state = "STREAM_VALUE" /\ enc'.value_rem = enc.value_rem - n
        /\ enc'.block_write_index = enc.block_write_index + n
        /\ enc'.block_copy_idx = enc.block_copy_idx
        /\ enc'.error = enc.error /\ enc'.mismatch_found = enc.mismatch_found
        /\ enc'.restart_offset_mem = enc.restart_offset_mem
        /\ enc'.entries_since_restart = enc.entries_since_restart
        /\ enc'.is_restart_point = enc.is_restart_point
        /\ enc'.prev_key_len = enc.prev_key_len /\ enc'.prev_buf_sel = enc.prev_buf_sel
        /\ enc'.key_buf = enc.key_buf /\ enc'.recv_idx = enc.recv_idx
        /\ enc'.key_len = enc.key_len /\ enc'.value_len = enc.value_len
        /\ enc'.shared_len = enc.shared_len /\ enc'.unshared_len = enc.unshared_len
        /\ enc'.restart_emit_idx = enc.restart_emit_idx
        /\ enc'.output_block_bytes = enc.output_block_bytes
    BY <1>0, <2>1, <2>2 DEF EncType, EncShape
  <2>6. SameRecord
    BY <1>0, <2>1, <2>5 DEF SameRecord
  <2>7. /\ RestartInv' /\ PrevInv' /\ KeyInv' /\ MatchInv' /\ LengthInv' /\ TailInv'
        /\ Start' = Start
    BY <1>1, <2>6, RecordFrame
  <2>8. n \in Nat
    BY FormatAssumption
  <2> HIDE DEF v, hr
  <2>9. /\ s \in Nat /\ d \in Nat /\ 0 <= s /\ s <= d /\ d <= Len(v) /\ d - s = n /\ s <= Len(v)
        /\ enc.value_len - (enc.value_rem - n) = d /\ 0 <= enc.value_rem - n
        /\ enc.value_rem - n <= enc.value_len /\ enc.value_rem - n \in Int /\ 0 + 1 = 1 /\ 0 \in Nat
    <3>1. \A l, r, k \in Int : /\ 0 <= r /\ r <= l /\ 0 <= k /\ k <= r
                              => /\ l - r \in Nat /\ (l - r) + k \in Nat /\ 0 <= l - r
                                 /\ l - r <= (l - r) + k /\ (l - r) + k <= l
                                 /\ ((l - r) + k) - (l - r) = k /\ l - r <= l
                                 /\ l - (r - k) = (l - r) + k /\ 0 <= r - k
                                 /\ r - k <= l /\ r - k \in Int
      OBVIOUS
    <3>2. enc.value_len \in Int /\ n \in Int /\ 0 <= n /\ n <= enc.value_rem
      BY <1>0, <2>2, <2>8
    <3>3. Len(v) = enc.value_len
      BY <2>2
    <3>4. 0 + 1 = 1 /\ 0 \in Nat
      OBVIOUS
    <3> QED BY ONLY <2>3, <2>4, <3>1, <3>2, <3>3, <3>4
  <2> HIDE DEF s, d
  <2> DEFINE p == SubSeq(v, 0 + 1, s)
             w == SubSeq(v, s + 1, d)
  <2>10. v \in Seq(Byte)
    BY <2>2
  <2>11. p \in Str
    BY ONLY <2>9, <2>10, PieceStr
  <2>12. w \in Str /\ Len(w) = d - s
    BY ONLY <2>9, <2>10, PieceStr
  <2>13. Cat(p, w) = SubSeq(v, 0 + 1, d)
    BY ONLY <2>9, <2>10, PiecesStr
  <2>14. Sent = Cat(hr, p)
    BY <2>3, <2>9
  <2> HIDE DEF p, w
  <2>15. Emit(w) /\ out' = out
    BY <2>1 DEF w
  <2>16. /\ Sent' = Cat(Sent, w) /\ Len(Sent') = Len(Sent) + Len(w) /\ emit' \in Str
         /\ Len(Sent) \in Nat /\ Len(w) \in Nat
    BY <2>2, <2>12, <2>15, SentEmit
  <2>17. Sent' = Cat(hr, Cat(p, w))
    BY <2>2, <2>11, <2>12, <2>14, <2>16, CatAssoc
  <2>18. Sent' = Cat(hr, SubSeq(v, 1, d))
    BY <2>9, <2>13, <2>17
  <2>19. enc'.block_write_index = Len(Sent') /\ enc'.block_write_index \in Nat
    BY <2>3, <2>5, <2>8, <2>9, <2>12, <2>16
  <2>20. EncType'
    <3>1. EncShape'
      BY <2>1, <2>2 DEF EncType, EncShape
    <3>2. EncFlags'
      BY <2>4, <2>5 DEF EncFlags, States
    <3>3. EncRegisters'
      BY <2>4, <2>5, <2>9, <2>19 DEF EncRegisters
    <3> QED BY <2>1, <2>2, <2>16, <3>1, <3>2, <3>3 DEF EncType
  <2>21. OutInv'
    BY <2>1, <2>5, <2>7, <2>9, <2>18, <2>19 DEF OutInv, v, hr
  <2> QED BY <1>1, <2>5, <2>7, <2>20, <2>21 DEF EncInv
<1> QED BY <1>2, <1>3

\* One or two restart offsets in a word.
LEMMA FlattenShort ==
    ASSUME NEW q \in Seq(Seq(Symbol))
    PROVE  /\ Len(q) = 1 => FlattenSeq(q) = q[1]
           /\ Len(q) = 2 => FlattenSeq(q) = Cat(q[1], q[2])
<1>1. ASSUME Len(q) = 1 PROVE FlattenSeq(q) = q[1]
  <2>1. Len(q) > 0
    BY <1>1
  <2>2. PICK g : g[1] = q[1] /\ FlattenSeq(q) = g[Len(q)]
    BY <2>1, FlattenFun
  <2> QED BY <1>1, <2>2
<1>2. ASSUME Len(q) = 2 PROVE FlattenSeq(q) = Cat(q[1], q[2])
  <2>1. Len(q) > 0 /\ 2 \in 2..Len(q) /\ 2 - 1 = 1
    BY <1>2
  <2>2. PICK g : /\ g[1] = q[1] /\ \A i \in 2..Len(q) : g[i] = g[i - 1] \o q[i]
                 /\ FlattenSeq(q) = g[Len(q)]
    BY <2>1, FlattenFun
  <2>3. g[2] = g[2 - 1] \o q[2]
    BY <2>1, <2>2
  <2>4. g[2] = Cat(q[1], q[2])
    BY <2>1, <2>2, <2>3 DEF Cat
  <2> QED BY <1>2, <2>2, <2>4
<1> QED BY <1>1, <1>2

LEMMA RestartWord ==
    ASSUME NEW R \in Seq(Record), NEW k \in Nat, NEW p \in {1, 2},
           \A j \in 1..k + p : (j - 1) * RestartInterval \in 0..Len(R),
           NEW q \in Seq(Seq(Symbol)), Len(q) = p,
           \A i \in 1..p : q[i] = Fixed(Len(Ent(R, ((k + i) - 1) * RestartInterval)))
    PROVE  /\ FlattenSeq(q) \in Str /\ Len(FlattenSeq(q)) = FixedBytes * p
           /\ Flat(R, k + p) = Cat(Flat(R, k), FlattenSeq(q))
<1> DEFINE x(n) == Fixed(Len(Ent(R, n * RestartInterval)))
<1>0. FixedBytes \in Nat
  BY FormatAssumption
<1>1. /\ \A j \in 1..k : (j - 1) * RestartInterval \in 0..Len(R)
      /\ \A j \in 1..k + 1 : (j - 1) * RestartInterval \in 0..Len(R)
  <2>1. \A j \in 1..k + 1 : j \in 1..k + p
    OBVIOUS
  <2>2. \A j \in 1..k : j \in 1..k + 1
    OBVIOUS
  <2> QED BY <2>1, <2>2
<1>2. x(k) \in Str /\ Len(x(k)) = FixedBytes /\ Flat(R, k + 1) = Cat(Flat(R, k), x(k))
  BY <1>1, FlatNext
<1>3. Flat(R, k) \in Str
  BY <1>1, FlatStr
<1>4. q[1] = x(k)
  <2>1. 1 \in 1..p /\ (k + 1) - 1 = k
    OBVIOUS
  <2> QED BY <2>1
<1>5. CASE p = 1
  <2>1. FlattenSeq(q) = x(k)
    BY <1>4, <1>5, FlattenShort
  <2>2. FixedBytes * 1 = FixedBytes
    BY <1>0
  <2> QED BY <1>2, <1>5, <2>1, <2>2
<1>6. CASE p = 2
  <2>1. k + 1 \in Nat /\ (k + 1) + 1 = k + 2 /\ 2 \in 1..p /\ (k + 2) - 1 = k + 1
    BY <1>6
  <2>2. \A j \in 1..(k + 1) + 1 : (j - 1) * RestartInterval \in 0..Len(R)
    BY <1>6, <2>1
  <2>3. x(k + 1) \in Str /\ Len(x(k + 1)) = FixedBytes
        /\ Flat(R, (k + 1) + 1) = Cat(Flat(R, k + 1), x(k + 1))
    BY <2>1, <2>2, FlatNext
  <2>4. q[2] = x(k + 1)
    BY <2>1
  <2>5. FlattenSeq(q) = Cat(q[1], q[2])
    BY <1>6, FlattenShort
  <2> HIDE DEF x
  <2>6. FlattenSeq(q) = Cat(x(k), x(k + 1))
    BY <1>4, <2>4, <2>5
  <2>7. Cat(x(k), x(k + 1)) \in Str /\ Len(Cat(x(k), x(k + 1))) = FixedBytes + FixedBytes
    BY <1>2, <2>3, CatStr
  <2>8. Cat(Cat(Flat(R, k), x(k)), x(k + 1)) = Cat(Flat(R, k), Cat(x(k), x(k + 1)))
    BY <1>2, <1>3, <2>3, CatAssoc
  <2>9. FixedBytes * 2 = FixedBytes + FixedBytes
    BY <1>0
  <2>10. Flat(R, k + 2) = Cat(Flat(R, k), Cat(x(k), x(k + 1)))
    BY <1>2, <2>1, <2>3, <2>8
  <2> QED BY <1>6, <2>6, <2>7, <2>9, <2>10
<1> QED BY <1>5, <1>6

LEMMA AppendRestartsStep ==
    ASSUME EncInv, AppendRestarts
    PROVE  EncInv'
<1> DEFINE offs == enc.restart_offset_mem
           m == Len(offs)
           k == enc.restart_emit_idx
           left == SubSeq(offs, k + 1, m)
           p == Min({2, Len(left)})
           pair == SubSeq(left, 1, p)
           q == [i \in DOMAIN pair |-> Fixed(pair[i])]
           I == RestartInterval
           a == Ent(records, fed)
<1>0. enc.state = "APPEND_RESTARTS"
  BY DEF AppendRestarts
<1>1. ~enc.error /\ EncType /\ RestartInv /\ PrevInv /\ TailInv /\ OutInv
  BY <1>0 DEF EncInv, GivenUp
<1>2. \/ /\ left = <<>> /\ enc' = [enc EXCEPT !.state = "APPEND_RST_CNT"]
         /\ UNCHANGED <<emit, out, records, fed>>
      \/ /\ left # <<>> /\ Emit(FlattenSeq(q)) /\ UNCHANGED <<out, records, fed>>
         /\ enc' = [enc EXCEPT !.block_write_index = enc.block_write_index + FixedBytes * Len(pair),
                               !.restart_emit_idx = k + Len(pair)]
  BY DEF AppendRestarts
<1>3. offs \in Seq(Nat) /\ m \in Nat /\ k \in Nat /\ EncFlags /\ EncRegisters
  <2>1. EncFlags /\ EncRegisters
    BY <1>1 DEF EncType
  <2>2. offs \in Seq(Nat) /\ k \in Nat
    BY <2>1 DEF EncRegisters
  <2> HIDE DEF offs
  <2>3. m \in Nat
    BY <2>2
  <2> QED BY <2>1, <2>2, <2>3
<1>4. k <= m /\ Sent = Cat(a, Flat(records, k)) /\ enc.block_write_index = Len(Sent)
  BY <1>0, <1>1 DEF OutInv
<1>5. fed = Len(records) /\ m = (Len(records) - 1) \div I + 1
  BY <1>0, <1>1 DEF TailInv
<1>6. records \in Seq(Record) /\ records /= <<>>
  BY <1>1, RecordsType
<1>7. \A j \in 1..m : (j - 1) * I \in 0..Len(records)
  BY <1>5, <1>6, BlockStr
<1>8. \A j \in 1..m : offs[j] = Len(Ent(records, (j - 1) * I))
  BY <1>1 DEF RestartInv
<1>9. left \in Seq(Nat) /\ Len(left) = m - k /\ \A i \in 1..m - k : left[i] = offs[k + i]
  <2>1. m <= Len(offs)
    BY <1>3
  <2> HIDE DEF offs, m, k
  <2> QED BY ONLY <1>3, <1>4, <2>1, Piece
<1>10. UNCHANGED <<out, records, fed>>
  BY <1>2
<1>11. ASSUME /\ enc'.error = enc.error /\ enc'.restart_offset_mem = enc.restart_offset_mem
              /\ enc'.state \in {"APPEND_RESTARTS", "APPEND_RST_CNT"}
              /\ enc'.entries_since_restart = enc.entries_since_restart
              /\ enc'.prev_key_len = enc.prev_key_len /\ enc'.prev_buf_sel = enc.prev_buf_sel
              /\ enc'.key_buf = enc.key_buf
       PROVE  RestartInv' /\ PrevInv' /\ KeyInv' /\ MatchInv' /\ LengthInv' /\ TailInv'
  <2>1. ~InRecord /\ ~InRecord'
    BY <1>0, <1>11 DEF InRecord
  <2>2. written = fed /\ written' = fed
    BY <1>10, <2>1 DEF written
  <2>3. RestartInv'
    BY <1>1, <1>10, <1>11, <2>1, <2>2 DEF RestartInv
  <2>4. PrevInv'
    BY <1>1, <1>10, <1>11, <2>2 DEF PrevInv
  <2>5. KeyInv' /\ MatchInv' /\ LengthInv'
    BY <1>11, <2>1 DEF KeyInv, MatchInv, LengthInv
  <2>6. TailInv'
    BY <1>5, <1>10, <1>11 DEF TailInv
  <2> QED BY <2>3, <2>4, <2>5, <2>6
<1>12. CASE /\ left = <<>> /\ enc' = [enc EXCEPT !.state = "APPEND_RST_CNT"]
            /\ UNCHANGED <<emit, out, records, fed>>
  <2>1. k = m
    <3> HIDE DEF left, m, k
    <3>1. Len(left) = 0
      BY <1>12
    <3> QED BY <1>3, <1>4, <1>9, <3>1
  <2>2. /\ enc'.error = enc.error /\ enc'.restart_offset_mem = enc.restart_offset_mem
        /\ enc'.state = "APPEND_RST_CNT"
        /\ enc'.entries_since_restart = enc.entries_since_restart
        /\ enc'.prev_key_len = enc.prev_key_len /\ enc'.prev_buf_sel = enc.prev_buf_sel
        /\ enc'.key_buf = enc.key_buf /\ enc'.block_write_index = enc.block_write_index
    BY <1>1, <1>12 DEF EncType, EncShape
  <2>3. RestartInv' /\ PrevInv' /\ KeyInv' /\ MatchInv' /\ LengthInv' /\ TailInv'
    BY <1>11, <2>2
  <2>4. Sent' = Sent
    BY <1>12 DEF Sent
  <2>5. OutInv'
    BY <1>4, <1>12, <2>1, <2>2, <2>4 DEF OutInv
  <2>6. EncType'
    <3>1. EncShape'
      BY <1>1, <1>12 DEF EncType, EncShape
    <3>2. EncFlags' /\ EncRegisters'
      BY <1>1, <1>3, <1>12 DEF EncType, EncShape, EncFlags, EncRegisters, States
    <3> QED BY <1>1, <1>12, <3>1, <3>2 DEF EncType
  <2> QED BY <1>1, <2>2, <2>3, <2>5, <2>6 DEF EncInv
<1>13. CASE /\ left # <<>> /\ Emit(FlattenSeq(q)) /\ UNCHANGED <<out, records, fed>>
            /\ enc' = [enc EXCEPT !.block_write_index = enc.block_write_index + FixedBytes * Len(pair),
                                  !.restart_emit_idx = k + Len(pair)]
  <2>1. m - k \in Nat /\ m - k > 0
    <3> HIDE DEF left, m, k
    <3>1. left \in Seq(Nat) /\ left # <<>>
      BY <1>9, <1>13
    <3>2. Len(left) > 0
      BY <3>1
    <3> QED BY <1>3, <1>4, <1>9, <3>2
  <2>2. p \in {1, 2} /\ p <= m - k
    <3> DEFINE l == Len(left)
    <3>1. 2 \in Nat
      OBVIOUS
    <3> HIDE DEF left, m, k
    <3>2. l \in Nat /\ l = m - k
      BY <1>9, <2>1
    <3> HIDE DEF l
    <3>3. Min({2, l}) \in Nat /\ Min({2, l}) <= 2 /\ Min({2, l}) <= l
          /\ (Min({2, l}) = 2 \/ Min({2, l}) = l)
      BY ONLY <3>1, <3>2, MinPair
    <3>4. p \in Nat /\ p <= 2 /\ p <= m - k /\ (p = 2 \/ p = m - k)
      BY ONLY <3>2, <3>3 DEF l
    <3> HIDE DEF p
    <3> QED BY <2>1, <3>4
  <2>3. /\ pair \in Seq(Nat) /\ Len(pair) = p /\ DOMAIN pair = 1..p
        /\ \A i \in 1..p : pair[i] = left[i]
    <3> HIDE DEF left, p, m, k
    <3>1. p \in 0..Len(left)
      BY <1>9, <2>1, <2>2
    <3> QED BY <1>9, <3>1, Beginning
  <2> HIDE DEF p, pair, left
  <2>4. \A i \in 1..p : /\ i \in 1..m - k /\ k + i \in 1..m
    BY <1>3, <1>4, <2>1, <2>2
  <2>5. \A i \in 1..p : pair[i] = Len(Ent(records, ((k + i) - 1) * I))
    BY <1>8, <1>9, <2>3, <2>4
  <2>6. \A i \in 1..p : pair[i] \in Nat
    BY <2>3, ElementOfSeq
  <2>7. q \in Seq(Seq(Symbol)) /\ Len(q) = p
        /\ \A i \in 1..p : q[i] = Fixed(Len(Ent(records, ((k + i) - 1) * I)))
    <3>1. \A i \in 1..p : Fixed(pair[i]) \in Seq(Symbol)
      BY <2>6, FixedType
    <3>2. q \in [1..p -> Seq(Symbol)] /\ p \in Nat
      BY <2>2, <2>3, <3>1
    <3>3. \A i \in 1..p : q[i] = Fixed(pair[i])
      BY <2>3
    <3> HIDE DEF q
    <3>4. q \in Seq(Seq(Symbol)) /\ Len(q) = p
      BY ONLY <3>2, SeqByElement
    <3> QED BY <2>5, <3>3, <3>4
  <2> HIDE DEF q
  <2>8. \A j \in 1..k + p : (j - 1) * I \in 0..Len(records)
    <3>1. \A j \in 1..k + p : j \in 1..m
      BY <1>3, <1>4, <2>1, <2>2
    <3> QED BY <1>7, <3>1
  <2> DEFINE w == FlattenSeq(q)
  <2>9. w \in Str /\ Len(w) = FixedBytes * p /\ Flat(records, k + p) = Cat(Flat(records, k), w)
    BY <1>3, <1>6, <2>2, <2>7, <2>8, RestartWord
  <2> HIDE DEF w
  <2>10. a \in Str /\ Flat(records, k) \in Str
    <3>1. Len(records) \in 0..Len(records)
      BY <1>6
    <3>2. \A j \in 1..k : j \in 1..k + p
      BY <1>3, <2>2
    <3>3. \A j \in 1..k : (j - 1) * I \in 0..Len(records)
      BY <2>8, <3>2
    <3>4. a \in Str
      BY <1>5, <1>6, <3>1, EntStr
    <3>5. Flat(records, k) \in Str
      BY <1>3, <1>6, <3>3, FlatStr
    <3> QED BY <3>4, <3>5
  <2>11. /\ Sent' = Cat(Sent, w) /\ Len(Sent') = Len(Sent) + Len(w) /\ emit' \in Str
         /\ Len(Sent) \in Nat /\ Len(w) \in Nat
    BY <1>1, <1>13, <2>9, SentEmit DEF w
  <2> HIDE DEF a, I
  <2>12. Sent' = Cat(a, Flat(records, k + p))
    <3>1. Cat(Cat(a, Flat(records, k)), w) = Cat(a, Cat(Flat(records, k), w))
      BY <2>9, <2>10, CatAssoc
    <3> QED BY <1>4, <2>9, <2>11, <3>1
  <2>13. /\ enc'.error = enc.error /\ enc'.restart_offset_mem = enc.restart_offset_mem
         /\ enc'.state = "APPEND_RESTARTS"
         /\ enc'.entries_since_restart = enc.entries_since_restart
         /\ enc'.prev_key_len = enc.prev_key_len /\ enc'.prev_buf_sel = enc.prev_buf_sel
         /\ enc'.key_buf = enc.key_buf
         /\ enc'.block_write_index = enc.block_write_index + FixedBytes * p
         /\ enc'.restart_emit_idx = k + p
    BY <1>0, <1>1, <1>13, <2>3 DEF EncType, EncShape
  <2>14. RestartInv' /\ PrevInv' /\ KeyInv' /\ MatchInv' /\ LengthInv' /\ TailInv'
    BY <1>11, <2>13
  <2>15. enc'.block_write_index = Len(Sent') /\ enc'.block_write_index \in Nat
    BY <1>4, <2>9, <2>11, <2>13
  <2>16. k + p <= m /\ k + p \in Nat
    BY <1>3, <1>4, <2>1, <2>2
  <2>17. OutInv'
    BY <1>13, <2>12, <2>13, <2>15, <2>16 DEF OutInv, a
  <2>18. EncType'
    <3>1. EncShape'
      BY <1>1, <1>13 DEF EncType, EncShape
    <3>2. /\ enc'.mismatch_found = enc.mismatch_found /\ enc'.is_restart_point = enc.is_restart_point
          /\ enc'.key_len = enc.key_len /\ enc'.value_len = enc.value_len
          /\ enc'.shared_len = enc.shared_len /\ enc'.unshared_len = enc.unshared_len
          /\ enc'.recv_idx = enc.recv_idx /\ enc'.block_copy_idx = enc.block_copy_idx
          /\ enc'.value_rem = enc.value_rem /\ enc'.output_block_bytes = enc.output_block_bytes
      BY <1>1, <1>13 DEF EncType, EncShape
    <3>3. EncFlags'
      BY <1>3, <2>13, <3>2 DEF EncFlags, States
    <3>4. EncRegisters'
      BY <1>3, <2>13, <2>15, <2>16, <3>2 DEF EncRegisters
    <3> QED BY <1>1, <1>13, <2>11, <3>1, <3>3, <3>4 DEF EncType
  <2> QED BY <1>1, <2>13, <2>14, <2>17, <2>18 DEF EncInv
<1> QED BY <1>2, <1>12, <1>13

\* A word of n bytes that follows the first r of the key, the places where it
\* differs from the p bytes that f holds, and a buffer g it has been put into.
IsWord(word, key, r, n) == \A k \in 0..n - 1 : word[k + 1] = key[r + k + 1]
Differing(word, f, p, r, n) == {k \in 0..n - 1 : r + k >= p \/ word[k + 1] # f[r + k]}
Holds(g, key, r) == \A i \in 1..r : g[i - 1] = key[i]
With(g, word, r, n) ==
    [i \in DOMAIN g |-> IF i < KeyBufBytes /\ i - r \in 0..n - 1 THEN word[i - r + 1] ELSE g[i]]

\* Comparing a word: r bytes of the key have come, n more come now, and k of
\* them is in M when it differs from the previous key.
LEMMA MatchWord ==
    ASSUME NEW key \in Seq(Byte), NEW f, NEW p \in Nat, NEW r \in Nat, NEW n \in Nat, n > 0,
           r + n <= Len(key), Agrees(key, f, p, r),
           NEW word, IsWord(word, key, r, n),
           NEW M, M = Differing(word, f, p, r, n)
    PROVE  /\ M = {} => Agrees(key, f, p, r + n)
           /\ M /= {} => /\ Min(M) \in 0..n - 1
                         /\ Agrees(key, f, p, r + Min(M)) /\ Parted(key, f, p, r + Min(M))
<1>1. r <= p /\ \A i \in 1..r : key[i] = f[i - 1]
  BY DEF Agrees
<1>2. \A k \in 0..n - 1 : k \notin M => r + k < p /\ key[r + k + 1] = f[r + k]
  BY DEF IsWord, Differing
<1>3. ASSUME NEW d \in Nat, d <= n, \A k \in 0..n - 1 : k < d => k \notin M
      PROVE  Agrees(key, f, p, r + d)
  <2>1. r + d \in Nat
    OBVIOUS
  <2>2. r + d <= p
    <3>1. CASE d = 0
      BY <1>1, <3>1
    <3>2. CASE d /= 0
      <4>1. d - 1 \in 0..n - 1 /\ d - 1 < d
        BY <1>3, <3>2
      <4>2. r + (d - 1) < p
        BY <1>2, <1>3, <4>1
      <4> QED BY <4>1, <4>2
    <3> QED BY <3>1, <3>2
  <2>3. ASSUME NEW i \in 1..r + d PROVE key[i] = f[i - 1]
    <3>1. CASE i \in 1..r
      BY <1>1, <3>1
    <3>2. CASE ~(i \in 1..r)
      <4> DEFINE k == i - 1 - r
      <4>1. k \in 0..n - 1 /\ k < d /\ r + k + 1 = i /\ r + k = i - 1
        BY <1>3, <2>3, <3>2
      <4>2. key[r + k + 1] = f[r + k]
        BY <1>2, <1>3, <4>1
      <4> QED BY <4>1, <4>2
    <3> QED BY <3>1, <3>2
  <2> QED BY <2>1, <2>2, <2>3 DEF Agrees
<1>4. ASSUME M = {} PROVE Agrees(key, f, p, r + n)
  <2>1. n <= n
    OBVIOUS
  <2>2. \A k \in 0..n - 1 : k < n => k \notin M
    BY ONLY <1>4
  <2> QED BY <1>3, <2>1, <2>2
<1>5. ASSUME M /= {}
      PROVE  /\ Min(M) \in 0..n - 1
             /\ Agrees(key, f, p, r + Min(M)) /\ Parted(key, f, p, r + Min(M))
  <2> DEFINE c == Min(M)
  <2>1. M \subseteq Nat /\ M \subseteq 0..n - 1
    BY DEF Differing
  <2>2. c \in M /\ \A y \in M : c <= y
    BY <1>5, <2>1, MinOf
  <2> HIDE DEF c
  <2>3. c \in 0..n - 1 /\ c \in Nat /\ c <= n
    BY <2>1, <2>2
  <2>4. \A k \in 0..n - 1 : k < c => k \notin M
    BY <2>2, <2>3
  <2>5. Agrees(key, f, p, r + c)
    BY <1>3, <2>3, <2>4
  <2>6. r + c <= p
    BY <2>5 DEF Agrees
  <2>7. r + c >= p \/ key[r + c + 1] /= f[r + c]
    BY <2>2, <2>3 DEF IsWord, Differing
  <2>8. Parted(key, f, p, r + c)
    <3>1. r + c >= p => r + c = p
      BY <2>3, <2>6
    <3> QED BY <2>7, <3>1 DEF Parted
  <2> QED BY <2>3, <2>5, <2>8 DEF c
<1> QED BY <1>4, <1>5

\* The whole key has come: the shared length is the entry's.
LEMMA SharedFound ==
    ASSUME EncType, RestartInv, PrevInv, InRecord, ~enc.is_restart_point,
           NEW s, s <= Len(records[fed].key),
           Agrees(records[fed].key, enc.key_buf[enc.prev_buf_sel], enc.prev_key_len, s),
           \/ s = Len(records[fed].key)
           \/ Parted(records[fed].key, enc.key_buf[enc.prev_buf_sel], enc.prev_key_len, s)
    PROVE  s = Shared(records, RestartInterval, fed)
<1> DEFINE m == Len(enc.restart_offset_mem)
           e == enc.entries_since_restart
           key == records[fed].key
           f == enc.key_buf[enc.prev_buf_sel]
           p == enc.prev_key_len
<1>1. fed \in 1..Len(records) /\ written = fed - 1
  BY RecordFacts
<1>2. records \in Seq(Record)
  BY RecordsType
<1>3. s \in Nat /\ s <= p /\ \A i \in 1..s : key[i] = f[i - 1]
  BY DEF Agrees
<1>4. p \in Nat /\ e \in Nat /\ enc.restart_offset_mem \in Seq(Nat)
  BY DEF EncType, EncRegisters
<1>5. /\ enc.restart_offset_mem /= <<>> /\ fed - 1 = (m - 1) * RestartInterval + e
      /\ e < RestartInterval /\ ~(e = 0 /\ fed > 1)
  BY <1>1 DEF RestartInv
<1>6. CASE fed = 1
  <2>1. p = 0
    BY <1>1, <1>6 DEF PrevInv
  <2>2. s = 0
    BY <1>3, <2>1
  <2>3. fed - 1 = 0 * RestartInterval /\ 0 \in Nat
    BY <1>6, EncoderAssumption
  <2>4. Shared(records, RestartInterval, fed) = 0
    BY <1>1, <1>2, <2>3, SharedZero
  <2> QED BY <2>2, <2>4
<1>7. CASE fed /= 1
  <2> DEFINE q == m - 1
             prev == records[fed - 1].key
  <2>1. fed \in 2..Len(records) /\ fed > 1 /\ fed - 1 /= 0
    BY <1>1, <1>7
  <2>2. q \in Nat
    <3>1. m \in Nat /\ m > 0
      BY <1>4, <1>5
    <3> HIDE DEF m
    <3> QED BY <3>1
  <2>3. p = Len(prev) /\ \A i \in 1..p : f[i - 1] = prev[i]
    BY <1>1, <2>1 DEF PrevInv
  <2>4. e /= 0
    BY <1>5, <2>1
  <2> HIDE DEF m, q, e, f, p, key, prev
  <2>5. s <= Len(key) /\ s <= Len(prev)
    BY <1>3, <2>3 DEF key
  <2>6. \A i \in 1..s : key[i] = prev[i]
    <3>1. \A i \in 1..s : i \in 1..p
      BY <1>3, <1>4
    <3> QED BY <1>3, <2>3, <3>1
  <2>7. s = Len(key) \/ s = Len(prev) \/ key[s + 1] /= prev[s + 1]
    <3>1. s = Len(key) \/ Parted(key, f, p, s)
      BY DEF key, f, p
    <3>2. ASSUME s /= Len(key), s /= p PROVE key[s + 1] /= prev[s + 1]
      <4>1. key[s + 1] /= f[s]
        BY <3>1, <3>2 DEF Parted
      <4>2. s + 1 \in 1..p /\ (s + 1) - 1 = s
        BY <1>3, <1>4, <3>2
      <4>3. f[s] = prev[s + 1]
        BY <2>3, <4>2
      <4> QED BY <4>1, <4>3
    <3> QED BY <2>3, <3>2
  <2>8. fed - 1 = q * RestartInterval + e /\ e < RestartInterval /\ e \in Nat
    BY <1>4, <1>5 DEF q, m, e
  <2>9. Shared(records, RestartInterval, fed) = s
    BY <1>2, <1>3, <2>1, <2>2, <2>4, <2>5, <2>6, <2>7, <2>8, SharedBetween DEF key, prev
  <2> QED BY <2>9
<1> QED BY <1>6, <1>7

\* A word of the key is stored behind the bytes that came before it.
LEMMA StoreWord ==
    ASSUME NEW key \in Seq(Byte), Len(key) <= MaxKeyBytes, Len(key) <= KeyBufBytes, 
           NEW r \in Nat, NEW n \in Nat,
           r + n <= Len(key), NEW word, IsWord(word, key, r, n),
           NEW g \in [0..MaxKeyBytes - 1 -> Int], Holds(g, key, r)
    PROVE  /\ With(g, word, r, n) \in [0..MaxKeyBytes - 1 -> Int]
           /\ Holds(With(g, word, r, n), key, r + n)
<1> DEFINE h == With(g, word, r, n)
<1>a. h = [i \in DOMAIN g |-> IF i < KeyBufBytes /\ i - r \in 0..n - 1 THEN word[i - r + 1] ELSE g[i]]
  BY DEF With
<1>b. \A k \in 0..n - 1 : word[k + 1] = key[r + k + 1]
  BY DEF IsWord
<1>c. \A i \in 1..r : g[i - 1] = key[i]
  BY DEF Holds
<1> HIDE DEF h
<1>0. MaxKeyBytes \in Nat /\ Len(key) \in Nat /\ DOMAIN g = 0..MaxKeyBytes - 1
  BY FormatAssumption
<1>1. \A k \in 0..n - 1 : word[k + 1] \in Int
  <2>1. \A k \in 0..n - 1 : r + k + 1 \in 1..Len(key)
    BY <1>0
  <2>2. \A i \in 1..Len(key) : key[i] \in Byte
    BY ElementOfSeq
  <2>3. \A b \in Byte : b \in Int
    BY FormatAssumption DEF Byte
  <2> QED BY <1>b, <2>1, <2>2, <2>3
<1>2. h \in [0..MaxKeyBytes - 1 -> Int]
  <2>1. ASSUME NEW i \in 0..MaxKeyBytes - 1
        PROVE  (IF i < KeyBufBytes /\ i - r \in 0..n - 1 THEN word[i - r + 1] ELSE g[i]) \in Int
    <3>1. CASE i < KeyBufBytes /\ i - r \in 0..n - 1
      BY <1>1, <3>1
    <3>2. CASE ~(i < KeyBufBytes /\ i - r \in 0..n - 1)
      BY <3>2
    <3> QED BY <3>1, <3>2
  <2> QED BY <1>0, <1>a, <2>1
<1>3. ASSUME NEW i \in 1..r + n PROVE h[i - 1] = key[i]
  <2>1. i - 1 \in 0..MaxKeyBytes - 1
    BY <1>0, <1>3
  <2>0. i - 1 < KeyBufBytes
    BY <1>0, <1>3, EncoderAssumption
  <2>2. h[i - 1] = IF (i - 1) - r \in 0..n - 1 THEN word[(i - 1) - r + 1] ELSE g[i - 1]
    BY <1>0, <1>a, <2>0, <2>1
  <2>3. CASE i <= r
    <3>1. i \in 1..r /\ ~((i - 1) - r \in 0..n - 1)
      BY <2>3
    <3> QED BY <1>c, <2>2, <3>1
  <2>4. CASE ~(i <= r)
    <3> DEFINE k == (i - 1) - r
    <3>1. k \in 0..n - 1 /\ r + k + 1 = i
      BY <1>3, <2>4
    <3>2. word[k + 1] = key[r + k + 1]
      BY <1>b, <3>1
    <3> QED BY <2>2, <3>1, <3>2
  <2> QED BY <2>3, <2>4
<1> QED BY <1>2, <1>3 DEF Holds, h

\* What RecvKey does to the registers.
LEMMA RecvKeyEffect ==
    ASSUME EncType, NEW n \in 1..WordBytes, RecvKey(n)
    PROVE  LET word == SubSeq(records[fed].key, enc.recv_idx + 1, enc.recv_idx + n)
               current == 1 - enc.prev_buf_sel
               all == enc.recv_idx + n >= enc.key_len
           IN  /\ EncShape'
               /\ enc'.key_buf[enc.prev_buf_sel] = enc.key_buf[enc.prev_buf_sel]
               /\ enc'.key_buf[current] =
                      [i \in DOMAIN enc.key_buf[current] |->
                          IF i < KeyBufBytes /\ i - enc.recv_idx \in 0..n - 1
                          THEN word[i - enc.recv_idx + 1]
                          ELSE enc.key_buf[current][i]]
               /\ enc'.key_buf = [b \in {0, 1} |-> enc'.key_buf[b]]
               /\ enc'.shared_len = new_shared_len(word, n)
               /\ enc'.mismatch_found = new_mismatch(word, n)
               /\ enc'.recv_idx = enc.recv_idx + n
               /\ enc'.unshared_len = IF all THEN enc.key_len - new_shared_len(word, n)
                                      ELSE enc.unshared_len
               /\ enc'.state = IF all THEN "WRITE_VARINTS" ELSE "RECV_KEY"
               /\ UNCHANGED <<emit, out, records, fed>>
               /\ enc'.error = enc.error /\ enc'.prev_buf_sel = enc.prev_buf_sel
               /\ enc'.prev_key_len = enc.prev_key_len /\ enc'.key_len = enc.key_len
               /\ enc'.value_len = enc.value_len
               /\ enc'.is_restart_point = enc.is_restart_point
               /\ enc'.block_write_index = enc.block_write_index
               /\ enc'.block_copy_idx = enc.block_copy_idx /\ enc'.value_rem = enc.value_rem
               /\ enc'.restart_offset_mem = enc.restart_offset_mem
               /\ enc'.restart_emit_idx = enc.restart_emit_idx
               /\ enc'.entries_since_restart = enc.entries_since_restart
               /\ enc'.output_block_bytes = enc.output_block_bytes
               /\ enc.state = "RECV_KEY" /\ n <= enc.key_len - enc.recv_idx
<1> DEFINE word == SubSeq(records[fed].key, enc.recv_idx + 1, enc.recv_idx + n)
           c == 1 - enc.prev_buf_sel
           all == enc.recv_idx + n >= enc.key_len
           h == [i \in DOMAIN enc.key_buf[c] |->
                     IF i < KeyBufBytes /\ i - enc.recv_idx \in 0..n - 1
                          THEN word[i - enc.recv_idx + 1]
                     ELSE enc.key_buf[c][i]]
           sl == new_shared_len(word, n)
           nm == new_mismatch(word, n)
           ul == IF all THEN enc.key_len - sl ELSE enc.unshared_len
           st == IF all THEN "WRITE_VARINTS" ELSE enc.state
<1>1. enc.state = "RECV_KEY" /\ n <= enc.key_len - enc.recv_idx /\ UNCHANGED <<emit, out, records, fed>>
  BY DEF RecvKey
<1>2. enc' = [enc EXCEPT !.key_buf[c] = h, !.shared_len = sl, !.mismatch_found = nm,
                         !.recv_idx = enc.recv_idx + n, !.unshared_len = ul, !.state = st]
  BY DEF RecvKey
<1>3. EncShape /\ enc.prev_buf_sel \in {0, 1}
      /\ enc.key_buf \in [{0, 1} -> [0..MaxKeyBytes - 1 -> Int]]
  BY DEF EncType, EncRegisters
<1>4. st = IF all THEN "WRITE_VARINTS" ELSE "RECV_KEY"
  BY <1>1
<1>5. c \in {0, 1} /\ c /= enc.prev_buf_sel
  BY <1>3
<1> HIDE DEF h, sl, nm, ul, st, c
<1>6. EncShape'
  BY <1>2, <1>3 DEF EncShape
<1>7. /\ enc'.key_buf = [enc.key_buf EXCEPT ![c] = h]
      /\ enc'.shared_len = sl /\ enc'.mismatch_found = nm
      /\ enc'.recv_idx = enc.recv_idx + n /\ enc'.unshared_len = ul /\ enc'.state = st
  BY <1>2, <1>3 DEF EncShape
<1>8. /\ enc'.error = enc.error /\ enc'.prev_buf_sel = enc.prev_buf_sel
      /\ enc'.prev_key_len = enc.prev_key_len /\ enc'.key_len = enc.key_len
      /\ enc'.value_len = enc.value_len
      /\ enc'.is_restart_point = enc.is_restart_point
      /\ enc'.block_write_index = enc.block_write_index
      /\ enc'.block_copy_idx = enc.block_copy_idx /\ enc'.value_rem = enc.value_rem
      /\ enc'.restart_offset_mem = enc.restart_offset_mem
      /\ enc'.restart_emit_idx = enc.restart_emit_idx
      /\ enc'.entries_since_restart = enc.entries_since_restart
      /\ enc'.output_block_bytes = enc.output_block_bytes
  BY <1>2, <1>3 DEF EncShape
<1>9. /\ enc'.key_buf[enc.prev_buf_sel] = enc.key_buf[enc.prev_buf_sel]
      /\ enc'.key_buf[c] = h /\ enc'.key_buf = [b \in {0, 1} |-> enc'.key_buf[b]]
  BY <1>3, <1>5, <1>7
<1> HIDE DEF all, word
<1> QED BY <1>1, <1>4, <1>6, <1>7, <1>8, <1>9 DEF h, sl, nm, ul, c, all, word

LEMMA RecvKeyStep ==
    ASSUME KeysFit, EncInv, NEW n \in 1..WordBytes, RecvKey(n)
    PROVE  EncInv'
<1> DEFINE key == records[fed].key
           r == enc.recv_idx
           p == enc.prev_key_len
           f == enc.key_buf[enc.prev_buf_sel]
           cur == 1 - enc.prev_buf_sel
           g == enc.key_buf[cur]
           word == SubSeq(key, r + 1, r + n)
           M == mismatches(word, n)
           s == new_shared_len(word, n)
           all == r + n >= enc.key_len
<1>0. enc.state = "RECV_KEY" /\ n <= enc.key_len - r
  BY DEF RecvKey
<1>1. ~enc.error
  BY <1>0 DEF EncInv, GivenUp
<1>2. EncType /\ RestartInv /\ PrevInv /\ KeyInv /\ MatchInv /\ OutInv
  BY <1>1 DEF EncInv
<1>3. EncShape' /\ UNCHANGED <<emit, out, records, fed>>
  BY <1>2, RecvKeyEffect
<1>4. /\ enc'.key_buf[enc.prev_buf_sel] = f
      /\ enc'.key_buf[cur] = [i \in DOMAIN g |-> IF i < KeyBufBytes /\ i - r \in 0..n - 1
                                              THEN word[i - r + 1] ELSE g[i]]
      /\ enc'.key_buf = [b \in {0, 1} |-> enc'.key_buf[b]]
  BY <1>2, RecvKeyEffect
<1>5. /\ enc'.shared_len = s /\ enc'.mismatch_found = new_mismatch(word, n)
      /\ enc'.recv_idx = r + n
      /\ enc'.unshared_len = (IF all THEN enc.key_len - s ELSE enc.unshared_len)
      /\ enc'.state = (IF all THEN "WRITE_VARINTS" ELSE "RECV_KEY")
  BY <1>2, RecvKeyEffect
<1>6. /\ enc'.error = enc.error /\ enc'.prev_buf_sel = enc.prev_buf_sel
      /\ enc'.prev_key_len = p /\ enc'.key_len = enc.key_len
      /\ enc'.value_len = enc.value_len
      /\ enc'.is_restart_point = enc.is_restart_point
      /\ enc'.block_write_index = enc.block_write_index
      /\ enc'.block_copy_idx = enc.block_copy_idx /\ enc'.value_rem = enc.value_rem
      /\ enc'.restart_offset_mem = enc.restart_offset_mem
      /\ enc'.restart_emit_idx = enc.restart_emit_idx
      /\ enc'.entries_since_restart = enc.entries_since_restart
      /\ enc'.output_block_bytes = enc.output_block_bytes
  BY <1>2, RecvKeyEffect
<1>7. InRecord /\ InRecord'
  BY <1>0, <1>5 DEF InRecord
<1>8. /\ fed \in 1..Len(records) /\ written = fed - 1
      /\ key \in Seq(Byte) /\ Len(key) \in 1..MaxKeyBytes
  BY <1>2, <1>7, RecordFacts
<1>9. /\ enc.key_len = Len(key) /\ enc.value_len = Len(records[fed].value) /\ r <= enc.key_len
      /\ \A i \in 1..r : g[i - 1] = key[i]
  BY <1>2, <1>7 DEF KeyInv
<1>10. EncFlags /\ EncRegisters
  BY <1>2 DEF EncType
<1>11. /\ r \in Nat /\ p \in Nat /\ enc.prev_buf_sel \in {0, 1} /\ enc.shared_len \in Int
       /\ enc.key_buf \in [{0, 1} -> [0..MaxKeyBytes - 1 -> Int]]
  BY <1>10 DEF EncRegisters
<1>12. cur \in {0, 1} /\ cur /= enc.prev_buf_sel
       /\ g \in [0..MaxKeyBytes - 1 -> Int] /\ f \in [0..MaxKeyBytes - 1 -> Int]
  BY <1>11
<1>13. n \in Nat /\ n > 0
  BY FormatAssumption
<1>14. Len(key) \in Nat /\ Len(key) <= MaxKeyBytes /\ Len(key) <= KeyBufBytes
  BY <1>2, <1>8, FormatAssumption, KeysInBuffer
<1>15. r + n <= Len(key) /\ r + n \in Nat /\ r <= r + n /\ (r + n) - r = n
  BY <1>0, <1>9, <1>11, <1>13, <1>14
<1>16. IsWord(word, key, r, n)
  <2> DEFINE d == r + n
  <2>1. d \in Nat /\ r \in Nat /\ r <= d /\ d <= Len(key) /\ d - r = n /\ key \in Seq(Byte)
    BY <1>8, <1>11, <1>15
  <2> HIDE DEF key, r, d
  <2>2. \A i \in 1..d - r : SubSeq(key, r + 1, d)[i] = key[r + i]
    BY ONLY <2>1, Piece
  <2>3. \A k \in 0..n - 1 : k + 1 \in 1..d - r /\ r + (k + 1) = r + k + 1
    BY <1>13, <2>1
  <2>4. SubSeq(key, r + 1, d) = word
    BY DEF d
  <2> HIDE DEF word
  <2>5. \A i \in 1..d - r : word[i] = key[r + i]
    BY ONLY <2>2, <2>4
  <2> QED BY <2>3, <2>5 DEF IsWord
<1>17. M = Differing(word, f, p, r, n)
  BY DEF mismatches, Differing
<1>18. s = (IF enc.is_restart_point \/ enc.mismatch_found THEN enc.shared_len
            ELSE r + IF M = {} THEN n ELSE Min(M))
  BY DEF new_shared_len
<1>19. new_mismatch(word, n) = (enc.mismatch_found \/ (~enc.is_restart_point /\ M # {}))
  BY Zenon DEF new_mismatch
<1> HIDE DEF word, M, s, f, g, key, r, p
<1>20. /\ enc'.key_buf[cur] \in [0..MaxKeyBytes - 1 -> Int]
       /\ \A i \in 1..r + n : enc'.key_buf[cur][i - 1] = key[i]
  <2>1. key \in Seq(Byte) /\ r \in Nat /\ n \in Nat /\ g \in [0..MaxKeyBytes - 1 -> Int]
        /\ Len(key) <= MaxKeyBytes /\ Len(key) <= KeyBufBytes /\ r + n <= Len(key)
    BY <1>8, <1>11, <1>12, <1>13, <1>14, <1>15
  <2>2. Holds(g, key, r)
    BY <1>9 DEF Holds
  <2>3. enc'.key_buf[cur] = With(g, word, r, n)
    BY <1>4 DEF With
  <2>4. /\ With(g, word, r, n) \in [0..MaxKeyBytes - 1 -> Int]
        /\ Holds(With(g, word, r, n), key, r + n)
    BY ONLY <1>16, <2>1, <2>2, StoreWord
  <2> QED BY <2>3, <2>4 DEF Holds
\* The comparison.
<1>21. ASSUME ~enc.is_restart_point
       PROVE  /\ s <= r + n /\ Agrees(key, f, p, s)
              /\ enc'.mismatch_found => Parted(key, f, p, s)
              /\ ~enc'.mismatch_found => s = r + n
  <2>1. /\ enc.shared_len <= r /\ Agrees(key, f, p, enc.shared_len)
        /\ enc.mismatch_found => Parted(key, f, p, enc.shared_len)
        /\ ~enc.mismatch_found => enc.shared_len = r
    BY <1>0, <1>2, <1>21 DEF MatchInv, key, f, p, r
  <2>2. CASE enc.mismatch_found
    <3>1. s = enc.shared_len
      BY <1>18, <2>2
    <3>2. enc'.mismatch_found
      BY <1>5, <1>19, <2>2
    <3>3. s <= r + n
      BY <1>11, <1>13, <2>1, <3>1
    <3> QED BY <2>1, <2>2, <3>1, <3>2, <3>3
  <2>3. CASE ~enc.mismatch_found
    <3>1. Agrees(key, f, p, r)
      BY <2>1, <2>3
    <3>2. /\ M = {} => Agrees(key, f, p, r + n)
          /\ M /= {} => /\ Min(M) \in 0..n - 1
                        /\ Agrees(key, f, p, r + Min(M)) /\ Parted(key, f, p, r + Min(M))
      <4>1. key \in Seq(Byte) /\ p \in Nat /\ r \in Nat /\ n \in Nat /\ n > 0 /\ r + n <= Len(key)
        BY <1>8, <1>11, <1>13, <1>15
      <4> QED BY ONLY <1>16, <1>17, <3>1, <4>1, MatchWord
    <3>3. CASE M = {}
      <4>1. s = r + n
        BY <1>18, <1>21, <2>3, <3>3
      <4>2. ~enc'.mismatch_found
        BY <1>5, <1>19, <2>3, <3>3
      <4>3. s <= r + n
        BY <1>15, <4>1
      <4> QED BY <3>2, <3>3, <4>1, <4>2, <4>3
    <3>4. CASE M /= {}
      <4> DEFINE c == Min(M)
      <4>1. s = r + c
        BY <1>18, <1>21, <2>3, <3>4
      <4>2. enc'.mismatch_found
        BY <1>5, <1>19, <1>21, <3>4
      <4>3. c \in 0..n - 1 /\ Agrees(key, f, p, r + c) /\ Parted(key, f, p, r + c)
        BY <3>2, <3>4
      <4> HIDE DEF c
      <4>4. s <= r + n
        BY <1>11, <1>13, <4>1, <4>3
      <4> QED BY <4>1, <4>2, <4>3, <4>4
    <3> QED BY <3>3, <3>4
  <2> QED BY <2>2, <2>3
<1>22. ASSUME enc.is_restart_point PROVE s = 0
  <2>1. enc.shared_len = 0
    BY <1>0, <1>2, <1>22 DEF MatchInv
  <2> QED BY <1>18, <1>22, <2>1
<1>23. s \in Int
  <2>1. CASE enc.is_restart_point
    BY <1>22, <2>1
  <2>2. CASE ~enc.is_restart_point
    BY <1>21, <2>2 DEF Agrees
  <2> QED BY <2>1, <2>2
<1>24. EncType'
  <2>1. EncFlags'
    <3>1. enc'.mismatch_found \in BOOLEAN
      BY <1>5, <1>19, Zenon
    <3>2. enc'.state \in States
      BY <1>5 DEF States
    <3> QED BY <1>6, <1>10, <3>1, <3>2 DEF EncFlags
  <2>2. enc'.key_buf \in [{0, 1} -> [0..MaxKeyBytes - 1 -> Int]]
    <3>1. \A b \in {0, 1} : b = cur \/ b = enc.prev_buf_sel
      BY <1>11
    <3>2. \A b \in {0, 1} : enc'.key_buf[b] \in [0..MaxKeyBytes - 1 -> Int]
      BY <1>4, <1>12, <1>20, <3>1
    <3> QED BY <1>4, <3>2
  <2>3. enc'.unshared_len \in Int /\ enc'.recv_idx \in Nat /\ enc'.shared_len \in Int
    BY <1>5, <1>10, <1>15, <1>23 DEF EncRegisters
  <2>4. EncRegisters'
    BY <1>6, <1>10, <2>2, <2>3 DEF EncRegisters, p
  <2> QED BY <1>2, <1>3, <2>1, <2>4 DEF EncType
<1>25. written' = written
  BY <1>3, <1>7 DEF written
<1>26. RestartInv'
  BY <1>2, <1>3, <1>6, <1>7, <1>25 DEF RestartInv
<1>27. PrevInv'
  BY <1>2, <1>3, <1>4, <1>6, <1>25 DEF PrevInv, f, p
<1>28. KeyInv'
  <2>1. r + n <= enc.key_len
    BY <1>9, <1>15
  <2> QED BY <1>3, <1>5, <1>6, <1>9, <1>20, <2>1 DEF KeyInv, key
<1>29. MatchInv'
  <2> SUFFICES ASSUME enc'.state = "RECV_KEY" PROVE MatchInv'
    BY DEF MatchInv
  <2>1. ~all
    BY <1>5
  <2>2. r + n < enc.key_len
    BY <1>9, <1>14, <1>15, <2>1
  <2>3. enc'.is_restart_point => enc'.shared_len = 0
    BY <1>5, <1>6, <1>22
  <2>4. ~enc'.is_restart_point =>
            /\ s <= r + n /\ Agrees(key, f, p, s)
            /\ enc'.mismatch_found => Parted(key, f, p, s)
            /\ ~enc'.mismatch_found => s = r + n
    BY <1>6, <1>21
  <2>5. key = records'[fed'].key /\ f = enc'.key_buf[enc'.prev_buf_sel] /\ p = enc'.prev_key_len
    BY <1>3, <1>4, <1>6 DEF key
  <2> QED BY <1>5, <1>6, <2>2, <2>3, <2>4, <2>5 DEF MatchInv
<1>30. LengthInv'
  <2> SUFFICES ASSUME all
               PROVE  r + n = enc.key_len /\ s = Shared(records, RestartInterval, fed)
    BY <1>3, <1>5, <1>6 DEF LengthInv
  <2>1. r + n = enc.key_len
    BY <1>9, <1>14, <1>15
  <2>2. CASE enc.is_restart_point
    <3> DEFINE m == Len(enc.restart_offset_mem)
    <3>1. enc.restart_offset_mem \in Seq(Nat)
      BY <1>10 DEF EncRegisters
    <3>2. /\ enc.restart_offset_mem /= <<>> /\ enc.entries_since_restart = 0
          /\ fed - 1 = (m - 1) * RestartInterval + enc.entries_since_restart
      BY <1>2, <1>7, <1>8, <2>2 DEF RestartInv
    <3>3. m - 1 \in Nat
      BY <3>1, <3>2
    <3> HIDE DEF m
    <3>4. (m - 1) * RestartInterval \in Nat
      BY <3>3, EncoderAssumption
    <3>5. fed - 1 = (m - 1) * RestartInterval
      BY <3>2, <3>4
    <3>6. records \in Seq(Record)
      BY <1>2, RecordsType
    <3>7. Shared(records, RestartInterval, fed) = 0
      BY <1>8, <3>3, <3>5, <3>6, SharedZero
    <3> QED BY <1>22, <2>1, <2>2, <3>7
  <2>3. CASE ~enc.is_restart_point
    <3>1. /\ s <= Len(key) /\ Agrees(key, f, p, s)
          /\ s = Len(key) \/ Parted(key, f, p, s)
      BY <1>9, <1>21, <2>1, <2>3
    <3>2. s = Shared(records, RestartInterval, fed)
      BY <1>2, <1>7, <2>3, <3>1, SharedFound DEF key, f, p
    <3> QED BY <2>1, <3>2
  <2> QED BY <2>2, <2>3
<1>31. TailInv'
  BY <1>5 DEF TailInv
<1>32. OutInv'
  <2>1. Sent' = Sent
    BY <1>3 DEF Sent
  <2>2. Sent = Ent(records, written) /\ enc.block_write_index = Len(Sent)
    BY <1>0, <1>2 DEF OutInv
  <2>3. enc'.state \in {"RECV_KEY", "WRITE_VARINTS"}
    BY <1>5
  <2> QED BY <1>3, <1>6, <1>25, <2>1, <2>2, <2>3 DEF OutInv
<1> QED BY <1>1, <1>6, <1>24, <1>26, <1>27, <1>28, <1>29, <1>30, <1>31, <1>32 DEF EncInv

-----------------------------------------------------------------------------
(* The theorems.                                                           *)

LEMMA InitEncInv ==
    ASSUME EncInit
    PROVE  EncInv
<1>1. /\ records \in Inputs /\ fed = 0 /\ emit = <<>> /\ out = <<>>
      /\ enc = [state |-> "WAIT_RECORD", error |-> FALSE,
                prev_buf_sel |-> 0,
                key_buf |-> [b \in {0, 1} |-> [i \in 0..MaxKeyBytes - 1 |-> Old]],
                prev_key_len |-> 0, key_len |-> 0, value_len |-> 0,
                shared_len |-> 0, unshared_len |-> 0,
                mismatch_found |-> FALSE, is_restart_point |-> FALSE,
                recv_idx |-> 0, block_write_index |-> 0, block_copy_idx |-> 0,
                value_rem |-> 0, restart_offset_mem |-> <<0>>,
                restart_emit_idx |-> 0, entries_since_restart |-> 0,
                output_block_bytes |-> 0]
  BY DEF EncInit
<1>2. /\ enc.state = "WAIT_RECORD" /\ enc.error = FALSE /\ enc.prev_key_len = 0
      /\ enc.restart_offset_mem = <<0>> /\ enc.entries_since_restart = 0
      /\ enc.block_write_index = 0
  BY <1>1
<1>3. EncType
  <2>1. EncShape
    BY <1>1 DEF EncShape
  <2>2. EncFlags
    BY <1>1 DEF EncFlags, States
  <2>3. enc.key_buf \in [{0, 1} -> [0..MaxKeyBytes - 1 -> Int]]
    BY <1>1 DEF Old
  <2>4. enc.restart_offset_mem \in Seq(Nat)
    BY <1>2
  <2>5. EncRegisters
    BY <1>1, <2>3, <2>4 DEF EncRegisters
  <2>6. records \in Seq(Record)
    BY <1>1, EncoderAssumption DEF Record
  <2>7. fed \in 0..Len(records)
    BY <1>1, <2>6
  <2> QED BY <1>1, <2>1, <2>2, <2>5, <2>7, EmptyStr DEF EncType
<1>4. records \in Seq(Record) /\ Len(records) \in Nat
  BY <1>3, RecordsType
<1>5. ~InRecord /\ written = 0
  BY <1>1, <1>2 DEF InRecord, written
<1>6. Ent(records, 0) = <<>>
  BY <1>4, EntEmpty
<1>7. RestartInterval \in Nat \ {0}
  BY EncoderAssumption
<1>8. RestartInv
  <2>1. enc.restart_offset_mem /= <<>> /\ Len(enc.restart_offset_mem) = 1
        /\ enc.restart_offset_mem[1] = 0
    BY <1>2
  <2>2. (1 - 1) * RestartInterval = 0 /\ 0 + 0 = 0 /\ 0 <= RestartInterval /\ 0 <= Len(records)
    BY <1>4, <1>7
  <2>3. Len(Ent(records, 0)) = 0
    BY <1>6
  <2>4. \A j \in 1..1 : j = 1
    OBVIOUS
  <2>5. ~(fed > 0)
    BY <1>1
  <2> QED BY <1>2, <1>5, <2>1, <2>2, <2>3, <2>4, <2>5 DEF RestartInv
<1>9. PrevInv /\ KeyInv /\ MatchInv /\ LengthInv /\ TailInv
  BY <1>2, <1>5 DEF PrevInv, KeyInv, MatchInv, LengthInv, TailInv
<1>10. OutInv
  <2>1. Sent = <<>>
    BY <1>1, EmptyStr DEF Sent
  <2>2. Len(Sent) = 0
    BY <2>1
  <2> QED BY <1>2, <1>5, <1>6, <2>1, <2>2 DEF OutInv
<1> QED BY <1>2, <1>3, <1>8, <1>9, <1>10 DEF EncInv

LEMMA NextEncInv ==
    ASSUME KeysFit, EncInv, EncNext
    PROVE  EncInv'
<1>1. CASE OutputAccepted
  BY <1>1, OutputAcceptedStep
<1>2. CASE TakeRecord
  BY <1>2, TakeRecordStep
<1>3. CASE EndOfRecords
  BY <1>3, EndOfRecordsStep
<1>4. CASE \E n \in 1..WordBytes : RecvKey(n)
  BY <1>4, RecvKeyStep
<1>5. CASE WriteVarints
  BY <1>5, WriteVarintsStep
<1>6. CASE WriteKey
  BY <1>6, WriteKeyStep
<1>7. CASE \E n \in 1..WordBytes : StreamValue(n)
  BY <1>7, StreamValueStep
<1>8. CASE RecordDone
  BY <1>8, RecordDoneStep
<1>9. CASE AppendRestarts
  BY <1>9, AppendRestartsStep
<1>10. CASE AppendRestartCount
  BY <1>10, AppendRestartCountStep
<1>11. CASE Finish
  BY <1>11, FinishStep
<1> QED BY <1>1, <1>2, <1>3, <1>4, <1>5, <1>6, <1>7, <1>8, <1>9, <1>10, <1>11 DEF EncNext

LEMMA SameEncInv ==
    ASSUME EncInv, encVars' = encVars
    PROVE  EncInv'
<1>1. enc' = enc /\ records' = records /\ fed' = fed /\ emit' = emit /\ out' = out
  BY DEF encVars
<1>2. EncType => EncType'
  <2>1. EncShape => EncShape'
    BY <1>1 DEF EncShape
  <2>2. EncFlags => EncFlags'
    BY <1>1 DEF EncFlags
  <2>3. EncRegisters => EncRegisters'
    BY <1>1 DEF EncRegisters
  <2> QED BY <1>1, <2>1, <2>2, <2>3 DEF EncType
<1>3. Sent' = Sent
  BY <1>1 DEF Sent
<1>4. InRecord' = InRecord
  BY <1>1 DEF InRecord
<1>5. written' = written
  BY <1>1, <1>4 DEF written
<1>6. GivenUp => GivenUp'
  BY <1>1, <1>3 DEF GivenUp
<1>7. RestartInv => RestartInv'
  BY <1>1, <1>4, <1>5 DEF RestartInv
<1>8. PrevInv => PrevInv'
  BY <1>1, <1>5 DEF PrevInv
<1>9. KeyInv => KeyInv'
  BY <1>1, <1>4 DEF KeyInv
<1>10. MatchInv => MatchInv'
  BY <1>1 DEF MatchInv
<1>11. LengthInv => LengthInv'
  BY <1>1 DEF LengthInv
<1>12. TailInv => TailInv'
  BY <1>1 DEF TailInv
<1>13. Start' = Start
  BY <1>1, <1>5 DEF Start
<1>14. OutInv => OutInv'
  BY <1>1, <1>3, <1>5, <1>13 DEF OutInv
<1> QED BY <1>1, <1>2, <1>6, <1>7, <1>8, <1>9, <1>10, <1>11, <1>12, <1>14 DEF EncInv

\* The invariant, if keys fit, for the encoder among the other blocks of the design.
THEOREM EncoderInvariant ==
    ASSUME KeysFit
    PROVE  Spec => []EncInv
<1>1. Init => EncInv
  BY InitEncInv DEF Init
<1>2. EncInv /\ [Next]_vars => EncInv'
  <2> SUFFICES ASSUME EncInv, [Next]_vars PROVE EncInv'
    OBVIOUS
  <2>1. CASE Encode
    BY <2>1, NextEncInv DEF Encode
  <2>2. CASE encVars' = encVars
    BY <2>2, SameEncInv
  <2>3. CASE StartAssembler
    BY <2>2, <2>3 DEF StartAssembler
  <2>4. CASE Assemble
    BY <2>2, <2>4 DEF Assemble
  <2>5. CASE StartDecoder
    BY <2>2, <2>5 DEF StartDecoder
  <2>6. CASE Decode
    BY <2>2, <2>6 DEF Decode
  <2>7. CASE UNCHANGED vars
    BY <2>2, <2>7 DEF vars, encVars
  <2> QED BY <2>1, <2>3, <2>4, <2>5, <2>6, <2>7 DEF Next
<1> QED BY <1>1, <1>2, PTL DEF Spec

LEMMA InvEncodes ==
    ASSUME EncInv
    PROVE  EncodesBlock
<1> DEFINE b == BlockOf(records, RestartInterval)
<1>1. EncType
  BY DEF EncInv
<1>2. Sent = out \o emit /\ Block(records) = b
  BY DEF Sent, Cat, Block
<1>3. Sent \in Str /\ out \in Str /\ enc.state \in States
  BY <1>1, SentStr DEF EncType, EncFlags
<1>4. IsPrefix(Sent, Sent)
  <2>1. IsPrefix(Sent, Cat(Sent, <<>>))
    BY <1>3, EmptyStr, PrefixStr
  <2> QED BY <1>3, <2>1, EmptyStr
<1>5. CASE enc.error
  <2>1. GivenUp
    BY <1>5 DEF EncInv
  <2>2. IsPrefix(Sent, b) /\ Len(b) > MaxBlockBytes
    BY <1>2, <2>1 DEF GivenUp
  <2>3. ~EncDone
    BY <1>5 DEF EncDone
  <2> QED BY <1>2, <2>2, <2>3 DEF EncodesBlock
<1>6. CASE ~enc.error
  <2>1. OutInv
    BY <1>6 DEF EncInv
  <2>2. CASE enc.state \notin {"FINISH", "IDLE"}
    <3>1. Begins(Sent, Block(records))
      BY <1>6, <2>2, SentBegins
    <3>2. IsPrefix(Sent, Block(records))
      BY <3>1, BeginsPrefix
    <3>3. ~EncDone
      BY <2>2 DEF EncDone
    <3> QED BY <1>2, <1>6, <3>2, <3>3 DEF EncodesBlock
  <2>3. CASE enc.state \in {"FINISH", "IDLE"}
    <3>1. Sent = b /\ enc.output_block_bytes = Len(b)
      BY <1>2, <2>1, <2>3 DEF OutInv
    <3>2. IsPrefix(Sent, b)
      BY <1>4, <3>1
    <3>3. EncDone => out = b
      <4>1. EncDone => emit = <<>>
        BY <2>1 DEF EncDone, OutInv
      <4>2. emit = <<>> => Sent = out
        BY <1>3, EmptyStr DEF Sent
      <4> QED BY <3>1, <4>1, <4>2
    <3> QED BY <1>2, <1>6, <3>1, <3>2, <3>3 DEF EncodesBlock
  <2> QED BY <2>2, <2>3
<1> QED BY <1>5, <1>6

\* For every list of records whose keys fit, word sizes and restart interval: what leaves the
\* encoder is always a beginning of the LevelDB block of its records, when it is
\* done it is that block and the size it reports is the block's, and it gives up
\* only a block that does not fit (cmpct_block_encoder.v, ST_RECV_KEY to
\* ST_FINISH).
THEOREM EncoderWritesBlock ==
    ASSUME KeysFit
    PROVE  Spec => []EncodesBlock
<1>1. EncInv => EncodesBlock
  BY InvEncodes
<1> QED BY <1>1, EncoderInvariant, PTL

\* The key the N-block engine finds in last_key_bytes when the encoder is done.
IndexKeyIsLast == EncDone => last_key_bytes = Last(records).key

LEMMA InvIndexKey ==
    ASSUME EncInv
    PROVE  IndexKeyIsLast
<1> SUFFICES ASSUME EncDone PROVE last_key_bytes = Last(records).key
  BY DEF IndexKeyIsLast
<1>1. enc.state = "IDLE" /\ ~enc.error
  BY DEF EncDone
<1>2. EncType /\ PrevInv /\ TailInv
  BY <1>1 DEF EncInv
<1>3. fed = Len(records)
  BY <1>1, <1>2 DEF TailInv
<1>4. written = fed
  BY <1>1 DEF written, InRecord
<1>5. records \in Seq(Record) /\ Len(records) \in Nat \ {0}
  BY <1>2, RecordsType
<1> DEFINE key == records[Len(records)].key
           f == enc.key_buf[enc.prev_buf_sel]
<1>6. enc.prev_key_len = Len(key) /\ \A i \in 1..enc.prev_key_len : f[i - 1] = key[i]
  BY <1>2, <1>3, <1>4, <1>5 DEF PrevInv
<1>7. key \in Seq(Byte)
  <2>1. Len(records) \in 1..Len(records)
    BY <1>5
  <2> QED BY <1>2, <2>1, RecordsType
<1>8. last_key_bytes = [i \in 1..Len(key) |-> f[i - 1]]
  BY <1>6 DEF last_key_bytes
<1> HIDE DEF key, f
<1>9. [i \in 1..Len(key) |-> f[i - 1]] = [i \in 1..Len(key) |-> key[i]]
  BY <1>6
<1>10. key = [i \in 1..Len(key) |-> key[i]]
  BY <1>7
<1>11. last_key_bytes = key
  BY <1>8, <1>9, <1>10
<1> QED BY <1>11 DEF Last, key

\* When the encoder is done, the key that the N-block engine files for the block
\* is that of the block's last record, however the two key buffers have changed
\* roles (cmpct_block_encoder.v, last_key_bytes and prev_buf_sel).
THEOREM EncoderIndexKey ==
    ASSUME KeysFit
    PROVE  Spec => []IndexKeyIsLast
<1>1. EncInv => IndexKeyIsLast
  BY InvIndexKey
<1> QED BY <1>1, EncoderInvariant, PTL


-----------------------------------------------------------------------------
(* The assembler.  A part of the tail is written by one call of the write  *)
(* engine: the FSM starts it on entering the part and leaves the part only *)
(* in ST_WR_WAIT, when the engine is done.                                 *)

\* The states in which no write is under way, and those of a part.
Between == {"COMPUTE_IDX", "IDX_INIT", "META_INIT", "FOOT_INIT", "DONE"}
Writing == {"META_FETCH", "ENT_SHARED", "ENT_USHLEN", "ENT_VALLEN", "ENT_KEY", "ENT_BHOFF",
            "ENT_BHSZ", "ENT_NEXT", "IDX_REST", "IDX_TRAIL", "META_BODY", "FOOT_OFF0",
            "FOOT_SZ0", "FOOT_OFF1", "FOOT_SZ1", "FOOT_PAD", "FOOT_MAGIC", "WR_WAIT"}

AsmShape ==
    asm = [state |-> asm.state, done |-> asm.done, error |-> asm.error,
           total_bytes |-> asm.total_bytes, wr_start |-> asm.wr_start,
           tvalid |-> asm.tvalid, last |-> asm.last, data |-> asm.data,
           return_state |-> asm.return_state, wr_offset |-> asm.wr_offset,
           blk_idx |-> asm.blk_idx, idx_accum |-> asm.idx_accum,
           idx_offset |-> asm.idx_offset, idx_size |-> asm.idx_size,
           meta_offset |-> asm.meta_offset, key_cache |-> asm.key_cache,
           key_bptr |-> asm.key_bptr, vi |-> asm.vi, sub |-> asm.sub,
           build_ptr |-> asm.build_ptr, crc |-> asm.crc,
           wr_addr |-> asm.wr_addr, wr_len |-> asm.wr_len]

EngShape ==
    eng = [state |-> eng.state, done |-> eng.done, error |-> eng.error,
           beats_remaining |-> eng.beats_remaining, burst_beats |-> eng.burst_beats,
           burst_index |-> eng.burst_index, cur_addr |-> eng.cur_addr,
           awvalid |-> eng.awvalid, awaddr |-> eng.awaddr, wvalid |-> eng.wvalid,
           wdata |-> eng.wdata, wlast |-> eng.wlast]

\* What is filed of a block.
Filing == {b \in [key : Seq(Byte), offset : Nat, size : Nat] : b.size >= TrailerBytes}

\* The flags of the two machines.
AsmFlags ==
    /\ asm.done \in BOOLEAN /\ asm.wr_start \in BOOLEAN
    /\ eng.done \in BOOLEAN /\ eng.error \in BOOLEAN
    /\ eng.awvalid \in BOOLEAN /\ eng.wvalid \in BOOLEAN /\ eng.wlast \in BOOLEAN
    /\ rejected \in BOOLEAN
    /\ asm.state \in Between \cup Writing \cup {"IDLE"}
    /\ asm.return_state \in {"META_INIT", "FOOT_INIT", "DONE"}
    /\ eng.state \in {"IDLE", "AW", "W", "B"}

\* Before the start nothing has moved.
Unstarted ==
    meta = <<>> => /\ asm.state = "IDLE" /\ ~asm.wr_start /\ ~asm.done /\ ~rejected
                   /\ eng.state = "IDLE" /\ mem = <<>>

\* The engine runs only while the FSM is in a part, or has given the file up.
Turns ==
    /\ asm.done => asm.state = "IDLE"
    /\ asm.wr_start => /\ asm.state \in {"META_FETCH", "META_BODY", "FOOT_OFF0"}
                       /\ eng.state = "IDLE"
    /\ asm.state \in Between => eng.state = "IDLE"
    /\ eng.done => eng.state = "IDLE"
    /\ eng.awvalid => eng.state = "AW"
    /\ eng.wvalid => eng.state = "W"

\* A rejected burst is held by the engine until the FSM has seen it.
RejectionHeld ==
    rejected => /\ eng.error /\ ~asm.wr_start /\ ~asm.done
                /\ asm.state \in Writing \cup {"IDLE"}

\* The next part, and the one being written, begin behind the data.
PartsBehind ==
    /\ asm.state # "IDLE" => /\ asm.wr_offset \in Nat /\ asm.wr_offset >= data_end_offset
                             /\ asm.idx_accum \in Nat \ {0}
    /\ asm.state = "COMPUTE_IDX" => asm.blk_idx \in Nat
    /\ asm.state \in Writing => /\ asm.wr_len \in Nat \ {0}
                                /\ asm.wr_addr \in Nat /\ asm.wr_addr >= data_end_offset

\* The beats that are left suffice for the burst, and its addresses.
BurstsBehind ==
    /\ eng.state # "IDLE" => /\ eng.cur_addr \in Nat /\ eng.cur_addr >= data_end_offset
                             /\ eng.beats_remaining \in Nat
    /\ eng.state = "AW" => eng.beats_remaining > 0
    /\ (eng.state = "AW" /\ eng.awvalid) \/ eng.state = "W" =>
           /\ eng.awaddr \in Nat /\ eng.awaddr >= data_end_offset
           /\ eng.burst_index \in Nat /\ eng.burst_beats \in Nat
           /\ eng.burst_index < eng.burst_beats
           /\ eng.burst_beats - eng.burst_index <= eng.beats_remaining
    /\ eng.state = "W" /\ eng.wvalid =>
           (eng.wlast <=> eng.burst_index + 1 = eng.burst_beats)
    /\ eng.state = "B" => eng.burst_beats \in Nat

AsmInv ==
    /\ AsmShape /\ EngShape /\ meta \in Seq(Filing) /\ AsmFlags
    /\ Unstarted /\ Turns /\ RejectionHeld /\ PartsBehind /\ BurstsBehind
    /\ TailBehindData

LEMMA AlignBehind ==
    ASSUME NEW n \in Nat
    PROVE  /\ Align(n) \in Nat /\ Align(n) >= n
           /\ Align(n) \div BeatBytes \in Nat /\ (n > 0 => Align(n) \div BeatBytes > 0)
<1>1. BeatBytes \in Nat \ {0} /\ n + BeatBytes - 1 \in Nat
  BY AssemblerAssumption
<1> DEFINE q == (n + BeatBytes - 1) \div BeatBytes
<1>2. /\ q \in Nat /\ q * BeatBytes <= n + BeatBytes - 1
      /\ n + BeatBytes - 1 < q * BeatBytes + BeatBytes
  BY ONLY <1>1, DivBounds
<1>3. Align(n) = q * BeatBytes
  BY DEF Align
<1> HIDE DEF q
<1>4. q * BeatBytes \in Nat /\ q * BeatBytes >= n
  BY <1>1, <1>2
<1>5. (q * BeatBytes) \div BeatBytes = q
  <2> DEFINE a == q * BeatBytes
  <2>1. a \in Nat /\ q * BeatBytes <= a /\ a < q * BeatBytes + BeatBytes
    BY <1>1, <1>4
  <2> HIDE DEF a
  <2>2. a \div BeatBytes = q
    BY ONLY <1>1, <1>2, <2>1, DivUnique
  <2> QED BY <2>2 DEF a
<1>6. q = 0 => q * BeatBytes = 0
  BY <1>1
<1>7. n > 0 => q > 0
  BY <1>2, <1>4, <1>6
<1> QED BY <1>2, <1>3, <1>4, <1>5, <1>7

LEMMA RestartsLength ==
    Len(Restarts) \in Nat \ {0}
<1>1. /\ Fixed(0) \in Seq(Symbol) /\ Len(Fixed(0)) = FixedBytes
      /\ Fixed(1) \in Seq(Symbol) /\ Len(Fixed(1)) = FixedBytes
  BY FixedType
<1> DEFINE a == Fixed(0)
           b == Fixed(1)
<1> HIDE DEF a, b
<1>2. Len(a \o b) = Len(a) + Len(b)
  BY <1>1, Concat DEF a, b
<1> QED BY <1>1, <1>2, FormatAssumption DEF Restarts, a, b

LEMMA DataEndNat ==
    ASSUME NEW blocks \in Seq(Filing)
    PROVE  DataEnd(blocks) \in Nat
<1>1. CASE blocks = <<>>
  BY <1>1 DEF DataEnd
<1>2. CASE blocks /= <<>>
  <2> DEFINE b == blocks[Len(blocks)]
  <2>1. b \in Filing
    BY <1>2
  <2>2. b.offset + b.size \in Nat
    BY <2>1 DEF Filing
  <2>3. DataEnd(blocks) = Align(b.offset + b.size)
    BY <1>2 DEF DataEnd, Last
  <2> HIDE DEF b
  <2> QED BY <2>2, <2>3, AlignBehind
<1> QED BY <1>1, <1>2

LEMMA EntryBytesNat ==
    ASSUME NEW b \in Filing
    PROVE  entry_bytes(b) \in Nat
<1>1. b.key \in Seq(Byte) /\ b.offset \in Nat /\ b.size \in Nat /\ b.size >= TrailerBytes
  BY DEF Filing
<1>2. content(b) \in Nat
  BY <1>1 DEF content, TrailerBytes
<1>3. Len(b.key) \in Nat
  BY <1>1
<1>4. \A n \in Nat : Len(varint[n]) \in Nat
  <2> TAKE n \in Nat
  <2> DEFINE v == varint[n]
  <2>1. v \in Seq(Byte)
    BY VarintType
  <2> HIDE DEF v
  <2>2. Len(v) \in Nat
    BY <2>1
  <2> QED BY <2>2 DEF v
<1> DEFINE x == Len(varint[Len(b.key)])
           y == Len(varint[b.offset])
           z == Len(varint[content(b)])
           k == Len(b.key)
<1>5. x \in Nat /\ y \in Nat /\ z \in Nat
  BY ONLY <1>1, <1>2, <1>3, <1>4, Zenon
<1>6. entry_bytes(b) = 2 + x + k + y + z
  BY DEF entry_bytes
<1>7. k \in Nat
  BY <1>3
<1> HIDE DEF x, y, z, k
<1>8. 2 + x + k + y + z \in Nat
  BY ONLY <1>5, <1>7
<1> QED BY ONLY <1>6, <1>8, Zenon


\* A step within a part: the part and what is known of it stay.
SamePart ==
    /\ asm'.done = asm.done /\ asm'.return_state = asm.return_state
    /\ asm'.wr_offset = asm.wr_offset /\ asm'.idx_accum = asm.idx_accum
    /\ asm'.wr_addr = asm.wr_addr /\ asm'.wr_len = asm.wr_len

InPart ==
    /\ asm.state \in Writing /\ asm'.state \in Writing
    /\ asm'.wr_start = FALSE /\ SamePart

\* A part is begun: the engine is started on its length.
Begun(n, back) ==
    /\ asm'.state \in {"META_FETCH", "META_BODY", "FOOT_OFF0"} /\ asm'.wr_start = TRUE
    /\ asm'.wr_addr = asm.wr_offset /\ asm'.wr_len = n /\ asm'.return_state = back
    /\ asm'.done = asm.done /\ asm'.wr_offset = asm.wr_offset /\ asm'.idx_accum = asm.idx_accum

LEMMA MetaFetchEffect ==
    ASSUME AsmShape, MetaFetch
    PROVE  AsmShape' /\ InPart
BY DEF AsmShape, MetaFetch, Quiet, InPart, SamePart, Writing

LEMMA EntSharedEffect ==
    ASSUME AsmShape, EntShared
    PROVE  AsmShape' /\ InPart
BY DEF AsmShape, EntShared, PutSummed, Put, Quiet, InPart, SamePart, Writing

LEMMA EntKeyEffect ==
    ASSUME AsmShape, EntKey
    PROVE  AsmShape' /\ InPart
BY DEF AsmShape, EntKey, PutSummed, Put, Quiet, InPart, SamePart, Writing

LEMMA IdxInitEffect ==
    ASSUME AsmShape, IdxInit
    PROVE  AsmShape' /\ asm.state = "IDX_INIT" /\ Begun(asm.idx_accum, "META_INIT")
BY DEF AsmShape, IdxInit, StartWrite, Quiet, Begun


\* Registers of the same part, with another byte put.
PutRegs(a) ==
    /\ a = [state |-> a.state, done |-> a.done, error |-> a.error,
            total_bytes |-> a.total_bytes, wr_start |-> a.wr_start,
            tvalid |-> a.tvalid, last |-> a.last, data |-> a.data,
            return_state |-> a.return_state, wr_offset |-> a.wr_offset,
            blk_idx |-> a.blk_idx, idx_accum |-> a.idx_accum,
            idx_offset |-> a.idx_offset, idx_size |-> a.idx_size,
            meta_offset |-> a.meta_offset, key_cache |-> a.key_cache,
            key_bptr |-> a.key_bptr, vi |-> a.vi, sub |-> a.sub,
            build_ptr |-> a.build_ptr, crc |-> a.crc,
            wr_addr |-> a.wr_addr, wr_len |-> a.wr_len]
    /\ a.state = asm.state /\ a.wr_start = FALSE
    /\ a.done = asm.done /\ a.return_state = asm.return_state
    /\ a.wr_offset = asm.wr_offset /\ a.idx_accum = asm.idx_accum
    /\ a.wr_addr = asm.wr_addr /\ a.wr_len = asm.wr_len

\* A varint is followed by a state of the part.
LEMMA VarintEffect ==
    ASSUME NEW next, next[1] \in Writing, asm.state \in Writing,
           NEW a, PutRegs(a), asm' = VarintStep(a, next)
    PROVE  AsmShape' /\ InPart
<1>1. CASE asm' = [a EXCEPT !.vi = Tail(@)]
  BY <1>1 DEF PutRegs, AsmShape, InPart, SamePart
<1>2. CASE asm' = [a EXCEPT !.state = next[1], !.vi = next[2],
                       !.key_bptr = IF next[1] = "ENT_KEY" THEN 0 ELSE @]
  BY <1>2 DEF PutRegs, AsmShape, InPart, SamePart
<1> QED BY <1>1, <1>2 DEF VarintStep

LEMMA EntVarintEffect ==
    ASSUME AsmShape, EntVarint
    PROVE  AsmShape' /\ InPart
<1> DEFINE next == AfterVarint[asm.state]
           a == PutSummed(Head(asm.vi))
<1>1. asm.state \in {"ENT_USHLEN", "ENT_VALLEN", "ENT_BHOFF", "ENT_BHSZ"} /\ asm' = VarintStep(a, next)
  BY DEF EntVarint
<1>2. next[1] \in {"ENT_VALLEN", "ENT_KEY", "ENT_BHSZ", "ENT_NEXT"}
  BY <1>1 DEF AfterVarint
<1>3. next[1] \in Writing /\ asm.state \in Writing
  BY <1>1, <1>2 DEF Writing
<1>4. PutRegs(a)
  <2> SUFFICES ASSUME NEW x, x = PutSummed(Head(asm.vi))
               PROVE  PutRegs(x)
    OBVIOUS
  <2> QED BY DEF PutRegs, PutSummed, Put, Quiet, AsmShape
<1> HIDE DEF next, a
<1> QED BY <1>1, <1>3, <1>4, VarintEffect

LEMMA FootVarintEffect ==
    ASSUME AsmShape, FootVarint
    PROVE  AsmShape' /\ InPart
<1> DEFINE next == AfterFooterVarint[asm.state]
           a == PutFooter(Head(asm.vi), FALSE)
<1>1. asm.state \in {"FOOT_OFF0", "FOOT_SZ0", "FOOT_OFF1", "FOOT_SZ1"} /\ asm' = VarintStep(a, next)
  BY DEF FootVarint
<1>2. next[1] \in {"FOOT_SZ0", "FOOT_OFF1", "FOOT_SZ1", "FOOT_PAD"}
  BY <1>1 DEF AfterFooterVarint
<1>3. next[1] \in Writing /\ asm.state \in Writing
  BY <1>1, <1>2 DEF Writing
<1>4. PutRegs(a)
  <2> SUFFICES ASSUME NEW x, x = PutFooter(Head(asm.vi), FALSE)
               PROVE  PutRegs(x)
    OBVIOUS
  <2> QED BY DEF PutRegs, PutFooter, Put, Quiet, AsmShape
<1> HIDE DEF next, a
<1> QED BY <1>1, <1>3, <1>4, VarintEffect

LEMMA EntNextEffect ==
    ASSUME AsmShape, EntNext
    PROVE  AsmShape' /\ InPart
BY DEF AsmShape, EntNext, Gone, Quiet, InPart, SamePart, Writing

LEMMA IdxRestEffect ==
    ASSUME AsmShape, IdxRest
    PROVE  AsmShape' /\ InPart
BY DEF AsmShape, IdxRest, Count, PutSummed, Put, Quiet, InPart, SamePart, Writing

LEMMA IdxTrailEffect ==
    ASSUME AsmShape, IdxTrail
    PROVE  AsmShape' /\ InPart
BY DEF AsmShape, IdxTrail, Count, PutTrailer, PutSummed, Put, Quiet, InPart, SamePart, Writing

LEMMA MetaBodyEffect ==
    ASSUME AsmShape, MetaBody
    PROVE  AsmShape' /\ InPart
BY DEF AsmShape, MetaBody, Count, PutTrailer, PutSummed, Put, Quiet, InPart, SamePart, Writing

LEMMA FootPadEffect ==
    ASSUME AsmShape, FootPad
    PROVE  AsmShape' /\ InPart
BY DEF AsmShape, FootPad, PutFooter, Put, Quiet, InPart, SamePart, Writing

LEMMA FootMagicEffect ==
    ASSUME AsmShape, FootMagic
    PROVE  AsmShape' /\ InPart
BY DEF AsmShape, FootMagic, PutFooter, Put, Quiet, InPart, SamePart, Writing

LEMMA PutWaitsEffect ==
    ASSUME AsmShape, AsmFlags, PutWaits
    PROVE  AsmShape' /\ InPart
BY DEF AsmShape, AsmFlags, PutWaits, Quiet, InPart, SamePart, Writing, Between

LEMMA MetaInitEffect ==
    ASSUME AsmShape, MetaInit
    PROVE  AsmShape' /\ asm.state = "META_INIT" /\ Begun(Len(Restarts) + TrailerBytes, "FOOT_INIT")
BY DEF AsmShape, MetaInit, StartWrite, Quiet, Begun

LEMMA FootInitEffect ==
    ASSUME AsmShape, FootInit
    PROVE  AsmShape' /\ asm.state = "FOOT_INIT" /\ Begun(FooterBytes, "DONE")
BY DEF AsmShape, FootInit, StartWrite, Quiet, Begun

\* The lengths of the index entries are added up.
LEMMA ComputeIdxEffect ==
    ASSUME AsmShape, ComputeIdx
    PROVE  /\ AsmShape' /\ asm.state = "COMPUTE_IDX" /\ asm'.wr_start = FALSE
           /\ asm'.done = asm.done /\ asm'.return_state = asm.return_state
           /\ asm'.wr_offset = asm.wr_offset
           /\ \/ /\ asm'.state = "COMPUTE_IDX" /\ asm.blk_idx < Len(meta)
                 /\ asm'.idx_accum = asm.idx_accum + entry_bytes(cur_block)
                 /\ asm'.blk_idx = asm.blk_idx + 1
              \/ asm'.state = "IDX_INIT" /\ asm'.idx_accum = asm.idx_accum
BY DEF AsmShape, ComputeIdx, Quiet

LEMMA AsmDoneEffect ==
    ASSUME AsmShape, AsmDone
    PROVE  AsmShape' /\ asm.state = "DONE" /\ asm'.state = "IDLE" /\ asm'.wr_start = FALSE
           /\ asm'.done = TRUE /\ asm'.return_state = asm.return_state
BY DEF AsmShape, AsmDone, Quiet

\* ST_WR_WAIT: the write has failed, or it is done and the next part follows,
\* or it goes on.
LEMMA WrWaitEffect ==
    ASSUME AsmShape, AsmFlags, WrWait
    PROVE  /\ AsmShape' /\ asm.state = "WR_WAIT" /\ asm'.wr_start = FALSE
           /\ asm'.done = asm.done /\ asm'.return_state = asm.return_state
           /\ \/ eng.error /\ asm'.state = "IDLE"
              \/ /\ ~eng.error /\ eng.done /\ asm'.state = asm.return_state
                 /\ asm'.wr_offset \in {asm.wr_offset + asm.wr_len,
                                        Align(asm.wr_offset + asm.wr_len)}
                 /\ asm'.idx_accum = asm.idx_accum
              \/ InPart
BY DEF AsmShape, AsmFlags, WrWait, Gone, Quiet, InPart, SamePart, Writing


\* The moves of the FSM.
StartsPart ==
    /\ asm.state \in Between
    /\ \E n \in Nat \ {0}, back \in {"META_INIT", "FOOT_INIT", "DONE"} : Begun(n, back)
Computes ==
    /\ asm.state = "COMPUTE_IDX" /\ asm'.state \in {"COMPUTE_IDX", "IDX_INIT"}
    /\ asm'.wr_start = FALSE /\ asm'.done = asm.done /\ asm'.return_state = asm.return_state
    /\ asm'.wr_offset = asm.wr_offset /\ asm'.idx_accum \in Nat \ {0}
    /\ asm'.state = "COMPUTE_IDX" => asm'.blk_idx \in Nat
PartDone ==
    /\ asm.state = "WR_WAIT" /\ ~eng.error /\ eng.done
    /\ asm'.state = asm.return_state
    /\ asm'.wr_start = FALSE /\ asm'.done = asm.done /\ asm'.return_state = asm.return_state
    /\ asm'.wr_offset \in {asm.wr_offset + asm.wr_len, Align(asm.wr_offset + asm.wr_len)}
    /\ asm'.idx_accum = asm.idx_accum
GivesUp ==
    /\ asm.state = "WR_WAIT" /\ eng.error /\ asm'.state = "IDLE"
    /\ asm'.wr_start = FALSE /\ asm'.done = asm.done /\ asm'.return_state = asm.return_state
Completes ==
    /\ asm.state = "DONE" /\ asm'.state = "IDLE"
    /\ asm'.wr_start = FALSE /\ asm'.done = TRUE /\ asm'.return_state = asm.return_state

LEMMA FsmMoves ==
    ASSUME AsmInv, Fsm
    PROVE  AsmShape' /\ (InPart \/ StartsPart \/ Computes \/ PartDone \/ GivesUp \/ Completes)
<1>1. AsmShape /\ AsmFlags /\ PartsBehind /\ meta \in Seq(Filing)
  BY DEF AsmInv
<1>2. TrailerBytes \in Nat /\ Len(Restarts) \in Nat \ {0} /\ FooterBytes \in Nat \ {0}
  <2>1. Len(Magic) \in Nat \ {0} /\ HandleBytes \in Nat
    BY AssemblerAssumption
  <2> QED BY <2>1, RestartsLength DEF TrailerBytes, FooterBytes
<1>3. CASE ComputeIdx
  <2>1. asm.state = "COMPUTE_IDX"
    BY <1>3 DEF ComputeIdx
  <2>2. asm.idx_accum \in Nat \ {0} /\ asm.blk_idx \in Nat
    BY <1>1, <2>1 DEF PartsBehind
  <2>3. asm.blk_idx < Len(meta) => entry_bytes(cur_block) \in Nat
    <3> SUFFICES ASSUME asm.blk_idx < Len(meta) PROVE entry_bytes(cur_block) \in Nat
      OBVIOUS
    <3>1. asm.blk_idx + 1 \in 1..Len(meta)
      BY <1>1, <2>2
    <3>2. meta[asm.blk_idx + 1] \in Filing
      BY <1>1, <3>1, ElementOfSeq
    <3> QED BY <3>2, EntryBytesNat DEF cur_block
  <2> DEFINE n == entry_bytes(cur_block)
  <2> HIDE DEF n
  <2>4. n \in Nat => asm.idx_accum + n \in Nat \ {0}
    BY <2>2
  <2>5. asm.blk_idx + 1 \in Nat
    BY <2>2
  <2>6. \/ /\ asm'.state = "COMPUTE_IDX" /\ asm.blk_idx < Len(meta)
           /\ asm'.idx_accum = asm.idx_accum + n /\ asm'.blk_idx = asm.blk_idx + 1
        \/ asm'.state = "IDX_INIT" /\ asm'.idx_accum = asm.idx_accum
    BY <1>1, <1>3, ComputeIdxEffect DEF n
  <2>7. Computes
    BY <1>1, <1>3, <2>2, <2>3, <2>4, <2>5, <2>6, ComputeIdxEffect DEF Computes, n
  <2> QED BY <1>1, <1>3, <2>7, ComputeIdxEffect
<1>4. CASE IdxInit
  <2>1. asm.idx_accum \in Nat \ {0}
    BY <1>1, <1>4, IdxInitEffect DEF PartsBehind
  <2> QED BY <1>1, <1>4, <2>1, IdxInitEffect DEF StartsPart, Between
<1>5. CASE MetaInit
  <2>1. Len(Restarts) + TrailerBytes \in Nat \ {0}
    BY <1>2
  <2> QED BY <1>1, <1>5, <2>1, MetaInitEffect DEF StartsPart, Between
<1>6. CASE FootInit
  BY <1>1, <1>2, <1>6, FootInitEffect DEF StartsPart, Between
<1>7. CASE WrWait
  BY <1>1, <1>7, WrWaitEffect DEF PartDone, GivesUp
<1>8. CASE AsmDone
  BY <1>1, <1>8, AsmDoneEffect DEF Completes
<1>9. CASE \/ MetaFetch \/ EntShared \/ EntVarint \/ EntKey \/ EntNext \/ IdxRest \/ IdxTrail
           \/ MetaBody \/ FootVarint \/ FootPad \/ FootMagic \/ PutWaits
  BY <1>1, <1>9, MetaFetchEffect, EntSharedEffect, EntVarintEffect, EntKeyEffect, EntNextEffect,
     IdxRestEffect, IdxTrailEffect, MetaBodyEffect, FootVarintEffect, FootPadEffect,
     FootMagicEffect, PutWaitsEffect
<1> QED BY <1>3, <1>4, <1>5, <1>6, <1>7, <1>8, <1>9 DEF Fsm

\* The moves of the engine.  It has nothing to do, begins a call, asks for a
\* burst, sends its beats and takes the answer.
EngSame ==
    /\ eng'.error = eng.error /\ rejected' = rejected
EngFlags ==
    /\ eng.done \in BOOLEAN /\ eng.error \in BOOLEAN
    /\ eng.awvalid \in BOOLEAN /\ eng.wvalid \in BOOLEAN /\ eng.wlast \in BOOLEAN
    /\ eng.state \in {"IDLE", "AW", "W", "B"} /\ rejected \in BOOLEAN

LEMMA EngineStartEffect ==
    ASSUME EngShape, EngFlags, EngineStart
    PROVE  /\ EngShape' /\ EngFlags' /\ eng.state = "IDLE" /\ mem' = mem /\ rejected' = rejected
           /\ eng'.done = FALSE /\ eng'.awvalid = eng.awvalid /\ eng'.wvalid = eng.wvalid
           /\ \/ ~asm.wr_start /\ eng'.state = "IDLE" /\ eng'.error = eng.error
              \/ /\ asm.wr_start /\ eng'.state = "AW"
                 /\ eng'.beats_remaining = Align(asm.wr_len) \div BeatBytes
                 /\ eng'.cur_addr = asm.wr_addr
BY DEF EngShape, EngFlags, EngineStart, Idle

LEMMA EngineAWEffect ==
    ASSUME EngShape, EngFlags, NEW served, EngineAW(served)
    PROVE  /\ EngShape' /\ EngFlags' /\ eng.state = "AW" /\ mem' = mem /\ EngSame
           /\ eng'.done = FALSE /\ eng'.wvalid = eng.wvalid
           /\ eng'.cur_addr = eng.cur_addr /\ eng'.beats_remaining = eng.beats_remaining
           /\ \/ /\ ~eng.awvalid /\ eng'.state = "AW" /\ eng'.awaddr = eng.cur_addr
                 /\ eng'.burst_index = 0
                 /\ eng'.burst_beats = Min({BurstBeats, eng.beats_remaining})
              \/ /\ eng.awvalid /\ eng'.state \in {"AW", "W"}
                 /\ eng'.awvalid = (eng'.state = "AW")
                 /\ eng'.awaddr = eng.awaddr /\ eng'.burst_index = eng.burst_index
                 /\ eng'.burst_beats = eng.burst_beats
BY DEF EngShape, EngFlags, EngineAW, Idle, EngSame

LEMMA EngineBEffect ==
    ASSUME EngShape, EngFlags, NEW served \in BOOLEAN, NEW bad \in BOOLEAN, EngineB(served, bad)
    PROVE  /\ EngShape' /\ EngFlags' /\ eng.state = "B" /\ mem' = mem
           /\ eng'.wvalid = eng.wvalid /\ eng'.awvalid = eng.awvalid
           /\ eng'.beats_remaining = eng.beats_remaining /\ eng'.burst_beats = eng.burst_beats
           /\ \/ /\ eng'.error = (eng.error \/ bad) /\ rejected' = (rejected \/ bad)
                 /\ eng'.cur_addr = eng.cur_addr + eng.burst_beats * BeatBytes
                 /\ eng'.done = (eng.beats_remaining = 0)
                 /\ eng'.state = IF eng.beats_remaining = 0 THEN "IDLE" ELSE "AW"
              \/ EngSame /\ eng'.done = FALSE /\ eng'.state = "B" /\ eng'.cur_addr = eng.cur_addr
BY DEF EngShape, EngFlags, EngineB, Idle, EngSame


LEMMA EngineWEffect ==
    ASSUME EngShape, EngFlags, NEW served \in BOOLEAN, EngineW(served)
    PROVE  /\ EngShape' /\ EngFlags' /\ eng.state = "W" /\ EngSame
           /\ eng'.done = FALSE /\ eng'.awvalid = eng.awvalid
           /\ eng'.cur_addr = eng.cur_addr /\ eng'.awaddr = eng.awaddr
           /\ eng'.burst_beats = eng.burst_beats
           /\ \/ /\ mem' = mem /\ eng'.state = "W" /\ eng'.wvalid = TRUE
                 /\ eng'.burst_index = eng.burst_index
                 /\ eng'.beats_remaining = eng.beats_remaining
                 /\ eng'.wlast = (eng.burst_index + 1 = eng.burst_beats)
              \/ /\ eng.wvalid /\ eng'.wvalid = FALSE
                 /\ \A a \in DOMAIN mem' : a \in DOMAIN mem \/
                       a \in eng.awaddr + eng.burst_index * BeatBytes
                             ..eng.awaddr + eng.burst_index * BeatBytes + Len(eng.wdata) - 1
                 /\ eng'.burst_index = eng.burst_index + 1
                 /\ eng'.beats_remaining = eng.beats_remaining - 1
                 /\ eng'.state = IF eng.wlast THEN "B" ELSE "W"
              \/ /\ mem' = mem /\ eng'.state = "W" /\ eng'.wvalid = eng.wvalid
                 /\ eng'.burst_index = eng.burst_index
                 /\ eng'.beats_remaining = eng.beats_remaining /\ eng'.wlast = eng.wlast
<1> DEFINE base == eng.awaddr + eng.burst_index * BeatBytes
           cells == base..base + Len(eng.wdata) - 1
<1>1. eng.state = "W" /\ rejected' = rejected
  BY DEF EngineW
<1>2. CASE /\ eng' = [Idle EXCEPT !.wvalid = TRUE, !.wdata = pack.bytes,
                           !.wlast = eng.burst_index + 1 = eng.burst_beats]
           /\ mem' = mem
  BY <1>1, <1>2 DEF EngShape, EngFlags, Idle, EngSame
<1>3. CASE /\ eng.wvalid
           /\ mem' = [a \in cells \cup DOMAIN mem |->
                          IF a \in cells THEN eng.wdata[a - base + 1] ELSE mem[a]]
           /\ eng' = [Idle EXCEPT !.wvalid = FALSE, !.wdata = <<>>,
                          !.beats_remaining = @ - 1, !.burst_index = @ + 1,
                          !.state = IF eng.wlast THEN "B" ELSE @]
  <2>1. DOMAIN mem' = cells \cup DOMAIN mem
    BY <1>3
  <2>2. /\ EngShape' /\ EngFlags' /\ eng'.error = eng.error
        /\ eng'.done = FALSE /\ eng'.awvalid = eng.awvalid
        /\ eng'.cur_addr = eng.cur_addr /\ eng'.awaddr = eng.awaddr
        /\ eng'.burst_beats = eng.burst_beats /\ eng'.wvalid = FALSE
        /\ eng'.burst_index = eng.burst_index + 1
        /\ eng'.beats_remaining = eng.beats_remaining - 1
        /\ eng'.state = IF eng.wlast THEN "B" ELSE "W"
    BY <1>1, <1>3 DEF EngShape, EngFlags, Idle
  <2> QED BY <1>1, <1>3, <2>1, <2>2 DEF EngSame
<1>4. CASE eng' = Idle /\ mem' = mem
  BY <1>1, <1>4 DEF EngShape, EngFlags, Idle, EngSame
<1> QED BY <1>2, <1>3, <1>4 DEF EngineW

\* What both machines do in a clock keeps their turns.
LEMMA TickTurns ==
    ASSUME AsmInv, NEW served \in BOOLEAN, NEW bad \in BOOLEAN, AsmTick(served, bad)
    PROVE  AsmShape' /\ EngShape' /\ AsmFlags' /\ Unstarted' /\ Turns' /\ RejectionHeld'
<1>1. /\ AsmShape /\ EngShape /\ AsmFlags /\ Unstarted /\ Turns /\ RejectionHeld
  BY DEF AsmInv
<1>2. EngFlags
  BY <1>1 DEF AsmFlags, EngFlags
<1>3. Fsm /\ meta' = meta
      /\ (EngineStart \/ EngineAW(served) \/ EngineW(served) \/ EngineB(served, bad))
  BY DEF AsmTick, Engine
<1>4. AsmShape' /\ (InPart \/ StartsPart \/ Computes \/ PartDone \/ GivesUp \/ Completes)
  BY <1>3, FsmMoves
<1>5. asm.state /= "IDLE"
  BY <1>4 DEF InPart, StartsPart, Computes, PartDone, GivesUp, Completes, Writing, Between
<1>6. meta /= <<>> /\ ~asm.done
  BY <1>1, <1>5 DEF Unstarted, Turns
<1>7. Unstarted'
  BY <1>3, <1>6 DEF Unstarted
<1>8. /\ EngShape' /\ EngFlags'
      /\ eng'.done => eng'.state = "IDLE"
      /\ eng'.awvalid => eng'.state = "AW"
      /\ eng'.wvalid => eng'.state = "W"
      /\ eng.state = "IDLE" /\ ~asm.wr_start => /\ eng'.state = "IDLE" /\ EngSame
      /\ ~asm.wr_start => (rejected' /\ ~rejected => eng.state = "B" /\ eng'.error)
      /\ ~asm.wr_start => (eng.error => eng'.error)
      /\ asm.wr_start => rejected' = rejected
  <2>1. CASE EngineStart
    <3>1. /\ EngShape' /\ EngFlags' /\ eng.state = "IDLE" /\ rejected' = rejected
          /\ eng'.done = FALSE /\ eng'.awvalid = eng.awvalid /\ eng'.wvalid = eng.wvalid
          /\ ~asm.wr_start => eng'.state = "IDLE" /\ eng'.error = eng.error
      BY <1>1, <1>2, <2>1, EngineStartEffect
    <3>2. ~eng.awvalid /\ ~eng.wvalid
      BY <1>1, <3>1 DEF Turns
    <3> QED BY <3>1, <3>2, Zenon DEF EngSame
  <2>2. CASE EngineAW(served)
    BY <1>1, <1>2, <2>2, EngineAWEffect DEF Turns, EngSame
  <2>3. CASE EngineW(served)
    BY <1>1, <1>2, <2>3, EngineWEffect DEF Turns, EngSame
  <2>4. CASE EngineB(served, bad)
    BY <1>1, <1>2, <2>4, EngineBEffect DEF Turns, EngSame, EngFlags
  <2> QED BY <1>3, <2>1, <2>2, <2>3, <2>4
<1>9. AsmFlags'
  BY <1>1, <1>4, <1>8 DEF AsmFlags, EngFlags, InPart, SamePart, StartsPart, Begun, Computes, PartDone,
                          GivesUp, Completes, Writing, Between
<1>10. asm.state \in Between => ~asm.wr_start /\ eng.state = "IDLE"
  BY <1>1 DEF Turns, Between
<1>11. asm.state = "WR_WAIT" => ~asm.wr_start
  BY <1>1 DEF Turns
<1>12. Turns'
  <2>1. CASE InPart
    BY <1>6, <1>8, <2>1 DEF Turns, InPart, SamePart, Writing, Between
  <2>2. CASE StartsPart
    BY <1>6, <1>8, <1>10, <2>2 DEF Turns, StartsPart, Begun, Between
  <2>3. CASE Computes
    BY <1>6, <1>8, <1>10, <2>3 DEF Turns, Computes, Between
  <2>4. CASE PartDone
    BY <1>1, <1>6, <1>8, <1>11, <2>4 DEF Turns, PartDone
  <2>5. CASE GivesUp \/ Completes
    BY <1>8, <2>5 DEF Turns, GivesUp, Completes, Between
  <2> QED BY <1>4, <2>1, <2>2, <2>3, <2>4, <2>5
<1>13. RejectionHeld'
  <2> SUFFICES ASSUME rejected'
               PROVE  eng'.error /\ ~asm'.wr_start /\ ~asm'.done /\ asm'.state \in Writing \cup {"IDLE"}
    BY DEF RejectionHeld
  <2>1. rejected \in BOOLEAN
    BY <1>1 DEF AsmFlags
  <2>2. CASE rejected
    <3>1. eng.error /\ ~asm.wr_start /\ asm.state \in Writing
      BY <1>1, <1>5, <2>2 DEF RejectionHeld
    <3>2. InPart \/ GivesUp
      BY <1>4, <3>1 DEF StartsPart, Computes, PartDone, Completes, Writing, Between
    <3> QED BY <1>6, <1>8, <3>1, <3>2 DEF InPart, SamePart, GivesUp
  <2>3. CASE ~rejected
    <3>1. ~asm.wr_start /\ eng.state = "B" /\ eng'.error
      BY <1>1, <1>8, <2>3 DEF Turns
    <3>2. InPart \/ GivesUp
      BY <1>1, <1>4, <1>10, <3>1 DEF StartsPart, Computes, PartDone, Completes, Turns, Between
    <3> QED BY <1>6, <3>1, <3>2 DEF InPart, SamePart, GivesUp
  <2> QED BY <2>1, <2>2, <2>3
<1> QED BY <1>4, <1>7, <1>8, <1>9, <1>12, <1>13


\* A part begins where the one before it ends.
LEMMA TickParts ==
    ASSUME AsmInv, NEW served \in BOOLEAN, NEW bad \in BOOLEAN, AsmTick(served, bad)
    PROVE  PartsBehind'
<1> DEFINE d == data_end_offset
<1>1. AsmFlags /\ PartsBehind /\ meta \in Seq(Filing) /\ Turns
  BY DEF AsmInv
<1>2. d' = d /\ d \in Nat
  BY <1>1, DataEndNat DEF AsmTick, data_end_offset
<1>3. InPart \/ StartsPart \/ Computes \/ PartDone \/ GivesUp \/ Completes
  BY FsmMoves DEF AsmTick
<1>4. Between \cap Writing = {} /\ "IDLE" \notin Between \cup Writing
      /\ "COMPUTE_IDX" \in Between /\ "IDX_INIT" \in Between
  BY DEF Between, Writing
<1> HIDE DEF d
<1>5. /\ asm.state # "IDLE" => /\ asm.wr_offset \in Nat /\ asm.wr_offset >= d
                               /\ asm.idx_accum \in Nat \ {0}
      /\ asm.state \in Writing => /\ asm.wr_len \in Nat \ {0}
                                  /\ asm.wr_addr \in Nat /\ asm.wr_addr >= d
  BY <1>1 DEF PartsBehind, d
<1>6. SUFFICES
        /\ asm'.state # "IDLE" => /\ asm'.wr_offset \in Nat /\ asm'.wr_offset >= d
                                  /\ asm'.idx_accum \in Nat \ {0}
        /\ asm'.state = "COMPUTE_IDX" => asm'.blk_idx \in Nat
        /\ asm'.state \in Writing => /\ asm'.wr_len \in Nat \ {0}
                                     /\ asm'.wr_addr \in Nat /\ asm'.wr_addr >= d
  BY <1>2 DEF PartsBehind, d
<1>7. CASE InPart
  BY <1>4, <1>5, <1>7 DEF InPart, SamePart
<1>8. CASE StartsPart
  <2>1. PICK n \in Nat \ {0}, back \in {"META_INIT", "FOOT_INIT", "DONE"} : Begun(n, back)
    BY <1>8 DEF StartsPart
  <2>2. asm.state # "IDLE" /\ asm'.state # "COMPUTE_IDX"
    BY <1>4, <1>8, <2>1 DEF StartsPart, Begun
  <2> QED BY <1>5, <2>1, <2>2 DEF Begun
<1>9. CASE Computes
  BY <1>4, <1>5, <1>9 DEF Computes
<1>10. CASE PartDone
  <2>1. asm'.state \in Between /\ asm'.state # "COMPUTE_IDX" /\ asm.state \in Writing
    BY <1>1, <1>10 DEF PartDone, AsmFlags, Between, Writing
  <2>2. asm.wr_offset \in Nat /\ asm.wr_offset >= d /\ asm.wr_len \in Nat /\ asm.idx_accum \in Nat \ {0}
    BY <1>4, <1>5, <2>1
  <2> DEFINE n == asm.wr_offset + asm.wr_len
  <2>3. n \in Nat /\ n >= d
    BY <1>2, <2>2
  <2>4. asm'.wr_offset \in {n, Align(n)} /\ asm'.idx_accum = asm.idx_accum
    BY <1>10 DEF PartDone
  <2> HIDE DEF n
  <2>5. Align(n) \in Nat /\ Align(n) >= n
    BY <2>3, AlignBehind
  <2>6. asm'.wr_offset \in Nat /\ asm'.wr_offset >= d
    BY <1>2, <2>3, <2>4, <2>5
  <2> QED BY <1>4, <2>1, <2>2, <2>4, <2>6
<1>11. CASE GivesUp \/ Completes
  BY <1>4, <1>11 DEF GivesUp, Completes
<1> QED BY <1>3, <1>7, <1>8, <1>9, <1>10, <1>11

\* Every burst has beats left for it and lies behind the data.
LEMMA TickBursts ==
    ASSUME AsmInv, NEW served \in BOOLEAN, NEW bad \in BOOLEAN, AsmTick(served, bad)
    PROVE  BurstsBehind' /\ TailBehindData'
<1> DEFINE d == data_end_offset
           i == eng.burst_index
           b == eng.burst_beats
           r == eng.beats_remaining
<1>1. EngShape /\ AsmFlags /\ PartsBehind /\ meta \in Seq(Filing) /\ Turns /\ BurstsBehind
  BY DEF AsmInv
<1>2. EngFlags
  BY <1>1 DEF AsmFlags, EngFlags
<1>3. d' = d /\ d \in Nat
  BY <1>1, DataEndNat DEF AsmTick, data_end_offset
<1>4. BeatBytes \in Nat \ {0} /\ BurstBeats \in Nat \ {0}
  BY AssemblerAssumption
<1>5. \A x, y \in Nat : x * y \in Nat
  BY SMT
<1> HIDE DEF d
<1>6. /\ eng.state # "IDLE" => eng.cur_addr \in Nat /\ eng.cur_addr >= d /\ r \in Nat
      /\ eng.state = "AW" => r > 0
      /\ (eng.state = "AW" /\ eng.awvalid) \/ eng.state = "W" =>
             eng.awaddr \in Nat /\ eng.awaddr >= d /\ i \in Nat /\ b \in Nat /\ i < b /\ b - i <= r
      /\ eng.state = "W" /\ eng.wvalid => (eng.wlast <=> i + 1 = b)
      /\ eng.state = "B" => b \in Nat
      /\ \A a \in DOMAIN mem : a >= d
  BY <1>1 DEF BurstsBehind, AsmInv, TailBehindData, d
<1>7. SUFFICES
        /\ eng'.state # "IDLE" => /\ eng'.cur_addr \in Nat /\ eng'.cur_addr >= d
                                  /\ eng'.beats_remaining \in Nat
        /\ eng'.state = "AW" => eng'.beats_remaining > 0
        /\ (eng'.state = "AW" /\ eng'.awvalid) \/ eng'.state = "W" =>
               /\ eng'.awaddr \in Nat /\ eng'.awaddr >= d
               /\ eng'.burst_index \in Nat /\ eng'.burst_beats \in Nat
               /\ eng'.burst_index < eng'.burst_beats
               /\ eng'.burst_beats - eng'.burst_index <= eng'.beats_remaining
        /\ eng'.state = "W" /\ eng'.wvalid => (eng'.wlast <=> eng'.burst_index + 1 = eng'.burst_beats)
        /\ eng'.state = "B" => eng'.burst_beats \in Nat
        /\ \A a \in DOMAIN mem' : a >= d
  BY <1>3 DEF BurstsBehind, TailBehindData, d
<1>8. CASE EngineStart
  <2>1. /\ eng.state = "IDLE" /\ mem' = mem /\ eng'.awvalid = eng.awvalid
        /\ \/ ~asm.wr_start /\ eng'.state = "IDLE"
           \/ /\ asm.wr_start /\ eng'.state = "AW"
              /\ eng'.beats_remaining = Align(asm.wr_len) \div BeatBytes
              /\ eng'.cur_addr = asm.wr_addr
    BY <1>1, <1>2, <1>8, EngineStartEffect
  <2>2. ~eng.awvalid
    BY <1>1, <2>1 DEF Turns
  <2>3. CASE asm.wr_start
    <3>1. asm.state \in Writing
      BY <1>1, <2>3 DEF Turns, Writing
    <3>2. asm.wr_len \in Nat /\ asm.wr_len > 0 /\ asm.wr_addr \in Nat /\ asm.wr_addr >= d
      BY <1>1, <3>1 DEF PartsBehind, d
    <3>3. Align(asm.wr_len) \div BeatBytes \in Nat /\ Align(asm.wr_len) \div BeatBytes > 0
      BY <3>2, AlignBehind
    <3> QED BY <1>6, <2>1, <2>2, <2>3, <3>2, <3>3
  <2>4. CASE ~asm.wr_start
    BY <1>6, <2>1, <2>4
  <2> QED BY <2>3, <2>4
<1>9. CASE EngineAW(served)
  <2>1. /\ eng.state = "AW" /\ mem' = mem /\ eng'.wvalid = eng.wvalid
        /\ eng'.cur_addr = eng.cur_addr /\ eng'.beats_remaining = r
        /\ \/ /\ ~eng.awvalid /\ eng'.state = "AW" /\ eng'.awaddr = eng.cur_addr
              /\ eng'.burst_index = 0
              /\ eng'.burst_beats = Min({BurstBeats, r})
           \/ /\ eng.awvalid /\ eng'.state \in {"AW", "W"}
              /\ eng'.awaddr = eng.awaddr /\ eng'.burst_index = i /\ eng'.burst_beats = b
    BY <1>1, <1>2, <1>9, EngineAWEffect
  <2>2. r \in Nat /\ r > 0 /\ eng.cur_addr \in Nat /\ eng.cur_addr >= d /\ ~eng.wvalid
    BY <1>1, <1>6, <2>1 DEF Turns
  <2> DEFINE n == Min({BurstBeats, r})
  <2>3. n \in Nat /\ n <= r /\ n > 0
    <3>1. n \in Nat /\ n <= r /\ (n = BurstBeats \/ n = r)
      BY <1>4, <2>2, MinPair
    <3> HIDE DEF n
    <3> QED BY <1>4, <2>2, <3>1
  <2>4. n - 0 <= r /\ 0 < n
    BY ONLY <2>2, <2>3
  <2> HIDE DEF n
  <2>5. CASE ~eng.awvalid
    <3>1. /\ eng'.state = "AW" /\ eng'.awaddr = eng.cur_addr /\ eng'.burst_index = 0
          /\ eng'.burst_beats = n
      BY <2>1, <2>5 DEF n
    <3> QED BY <1>6, <2>1, <2>2, <2>3, <2>4, <3>1
  <2>6. CASE eng.awvalid
    BY <1>6, <2>1, <2>2, <2>6
  <2> QED BY <2>5, <2>6
<1>10. CASE EngineW(served)
  <2> DEFINE base == eng.awaddr + i * BeatBytes
             cells == base..base + Len(eng.wdata) - 1
  <2>1. /\ eng.state = "W"
        /\ eng'.awvalid = eng.awvalid
        /\ eng'.cur_addr = eng.cur_addr /\ eng'.awaddr = eng.awaddr
        /\ eng'.burst_beats = b
        /\ \/ /\ mem' = mem /\ eng'.state = "W"
              /\ eng'.burst_index = i /\ eng'.beats_remaining = r
              /\ eng'.wlast = (i + 1 = b)
           \/ /\ eng.wvalid /\ eng'.wvalid = FALSE
              /\ \A a \in DOMAIN mem' : a \in DOMAIN mem \/ a \in cells
              /\ eng'.burst_index = i + 1 /\ eng'.beats_remaining = r - 1
              /\ eng'.state = IF eng.wlast THEN "B" ELSE "W"
           \/ /\ mem' = mem /\ eng'.state = "W" /\ eng'.wvalid = eng.wvalid
              /\ eng'.burst_index = i
              /\ eng'.beats_remaining = r /\ eng'.wlast = eng.wlast
    BY <1>1, <1>2, <1>10, EngineWEffect
  <2>2. /\ eng.cur_addr \in Nat /\ eng.cur_addr >= d /\ r \in Nat
        /\ eng.awaddr \in Nat /\ eng.awaddr >= d /\ i \in Nat /\ b \in Nat /\ i < b /\ b - i <= r
        /\ eng.wvalid => (eng.wlast <=> i + 1 = b)
        /\ \A a \in DOMAIN mem : a >= d
    BY <1>6, <2>1
  <2>3. \A a \in cells : a >= d
    <3>1. i * BeatBytes \in Nat
      BY <1>4, <1>5, <2>2
    <3>2. base \in Nat /\ base >= d
      BY <1>3, <2>2, <3>1
    <3> HIDE DEF base
    <3> QED BY <1>3, <3>2
  <2> HIDE DEF cells
  <2>4. CASE /\ eng.wvalid /\ eng'.wvalid = FALSE
             /\ \A a \in DOMAIN mem' : a \in DOMAIN mem \/ a \in cells
             /\ eng'.burst_index = i + 1 /\ eng'.beats_remaining = r - 1
             /\ eng'.state = IF eng.wlast THEN "B" ELSE "W"
    <3>1. r - 1 \in Nat /\ i + 1 \in Nat /\ (i + 1 = b \/ (i + 1 < b /\ b - (i + 1) <= r - 1))
      BY ONLY <2>2
    <3>2. \A a \in DOMAIN mem' : a >= d
      BY <2>2, <2>3, <2>4
    <3>3. CASE eng.wlast
      BY <2>1, <2>2, <2>4, <3>1, <3>2, <3>3
    <3>4. CASE ~eng.wlast
      BY <2>1, <2>2, <2>4, <3>1, <3>2, <3>4
    <3> QED BY <3>3, <3>4
  <2>5. CASE /\ mem' = mem /\ eng'.state = "W"
             /\ eng'.burst_index = i /\ eng'.beats_remaining = r
             /\ eng'.wlast = (i + 1 = b) \/ (eng'.wvalid = eng.wvalid /\ eng'.wlast = eng.wlast)
    <3>1. eng'.wvalid => (eng'.wlast <=> i + 1 = b)
      BY <2>2, <2>5
    <3> QED BY <2>1, <2>2, <2>5, <3>1
  <2> QED BY <2>1, <2>4, <2>5
<1>11. CASE EngineB(served, bad)
  <2>1. /\ eng.state = "B" /\ mem' = mem /\ eng'.awvalid = eng.awvalid
        /\ eng'.beats_remaining = r /\ eng'.burst_beats = b
        /\ \/ /\ eng'.cur_addr = eng.cur_addr + b * BeatBytes
              /\ eng'.state = IF r = 0 THEN "IDLE" ELSE "AW"
           \/ eng'.state = "B" /\ eng'.cur_addr = eng.cur_addr
    BY <1>1, <1>2, <1>11, EngineBEffect
  <2>2. /\ eng.cur_addr \in Nat /\ eng.cur_addr >= d /\ r \in Nat /\ b \in Nat /\ ~eng.awvalid
        /\ \A a \in DOMAIN mem : a >= d
    BY <1>1, <1>6, <2>1 DEF Turns
  <2>3. b * BeatBytes \in Nat
    BY <1>4, <1>5, <2>2
  <2>4. eng.cur_addr + b * BeatBytes \in Nat /\ eng.cur_addr + b * BeatBytes >= d
    BY <1>3, <2>2, <2>3
  <2> QED BY <2>1, <2>2, <2>4
<1> QED BY <1>8, <1>9, <1>10, <1>11 DEF AsmTick, Engine


LEMMA InitAsmInv ==
    ASSUME Init
    PROVE  AsmInv
<1>1. AsmInit
  BY DEF Init
<1>2. AsmShape /\ EngShape
  BY <1>1 DEF AsmInit, AsmShape, EngShape
<1>3. meta \in Seq(Filing)
  <2>1. meta = <<>>
    BY <1>1 DEF AsmInit
  <2> QED BY <2>1
<1>4. AsmFlags /\ Unstarted /\ Turns /\ RejectionHeld /\ PartsBehind /\ BurstsBehind
  BY <1>1 DEF AsmInit, AsmFlags, Unstarted, Turns, RejectionHeld, PartsBehind, BurstsBehind,
              Between, Writing
<1>5. TailBehindData
  <2>1. mem = <<>>
    BY <1>1 DEF AsmInit
  <2>2. DOMAIN mem = {}
    BY <2>1
  <2> QED BY <2>2 DEF TailBehindData
<1> QED BY <1>2, <1>3, <1>4, <1>5 DEF AsmInv

\* The encoded block is filed behind those before it.
LEMMA FiledBlocks ==
    ASSUME EncInv, EncDone, NEW blocks \in Earlier
    PROVE  Append(blocks, [offset |-> DataEnd(blocks),
                           size |-> enc.output_block_bytes + TrailerBytes,
                           key |-> last_key_bytes]) \in Seq(Filing) \ {<<>>}
<1> DEFINE b == [offset |-> DataEnd(blocks), size |-> enc.output_block_bytes + TrailerBytes,
                 key |-> last_key_bytes]
<1>1. blocks \in Seq(Filing)
  <2>1. /\ blocks \in Seq([key : Seq(Byte), offset : Nat, size : Nat])
        /\ \A i \in DOMAIN blocks : blocks[i].size >= TrailerBytes
    BY EarlierAssumption
  <2>2. \A i \in 1..Len(blocks) : blocks[i] \in Filing
    <3> TAKE i \in 1..Len(blocks)
    <3>1. blocks[i] \in [key : Seq(Byte), offset : Nat, size : Nat]
      BY <2>1, ElementOfSeq
    <3>2. blocks[i].size >= TrailerBytes
      BY <2>1
    <3> QED BY ONLY <3>1, <3>2 DEF Filing
  <2>3. blocks = [i \in 1..Len(blocks) |-> blocks[i]] /\ Len(blocks) \in Nat
    BY <2>1
  <2>4. blocks \in [1..Len(blocks) -> Filing]
    BY ONLY <2>2, <2>3
  <2> QED BY ONLY <2>3, <2>4, SeqByElement
<1>2. enc.state = "IDLE" /\ ~enc.error
  BY DEF EncDone
<1>3. EncType /\ TailInv
  BY <1>2 DEF EncInv
<1>4. enc.output_block_bytes \in Nat
  BY <1>3 DEF EncType, EncRegisters
<1>5. last_key_bytes = Last(records).key
  BY InvIndexKey DEF IndexKeyIsLast
<1>6. last_key_bytes \in Seq(Byte)
  <2>1. records \in Seq(Record) /\ Len(records) \in 1..Len(records)
    BY <1>3, RecordsType
  <2>2. records[Len(records)] \in Record
    BY <2>1, ElementOfSeq
  <2> QED BY <1>5, <2>2 DEF Last, Record
<1>7. DataEnd(blocks) \in Nat
  BY <1>1, DataEndNat
<1>8. enc.output_block_bytes + TrailerBytes \in Nat /\ enc.output_block_bytes + TrailerBytes >= TrailerBytes
  BY <1>4 DEF TrailerBytes
<1>9. b \in Filing
  BY <1>6, <1>7, <1>8 DEF Filing
<1> HIDE DEF b
<1>10. Append(blocks, b) \in Seq(Filing) /\ Append(blocks, b) /= <<>>
  <2>1. Append(blocks, b) \in Seq(Filing) /\ Len(Append(blocks, b)) = Len(blocks) + 1
    BY ONLY <1>1, <1>9
  <2>2. Len(blocks) \in Nat /\ Len(<<>>) = 0
    BY ONLY <1>1
  <2> QED BY ONLY <2>1, <2>2
<1> QED BY <1>10 DEF b

LEMMA StartAssemblerStep ==
    ASSUME EncInv, AsmInv, StartAssembler
    PROVE  AsmInv'
<1>1. PICK blocks \in Earlier :
          AsmStart(Append(blocks, [offset |-> DataEnd(blocks),
                                   size |-> enc.output_block_bytes + TrailerBytes,
                                   key |-> last_key_bytes]))
  BY DEF StartAssembler
<1> DEFINE all == Append(blocks, [offset |-> DataEnd(blocks),
                                  size |-> enc.output_block_bytes + TrailerBytes,
                                  key |-> last_key_bytes])
<1>2. EncDone /\ meta = <<>>
  BY DEF StartAssembler
<1>3. all \in Seq(Filing) /\ all /= <<>>
  BY <1>2, FiledBlocks
<1>4. AsmStart(all)
  BY <1>1
<1> HIDE DEF all
<1>5. /\ AsmShape /\ EngShape /\ AsmFlags /\ Turns /\ RejectionHeld /\ BurstsBehind
      /\ asm.state = "IDLE" /\ ~asm.wr_start /\ ~asm.done /\ ~rejected
      /\ eng.state = "IDLE" /\ mem = <<>>
  BY <1>2 DEF AsmInv, Unstarted
<1>6. /\ meta' = all /\ eng' = eng /\ mem' = mem /\ rejected' = rejected
      /\ AsmShape' /\ asm'.state = "COMPUTE_IDX" /\ asm'.done = FALSE /\ asm'.wr_start = FALSE
      /\ asm'.return_state = asm.return_state
      /\ asm'.wr_offset = DataEnd(all) /\ asm'.blk_idx = 0
      /\ asm'.idx_accum = Len(Restarts) + TrailerBytes
  BY <1>4, <1>5 DEF AsmStart, Quiet, AsmShape
<1>7. EngShape' /\ AsmFlags'
  BY <1>5, <1>6 DEF EngShape, AsmFlags, Between
<1>8. Unstarted' /\ Turns' /\ RejectionHeld'
  BY <1>3, <1>5, <1>6 DEF Unstarted, Turns, RejectionHeld
<1>9. PartsBehind'
  <2>1. Len(Restarts) + TrailerBytes \in Nat \ {0}
    BY RestartsLength DEF TrailerBytes
  <2>2. DataEnd(all) \in Nat /\ data_end_offset' = DataEnd(all)
    BY <1>3, <1>6, DataEndNat DEF data_end_offset
  <2>3. DataEnd(all) >= DataEnd(all) /\ 0 \in Nat /\ "COMPUTE_IDX" \notin Writing
    BY <2>2 DEF Writing
  <2> QED BY <1>6, <2>1, <2>2, <2>3 DEF PartsBehind
<1>10. BurstsBehind'
  BY <1>5, <1>6 DEF BurstsBehind
<1>11. TailBehindData'
  <2>1. DOMAIN mem' = {}
    BY <1>5, <1>6
  <2> QED BY <2>1 DEF TailBehindData
<1> QED BY <1>3, <1>6, <1>7, <1>8, <1>9, <1>10, <1>11 DEF AsmInv

LEMMA NextAsmInv ==
    ASSUME EncInv, AsmInv, [Next]_vars
    PROVE  AsmInv'
<1>1. CASE StartAssembler
  BY <1>1, StartAssemblerStep
<1>2. CASE Assemble
  <2>1. PICK served \in BOOLEAN, bad \in BOOLEAN : AsmTick(served, bad)
    BY <1>2 DEF Assemble, AsmNext
  <2>2. meta' = meta /\ meta \in Seq(Filing)
    BY <2>1 DEF AsmTick, AsmInv
  <2> QED BY <2>1, <2>2, TickTurns, TickParts, TickBursts DEF AsmInv
<1>3. CASE UNCHANGED asmVars
  <2>1. meta' = meta /\ asm' = asm /\ eng' = eng /\ mem' = mem /\ rejected' = rejected
    BY <1>3 DEF asmVars
  <2> QED BY <2>1 DEF AsmInv, AsmShape, EngShape, AsmFlags, Unstarted, Turns, RejectionHeld,
                      PartsBehind, BurstsBehind, TailBehindData, data_end_offset
<1>4. Next \/ UNCHANGED vars
  OBVIOUS
<1>5. CASE UNCHANGED vars
  BY <1>3, <1>5 DEF vars, asmVars
<1> QED BY <1>1, <1>2, <1>3, <1>4, <1>5 DEF Next, Encode, StartDecoder, Decode

\* The invariant of the assembler, which starts with what the encoder hands on
\* (KeysFit is about that key).
THEOREM AssemblerInvariant ==
    ASSUME KeysFit
    PROVE  Spec => []AsmInv
<1>1. Init => AsmInv
  BY InitAsmInv
<1>2. EncInv /\ AsmInv /\ [Next]_vars => AsmInv'
  BY NextAsmInv
<1> QED BY <1>1, <1>2, EncoderInvariant, PTL DEF Spec

\* For every size of beat, burst and file: memory has rejected no burst of a
\* file whose completion the assembler reports (cmpct_assembler_v2.v,
\* ST_WR_WAIT).
THEOREM AssemblerSeesRejection ==
    ASSUME KeysFit
    PROVE  Spec => []NoneRejected
<1>1. AsmInv => NoneRejected
  BY DEF AsmInv, RejectionHeld, NoneRejected
<1> QED BY <1>1, AssemblerInvariant, PTL

\* The assembler writes only behind the data blocks, in every part of the tail
\* and every burst of the write engine (cmpct_assembler_v2.v, wr_offset;
\* cmpct_infra.v, axi_write_engine).
THEOREM AssemblerWritesBehindData ==
    ASSUME KeysFit
    PROVE  Spec => []TailBehindData
<1>1. AsmInv => TailBehindData
  BY DEF AsmInv
<1> QED BY <1>1, AssemblerInvariant, PTL

=============================================================================

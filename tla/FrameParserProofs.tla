------------------------- MODULE FrameParserProofs -------------------------
(***************************************************************************)
(* Proofs about FrameParser, for any frames short enough for the first two *)
(* forms of the length, any number of them and any cut of the stream.      *)
(***************************************************************************)
EXTENDS FrameParser, FrameHeaderProofs

-----------------------------------------------------------------------------
(* FlattenSeq, which the community modules define by recursion.            *)

\* Sequences of sequences.
Texts(S) == Seq(Seq(S))

\* f holds the flattenings of the prefixes of the nonempty s.
Flattens(f, s, S) ==
    /\ f \in [1..Len(s) -> Seq(S)]
    /\ f[1] = s[1]
    /\ \A i \in 1..Len(s) - 1 : f[i + 1] = f[i] \o s[i + 1]

LEMMA FlattenEquations ==
    ASSUME NEW S, NEW s, s \in Texts(S), s # <<>>
    PROVE  \E f : Flattens(f, s, S) /\ FlattenSeq(s) = f[Len(s)]
<1> DEFINE n == Len(s)
           next(i, x) == IF i + 2 \in 1..n THEN x \o s[i + 2] ELSE x
           step == [ss \in Nat \X Seq(S) |-> next(ss[1], ss[2])]
<1>1. n \in Nat /\ n > 0 /\ s[1] \in Seq(S) /\ \A i \in 1..n : s[i] \in Seq(S)
    BY DEF Texts
<1>2. ASSUME NEW i \in Nat, NEW x \in Seq(S)
      PROVE  next(i, x) \in Seq(S) /\ step[<<i, x>>] = next(i, x)
  <2>1. next(i, x) \in Seq(S)
    <3> HIDE DEF n
    <3>1. i + 2 \in 1..n => s[i + 2] \in Seq(S)
      BY <1>1
    <3> QED
      BY <3>1, ConcatProperties
  <2> HIDE DEF next
  <2> QED
    BY <2>1
<1>3. step \in Steps(Seq(S))
  <2> HIDE DEF next
  <2> QED
    BY <1>2 DEF Steps
<1>4. PICK g : Recurs(g, Seq(S), s[1], step)
  <2> HIDE DEF step
  <2> QED
    BY <1>1, <1>3, Recursion
<1>5. g \in [Nat -> Seq(S)] /\ g[0] = s[1]
  <2> HIDE DEF step
  <2> QED
    BY <1>4 DEF Recurs
<1>6. ASSUME NEW i \in Nat PROVE g[i + 1] = next(i, g[i])
  <2> HIDE DEF step, next
  <2>1. g[i + 1] = step[<<i, g[i]>>]
    BY <1>4 DEF Recurs
  <2> QED
    BY <1>2, <1>5, <2>1
<1> DEFINE f == [i \in 1..n |-> g[i - 1]]
<1>7. f \in [1..n -> Seq(S)] /\ f[1] = s[1]
  <2>1. 1 \in 1..n /\ 1 - 1 = 0 /\ \A i \in 1..n : i - 1 \in Nat
    BY <1>1
  <2> HIDE DEF n, next, step
  <2> QED
    BY <1>5, <2>1
<1>8. ASSUME NEW i \in 1..n - 1 PROVE f[i + 1] = f[i] \o s[i + 1]
  <2>1. /\ i \in 1..n /\ i + 1 \in 1..n /\ i - 1 \in Nat
        /\ (i + 1) - 1 = i /\ (i - 1) + 1 = i /\ (i - 1) + 2 = i + 1
    BY <1>1
  <2>2. g[i] = next(i - 1, g[i - 1])
    <3> HIDE DEF next
    <3> QED
      BY <1>6, <2>1
  <2>3. next(i - 1, g[i - 1]) = g[i - 1] \o s[i + 1]
    <3> HIDE DEF n
    <3> QED
      BY <2>1
  <2> HIDE DEF n, next
  <2>4. f[i + 1] = g[i] /\ f[i] = g[i - 1]
    BY <2>1
  <2> QED
    BY <2>2, <2>3, <2>4
<1> DEFINE Eq(v) == v = [i \in 1..n |-> IF i = 1 THEN s[i] ELSE v[i - 1] \o s[i]]
<1>9. Eq(f)
  <2>1. f = [i \in 1..n |-> f[i]]
    OBVIOUS
  <2> HIDE DEF f
  <2>2. ASSUME NEW i \in 1..n PROVE f[i] = IF i = 1 THEN s[i] ELSE f[i - 1] \o s[i]
    <3>1. CASE i = 1
      BY <1>7, <3>1
    <3>2. CASE i # 1
      <4>1. i - 1 \in 1..n - 1 /\ (i - 1) + 1 = i
        BY <1>1, <3>2
      <4> HIDE DEF n
      <4>2. f[(i - 1) + 1] = f[i - 1] \o s[(i - 1) + 1]
        BY <1>8, <4>1
      <4> QED
        BY <3>2, <4>1, <4>2
    <3> QED
      BY <3>1, <3>2
  <2> HIDE DEF n
  <2> QED
    BY <2>1, <2>2
<1>10. FlattenSeq(s) = (CHOOSE v : Eq(v))[n]
    BY <1>1 DEF FlattenSeq
<1> DEFINE w == CHOOSE v : Eq(v)
<1>11. Eq(w)
  <2> HIDE DEF Eq
  <2> QED
    BY <1>9
<1>12. \A i \in Nat : i \in 1..n => w[i] = f[i]
  <2> DEFINE T == {i \in Nat : i \in 1..n => w[i] = f[i]}
  <2> HIDE DEF w, f
  <2>1. 0 \in T
    OBVIOUS
  <2>2. ASSUME NEW i \in Nat, i \in T PROVE i + 1 \in T
    <3>1. ASSUME i + 1 \in 1..n PROVE w[i + 1] = f[i + 1]
      <4>1. CASE i = 0
        <5>1. w[1] = s[1]
          BY <1>1, <1>11
        <5> QED
          BY <1>7, <4>1, <5>1
      <4>2. CASE i # 0
        <5>1. i + 1 # 1 /\ (i + 1) - 1 = i /\ i \in 1..n - 1 /\ i \in 1..n
          BY <1>1, <3>1, <4>2
        <5>2. w[i + 1] = w[i] \o s[i + 1]
          <6> HIDE DEF n
          <6> QED
            BY <1>11, <3>1, <5>1
        <5>3. f[i + 1] = f[i] \o s[i + 1]
          BY <1>8, <5>1
        <5> QED
          BY <2>2, <5>1, <5>2, <5>3
      <4> QED
        BY <4>1, <4>2
    <3> QED
      BY <3>1
  <2> HIDE DEF T
  <2>3. \A i \in Nat : i \in T
    BY <2>1, <2>2, NatSet
  <2> QED
    BY <2>3 DEF T
<1>13. FlattenSeq(s) = f[n]
  <2> HIDE DEF f, Eq, n
  <2> QED
    BY <1>1, <1>10, <1>12
<1> HIDE DEF f
<1>14. Flattens(f, s, S)
    BY <1>7, <1>8 DEF Flattens
<1> QED
    BY <1>13, <1>14

LEMMA FlattensAgree ==
    ASSUME NEW S, NEW s, s \in Texts(S), NEW t, t \in Texts(S),
           Len(s) > 0, Len(s) <= Len(t), \A i \in 1..Len(s) : s[i] = t[i],
           NEW f, NEW h, Flattens(f, s, S), Flattens(h, t, S)
    PROVE  \A i \in 1..Len(s) : f[i] = h[i]
<1> DEFINE n == Len(s)
           T == {i \in Nat : i \in 1..n => f[i] = h[i]}
<1>1. n \in Nat /\ n > 0 /\ Len(t) \in Nat /\ n <= Len(t)
    OBVIOUS
<1>2. 0 \in T
    OBVIOUS
<1>3. ASSUME NEW i \in Nat, i \in T PROVE i + 1 \in T
  <2>1. ASSUME i + 1 \in 1..n PROVE f[i + 1] = h[i + 1]
    <3>1. CASE i = 0
      BY <1>1, <3>1 DEF Flattens
    <3>2. CASE i # 0
      <4>1. i \in 1..n /\ i \in 1..n - 1 /\ i \in 1..Len(t) - 1
        BY <1>1, <2>1, <3>2
      <4>2. f[i + 1] = f[i] \o s[i + 1] /\ h[i + 1] = h[i] \o t[i + 1]
        BY <4>1 DEF Flattens
      <4>3. s[i + 1] = t[i + 1]
        BY <2>1
      <4> QED
        BY <1>3, <4>1, <4>2, <4>3
    <3> QED
      BY <3>1, <3>2
  <2> QED
    BY <2>1
<1>4. \A i \in Nat : i \in T
  <2> HIDE DEF T
  <2> QED
    BY <1>2, <1>3, NatSet
<1> QED
    BY <1>1, <1>4

LEMMA TextsType ==
    ASSUME NEW S, NEW s, s \in Texts(S)
    PROVE  /\ Len(s) \in Nat
           /\ \A i \in 1..Len(s) : s[i] \in Seq(S)
           /\ s = <<>> <=> Len(s) = 0
    BY DEF Texts

LEMMA FlattenEmpty ==
    ASSUME NEW S, NEW s, s \in Texts(S), Len(s) = 0
    PROVE  FlattenSeq(s) = <<>>
    BY DEF FlattenSeq, Texts

LEMMA FlattenType ==
    ASSUME NEW S, NEW s, s \in Texts(S)
    PROVE  FlattenSeq(s) \in Seq(S)
<1>1. CASE Len(s) = 0
  <2>1. FlattenSeq(s) = <<>>
    BY <1>1, FlattenEmpty
  <2>2. <<>> \in Seq(S)
    BY EmptySeq
  <2> QED
    BY <2>1, <2>2, Zenon
<1>2. CASE Len(s) # 0
  <2>1. PICK f : Flattens(f, s, S) /\ FlattenSeq(s) = f[Len(s)]
    BY <1>2, TextsType, FlattenEquations
  <2>2. Len(s) \in 1..Len(s)
    BY <1>2, TextsType
  <2> QED
    BY <2>1, <2>2 DEF Flattens
<1> QED
    BY <1>1, <1>2

LEMMA FlattenOne ==
    ASSUME NEW S, NEW s, s \in Texts(S), Len(s) = 1
    PROVE  FlattenSeq(s) = s[1]
<1>1. PICK f : Flattens(f, s, S) /\ FlattenSeq(s) = f[Len(s)]
    BY TextsType, FlattenEquations
<1> QED
    BY <1>1 DEF Flattens

LEMMA FlattenAppend ==
    ASSUME NEW S, NEW s, s \in Texts(S), NEW x \in Seq(S)
    PROVE  FlattenSeq(Append(s, x)) = FlattenSeq(s) \o x
<1> DEFINE t == Append(s, x)
           n == Len(s)
<1>1. /\ t \in Texts(S) /\ n \in Nat /\ Len(t) = n + 1 /\ t[n + 1] = x
      /\ \A i \in 1..n : t[i] = s[i]
    BY DEF Texts
<1> HIDE DEF t
<1>2. CASE n = 0
  <2>1. FlattenSeq(t) = x
    BY <1>1, <1>2, FlattenOne
  <2>2. FlattenSeq(s) = <<>>
    BY <1>2, FlattenEmpty
  <2> QED
    BY <2>1, <2>2, ConcatEmptySeq DEF t
<1>3. CASE n # 0
  <2>1. n > 0 /\ s # <<>> /\ t # <<>>
    BY <1>1, <1>3, TextsType
  <2>2. PICK f : Flattens(f, s, S) /\ FlattenSeq(s) = f[n]
    BY <2>1, FlattenEquations
  <2>3. PICK h : Flattens(h, t, S) /\ FlattenSeq(t) = h[n + 1]
    BY <1>1, <2>1, FlattenEquations
  <2>4. f[n] = h[n]
    <3>1. Len(s) > 0 /\ Len(s) <= Len(t) /\ \A i \in 1..Len(s) : s[i] = t[i]
      BY <1>1, <2>1
    <3>2. \A i \in 1..Len(s) : f[i] = h[i]
      BY <1>1, <2>2, <2>3, <3>1, FlattensAgree
    <3> QED
      BY <2>1, <3>2
  <2>5. h[n + 1] = h[n] \o t[n + 1]
    <3>1. n \in 1..Len(t) - 1
      BY <1>1, <2>1
    <3> QED
      BY <2>3, <3>1 DEF Flattens
  <2> QED
    BY <1>1, <2>2, <2>3, <2>4, <2>5 DEF t
<1> QED
    BY <1>2, <1>3

\* The first of the sequences comes first.
LEMMA FlattenFirst ==
    ASSUME NEW S, NEW s, s \in Texts(S), NEW t, t \in Texts(S),
           Len(s) = Len(t) + 1, \A i \in 1..Len(t) : t[i] = s[i + 1]
    PROVE  FlattenSeq(s) = s[1] \o FlattenSeq(t)
<1> DEFINE n == Len(t)
<1>1. n \in Nat /\ s[1] \in Seq(S) /\ s # <<>>
  <2>1. n \in Nat
    BY TextsType
  <2>2. 1 \in 1..Len(s)
    BY <2>1
  <2> QED
    BY <2>1, <2>2, TextsType
<1>2. CASE n = 0
  <2>1. FlattenSeq(t) = <<>>
    BY <1>2, FlattenEmpty
  <2>2. FlattenSeq(s) = s[1]
    BY <1>2, FlattenOne
  <2> QED
    BY <1>1, <2>1, <2>2, ConcatEmptySeq
<1>3. CASE n # 0
  <2>1. PICK f : Flattens(f, s, S) /\ FlattenSeq(s) = f[Len(s)]
    BY <1>1, FlattenEquations
  <2>2. PICK h : Flattens(h, t, S) /\ FlattenSeq(t) = h[n]
    <3>1. t # <<>>
      BY <1>3, TextsType
    <3> QED
      BY <3>1, FlattenEquations
  <2> DEFINE P(i) == i \in 1..n => f[i + 1] = s[1] \o h[i]
             T == {i \in Nat : P(i)}
  <2>3. 0 \in T
    OBVIOUS
  <2>4. ASSUME NEW i \in Nat, i \in T PROVE i + 1 \in T
    <3>1. ASSUME i + 1 \in 1..n PROVE f[(i + 1) + 1] = s[1] \o h[i + 1]
      <4>1. CASE i = 0
        <5>1. f[1] = s[1] /\ h[1] = t[1] /\ t[1] = s[2]
          BY <1>1, <1>3, <2>1, <2>2 DEF Flattens
        <5>2. f[2] = f[1] \o s[2]
          <6>1. 1 \in 1..Len(s) - 1 /\ 1 + 1 = 2
            BY <1>1, <1>3
          <6> QED
            BY <2>1, <6>1 DEF Flattens
        <5>3. (i + 1) + 1 = 2 /\ i + 1 = 1
          BY <4>1
        <5> QED
          BY <5>1, <5>2, <5>3
      <4>2. CASE i # 0
        <5>1. i \in 1..n /\ i \in 1..n - 1 /\ i + 1 \in 1..Len(s) - 1
          BY <1>1, <3>1, <4>2
        <5>2. f[(i + 1) + 1] = f[i + 1] \o s[(i + 1) + 1]
          BY <2>1, <5>1 DEF Flattens
        <5>3. h[i + 1] = h[i] \o t[i + 1]
          BY <2>2, <5>1 DEF Flattens
        <5>4. t[i + 1] = s[(i + 1) + 1] /\ t[i + 1] \in Seq(S)
          BY <1>1, <3>1, TextsType
        <5>5. h[i] \in Seq(S)
          BY <2>2, <5>1 DEF Flattens
        <5>6. f[i + 1] = s[1] \o h[i]
          BY <2>4, <5>1
        <5>7. (s[1] \o h[i]) \o t[i + 1] = s[1] \o (h[i] \o t[i + 1])
          <6> DEFINE a == s[1]
                     b == h[i]
                     c == t[i + 1]
          <6>1. a \in Seq(S) /\ b \in Seq(S) /\ c \in Seq(S)
            BY <1>1, <5>4, <5>5
          <6> HIDE DEF a, b, c
          <6>2. (a \o b) \o c = a \o (b \o c)
            BY <6>1, ConcatAssociative
          <6> QED
            BY <6>2 DEF a, b, c
        <5> QED
          BY <5>2, <5>3, <5>4, <5>6, <5>7
      <4> QED
        BY <4>1, <4>2
    <3>2. P(i + 1)
      BY <3>1, Zenon
    <3> HIDE DEF P
    <3> QED
      BY <3>2
  <2>5. P(n)
    <3>1. n \in T
      <4> HIDE DEF T
      <4> QED
        BY <1>1, <2>3, <2>4, NatSet
    <3> HIDE DEF P
    <3> QED
      BY <3>1
  <2>6. n \in 1..n /\ Len(s) = n + 1
    BY <1>1, <1>3
  <2>7. f[n + 1] = s[1] \o h[n]
    BY <2>5, <2>6, Zenon
  <2> HIDE DEF n
  <2> QED
    BY <2>1, <2>2, <2>6, <2>7, Zenon
<1> QED
    BY <1>2, <1>3

-----------------------------------------------------------------------------
(* The memory of the SlidingBuffer.                                        *)

LEMMA WrittenData ==
    ASSUME NEW mem, mem \in Seq(Byte), NEW at \in Nat, NEW bytes, bytes \in Seq(Byte),
           at + Len(bytes) <= Len(mem)
    PROVE  /\ Written(mem, at, bytes) \in Seq(Byte)
           /\ Len(Written(mem, at, bytes)) = Len(mem)
           /\ SubSeq(Written(mem, at, bytes), 1, at + Len(bytes)) = SubSeq(mem, 1, at) \o bytes
<1> DEFINE n == Len(bytes)
           w == Written(mem, at, bytes)
           value(i) == IF i > at /\ i <= at + n THEN bytes[i - at] ELSE mem[i]
<1>1. n \in Nat /\ Len(mem) \in Nat /\ at + n <= Len(mem)
    OBVIOUS
<1>2. w = [i \in 1..Len(mem) |-> value(i)]
    BY DEF Written
<1>3. ASSUME NEW i \in 1..Len(mem) PROVE value(i) \in Byte
  <2>1. CASE i > at /\ i <= at + n
    <3>1. i - at \in 1..n
      BY <1>1, <2>1
    <3> QED
      BY <2>1, <3>1
  <2>2. CASE ~(i > at /\ i <= at + n)
    BY <2>2
  <2> QED
    BY <2>1, <2>2
<1>4. w \in Seq(Byte) /\ Len(w) = Len(mem) /\ \A i \in 1..Len(mem) : w[i] = value(i)
  <2> HIDE DEF w, value
  <2> QED
    BY <1>1, <1>2, <1>3
<1> HIDE DEF w
<1> DEFINE s == SubSeq(w, 1, at + n)
           p == SubSeq(mem, 1, at)
<1>5. s \in Seq(Byte) /\ Len(s) = at + n /\ \A i \in 1..at + n : s[i] = w[i]
  <2> HIDE DEF value, n
  <2> QED
    BY <1>1, <1>4
<1>6. p \in Seq(Byte) /\ Len(p) = at /\ \A i \in 1..at : p[i] = mem[i]
  <2> HIDE DEF n
  <2> QED
    BY <1>1
<1> HIDE DEF s, p
<1>7. /\ p \o bytes \in Seq(Byte) /\ Len(p \o bytes) = at + n
      /\ \A i \in 1..at + n : (p \o bytes)[i] = IF i <= at THEN p[i] ELSE bytes[i - at]
    BY <1>6, ConcatProperties
<1>8. \A i \in 1..at + n : s[i] = (p \o bytes)[i]
  <2> HIDE DEF n
  <2> SUFFICES ASSUME NEW i \in 1..at + n PROVE s[i] = (p \o bytes)[i]
    OBVIOUS
  <2>1. i \in 1..Len(mem) /\ s[i] = value(i)
    BY <1>1, <1>4, <1>5
  <2>2. CASE i <= at
    <3>1. i \in 1..at
      BY <2>2
    <3> QED
      BY <1>6, <1>7, <2>1, <2>2, <3>1
  <2>3. CASE ~(i <= at)
    BY <1>1, <1>7, <2>1, <2>3
  <2> QED
    BY <2>2, <2>3
<1>9. s = p \o bytes
  <2> HIDE DEF n
  <2> QED
    BY <1>1, <1>5, <1>7, <1>8, SeqEqual
<1> QED
    BY <1>4, <1>9 DEF w, s, p

LEMMA ZerosType ==
    ASSUME NEW k \in Nat
    PROVE  Zeros(k) \in Seq(Byte) /\ Len(Zeros(k)) = k
    BY RadixNat DEF Zeros, Byte

LEMMA DataType ==
    ASSUME TypeOK
    PROVE  /\ used \in Nat /\ Len(buffer) \in Nat /\ used <= Len(buffer)
           /\ Data \in Seq(Byte) /\ Len(Data) = used
           /\ \A i \in 1..used : Data[i] = buffer[i]
    BY DEF TypeOK, Data

LEMMA ResizeData ==
    ASSUME TypeOK, NEW len \in Nat, used <= len
    PROVE  /\ Resize(len) \in Seq(Byte)
           /\ Len(Resize(len)) = len
           /\ SubSeq(Resize(len), 1, used) = Data
<1> DEFINE d == Data
           z == Zeros(len - used)
<1>1. d \in Seq(Byte) /\ Len(d) = used /\ used \in Nat
    BY DataType
<1>2. len - used \in Nat
    BY <1>1
<1>3. z \in Seq(Byte) /\ Len(z) = len - used
    BY <1>2, ZerosType
<1> HIDE DEF d, z
<1>4. /\ d \o z \in Seq(Byte) /\ Len(d \o z) = len
      /\ \A i \in 1..len : (d \o z)[i] = IF i <= used THEN d[i] ELSE z[i - used]
  <2>1. /\ d \o z \in Seq(Byte) /\ Len(d \o z) = Len(d) + Len(z)
        /\ \A i \in 1..Len(d) + Len(z) : (d \o z)[i] = IF i <= Len(d) THEN d[i] ELSE z[i - Len(d)]
    BY <1>1, <1>3, ConcatProperties
  <2>2. Len(d) + Len(z) = len
    BY <1>1, <1>2, <1>3
  <2> QED
    BY <1>1, <2>1, <2>2
<1> DEFINE r == d \o z
<1> HIDE DEF r
<1>5. r \in Seq(Byte) /\ Len(r) = len /\ \A i \in 1..used : r[i] = d[i]
  <2>1. \A i \in 1..used : i \in 1..len /\ i <= used
    BY <1>1
  <2> QED
    BY <1>4, <2>1 DEF r
<1>6. SubSeq(r, 1, used) \in Seq(Byte) /\ Len(SubSeq(r, 1, used)) = used
      /\ \A i \in 1..used : SubSeq(r, 1, used)[i] = r[i]
    BY <1>1, <1>5
<1>7. SubSeq(r, 1, used) = d
    BY <1>1, <1>5, <1>6, SeqEqual
<1> QED
    BY <1>5, <1>7 DEF Resize, r, d, z

-----------------------------------------------------------------------------
(* ParseOne on memory that begins with an encoded frame.                   *)

LEMMA CancelLeft ==
    ASSUME NEW S, NEW s \in Seq(S), NEW t \in Seq(S), NEW v \in Seq(S), s \o t = s \o v
    PROVE  t = v
<1>1. Len(s) \in Nat /\ Len(t) \in Nat /\ Len(v) \in Nat
    OBVIOUS
<1>2. Len(s) + Len(t) = Len(s) + Len(v)
    BY ConcatProperties
<1>3. Len(t) = Len(v)
    BY <1>1, <1>2
<1>4. \A i \in 1..Len(t) : t[i] = v[i]
  <2> SUFFICES ASSUME NEW i \in 1..Len(t) PROVE t[i] = v[i]
    OBVIOUS
  <2> DEFINE k == Len(s) + i
  <2>1. k \in 1..Len(s) + Len(t) /\ k \in 1..Len(s) + Len(v) /\ ~(k <= Len(s)) /\ k - Len(s) = i
    BY <1>1, <1>3
  <2> HIDE DEF k
  <2>2. (s \o t)[k] = t[i]
    BY <2>1, ConcatProperties
  <2>3. (s \o v)[k] = v[i]
    BY <2>1, ConcatProperties
  <2> QED
    BY <2>2, <2>3
<1> QED
    BY <1>3, <1>4, SeqEqual

LEMMA SplitFirst ==
    ASSUME NEW S, NEW d, d \in Seq(S), NEW w, w \in Seq(S), NEW e, e \in Seq(S),
           NEW r, r \in Seq(S), d \o w = e \o r, Len(e) <= Len(d)
    PROVE  SubSeq(d, Len(e) + 1, Len(d)) \o w = r
<1> DEFINE a == SubSeq(d, 1, Len(e))
           b == SubSeq(d, Len(e) + 1, Len(d))
<1>1. Len(e) \in Nat /\ Len(d) \in Nat
    OBVIOUS
<1>2. /\ a \in Seq(S) /\ Len(a) = Len(e) /\ \A i \in 1..Len(e) : a[i] = d[i]
      /\ b \in Seq(S) /\ Len(b) = Len(d) - Len(e)
    BY <1>1
<1>3. a \o b = d
  <2>1. 1 \in 1..Len(d) + 1 /\ Len(e) \in 1 - 1..Len(d) /\ Len(d) \in Len(e)..Len(d)
    BY <1>1
  <2>2. a \o b = SubSeq(d, 1, Len(d))
    BY <2>1, ConcatAdjacentSubSeq
  <2> QED
    BY <2>2, SubSeqFull
<1>4. \A i \in 1..Len(e) : d[i] = e[i]
  <2> SUFFICES ASSUME NEW i \in 1..Len(e) PROVE d[i] = e[i]
    OBVIOUS
  <2>1. (d \o w)[i] = d[i]
    <3>1. i \in 1..Len(d) + Len(w) /\ i <= Len(d)
      BY <1>1
    <3> QED
      BY <3>1, ConcatProperties
  <2>2. (e \o r)[i] = e[i]
    <3>1. i \in 1..Len(e) + Len(r) /\ i <= Len(e)
      BY <1>1
    <3> QED
      BY <3>1, ConcatProperties
  <2> QED
    BY <2>1, <2>2
<1> HIDE DEF a, b
<1>5. a = e
    BY <1>1, <1>2, <1>4, SeqEqual
<1>6. (a \o b) \o w = a \o (b \o w)
  <2>1. a \in Seq(S) /\ b \in Seq(S) /\ w \in Seq(S)
    BY <1>2
  <2> QED
    BY ONLY <2>1, ConcatAssociative
<1>7. e \o (b \o w) = e \o r
    BY <1>3, <1>5, <1>6
<1>8. b \o w \in Seq(S)
    BY <1>2, ConcatProperties
<1> DEFINE bw == b \o w
<1> HIDE DEF bw
<1>9. bw = r
    BY <1>7, <1>8, CancelLeft DEF bw
<1> QED
    BY <1>9 DEF b, bw

LEMMA ModSmall ==
    ASSUME NEW a \in Nat, NEW b \in Nat, a < b
    PROVE  a % b = a
    OBVIOUS

\* The first u bytes of mem and the bytes w after them are the frame f and then
\* rest, and the tests of ParseOne find a whole frame in mem.
Whole(mem, u, w, f, rest) ==
    /\ mem \in Seq(Byte) /\ w \in Seq(Byte) /\ rest \in Seq(Byte) /\ Sendable(f)
    /\ Len(mem) >= Basic + Wide /\ u \in 0..Len(mem)
    /\ SubSeq(mem, 1, u) \o w = Encode(f) \o rest
    /\ u >= 2
    /\ HeaderLength(mem[2]) <= u
    /\ (HeaderLength(mem[2]) + Length(mem)) % SizeT <= u

LEMMA Parsed ==
    ASSUME NEW mem, NEW u, NEW w, NEW f, NEW rest, Whole(mem, u, w, f, rest)
    PROVE  /\ HeaderLength(mem[2]) = HeadOf(f) /\ Length(mem) = Len(f.data)
           /\ (HeadOf(f) + Len(f.data)) % SizeT = Len(Encode(f))
           /\ Len(Encode(f)) <= u
           /\ mem[1] = f.tag
           /\ SubSeq(mem, HeadOf(f) + 1, HeadOf(f) + Len(f.data)) = f.data
           /\ SubSeq(mem, Len(Encode(f)) + 1, u) \o w = rest
<1>0. /\ mem \in Seq(Byte) /\ w \in Seq(Byte) /\ rest \in Seq(Byte) /\ Sendable(f)
      /\ Len(mem) >= Basic + Wide /\ u \in 0..Len(mem)
      /\ SubSeq(mem, 1, u) \o w = Encode(f) \o rest
      /\ u >= 2
      /\ HeaderLength(mem[2]) <= u
      /\ (HeaderLength(mem[2]) + Length(mem)) % SizeT <= u
    BY DEF Whole
<1> USE <1>0
<1> USE RadixNat
<1> DEFINE e == Encode(f)
           d == SubSeq(mem, 1, u)
           h == HeadOf(f)
           n == Len(f.data)
<1>1. /\ h \in Nat /\ h >= 2 /\ h <= Basic + Wide /\ n \in Nat /\ h + n < SizeT
      /\ f.data \in Seq(Byte) /\ f.tag \in Byte
    BY HeadType DEF Basic
<1>2. e \in Seq(Byte) /\ Len(e) = h + n /\ \A i \in 1..n : e[h + i] = f.data[i]
    BY EncodeShape
<1>3. u \in Nat /\ Len(mem) \in Nat /\ u <= Len(mem)
    OBVIOUS
<1>4. d \in Seq(Byte) /\ Len(d) = u /\ \A i \in 1..u : d[i] = mem[i]
    BY <1>3
<1> HIDE DEF d
<1>5. d \o w = e \o rest
    BY DEF d
<1>6. ASSUME NEW i \in 1..u, i \in 1..h + n PROVE mem[i] = e[i]
  <2> HIDE DEF e, h, n
  <2>1. (d \o w)[i] = d[i]
    <3>1. i \in 1..Len(d) + Len(w) /\ i <= Len(d)
      BY <1>3, <1>4
    <3> QED
      BY <1>4, <3>1, ConcatProperties
  <2>2. (e \o rest)[i] = e[i]
    <3>1. i \in 1..Len(e) + Len(rest) /\ i <= Len(e)
      BY <1>1, <1>2, <1>6
    <3> QED
      BY <1>2, <3>1, ConcatProperties
  <2> QED
    BY <1>4, <1>5, <2>1, <2>2
<1>7. HeaderLength(mem[2]) = h
  <2>1. 2 \in 1..u /\ 2 \in 1..h + n
    BY <1>1, <1>3
  <2>2. mem[2] = e[2]
    BY <1>6, <2>1
  <2>3. e[2] = Header(f.tag, n)[2]
    <3>1. 2 \in 1..h
      BY <1>1
    <3> QED
      BY <3>1, EncodeShape
  <2>4. n < SizeT
    <3>1. SizeT \in Nat
      BY SmallPowers
    <3> HIDE DEF h, n
    <3> QED
      BY <1>1, <3>1
  <2>5. Header(f.tag, n)[2] = LengthByte(n)
    <3> HIDE DEF n
    <3> QED
      BY <1>1, <2>4, HeaderShape
  <2> QED
    BY <2>2, <2>3, <2>5 DEF HeadOf
<1>8. mem[1] = f.tag /\ Length(mem) = n
  <2>1. \A i \in 1..h : mem[i] = e[i]
    <3>1. \A i \in 1..h : i \in 1..u /\ i \in 1..h + n
      <4> HIDE DEF h, n
      <4> QED
        BY <1>1, <1>3, <1>7
    <3> QED
      BY <1>6, <3>1
  <2> QED
    BY <2>1, ReadableHeader
<1> HIDE DEF h, n, e
<1>9. (h + n) % SizeT = h + n
  <2>1. SizeT \in Nat
    BY SmallPowers
  <2> DEFINE k == h + n
  <2>2. k \in Nat /\ k < SizeT
    BY <1>1
  <2> HIDE DEF k
  <2>3. k % SizeT = k
    BY <2>1, <2>2, ModSmall
  <2> QED
    BY <2>3 DEF k
<1>10. h + n <= u
    BY <1>7, <1>8, <1>9
<1>11. SubSeq(mem, h + 1, h + n) = f.data
  <2> DEFINE s == SubSeq(mem, h + 1, h + n)
  <2>1. h + 1 \in Int /\ h + n \in Int /\ \A i \in h + 1..h + n : i \in 1..Len(mem)
    BY <1>1, <1>3, <1>10
  <2>2. s \in Seq(Byte) /\ Len(s) = n /\ \A i \in 1..n : s[i] = mem[h + i]
    BY <1>1, <1>3, <1>10, <2>1
  <2>3. \A i \in 1..n : s[i] = f.data[i]
    <3> SUFFICES ASSUME NEW i \in 1..n PROVE s[i] = f.data[i]
      OBVIOUS
    <3>1. h + i \in 1..u /\ h + i \in 1..h + n
      BY <1>1, <1>3, <1>10
    <3> HIDE DEF s
    <3> QED
      BY <1>2, <1>6, <2>2, <3>1
  <2> HIDE DEF s
  <2>4. Len(f.data) = n
    BY DEF n
  <2>5. s = f.data
    BY <1>1, <2>2, <2>3, <2>4, SeqEqual
  <2> QED
    BY <2>5 DEF s
<1>12. SubSeq(mem, Len(e) + 1, u) \o w = rest
  <2>1. SubSeq(d, Len(e) + 1, Len(d)) \o w = rest
    <3>1. Len(e) <= Len(d)
      BY <1>2, <1>4, <1>10
    <3> QED
      BY <1>2, <1>4, <1>5, <3>1, SplitFirst
  <2>2. SubSeq(d, Len(e) + 1, Len(d)) = SubSeq(mem, Len(e) + 1, u)
    <3> DEFINE m == Len(e) + 1
               s == SubSeq(d, m, u)
               t == SubSeq(mem, m, u)
    <3>1. m \in Nat /\ m >= 1 /\ m <= u + 1
      BY <1>1, <1>2, <1>10
    <3> HIDE DEF m
    <3>2. s \in Seq(Byte) /\ Len(s) = u - m + 1 /\ \A i \in 1..u - m + 1 : s[i] = d[m + i - 1]
      BY <1>3, <1>4, <3>1
    <3>3. t \in Seq(Byte) /\ Len(t) = u - m + 1 /\ \A i \in 1..u - m + 1 : t[i] = mem[m + i - 1]
      <4>1. m \in Int /\ u \in Int /\ \A i \in m..u : mem[i] \in Byte
        BY <1>3, <3>1
      <4>2. /\ SubSeq(mem, m, u) \in Seq(Byte)
            /\ Len(SubSeq(mem, m, u)) = IF m <= u THEN u - m + 1 ELSE 0
            /\ \A i \in 1..u - m + 1 : SubSeq(mem, m, u)[i] = mem[m + i - 1]
        BY ONLY <4>1, SubSeqProperties
      <4> QED
        BY ONLY <1>3, <3>1, <4>2
    <3>4. \A i \in 1..u - m + 1 : m + i - 1 \in 1..u
      BY <1>3, <3>1
    <3> HIDE DEF s, t
    <3>5. Len(s) = Len(t) /\ \A i \in 1..Len(s) : s[i] = t[i]
      BY <1>4, <3>2, <3>3, <3>4
    <3>6. s = t
      BY <3>2, <3>3, <3>5, SeqEqual
    <3> QED
      BY <1>4, <3>6 DEF s, t, m
  <2> QED
    BY <2>1, <2>2
<1> QED
    BY <1>2, <1>7, <1>8, <1>9, <1>10, <1>11, <1>12 DEF h, n, e

-----------------------------------------------------------------------------
(* The inductive invariant.                                                *)

\* No frame is so long that its length takes the last of the three forms,
\* which HeaderLength cuts short.
Medium == \A f \in Frames : Len(f.data) <= Max16

\* The frames on their way, encoded.
Pending == [i \in 1..Len(sent) - Len(handled) |-> Encode(sent[Len(handled) + i])]

InOrder ==
    /\ Len(handled) <= Len(sent)
    /\ \A i \in 1..Len(handled) : handled[i] = sent[i]

Inv == TypeOK /\ InOrder /\ BytesConserved

LEMMA FramesSendable ==
    ASSUME Medium, NEW f \in Frames
    PROVE  Sendable(f) /\ f \in [tag : Byte, data : Seq(Byte)] /\ Encode(f) \in Seq(Byte)
<1>1. Sendable(f) /\ f \in [tag : Byte, data : Seq(Byte)]
    BY ParserConstants DEF ParserConstants, Medium, Sendable
<1> QED
    BY <1>1, EncodeShape

LEMMA PendingType ==
    ASSUME Medium, TypeOK, InOrder
    PROVE  /\ Len(sent) \in Nat /\ Len(handled) \in Nat /\ Len(handled) <= Len(sent)
           /\ Pending \in Texts(Byte)
           /\ Len(Pending) = Len(sent) - Len(handled)
           /\ \A i \in 1..Len(sent) - Len(handled) :
                 sent[Len(handled) + i] \in Frames /\ Pending[i] = Encode(sent[Len(handled) + i])
<1> DEFINE n == Len(sent)
           m == Len(handled)
<1>1. n \in Nat /\ m \in Nat /\ m <= n
    BY DEF TypeOK, InOrder
<1>2. \A i \in 1..n : sent[i] \in Frames
    BY DEF TypeOK
<1>3. ASSUME NEW i \in 1..n - m PROVE sent[m + i] \in Frames
  <2>1. m + i \in 1..n
    BY <1>1
  <2> QED
    BY <1>2, <2>1
<1>4. ASSUME NEW i \in 1..n - m PROVE Encode(sent[m + i]) \in Seq(Byte)
    BY <1>3, FramesSendable
<1>5. n - m \in Nat
    BY <1>1
<1>6. Pending = [i \in 1..n - m |-> Encode(sent[m + i])]
    BY DEF Pending
<1> HIDE DEF n, m
<1>7. /\ Pending \in Texts(Byte) /\ Len(Pending) = n - m
      /\ \A i \in 1..n - m : Pending[i] = Encode(sent[m + i])
  <2>1. Pending \in [1..n - m -> Seq(Byte)]
    BY <1>4, <1>6
  <2>2. Pending \in Seq(Seq(Byte)) /\ Len(Pending) = n - m
    BY <1>5, <2>1
  <2> QED
    BY <1>6, <2>2 DEF Texts
<1> QED
    BY <1>1, <1>3, <1>7 DEF n, m

LEMMA BytesPending == BytesConserved <=> Data \o wire = FlattenSeq(Pending)
    BY DEF BytesConserved, Pending

LEMMA InitInv ==
    ASSUME Medium, Init
    PROVE  Inv
<1>1. Capacity \in Nat
    BY ParserConstants DEF ParserConstants
<1>2. Zeros(Capacity) \in Seq(Byte) /\ Len(Zeros(Capacity)) = Capacity
    BY <1>1, ZerosType
<1>3. TypeOK
  <2>1. Capacity >= 0 /\ <<>> \in Seq(Frames) /\ <<>> \in Seq(Byte)
    BY <1>1
  <2>2. /\ buffer \in Seq(Byte) /\ Len(buffer) = Capacity /\ used = 0
    BY <1>2 DEF Init
  <2>3. Len(buffer) >= Capacity /\ used \in 0..Len(buffer)
    BY <1>1, <2>2
  <2>4. <<>> \in Seq([tag : Byte, data : Seq(Byte)])
    BY EmptySeq
  <2>5. inPlace \in BOOLEAN /\ sent = <<>> /\ wire = <<>> /\ parsing = FALSE /\ handled = <<>>
    BY DEF Init
  <2>6. sent \in Seq(Frames) /\ wire \in Seq(Byte)
    BY <2>5, EmptySeq
  <2>7. handled \in Seq([tag : Byte, data : Seq(Byte)])
    BY <2>4, <2>5, Zenon
  <2> QED
    BY <2>2, <2>3, <2>5, <2>6, <2>7, Zenon DEF TypeOK
<1>4. InOrder
    BY DEF Init, InOrder
<1>5. Data = <<>> /\ wire = <<>>
  <2>1. wire = <<>> /\ used = 0
    BY DEF Init
  <2>2. SubSeq(buffer, 1, 0) = <<>>
    BY SubSeqEmpty
  <2> QED
    BY <2>1, <2>2 DEF Data
<1>6. FlattenSeq(Pending) = <<>>
  <2>1. Len(sent) - Len(handled) = 0
    BY DEF Init
  <2>2. Pending \in Texts(Byte) /\ Len(Pending) = 0
    BY <1>3, <1>4, <2>1, PendingType
  <2> QED
    BY <2>2, FlattenEmpty
<1>7. <<>> \o <<>> = <<>>
    OBVIOUS
<1> QED
    BY <1>3, <1>4, <1>5, <1>6, <1>7, BytesPending DEF Inv

LEMMA SendFrameInv ==
    ASSUME Medium, Inv, NEW f \in Frames, SendFrame(f)
    PROVE  Inv'
<1>1. /\ sent' = Append(sent, f) /\ wire' = wire \o Encode(f) /\ Encode(f) \in Seq(Byte)
      /\ UNCHANGED <<inPlace, buffer, used, parsing, handled>>
    BY FramesSendable DEF SendFrame
<1>2. TypeOK /\ InOrder /\ Data \o wire = FlattenSeq(Pending)
    BY BytesPending DEF Inv
<1>3. sent \in Seq(Frames) /\ wire \in Seq(Byte)
    BY <1>2 DEF TypeOK
<1>4. TypeOK'
  <2>1. sent' \in Seq(Frames)
    BY <1>1, <1>3
  <2>2. wire' \in Seq(Byte)
    BY <1>1, <1>3, ConcatProperties
  <2> QED
    BY <1>1, <1>2, <2>1, <2>2 DEF TypeOK
<1> DEFINE n == Len(sent)
           m == Len(handled)
<1>5. n \in Nat /\ m \in Nat /\ m <= n
    BY <1>2, PendingType
<1>6. Len(sent') = n + 1 /\ sent'[n + 1] = f /\ \A i \in 1..n : sent'[i] = sent[i]
    BY <1>1, <1>3
<1>7. InOrder'
  <2>1. \A i \in 1..m : handled[i] = sent[i]
    BY <1>2 DEF InOrder
  <2>2. \A i \in 1..m : i \in 1..n
    BY <1>5
  <2>3. handled' = handled /\ m <= n + 1
    BY <1>1, <1>5
  <2> QED
    BY <1>6, <2>1, <2>2, <2>3 DEF InOrder
<1>8. Pending' = Append(Pending, Encode(f))
  <2> DEFINE P == Pending
             Q == [i \in 1..(n + 1) - m |-> Encode(sent'[m + i])]
             R == Append(P, Encode(f))
  <2>1. Pending' = Q
    BY <1>1, <1>6 DEF Pending
  <2>2. /\ P \in Texts(Byte) /\ Len(P) = n - m
        /\ \A i \in 1..n - m : P[i] = Encode(sent[m + i])
    BY <1>2, PendingType
  <2> HIDE DEF P, n, m
  <2>3. /\ R \in Seq(Seq(Byte)) /\ Len(R) = (n + 1) - m
        /\ R[(n + 1) - m] = Encode(f) /\ \A i \in 1..n - m : R[i] = P[i]
    <3> DEFINE T == Seq(Byte)
               e == Encode(f)
               k == n - m
    <3>1. P \in Seq(T) /\ e \in T /\ Len(P) = k /\ k \in Nat /\ (n + 1) - m = k + 1
      BY <1>1, <1>5, <2>2 DEF Texts
    <3> HIDE DEF T, e, k
    <3>2. /\ Append(P, e) \in Seq(T) /\ Len(Append(P, e)) = k + 1 /\ Append(P, e)[k + 1] = e
          /\ \A i \in 1..k : Append(P, e)[i] = P[i]
      BY ONLY <3>1
    <3> QED
      BY <3>1, <3>2 DEF T, e, k
  <2> HIDE DEF R
  <2>4. R = [i \in 1..(n + 1) - m |-> R[i]]
    BY <1>5, <2>3
  <2>5. ASSUME NEW i \in 1..(n + 1) - m PROVE R[i] = Encode(sent'[m + i])
    <3>1. CASE i = (n + 1) - m
      <4>1. m + i = n + 1
        BY <1>5, <3>1
      <4> QED
        BY <1>6, <2>3, <3>1, <4>1 DEF n
    <3>2. CASE i # (n + 1) - m
      <4>1. i \in 1..n - m /\ m + i \in 1..n
        BY <1>5, <3>2
      <4>2. sent'[m + i] = sent[m + i]
        BY <1>6, <4>1 DEF n
      <4> QED
        BY <2>2, <2>3, <4>1, <4>2
    <3> QED
      BY <3>1, <3>2
  <2>6. R = Q
    BY <2>4, <2>5
  <2> QED
    BY <2>1, <2>6 DEF P, R
<1>9. FlattenSeq(Pending') = FlattenSeq(Pending) \o Encode(f)
  <2>1. Pending \in Texts(Byte)
    BY <1>2, PendingType
  <2> QED
    BY <1>1, <1>8, <2>1, FlattenAppend
<1>10. (Data \o wire) \o Encode(f) = Data \o (wire \o Encode(f))
  <2>1. Data \in Seq(Byte)
    BY <1>2, DataType
  <2> DEFINE d == Data
             e == Encode(f)
  <2>2. d \in Seq(Byte) /\ wire \in Seq(Byte) /\ e \in Seq(Byte)
    BY <1>1, <1>3, <2>1
  <2> HIDE DEF d, e
  <2>3. (d \o wire) \o e = d \o (wire \o e)
    BY ONLY <2>2, ConcatAssociative
  <2> QED
    BY <2>3 DEF d, e
<1>11. Data' = Data
    BY <1>1 DEF Data
<1>12. BytesConserved'
  <2>1. Data' \o wire' = FlattenSeq(Pending')
    BY <1>1, <1>2, <1>9, <1>10, <1>11
  <2> QED
    BY <2>1 DEF BytesConserved, Pending
<1> QED
    BY <1>4, <1>7, <1>12 DEF Inv

\* Both ways of taking bytes add them to the data.
LEMMA CommitWriteData ==
    ASSUME TypeOK, NEW bytes, bytes \in Seq(Byte), CommitWrite(bytes)
    PROVE  /\ buffer' \in Seq(Byte) /\ Len(buffer') >= Capacity
           /\ used' \in 0..Len(buffer')
           /\ Data' = Data \o bytes
<1>1. used \in Nat /\ Len(buffer) \in Nat /\ used <= Len(buffer) /\ Len(bytes) \in Nat
    BY DataType
<1>2. buffer \in Seq(Byte) /\ Len(buffer) >= Capacity
    BY DEF TypeOK
<1>3. /\ Len(bytes) <= Len(buffer) - used
      /\ buffer' = Written(buffer, used, bytes) /\ used' = used + Len(bytes)
    BY DEF CommitWrite
<1>4. used + Len(bytes) <= Len(buffer)
    BY <1>1, <1>3
<1>5. /\ buffer' \in Seq(Byte) /\ Len(buffer') = Len(buffer)
      /\ SubSeq(buffer', 1, used') = SubSeq(buffer, 1, used) \o bytes
    BY <1>1, <1>2, <1>3, <1>4, WrittenData
<1>6. used' \in 0..Len(buffer')
    BY <1>1, <1>3, <1>4, <1>5
<1>7. Data' = Data \o bytes
    BY <1>5 DEF Data
<1> QED
    BY <1>2, <1>5, <1>6, <1>7

LEMMA FeedData ==
    ASSUME TypeOK, NEW bytes, bytes \in Seq(Byte), Feed(bytes)
    PROVE  /\ buffer' \in Seq(Byte) /\ Len(buffer') >= Capacity
           /\ used' \in 0..Len(buffer')
           /\ Data' = Data \o bytes
<1> DEFINE n == Len(bytes)
           mem == IF n + used > Len(buffer) THEN Resize(n + used) ELSE buffer
<1>1. used \in Nat /\ Len(buffer) \in Nat /\ used <= Len(buffer) /\ n \in Nat
    BY DataType
<1>2. buffer \in Seq(Byte) /\ Len(buffer) >= Capacity /\ Capacity \in Nat
    BY ParserConstants DEF TypeOK, ParserConstants
<1>3. buffer' = Written(mem, used, bytes) /\ used' = used + n
    BY DEF Feed
<1>4. /\ mem \in Seq(Byte) /\ used + n <= Len(mem) /\ Len(mem) >= Capacity
      /\ SubSeq(mem, 1, used) = Data
  <2>1. CASE n + used > Len(buffer)
    <3>1. n + used \in Nat /\ used <= n + used
      BY <1>1
    <3>2. /\ Resize(n + used) \in Seq(Byte) /\ Len(Resize(n + used)) = n + used
          /\ SubSeq(Resize(n + used), 1, used) = Data
      <4> HIDE DEF n
      <4> QED
        BY <3>1, ResizeData
    <3>3. mem = Resize(n + used)
      BY <2>1
    <3> HIDE DEF mem, n
    <3>4. used + n <= Len(mem) /\ Len(mem) >= Capacity
      BY <1>1, <1>2, <2>1, <3>2, <3>3
    <3> QED
      BY <3>2, <3>3, <3>4
  <2>2. CASE ~(n + used > Len(buffer))
    <3>1. mem = buffer
      BY <2>2
    <3> HIDE DEF mem, n
    <3> QED
      BY <1>1, <1>2, <2>2, <3>1 DEF Data
  <2> HIDE DEF mem
  <2> QED
    BY <2>1, <2>2
<1> HIDE DEF mem
<1>5. /\ buffer' \in Seq(Byte) /\ Len(buffer') = Len(mem)
      /\ SubSeq(buffer', 1, used') = SubSeq(mem, 1, used) \o bytes
    BY <1>1, <1>3, <1>4, WrittenData
<1>6. used' \in 0..Len(buffer') /\ Len(buffer') >= Capacity
    BY <1>1, <1>3, <1>4, <1>5
<1>7. Data' = Data \o bytes
    BY <1>4, <1>5 DEF Data
<1> QED
    BY <1>5, <1>6, <1>7

\* The frames on their way only change when one is sent or handled.
LEMMA SamePending ==
    ASSUME InOrder, UNCHANGED <<sent, handled>>
    PROVE  InOrder' /\ Pending' = Pending
    BY DEF InOrder, Pending

LEMMA ReceiveInv ==
    ASSUME Medium, Inv, Receive
    PROVE  Inv'
<1>1. TypeOK /\ InOrder /\ Data \o wire = FlattenSeq(Pending) /\ wire \in Seq(Byte)
    BY BytesPending DEF Inv, TypeOK
<1>2. PICK k \in 0..Len(wire) :
        /\ IF inPlace THEN CommitWrite(SubSeq(wire, 1, k)) ELSE Feed(SubSeq(wire, 1, k))
        /\ wire' = SubSeq(wire, k + 1, Len(wire))
    BY DEF Receive
<1> DEFINE bytes == SubSeq(wire, 1, k)
           rest == SubSeq(wire, k + 1, Len(wire))
<1>3. bytes \in Seq(Byte) /\ rest \in Seq(Byte)
  <2>1. Len(wire) \in Nat /\ k \in Nat /\ k <= Len(wire)
    BY <1>1
  <2> QED
    BY <1>1, <2>1
<1>4. bytes \o rest = wire
  <2>1. /\ 1 \in 1..Len(wire) + 1 /\ k \in 1 - 1..Len(wire) /\ Len(wire) \in k..Len(wire)
    BY <1>1
  <2>2. bytes \o rest = SubSeq(wire, 1, Len(wire))
    BY <1>1, <2>1, ConcatAdjacentSubSeq
  <2> QED
    BY <1>1, <2>2, SubSeqFull
<1>5. wire' = rest /\ IF inPlace THEN CommitWrite(bytes) ELSE Feed(bytes)
    BY <1>2
<1> HIDE DEF bytes, rest
<1>6. /\ buffer' \in Seq(Byte) /\ Len(buffer') >= Capacity
      /\ used' \in 0..Len(buffer') /\ Data' = Data \o bytes
  <2>1. CASE inPlace
    BY <1>1, <1>3, <1>5, <2>1, CommitWriteData
  <2>2. CASE ~inPlace
    BY <1>1, <1>3, <1>5, <2>2, FeedData
  <2> QED
    BY <2>1, <2>2
<1>7. parsing' = TRUE /\ inPlace' = inPlace /\ sent' = sent /\ handled' = handled
    BY DEF Receive
<1>8. TypeOK'
    BY <1>1, <1>3, <1>5, <1>6, <1>7 DEF TypeOK
<1>9. InOrder' /\ Pending' = Pending
    BY <1>1, <1>7, SamePending
<1>10. (Data \o bytes) \o rest = Data \o (bytes \o rest)
  <2> DEFINE d == Data
  <2>1. d \in Seq(Byte) /\ bytes \in Seq(Byte) /\ rest \in Seq(Byte)
    BY <1>1, <1>3, DataType
  <2> HIDE DEF d
  <2>2. (d \o bytes) \o rest = d \o (bytes \o rest)
    BY ONLY <2>1, ConcatAssociative
  <2> QED
    BY <2>2 DEF d
<1>11. Data' \o wire' = FlattenSeq(Pending')
    BY <1>1, <1>4, <1>5, <1>6, <1>9, <1>10
<1>12. BytesConserved'
    BY <1>11 DEF BytesConserved, Pending
<1> QED
    BY <1>8, <1>9, <1>12 DEF Inv

LEMMA NeedMoreInv ==
    ASSUME Inv, NeedMore \/ UNCHANGED vars
    PROVE  Inv'
<1>1. /\ UNCHANGED <<inPlace, sent, wire, buffer, used, handled>>
      /\ parsing \in BOOLEAN => parsing' \in BOOLEAN
    BY DEF NeedMore, vars
<1>2. TypeOK'
    BY <1>1 DEF Inv, TypeOK
<1>3. InOrder'
    BY <1>1 DEF Inv, InOrder
<1>4. BytesConserved'
    BY <1>1 DEF Inv, BytesConserved, Data
<1> QED
    BY <1>2, <1>3, <1>4 DEF Inv

\* A frame that ParseOne finds complete is the first of those on their way.
LEMMA ParseOneFirst ==
    ASSUME Medium, Inv, ParseOne
    PROVE  /\ Len(handled) < Len(sent)
           /\ handled' = Append(handled, sent[Len(handled) + 1])
           /\ used' < used
           /\ Inv'
<1>1. TypeOK /\ InOrder /\ Data \o wire = FlattenSeq(Pending) /\ wire \in Seq(Byte)
    BY BytesPending DEF Inv, TypeOK
<1> DEFINE n == Len(sent)
           m == Len(handled)
           f == sent[m + 1]
           rest == [i \in 1..n - m - 1 |-> Encode(sent[(m + 1) + i])]
           size == Len(Encode(f))
<1>2. /\ n \in Nat /\ m \in Nat /\ m <= n
      /\ Pending \in Texts(Byte) /\ Len(Pending) = n - m
      /\ \A i \in 1..n - m : sent[m + i] \in Frames /\ Pending[i] = Encode(sent[m + i])
    BY <1>1, PendingType
<1>3. used >= 2 /\ HeaderLength(buffer[2]) <= used
      /\ (HeaderLength(buffer[2]) + Length(buffer)) % SizeT <= used
    BY DEF ParseOne, Complete
<1>4. Data \in Seq(Byte) /\ Len(Data) = used /\ used \in Nat /\ used \in 0..Len(buffer)
      /\ buffer \in Seq(Byte) /\ Len(buffer) >= Basic + Wide
    BY <1>1, DataType, ParserConstants, RadixNat DEF TypeOK, ParserConstants, Basic
<1>5. m < n
  <2>1. SUFFICES ASSUME n - m = 0 PROVE FALSE
    BY <1>2
  <2>2. Data \o wire = <<>>
    BY <1>1, <1>2, <2>1, FlattenEmpty
  <2>3. Len(Data \o wire) = Len(Data) + Len(wire)
    BY <1>1, <1>4, ConcatProperties
  <2> QED
    BY <1>1, <1>3, <1>4, <2>2, <2>3
<1>6. 1 \in 1..n - m /\ n - m - 1 \in Nat
    BY <1>2, <1>5
<1>7. f \in Frames /\ Pending[1] = Encode(f) /\ Sendable(f) /\ Encode(f) \in Seq(Byte)
    BY <1>2, <1>6, FramesSendable
<1>8. rest \in Texts(Byte) /\ Len(rest) = n - m - 1
      /\ \A i \in 1..n - m - 1 : rest[i] = Pending[i + 1]
  <2>1. ASSUME NEW i \in 1..n - m - 1
        PROVE  /\ Pending[i + 1] = Encode(sent[(m + 1) + i])
               /\ Encode(sent[(m + 1) + i]) \in Seq(Byte)
    <3>1. i + 1 \in 1..n - m /\ m + (i + 1) = (m + 1) + i
      BY <1>2
    <3>2. sent[m + (i + 1)] \in Frames /\ Pending[i + 1] = Encode(sent[m + (i + 1)])
      BY <1>2, <3>1
    <3> QED
      BY <3>1, <3>2, FramesSendable
  <2> HIDE DEF n, m
  <2>2. rest \in [1..n - m - 1 -> Seq(Byte)]
    BY <2>1
  <2>3. rest \in Seq(Seq(Byte)) /\ Len(rest) = n - m - 1
    BY <1>6, <2>2
  <2> QED
    BY <2>1, <2>3 DEF Texts
<1> HIDE DEF n, m, f, rest, size
<1>9. FlattenSeq(Pending) = Encode(f) \o FlattenSeq(rest) /\ FlattenSeq(rest) \in Seq(Byte)
  <2>1. Len(Pending) = Len(rest) + 1
    BY <1>2, <1>6, <1>8
  <2>2. \A i \in 1..Len(rest) : rest[i] = Pending[i + 1]
    BY <1>8
  <2>3. FlattenSeq(Pending) = Pending[1] \o FlattenSeq(rest)
    BY <1>2, <1>8, <2>1, <2>2, FlattenFirst
  <2>4. FlattenSeq(rest) \in Seq(Byte)
    BY <1>8, FlattenType
  <2> QED
    BY <1>7, <2>3, <2>4
<1> DEFINE r == FlattenSeq(rest)
<1> HIDE DEF r
<1>10. /\ HeaderLength(buffer[2]) = HeadOf(f) /\ Length(buffer) = Len(f.data)
       /\ (HeadOf(f) + Len(f.data)) % SizeT = size
       /\ size <= used
       /\ buffer[1] = f.tag
       /\ SubSeq(buffer, HeadOf(f) + 1, HeadOf(f) + Len(f.data)) = f.data
       /\ SubSeq(buffer, size + 1, used) \o wire = r
  <2>1. SubSeq(buffer, 1, used) \o wire = Encode(f) \o r
    BY <1>1, <1>9 DEF Data, r
  <2>2. r \in Seq(Byte)
    BY <1>9 DEF r
  <2>3. /\ HeaderLength(buffer[2]) = HeadOf(f) /\ Length(buffer) = Len(f.data)
        /\ (HeadOf(f) + Len(f.data)) % SizeT = Len(Encode(f))
        /\ Len(Encode(f)) <= used
        /\ buffer[1] = f.tag
        /\ SubSeq(buffer, HeadOf(f) + 1, HeadOf(f) + Len(f.data)) = f.data
        /\ SubSeq(buffer, Len(Encode(f)) + 1, used) \o wire = r
    <3>1. Whole(buffer, used, wire, f, r)
      BY <1>1, <1>3, <1>4, <1>7, <2>1, <2>2 DEF Whole
    <3> QED
      BY ONLY <3>1, Parsed
  <2> QED
    BY <2>3 DEF size
<1>11. /\ handled' = Append(handled, [tag |-> f.tag, data |-> f.data])
       /\ used' = used - size
       /\ buffer' = Written(buffer, 0, SubSeq(buffer, size + 1, used))
       /\ UNCHANGED <<inPlace, sent, wire, parsing>>
    BY <1>10 DEF ParseOne, Consume
<1>12. handled' = Append(handled, f)
  <2>1. f = [tag |-> f.tag, data |-> f.data]
    BY <1>7, HeadType
  <2> QED
    BY <1>11, <2>1
<1> DEFINE b == SubSeq(buffer, size + 1, used)
<1>13. b \in Seq(Byte) /\ Len(b) = used - size /\ size \in Nat
  <2>1. size \in Nat
    BY <1>7 DEF size
  <2> QED
    BY <1>4, <1>10, <2>1
<1>14. /\ buffer' \in Seq(Byte) /\ Len(buffer') = Len(buffer)
       /\ SubSeq(buffer', 1, 0 + Len(b)) = SubSeq(buffer, 1, 0) \o b
  <2> DEFINE at == 0
  <2>1. buffer' = Written(buffer, at, b)
    BY <1>11
  <2> HIDE DEF b
  <2>2. at \in Nat /\ at + Len(b) <= Len(buffer)
    BY <1>4, <1>10, <1>13
  <2> HIDE DEF at
  <2>3. /\ buffer' \in Seq(Byte) /\ Len(buffer') = Len(buffer)
        /\ SubSeq(buffer', 1, at + Len(b)) = SubSeq(buffer, 1, at) \o b
    BY <1>4, <1>13, <2>1, <2>2, WrittenData
  <2> QED
    BY <2>3 DEF at
<1> HIDE DEF b
<1>15. Data' = b
  <2>1. SubSeq(buffer, 1, 0) = <<>>
    BY SubSeqEmpty
  <2>2. <<>> \o b = b
    BY <1>13, ConcatEmptySeq
  <2>3. 0 + Len(b) = used'
    BY <1>4, <1>11, <1>13
  <2> QED
    BY <1>14, <2>1, <2>2, <2>3 DEF Data
<1>16. TypeOK'
  <2>1. used' \in 0..Len(buffer')
    BY <1>4, <1>10, <1>11, <1>13, <1>14
  <2>2. f \in [tag : Byte, data : Seq(Byte)]
    BY <1>7, FramesSendable
  <2>3. handled \in Seq([tag : Byte, data : Seq(Byte)])
    BY <1>1 DEF TypeOK
  <2>4. handled' \in Seq([tag : Byte, data : Seq(Byte)])
    <3> DEFINE F == [tag : Byte, data : Seq(Byte)]
    <3>1. handled \in Seq(F) /\ f \in F
      BY <2>2, <2>3
    <3> HIDE DEF F
    <3>2. Append(handled, f) \in Seq(F)
      BY <3>1
    <3> QED
      BY <1>12, <3>2 DEF F
  <2>5. Len(buffer') >= Capacity
    BY <1>1, <1>14 DEF TypeOK
  <2> QED
    BY <1>1, <1>11, <1>14, <2>1, <2>4, <2>5, Zenon DEF TypeOK
<1>17. Len(handled') = m + 1 /\ handled'[m + 1] = f /\ \A i \in 1..m : handled'[i] = handled[i]
  <2>1. handled \in Seq([tag : Byte, data : Seq(Byte)])
    BY <1>1 DEF TypeOK
  <2> QED
    BY <1>12, <2>1 DEF m
<1>18. InOrder'
  <2>1. m + 1 <= n /\ sent' = sent
    BY <1>2, <1>5, <1>11
  <2>2. \A i \in 1..m : handled[i] = sent[i]
    BY <1>1 DEF InOrder, m
  <2>3. ASSUME NEW i \in 1..m + 1 PROVE handled'[i] = sent[i]
    <3>1. CASE i = m + 1
      BY <1>17, <3>1 DEF f
    <3>2. CASE i # m + 1
      <4>1. i \in 1..m
        BY <1>2, <3>2
      <4> QED
        BY <1>17, <2>2, <4>1
    <3> QED
      BY <3>1, <3>2
  <2> QED
    BY <1>17, <2>1, <2>3 DEF InOrder, n
<1>19. Pending' = rest
  <2>1. n - (m + 1) = n - m - 1
    BY <1>2
  <2> QED
    BY <1>11, <1>17, <2>1 DEF Pending, rest, n
<1>20. BytesConserved'
  <2>1. Data' \o wire' = FlattenSeq(Pending')
    BY <1>10, <1>11, <1>15, <1>19 DEF r, b
  <2> QED
    BY <2>1 DEF BytesConserved, Pending
<1>21. m < n /\ handled' = Append(handled, sent[m + 1])
    BY <1>5, <1>12 DEF f
<1>22. used' < used
  <2>1. size = HeadOf(f) + Len(f.data)
    BY <1>7, EncodeShape DEF size
  <2>2. HeadOf(f) \in Nat /\ HeadOf(f) >= 2 /\ Len(f.data) \in Nat
    BY <1>7, HeadType, RadixNat DEF Basic
  <2>3. size > 0
    BY <2>1, <2>2
  <2> QED
    BY <1>4, <1>11, <1>13, <2>3
<1> QED
    BY <1>16, <1>18, <1>20, <1>21, <1>22 DEF Inv, m, n

-----------------------------------------------------------------------------
(* The theorems.                                                           *)

LEMMA NextInv ==
    ASSUME Medium, Inv, [Next]_vars
    PROVE  Inv'
<1>1. CASE \E f \in Frames : SendFrame(f)
    BY <1>1, SendFrameInv
<1>2. CASE Receive
    BY <1>2, ReceiveInv
<1>3. CASE ParseOne
    BY <1>3, ParseOneFirst
<1>4. CASE NeedMore \/ UNCHANGED vars
    BY <1>4, NeedMoreInv
<1> QED
    BY <1>1, <1>2, <1>3, <1>4 DEF Next

LEMMA Invariance ==
    ASSUME Medium
    PROVE  Spec => []Inv
<1>1. Init => Inv
    BY InitInv
<1>2. Inv /\ [Next]_vars => Inv'
    BY NextInv
<1> QED
    BY <1>1, <1>2, PTL DEF Spec

\* The type invariant of the parser: its memory never shrinks below the default
\* size, buffer_used_ stays within it, and what ParseOne hands to OnFrame is a
\* frame however the stream is cut.
THEOREM TypeCorrect ==
    ASSUME Medium
    PROVE  Spec => []TypeOK
<1>1. Inv => TypeOK
    BY DEF Inv
<1> QED
    BY <1>1, Invariance, PTL

\* No byte is lost, repeated or misplaced: what Feed, CommitWrite, Resize and
\* Consume leave in the SlidingBuffer and what is still to arrive are the
\* encodings of exactly the frames not yet handled.
THEOREM BytesConservedAlways ==
    ASSUME Medium
    PROVE  Spec => []BytesConserved
<1>1. Inv => BytesConserved
    BY DEF Inv
<1> QED
    BY <1>1, Invariance, PTL

\* ParseOne hands out the frames that SendFrame sent, complete and in order.
THEOREM FramesIntactAlways ==
    ASSUME Medium
    PROVE  Spec => []FramesIntact
<1>1. ASSUME Inv PROVE FramesIntact
  <2> DEFINE m == Len(handled)
             F == [tag : Byte, data : Seq(Byte)]
             s == SubSeq(handled, 1, m)
             t == SubSeq(sent, 1, m)
  <2>1. /\ handled \in Seq(F) /\ sent \in Seq(Frames) /\ Frames \subseteq F
        /\ m <= Len(sent) /\ \A i \in 1..m : handled[i] = sent[i]
    BY <1>1, ParserConstants DEF Inv, TypeOK, InOrder, ParserConstants
  <2> HIDE DEF F
  <2>2. m \in Nat /\ Len(sent) \in Nat
    BY <2>1
  <2>3. /\ s \in Seq(F) /\ Len(s) = m /\ \A i \in 1..m : s[i] = handled[i]
    BY <2>1, <2>2
  <2>4. /\ t \in Seq(F) /\ Len(t) = m /\ \A i \in 1..m : t[i] = sent[i]
    BY <2>1, <2>2
  <2> HIDE DEF s, t
  <2>5. s = t
    BY <2>1, <2>3, <2>4, SeqEqual
  <2> QED
    BY <2>1, <2>5 DEF FramesIntact, IsPrefix, s, t
<1> QED
    BY <1>1, Invariance, PTL

\* The bytes, the buffer and ParseOne implement the channel of frames that
\* WSocketContext is written over: each step sends a frame, hands over the next
\* one, or leaves both ends of the channel alone.
THEOREM ImplementsChannel ==
    ASSUME Medium
    PROVE  Spec => Channel!Spec
<1>1. Init => Channel!Init
    BY DEF Init, Channel!Init
<1>2. ASSUME Inv, [Next]_vars PROVE [Channel!Next]_(Channel!vars)
  <2>1. ASSUME NEW f \in Frames, SendFrame(f) PROVE Channel!Next
    BY <2>1 DEF SendFrame, Channel!Next, Channel!Send
  <2>2. CASE ParseOne
    <3>1. Len(handled) < Len(sent) /\ handled' = Append(handled, sent[Len(handled) + 1])
      BY <1>2, <2>2, ParseOneFirst
    <3>2. sent' = sent
      BY <2>2 DEF ParseOne
    <3> QED
      BY <3>1, <3>2 DEF Channel!Next, Channel!Handle
  <2>3. CASE Receive
    BY <2>3 DEF Receive, Channel!vars
  <2>4. CASE NeedMore \/ UNCHANGED vars
    BY <2>4 DEF NeedMore, vars, Channel!vars
  <2> QED
    BY <1>2, <2>1, <2>2, <2>3, <2>4 DEF Next
<1> QED
    BY <1>1, <1>2, Invariance, PTL DEF Spec, Channel!Spec

\* The loop of ParseProcess comes to an end: each frame it takes out leaves
\* less data than there was, as no sum of header and payload wraps around to 0.
THEOREM ParseLoopEnds ==
    ASSUME Medium
    PROVE  Spec => [][ParseOne => used' \in Nat /\ used' < used]_vars
<1>1. ASSUME Inv, ParseOne PROVE used' \in Nat /\ used' < used
  <2>1. Inv' /\ used' < used
    BY <1>1, ParseOneFirst
  <2>2. used' \in Nat
    BY <2>1 DEF Inv, TypeOK
  <2> QED
    BY <2>1, <2>2
<1>2. Inv /\ [Next]_vars => [ParseOne => used' \in Nat /\ used' < used]_vars
    BY <1>1
<1> QED
    BY <1>2, Invariance, PTL DEF Spec

=============================================================================

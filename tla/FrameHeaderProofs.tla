------------------------- MODULE FrameHeaderProofs -------------------------
(***************************************************************************)
(* Proofs about FrameHeader, for bytes of any radix and a length field of  *)
(* any width.                                                              *)
(***************************************************************************)
EXTENDS FrameHeader, SequenceTheorems, WellFoundedInduction, TLAPS

-----------------------------------------------------------------------------
(* Induction over the natural numbers and recursive functions, for sets    *)
(* and functions, which are values.                                        *)

LEMMA NatSet ==
    ASSUME NEW S, 0 \in S, \A n \in Nat : n \in S => n + 1 \in S
    PROVE  \A n \in Nat : n \in S
<1> DEFINE R == {ss \in Nat \X Nat : ss[1] < ss[2]}
           Rest == Nat \ S
<1>1. IsWellFoundedOn(R, Nat)
    BY NatLessThanWellFounded DEF OpToRel
<1>2. SUFFICES ASSUME Rest # {} PROVE FALSE
    OBVIOUS
<1>3. PICK x \in Rest : \A y \in Rest : ~(<<y, x>> \in R)
  <2>1. Rest \subseteq Nat
    OBVIOUS
  <2> HIDE DEF R, Rest
  <2> QED
    BY <1>1, <1>2, <2>1, WFMin
<1>4. x \in Nat /\ x # 0 /\ x - 1 \in Nat /\ (x - 1) + 1 = x
    BY <1>3
<1>5. x - 1 \in Rest
    BY <1>3, <1>4
<1>6. <<x - 1, x>> \in R
    BY <1>4
<1> QED
    BY <1>3, <1>5, <1>6

\* The steps a recursion over Nat may take, and the functions it defines.
Steps(S) == [Nat \X S -> S]

Recurs(g, S, a, step) ==
    /\ g \in [Nat -> S]
    /\ g[0] = a
    /\ \A n \in Nat : g[n + 1] = step[<<n, g[n]>>]

LEMMA Recursion ==
    ASSUME NEW S, NEW a, a \in S, NEW step, step \in Steps(S)
    PROVE  \E g : Recurs(g, S, a, step)
<1>0. step \in [Nat \X S -> S]
    BY DEF Steps
<1> DEFINE Ok(g, n) == /\ g \in [0..n -> S] /\ g[0] = a
                       /\ \A i \in 0..n - 1 : g[i + 1] = step[<<i, g[i]>>]
           Some == {n \in Nat : \E g \in [0..n -> S] : Ok(g, n)}
<1>1. 0 \in Some
  <2>1. Ok([i \in 0..0 |-> a], 0)
    OBVIOUS
  <2> QED
    BY <2>1
<1>2. ASSUME NEW n \in Nat, n \in Some PROVE n + 1 \in Some
  <2>1. PICK g \in [0..n -> S] : Ok(g, n)
    BY <1>2
  <2> DEFINE h == [i \in 0..n + 1 |-> IF i = n + 1 THEN step[<<n, g[n]>>] ELSE g[i]]
  <2>2. g[n] \in S /\ step[<<n, g[n]>>] \in S
    BY <1>0, <2>1
  <2>3. h \in [0..n + 1 -> S]
    BY <2>1, <2>2
  <2>4. h[0] = a
    BY <2>1
  <2>5. ASSUME NEW i \in 0..n PROVE h[i + 1] = step[<<i, h[i]>>]
    <3>1. h[i] = g[i]
      BY <2>5
    <3>2. CASE i = n
      <4>1. h[n + 1] = step[<<n, g[n]>>]
        BY n + 1 \in 0..n + 1
      <4> HIDE DEF h
      <4> QED
        BY <3>1, <3>2, <4>1
    <3>3. CASE i # n
      <4>1. i \in 0..n - 1 /\ i + 1 \in 0..n /\ i + 1 # n + 1
        BY <3>3
      <4>2. h[i + 1] = g[i + 1]
        BY <4>1
      <4>3. g[i + 1] = step[<<i, g[i]>>]
        BY <2>1, <4>1
      <4> HIDE DEF h
      <4> QED
        BY <3>1, <4>2, <4>3
    <3> QED
      BY <3>2, <3>3
  <2>6. Ok(h, n + 1)
    <3> HIDE DEF h
    <3>1. 0..(n + 1) - 1 = 0..n
      OBVIOUS
    <3> QED
      BY <2>3, <2>4, <2>5, <3>1
  <2>7. \E f \in [0..n + 1 -> S] : Ok(f, n + 1)
    <3> HIDE DEF h, Ok
    <3> QED
      BY <2>3, <2>6
  <2> QED
    BY <2>7
<1>3. \A n \in Nat : n \in Some
  <2> HIDE DEF Some
  <2> QED
    BY <1>1, <1>2, NatSet
\* Two such functions agree where both are defined.
<1>4. ASSUME NEW n \in Nat, NEW m \in Nat, NEW g, NEW h, Ok(g, n), Ok(h, m)
      PROVE  \A i \in Nat : i <= n /\ i <= m => g[i] = h[i]
  <2> DEFINE T == {i \in Nat : i <= n /\ i <= m => g[i] = h[i]}
  <2>1. 0 \in T
    BY <1>4
  <2>2. ASSUME NEW i \in Nat, i \in T PROVE i + 1 \in T
    <3>1. ASSUME i + 1 <= n, i + 1 <= m PROVE g[i + 1] = h[i + 1]
      <4>1. i \in 0..n - 1 /\ i \in 0..m - 1 /\ g[i] = h[i]
        BY <2>2, <3>1
      <4>2. g[i + 1] = step[<<i, g[i]>>] /\ h[i + 1] = step[<<i, h[i]>>]
        BY <1>4, <4>1
      <4> QED
        BY <4>1, <4>2
    <3> QED
      BY <3>1
  <2>3. \A i \in Nat : i \in T
    <3> HIDE DEF T
    <3> QED
      BY <2>1, <2>2, NatSet
  <2> QED
    BY <2>3
<1> DEFINE G(n) == CHOOSE g \in [0..n -> S] : Ok(g, n)
           F == [n \in Nat |-> G(n)[n]]
<1>5. ASSUME NEW n \in Nat PROVE Ok(G(n), n)
  <2>1. \E g \in [0..n -> S] : Ok(g, n)
    BY <1>3
  <2> HIDE DEF Ok
  <2> QED
    BY <2>1
<1> HIDE DEF G
<1>6. F \in [Nat -> S]
  <2>1. ASSUME NEW n \in Nat PROVE G(n)[n] \in S
    BY <1>5
  <2> QED
    BY <2>1
<1>7. F[0] = a
    BY <1>5
<1>8. ASSUME NEW n \in Nat PROVE F[n + 1] = step[<<n, F[n]>>]
  <2>1. Ok(G(n), n) /\ Ok(G(n + 1), n + 1) /\ n + 1 \in Nat
    BY <1>5
  <2>2. G(n)[n] = G(n + 1)[n]
    <3> HIDE DEF Ok
    <3> QED
      BY <1>4, <2>1
  <2>3. G(n + 1)[n + 1] = step[<<n, G(n + 1)[n]>>]
    BY <2>1
  <2> QED
    BY <2>1, <2>2, <2>3
<1> HIDE DEF F
<1> QED
    BY <1>6, <1>7, <1>8 DEF Recurs

-----------------------------------------------------------------------------
(* The powers of the radix.                                                *)

LEMMA RadixNat == Radix \in Nat /\ Radix > 2 /\ Wide \in Nat /\ Wide > 2
    BY HeaderConstants DEF HeaderConstants

LEMMA PowerEquations ==
    /\ Power \in [Nat -> Nat]
    /\ Power[0] = 1
    /\ \A n \in Nat : Power[n + 1] = Radix * Power[n]
<1> USE RadixNat
<1> DEFINE step == [ss \in Nat \X Nat |-> Radix * ss[2]]
<1>1. step \in [Nat \X Nat -> Nat]
    OBVIOUS
<1>2. ASSUME NEW n \in Nat, NEW k \in Nat PROVE step[<<n, k>>] = Radix * k
    OBVIOUS
<1>3. PICK g : Recurs(g, Nat, 1, step)
  <2>1. 1 \in Nat /\ step \in Steps(Nat)
    BY <1>1 DEF Steps
  <2> HIDE DEF step
  <2> QED
    BY <2>1, Recursion
<1> HIDE DEF step
<1>3a. g \in [Nat -> Nat] /\ g[0] = 1 /\ \A n \in Nat : g[n + 1] = step[<<n, g[n]>>]
    BY <1>3 DEF Recurs
<1>4. ASSUME NEW w \in Nat PROVE g[w] = IF w = 0 THEN 1 ELSE Radix * g[w - 1]
  <2>1. CASE w = 0
    BY <1>3a, <2>1
  <2>2. CASE w # 0
    <3>1. w - 1 \in Nat /\ (w - 1) + 1 = w
      BY <2>2
    <3>2. g[(w - 1) + 1] = step[<<w - 1, g[w - 1]>>]
      BY <1>3a, <3>1
    <3>3. g[w - 1] \in Nat
      BY <1>3a, <3>1
    <3>4. step[<<w - 1, g[w - 1]>>] = Radix * g[w - 1]
      BY <1>2, <3>1, <3>3
    <3>5. g[w] = Radix * g[w - 1]
      BY <3>1, <3>2, <3>4
    <3> QED
      BY <2>2, <3>5
  <2> QED
    BY <2>1, <2>2
<1>5. g = [w \in Nat |-> IF w = 0 THEN 1 ELSE Radix * g[w - 1]]
  <2>1. g = [w \in Nat |-> g[w]]
    BY <1>3a
  <2> QED
    BY <1>4, <2>1
<1>6. Power = [w \in Nat |-> IF w = 0 THEN 1 ELSE Radix * Power[w - 1]]
    BY <1>5 DEF Power
<1> DEFINE Small == {w \in Nat : Power[w] \in Nat}
<1>7. Power[0] = 1
    BY <1>6
<1>8. ASSUME NEW n \in Nat PROVE Power[n + 1] = Radix * Power[n]
  <2>1. n + 1 \in Nat /\ n + 1 # 0 /\ (n + 1) - 1 = n
    OBVIOUS
  <2> QED
    BY <1>6, <2>1
<1>9. \A w \in Nat : w \in Small
  <2>1. 0 \in Small
    BY <1>7
  <2>2. ASSUME NEW n \in Nat, n \in Small PROVE n + 1 \in Small
    BY <1>8, <2>2
  <2> HIDE DEF Small
  <2> QED
    BY <2>1, <2>2, NatSet
<1> QED
    BY <1>6, <1>7, <1>8, <1>9

LEMMA Mul == 
    ASSUME NEW a \in Nat, NEW b \in Nat, NEW c \in Nat, b <= c
    PROVE  a * b \in Nat /\ a * b <= a * c
  OBVIOUS

LEMMA DivMod ==
    ASSUME NEW a \in Nat, NEW b \in Nat, b > 0
    PROVE  a \div b \in Nat /\ a % b \in 0..b - 1 /\ a = b * (a \div b) + (a % b)
  OBVIOUS

LEMMA DivUnique ==
    ASSUME NEW a \in Nat, NEW b \in Nat, b > 0, NEW q \in Nat, NEW r \in 0..b - 1, a = b * q + r
    PROVE  a \div b = q
  OBVIOUS

LEMMA DivDiv ==
    ASSUME NEW k \in Nat, NEW p \in Nat, p > 0, NEW r \in Nat, r > 0
    PROVE  r * (k \div (r * p)) + ((k \div p) % r) = k \div p
<1> DEFINE q == k \div p
           t == q \div r
           s == q % r
           u == k % p
<1>1. q \in Nat /\ u \in 0..p - 1 /\ k = p * q + u
    BY DivMod
<1>2. t \in Nat /\ s \in 0..r - 1 /\ q = r * t + s
  <2> HIDE DEF q
  <2> QED
    BY <1>1, DivMod
<1> HIDE DEF t, s, u, q
<1>3. p * s \in Nat /\ p * s + u < r * p
  <2>1. s + 1 <= r /\ s + 1 \in Nat /\ s \in Nat
    BY <1>2
  <2>2. p * (s + 1) <= p * r
    BY <2>1, Mul
  <2> QED
    BY <1>1, <2>1, <2>2
<1>4. k = (r * p) * t + (p * s + u)
  <2>1. p * (r * t + s) = (r * p) * t + p * s
    BY <1>1, <1>2
  <2> QED
    BY <1>1, <1>2, <2>1
<1>5. r * p \in Nat /\ r * p > 0
    OBVIOUS
<1>6. k \div (r * p) = t
  <2> DEFINE b == r * p
             e == p * s + u
  <2>1. b \in Nat /\ b > 0 /\ e \in 0..b - 1 /\ k = b * t + e
    BY <1>1, <1>3, <1>4, <1>5
  <2> HIDE DEF b, e
  <2>2. k \div b = t
    BY <1>2, <2>1, DivUnique
  <2> QED
    BY <2>2 DEF b
<1>7. r * t + s = q
    BY <1>2
<1> QED
    BY <1>6, <1>7 DEF q, s


LEMMA PowerPositive ==
    \A w \in Nat : Power[w] \in Nat /\ Power[w] > 0
<1> DEFINE T == {w \in Nat : Power[w] > 0}
<1>1. 0 \in T
    BY PowerEquations
<1>2. ASSUME NEW w \in Nat, w \in T PROVE w + 1 \in T
  <2> DEFINE p == Power[w]
  <2>1. p \in Nat /\ p > 0 /\ Power[w + 1] = Radix * p
    BY <1>2, PowerEquations
  <2> HIDE DEF p
  <2>2. Radix * p > 0
    BY <2>1, RadixNat
  <2> QED
    BY <2>1, <2>2
<1>3. \A w \in Nat : w \in T
  <2> HIDE DEF T
  <2> QED
    BY <1>1, <1>2, NatSet
<1> QED
    BY <1>3, PowerEquations

LEMMA SmallPowers ==
    /\ Power[1] = Radix /\ Power[2] = Radix * Radix
    /\ Max16 = Radix * Radix - 1 /\ Max16 \in Nat /\ SizeT \in Nat
    /\ Mark16 < Max16
    /\ Basic + Wide + Max16 < SizeT
<1> USE RadixNat
<1>1. Power[1] = Radix
  <2>1. 0 \in Nat /\ 0 + 1 = 1
    OBVIOUS
  <2>2. Power[0 + 1] = Radix * Power[0]
    BY <2>1, PowerEquations
  <2> QED
    BY <2>1, <2>2, PowerEquations
<1>2. Power[2] = Radix * Radix
  <2>1. 1 \in Nat /\ 1 + 1 = 2
    OBVIOUS
  <2>2. Power[1 + 1] = Radix * Power[1]
    BY <2>1, PowerEquations
  <2> QED
    BY <1>1, <2>1, <2>2
<1>3. Max16 = Radix * Radix - 1
    BY <1>2 DEF Max16, Narrow
<1> DEFINE rr == Radix * Radix
<1>4. rr \in Nat /\ rr >= 3 * Radix
  <2>1. Radix * 3 <= Radix * Radix
    BY Mul
  <2> QED
    BY <2>1
<1> DEFINE T == {w \in Nat : w > 2 => Power[w] >= rr + w + 2}
<1>5. 0 \in T
    OBVIOUS
<1>6. ASSUME NEW w \in Nat, w \in T PROVE w + 1 \in T
  <2> DEFINE p == Power[w]
  <2>1. p \in Nat /\ p > 0 /\ Power[w + 1] = Radix * p
    BY PowerEquations, PowerPositive
  <2> HIDE DEF p, rr
  <2>2. CASE w < 2
    BY <2>2
  <2>3. CASE w = 2
    <3>1. p = rr
      BY <1>2, <2>3 DEF p, rr
    <3>2. p * 3 <= p * Radix
      BY <2>1, Mul
    <3> QED
      BY <1>4, <2>1, <2>3, <3>1, <3>2
  <2>4. CASE w > 2
    <3>1. p >= rr + w + 2
      BY <1>6, <2>4 DEF p
    <3>2. p * 3 <= p * Radix
      BY <2>1, Mul
    <3> QED
      BY <1>4, <2>1, <2>4, <3>1, <3>2
  <2> QED
    BY <2>2, <2>3, <2>4
<1>7. Wide \in T
  <2> HIDE DEF T
  <2> QED
    BY <1>5, <1>6, NatSet
<1>8. SizeT \in Nat /\ SizeT >= rr + Wide + 2
  <2> HIDE DEF rr
  <2> QED
    BY <1>7, PowerEquations DEF SizeT
<1>9. Max16 = rr - 1
    BY <1>3
<1> HIDE DEF rr
<1>10. Max16 \in Nat /\ Mark16 < Max16 /\ Basic + Wide + Max16 < SizeT
    BY <1>4, <1>8, <1>9 DEF Mark16, Basic
<1> QED
    BY <1>1, <1>2, <1>3, <1>8, <1>10

LEMMA ValueEquations ==
    ASSUME NEW bytes \in Seq(Nat)
    PROVE  \E v \in [0..Len(bytes) -> Nat] :
              /\ v[0] = 0
              /\ \A i \in 1..Len(bytes) : v[i] = Radix * v[i - 1] + bytes[i]
              /\ Value(bytes) = v[Len(bytes)]
<1> USE RadixNat
<1> DEFINE n == Len(bytes)
           next(i, k) == IF i + 1 \in 1..n THEN Radix * k + bytes[i + 1] ELSE 0
           step == [ss \in Nat \X Nat |-> next(ss[1], ss[2])]
<1>1. ASSUME NEW i \in Nat, NEW k \in Nat PROVE next(i, k) \in Nat
    OBVIOUS
<1>2. 0 \in Nat /\ step \in Steps(Nat)
  <2> HIDE DEF next
  <2> QED
    BY <1>1 DEF Steps
<1>3. ASSUME NEW i \in Nat, NEW k \in Nat PROVE step[<<i, k>>] = next(i, k)
    OBVIOUS
<1>4. PICK g : Recurs(g, Nat, 0, step)
  <2> HIDE DEF step
  <2> QED
    BY <1>2, Recursion
<1>5. g \in [Nat -> Nat] /\ g[0] = 0 /\ \A i \in Nat : g[i + 1] = next(i, g[i])
  <2> HIDE DEF step
  <2> QED
    BY <1>3, <1>4 DEF Recurs
<1> DEFINE f == [i \in 0..n |-> g[i]]
<1>6. f \in [0..n -> Nat] /\ f[0] = 0
  <2>0. n \in Nat
    OBVIOUS
  <2> HIDE DEF n, next
  <2>1. g \in [Nat -> Nat] /\ g[0] = 0
    BY <1>5
  <2>2. 0 \in 0..n /\ \A i \in 0..n : g[i] \in Nat
    BY <2>0, <2>1
  <2> QED
    BY <2>0, <2>1, <2>2
<1>7. ASSUME NEW i \in 1..n PROVE f[i] = Radix * f[i - 1] + bytes[i]
  <2>1. i - 1 \in Nat /\ (i - 1) + 1 = i /\ i - 1 \in 0..n
    OBVIOUS
  <2>2. g[i] = Radix * g[i - 1] + bytes[i]
    BY <1>5, <2>1
  <2> QED
    BY <2>1, <2>2
<1> DEFINE Eq(v) == v = [i \in 0..n |-> IF i = 0 THEN 0 ELSE Radix * v[i - 1] + bytes[i]]
<1>8. Eq(f)
  <2>1. f = [i \in 0..n |-> f[i]]
    OBVIOUS
  <2> HIDE DEF f
  <2>2. ASSUME NEW i \in 0..n PROVE f[i] = IF i = 0 THEN 0 ELSE Radix * f[i - 1] + bytes[i]
    BY <1>6, <1>7
  <2> QED
    BY <2>1, <2>2
<1>9. Value(bytes) = (CHOOSE v : Eq(v))[n]
    BY DEF Value
<1> DEFINE w == CHOOSE v : Eq(v)
<1>10. Eq(w)
  <2> HIDE DEF Eq
  <2> QED
    BY <1>8
<1>11. \A i \in Nat : i \in 0..n => w[i] = f[i]
  <2> DEFINE T == {i \in Nat : i \in 0..n => w[i] = f[i]}
  <2> HIDE DEF w, f
  <2>1. 0 \in T
    BY <1>6, <1>10
  <2>2. ASSUME NEW i \in Nat, i \in T PROVE i + 1 \in T
    <3>1. ASSUME i + 1 \in 0..n PROVE w[i + 1] = f[i + 1]
      <4>1. i + 1 # 0 /\ (i + 1) - 1 = i /\ i \in 0..n /\ i + 1 \in 1..n
        BY <3>1
      <4>2. w[i + 1] = Radix * w[i] + bytes[i + 1]
        BY <1>10, <4>1
      <4>3. f[i + 1] = Radix * f[i] + bytes[i + 1]
        BY <1>7, <4>1
      <4> QED
        BY <2>2, <4>1, <4>2, <4>3
    <3> QED
      BY <3>1
  <2> HIDE DEF T
  <2>3. \A i \in Nat : i \in T
    BY <2>1, <2>2, NatSet
  <2> QED
    BY <2>3 DEF T
<1>12. n \in Nat /\ n \in 0..n
    OBVIOUS
<1>13. Value(bytes) = f[n]
  <2> HIDE DEF f, Eq
  <2> QED
    BY <1>9, <1>11, <1>12
<1> HIDE DEF f
<1> QED
    BY <1>6, <1>7, <1>13

LEMMA ValueBigEndian ==
    ASSUME NEW w \in Nat, NEW k \in Nat, k < Power[w]
    PROVE  /\ BigEndian(k, w) \in Seq(Byte)
           /\ Len(BigEndian(k, w)) = w
           /\ Value(BigEndian(k, w)) = k
<1> USE RadixNat
<1> DEFINE b == BigEndian(k, w)
           digit(i) == (k \div Power[w - i]) % Radix
<1>1. ASSUME NEW i \in Nat, i <= w
      PROVE  w - i \in Nat /\ Power[w - i] \in Nat /\ Power[w - i] > 0
    BY <1>1, PowerEquations, PowerPositive
<1>2. ASSUME NEW i \in Nat, i <= w PROVE digit(i) \in 0..Radix - 1
  <2> DEFINE p == Power[w - i]
  <2>1. p \in Nat /\ p > 0
    BY <1>1, <1>2
  <2> HIDE DEF p
  <2> DEFINE q == k \div p
  <2>2. q \in Nat
    BY <2>1, DivMod
  <2> HIDE DEF q
  <2>3. q % Radix \in 0..Radix - 1
    BY <2>2, DivMod
  <2> QED
    BY <2>3 DEF p, q
<1>3. b = [i \in 1..w |-> digit(i)]
    BY DEF BigEndian
<1>4. b \in Seq(0..Radix - 1) /\ Len(b) = w
  <2> HIDE DEF digit, b
  <2> QED
    BY <1>2, <1>3
<1>5. b \in Seq(Nat) /\ \A i \in 1..w : b[i] = digit(i)
  <2> HIDE DEF digit, b
  <2> QED
    BY <1>3, <1>4
<1>6. PICK v \in [0..w -> Nat] : /\ v[0] = 0
                                 /\ \A i \in 1..w : v[i] = Radix * v[i - 1] + b[i]
                                 /\ Value(b) = v[w]
  <2> HIDE DEF b
  <2> QED
    BY <1>4, <1>5, ValueEquations
<1> DEFINE T == {i \in Nat : i <= w => v[i] = k \div Power[w - i]}
<1>7. 0 \in T
  <2> DEFINE p == Power[w]
  <2>1. p \in Nat /\ p > 0 /\ k < p /\ w - 0 = w
    BY PowerEquations
  <2> HIDE DEF p
  <2>2. k = p * 0 + k /\ k \in 0..p - 1
    BY <2>1
  <2>3. k \div p = 0
    BY <2>1, <2>2, DivUnique
  <2> QED
    BY <1>6, <2>1, <2>3 DEF p
<1>8. ASSUME NEW i \in Nat, i \in T PROVE i + 1 \in T
  <2>1. ASSUME i + 1 <= w PROVE v[i + 1] = k \div Power[w - (i + 1)]
    <3> DEFINE j == w - (i + 1)
               p == Power[j]
    <3>1. j \in Nat /\ j + 1 = w - i /\ i + 1 \in 1..w /\ (i + 1) - 1 = i /\ i <= w
      BY <2>1
    <3>2. p \in Nat /\ p > 0 /\ Power[w - i] = Radix * p
      <4> HIDE DEF j
      <4> QED
        BY <3>1, PowerEquations, PowerPositive
    <3>3. v[i] = k \div (Radix * p)
      BY <1>8, <3>1, <3>2
    <3>4. v[i + 1] = Radix * v[i] + digit(i + 1)
      <4> HIDE DEF digit, b
      <4> QED
        BY <1>5, <1>6, <3>1
    <3>5. digit(i + 1) = (k \div p) % Radix
      OBVIOUS
    <3> HIDE DEF digit, p
    <3>6. Radix * (k \div (Radix * p)) + ((k \div p) % Radix) = k \div p
      <4>1. Radix > 0
        OBVIOUS
      <4> QED
        BY <3>2, <4>1, DivDiv, Zenon
    <3> QED
      BY <3>3, <3>4, <3>5, <3>6 DEF p
  <2> QED
    BY <2>1
<1>9. w \in T
  <2> HIDE DEF T
  <2> QED
    BY <1>7, <1>8, NatSet
<1>10. v[w] = k
  <2>1. w - w = 0 /\ Power[0] = 1 /\ k \div 1 = k
    BY PowerEquations
  <2> QED
    BY <1>9, <2>1
<1> QED
    BY <1>4, <1>6, <1>10 DEF Byte

-----------------------------------------------------------------------------
(* The header.                                                             *)

\* The header before SendFrame cuts it: what Length(uint64_t) leaves in memory.
Header(tag, len) == <<tag, LengthByte(len)>> \o LengthField(len)

LEMMA LengthByteType ==
    ASSUME NEW len \in Nat
    PROVE  /\ LengthByte(len) \in Byte
           /\ len < Mark16 => LengthByte(len) = len
           /\ len >= Mark16 /\ len <= Max16 => LengthByte(len) = Mark16
           /\ len > Max16 => LengthByte(len) = Mark64
    BY RadixNat, SmallPowers DEF LengthByte, Mark16, Mark64, Byte

LEMMA LengthFieldType ==
    ASSUME NEW len \in Nat, len < SizeT
    PROVE  LengthField(len) \in Seq(Byte) /\ Len(LengthField(len)) = Wide
<1> USE RadixNat
<1>1. Narrow \in Nat /\ Wide \in Nat /\ Wide - Narrow \in Nat /\ Narrow + (Wide - Narrow) = Wide
    BY DEF Narrow
<1>2. 0 < Power[Wide] /\ 0 < Power[Wide - Narrow] /\ 0 \in Nat
    BY <1>1, PowerPositive
<1>3. len <= Max16 => len < Power[Narrow]
    BY <1>1, PowerEquations DEF Max16
<1>4. len < Power[Wide]
    BY DEF SizeT
<1>5. CASE len < Mark16
  <2>1. LengthField(len) = BigEndian(0, Wide)
    BY <1>5 DEF LengthField
  <2> QED
    BY <1>1, <1>2, <2>1, ValueBigEndian
<1>6. CASE len >= Mark16 /\ len <= Max16
  <2>1. LengthField(len) = BigEndian(len, Narrow) \o BigEndian(0, Wide - Narrow)
    BY <1>6 DEF LengthField, Mark16
  <2>2. /\ BigEndian(len, Narrow) \in Seq(Byte) /\ Len(BigEndian(len, Narrow)) = Narrow
        /\ BigEndian(0, Wide - Narrow) \in Seq(Byte) 
        /\ Len(BigEndian(0, Wide - Narrow)) = Wide - Narrow
    BY <1>1, <1>2, <1>3, <1>6, ValueBigEndian
  <2> QED
    BY <1>1, <2>1, <2>2
<1>7. CASE len > Max16
  <2>1. LengthField(len) = BigEndian(len, Wide)
    BY <1>7, SmallPowers DEF LengthField, Mark16
  <2> QED
    BY <1>1, <1>4, <2>1, ValueBigEndian
<1> QED
  <2>1. Max16 \in Nat /\ Mark16 \in Nat
    BY SmallPowers DEF Mark16
  <2> QED
    BY <1>5, <1>6, <1>7, <2>1

LEMMA HeaderShape ==
    ASSUME NEW tag \in Byte, NEW len \in Nat, len < SizeT
    PROVE  /\ Header(tag, len) \in Seq(Byte)
           /\ Len(Header(tag, len)) = Basic + Wide
           /\ Header(tag, len)[1] = tag
           /\ Header(tag, len)[2] = LengthByte(len)
           /\ \A i \in 1..Wide : Header(tag, len)[Basic + i] = LengthField(len)[i]
<1> DEFINE p == <<tag, LengthByte(len)>>
           q == LengthField(len)
<1>1. p \in Seq(Byte) /\ Len(p) = 2 /\ p[1] = tag /\ p[2] = LengthByte(len)
    BY LengthByteType
<1>2. q \in Seq(Byte) /\ Len(q) = Wide
    BY LengthFieldType
<1>3. Header(tag, len) = p \o q
    BY DEF Header
<1>3a. /\ p \o q \in Seq(Byte) /\ Len(p \o q) = Len(p) + Len(q)
      /\ \A i \in 1..Len(p) + Len(q) : (p \o q)[i] = IF i <= Len(p) THEN p[i] ELSE q[i - Len(p)]
  <2> HIDE DEF p, q
  <2> QED
    BY <1>1, <1>2, ConcatProperties
<1>4. p \o q \in Seq(Byte) /\ Len(p \o q) = 2 + Wide
  <2> HIDE DEF p, q
  <2> QED
    BY <1>1, <1>2, <1>3a
<1>5. (p \o q)[1] = p[1] /\ (p \o q)[2] = p[2]
  <2> HIDE DEF p, q
  <2> QED
    BY <1>1, <1>2, <1>3a, RadixNat
<1>6. \A i \in 1..Wide : (p \o q)[2 + i] = q[i]
  <2> HIDE DEF p, q
  <2> QED
    BY <1>1, <1>2, <1>3a, RadixNat
<1> HIDE DEF p
<1> QED
    BY <1>1, <1>3, <1>4, <1>5, <1>6 DEF Basic

\* What the getter reads only depends on the header.
LEMMA LengthOfHeader ==
    ASSUME NEW tag \in Byte, NEW len \in Nat, len < SizeT,
           NEW mem \in Seq(Byte), Len(mem) >= Basic + Wide,
           mem[2] = LengthByte(len),
           len > Max16 => \A i \in 1..Wide : mem[Basic + i] = LengthField(len)[i],
           len >= Mark16 => \A i \in 1..Narrow : mem[Basic + i] = LengthField(len)[i]
    PROVE  Length(mem) = len
<1> USE RadixNat
<1>1. CASE len < Mark16
    BY <1>1, LengthByteType DEF Length, Mark16, Mark64
<1>2. CASE len >= Mark16 /\ len <= Max16
  <2> DEFINE b == BigEndian(len, Narrow)
             c == BigEndian(0, Wide - Narrow)
             m == SubSeq(mem, Basic + 1, Basic + Narrow)
  <2>1. LengthField(len) = b \o c
    BY <1>2 DEF LengthField, Mark16
  <2>2. b \in Seq(Byte) /\ Len(b) = Narrow /\ Value(b) = len
    <3>1. Narrow \in Nat
      BY DEF Narrow
    <3>2. len < Power[Narrow]
      <4> DEFINE e == Power[Narrow]
      <4>1. e \in Nat /\ Max16 = e - 1
        BY <3>1, PowerEquations DEF Max16
      <4> HIDE DEF e
      <4>2. len < e
        BY <1>2, <4>1
      <4> QED
        BY <4>2 DEF e
    <3> QED
      BY <3>1, <3>2, ValueBigEndian
  <2>3. c \in Seq(Byte)
    <3>1. Wide - Narrow \in Nat
      BY DEF Narrow
    <3>2. 0 < Power[Wide - Narrow] /\ 0 \in Nat
      BY <3>1, PowerPositive
    <3> QED
      BY <3>1, <3>2, ValueBigEndian
  <2>4. m \in Seq(Byte) /\ Len(m) = Narrow /\ \A i \in 1..Narrow : m[i] = mem[Basic + i]
    BY DEF Basic, Narrow
  <2>5. Length(mem) = Value(m)
    BY <1>2, LengthByteType DEF Length, Mark16, Mark64
  <2> HIDE DEF b, c, m
  <2>6. \A i \in 1..Narrow : m[i] = b[i]
    BY <1>2, <2>1, <2>2, <2>3, <2>4
  <2>7. m = b
    BY <2>2, <2>4, <2>6
  <2> QED
    BY <2>2, <2>5, <2>7
<1>3. CASE len > Max16
  <2> DEFINE b == BigEndian(len, Wide)
             m == SubSeq(mem, Basic + 1, Basic + Wide)
  <2>1. LengthField(len) = b
    BY <1>3, SmallPowers DEF LengthField, Mark16
  <2>2. b \in Seq(Byte) /\ Len(b) = Wide /\ Value(b) = len
    BY ValueBigEndian DEF SizeT
  <2>4. m \in Seq(Byte) /\ Len(m) = Wide /\ \A i \in 1..Wide : m[i] = mem[Basic + i]
    BY DEF Basic
  <2>5. Length(mem) = Value(m)
    <3>1. mem[2] = Mark64
      BY <1>3, LengthByteType
    <3>2. Mark64 # Mark16
      BY DEF Mark16, Mark64
    <3> QED
      BY <3>1, <3>2 DEF Length
  <2> HIDE DEF b, m
  <2>6. \A i \in 1..Wide : m[i] = b[i]
    BY <1>3, <2>1, <2>4
  <2>7. m = b
    BY <2>2, <2>4, <2>6
  <2> QED
    BY <2>2, <2>5, <2>7
<1> QED
  <2>1. Max16 \in Nat /\ Mark16 \in Nat
    BY SmallPowers DEF Mark16
  <2> QED
    BY <1>1, <1>2, <1>3, <2>1

\* The header says the length it was given, in whichever of the three encodings,
\* as long as it is whole: Length() reads from memory what Length(len) wrote.
THEOREM HeaderRoundTrip ==
    ASSUME NEW tag \in Byte, NEW len \in Nat, len < SizeT
    PROVE  Length(Header(tag, len)) = len
<1>1. /\ Header(tag, len) \in Seq(Byte) /\ Len(Header(tag, len)) >= Basic + Wide
      /\ Header(tag, len)[2] = LengthByte(len)
      /\ \A i \in 1..Wide : Header(tag, len)[Basic + i] = LengthField(len)[i]
    BY HeaderShape, RadixNat DEF Basic
<1>2. \A i \in 1..Narrow : i \in 1..Wide
    BY RadixNat DEF Narrow
<1> QED
    BY <1>1, <1>2, LengthOfHeader

-----------------------------------------------------------------------------
(* Frames on the wire whose length is not the longest of the three forms.  *)

Sendable(f) == f \in [tag : Byte, data : Seq(Byte)] /\ Len(f.data) <= Max16

HeadOf(f) == HeaderLength(LengthByte(Len(f.data)))

LEMMA HeadType ==
    ASSUME NEW f, Sendable(f)
    PROVE  /\ f.tag \in Byte /\ f.data \in Seq(Byte) /\ Len(f.data) \in Nat
           /\ f = [tag |-> f.tag, data |-> f.data]
           /\ HeadOf(f) \in Basic..Basic + Wide
           /\ Len(f.data) < Mark16 => HeadOf(f) = Basic
           /\ Len(f.data) >= Mark16 => HeadOf(f) = Basic + Wide
           /\ HeadOf(f) + Len(f.data) < SizeT
<1> USE RadixNat
<1>1. /\ f.tag \in Byte /\ f.data \in Seq(Byte) /\ Len(f.data) \in Nat /\ Len(f.data) <= Max16
      /\ f = [tag |-> f.tag, data |-> f.data]
    BY DEF Sendable
<1> DEFINE n == Len(f.data)
<1>2. Max16 \in Nat /\ SizeT \in Nat /\ Mark16 \in Nat /\ Mark16 < Mark64
    BY SmallPowers DEF Mark16, Mark64
<1>3. n < Mark16 => HeadOf(f) = Basic
    BY <1>1, LengthByteType DEF HeadOf, HeaderLength
<1>4. n >= Mark16 => HeadOf(f) = Basic + Wide
  <2>1. ASSUME n >= Mark16 PROVE LengthByte(n) = Mark16
    BY <1>1, <2>1, LengthByteType
  <2> QED
    BY <1>2, <2>1 DEF HeadOf, HeaderLength
<1> HIDE DEF n
<1>5. HeadOf(f) \in Basic..Basic + Wide
    BY <1>1, <1>2, <1>3, <1>4 DEF Basic, n
<1>6. HeadOf(f) + n < SizeT
    BY <1>1, <1>2, <1>5, SmallPowers DEF Basic, n
<1> QED
    BY <1>1, <1>3, <1>4, <1>5, <1>6 DEF n

LEMMA EncodeShape ==
    ASSUME NEW f, Sendable(f)
    PROVE  /\ Encode(f) \in Seq(Byte)
           /\ Len(Encode(f)) = HeadOf(f) + Len(f.data)
           /\ \A i \in 1..HeadOf(f) : Encode(f)[i] = Header(f.tag, Len(f.data))[i]
           /\ \A i \in 1..Len(f.data) : Encode(f)[HeadOf(f) + i] = f.data[i]
<1> USE RadixNat
<1> DEFINE H == Header(f.tag, Len(f.data))
           h == HeadOf(f)
           P == SubSeq(H, 1, h)
           d == f.data
<1>1. h \in Nat /\ h <= Basic + Wide /\ d \in Seq(Byte) /\ Len(d) \in Nat
    BY HeadType DEF Basic
<1>2. Len(d) < SizeT
  <2>1. SizeT \in Nat
    BY SmallPowers
  <2> QED
    BY <1>1, <2>1, HeadType
<1>3. H \in Seq(Byte) /\ Len(H) = Basic + Wide
    BY <1>1, <1>2, HeadType, HeaderShape
<1>4. Encode(f) = P \o d
    BY DEF Encode, HeadOf, Header
<1>5. P \in Seq(Byte) /\ Len(P) = h /\ \A i \in 1..h : P[i] = H[i]
  <2> HIDE DEF H, h
  <2> QED
    BY <1>1, <1>3 DEF Basic
<1> HIDE DEF P, H, d, h
<1>6. /\ P \o d \in Seq(Byte) /\ Len(P \o d) = h + Len(d)
      /\ \A i \in 1..h + Len(d) : (P \o d)[i] = IF i <= h THEN P[i] ELSE d[i - h]
    BY <1>1, <1>5, ConcatProperties
<1>7. \A i \in 1..h : (P \o d)[i] = H[i]
    BY <1>1, <1>5, <1>6
<1>8. \A i \in 1..Len(d) : (P \o d)[h + i] = d[i]
  <2> SUFFICES ASSUME NEW i \in 1..Len(d) PROVE (P \o d)[h + i] = d[i]
    OBVIOUS
  <2>1. h + i \in 1..h + Len(d) /\ ~(h + i <= h) /\ (h + i) - h = i
    BY <1>1
  <2> QED
    BY <1>6, <2>1
<1> QED
    BY <1>4, <1>6, <1>7, <1>8 DEF h, d, H

LEMMA ReadableHeader ==
    ASSUME NEW f, Sendable(f), NEW mem \in Seq(Byte), Len(mem) >= Basic + Wide,
           \A i \in 1..HeadOf(f) : mem[i] = Encode(f)[i]
    PROVE  /\ mem[1] = f.tag
           /\ HeaderLength(mem[2]) = HeadOf(f)
           /\ Length(mem) = Len(f.data)
<1> USE RadixNat
<1> DEFINE n == Len(f.data)
           H == Header(f.tag, n)
<1>1. n \in Nat /\ f.tag \in Byte /\ n < SizeT /\ n <= Max16
  <2>1. SizeT \in Nat /\ n \in Nat /\ HeadOf(f) \in Nat /\ HeadOf(f) + n < SizeT
    BY SmallPowers, HeadType DEF Basic
  <2> HIDE DEF n
  <2>2. n < SizeT
    BY <2>1
  <2> QED
    BY <2>1, <2>2, HeadType DEF n, Sendable
<1>2. \A i \in 1..HeadOf(f) : mem[i] = H[i]
    BY EncodeShape
<1>3. /\ H[1] = f.tag /\ H[2] = LengthByte(n)
      /\ \A i \in 1..Wide : H[Basic + i] = LengthField(n)[i]
  <2> HIDE DEF n
  <2> QED
    BY <1>1, HeaderShape
<1> HIDE DEF H
<1>4. mem[1] = f.tag /\ mem[2] = LengthByte(n)
  <2>1. 1 \in 1..HeadOf(f) /\ 2 \in 1..HeadOf(f)
    BY HeadType DEF Basic
  <2> QED
    BY <1>2, <1>3, <2>1
<1>5. n >= Mark16 => \A i \in 1..Narrow : mem[Basic + i] = LengthField(n)[i]
  <2> SUFFICES ASSUME n >= Mark16, NEW i \in 1..Narrow
               PROVE  mem[Basic + i] = LengthField(n)[i]
    OBVIOUS
  <2>1. HeadOf(f) = Basic + Wide
    BY HeadType
  <2>2. i \in 1..Wide /\ Basic + i \in 1..Basic + Wide
    BY DEF Narrow, Basic
  <2> QED
    BY <1>2, <1>3, <2>1, <2>2
<1>6. ~(n > Max16)
    BY <1>1, SmallPowers
<1> HIDE DEF n
<1>7. Length(mem) = n
    BY <1>1, <1>4, <1>5, <1>6, LengthOfHeader
<1> QED
    BY <1>4, <1>7 DEF n, HeadOf
====

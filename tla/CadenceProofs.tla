----------------------------- MODULE CadenceProofs -----------------------------
(***************************************************************************)
(* Proofs about Arithmetic and Cadence, for words of any width and for any *)
(* limits, policies, grants and bindings that fit into them.               *)
(***************************************************************************)
EXTENDS Cadence, VectorLemmas

-----------------------------------------------------------------------------
(* Recursive functions *)

\* The first n values that g computes from s0.
Computes(S, s0, G, n, g) ==
  /\ g \in [0 .. n -> S] /\ g[0] = s0
  /\ \A m \in 0 .. n - 1 : g[m + 1] = G[<<m, g[m]>>]

LEMMA ComputedOnce ==
  ASSUME NEW S, NEW s0, NEW G, NEW n \in Nat, NEW m \in Nat, n <= m,
         NEW g, Computes(S, s0, G, n, g), NEW h, Computes(S, s0, G, m, h)
  PROVE  g[n] = h[n]
  <1> DEFINE I == {k \in Nat : k <= n => g[k] = h[k]}
  <1>1. 0 \in I
    BY DEF Computes
  <1>2. ASSUME NEW k \in Nat, k \in I
        PROVE  k + 1 \in I
    <2> SUFFICES ASSUME k + 1 <= n
                 PROVE  g[k + 1] = h[k + 1]
      OBVIOUS
    <2>1. k \in 0 .. n - 1 /\ k \in 0 .. m - 1 /\ k <= n
      OBVIOUS
    <2>2. g[k] = h[k]
      BY <1>2, <2>1
    <2> QED
      BY <2>1, <2>2 DEF Computes
  <1> HIDE DEF I
  <1>3. n \in I
    BY <1>1, <1>2, InductionOnSet
  <1> QED
    BY <1>3 DEF I

Steps(S, G) == \A n \in Nat, s \in S : G[<<n, s>>] \in S
Recurs(S, s0, G, f) ==
  f \in [Nat -> S] /\ f[0] = s0 /\ \A n \in Nat : f[n + 1] = G[<<n, f[n]>>]

\* A function may be defined by recursion.
LEMMA Recursion ==
  ASSUME NEW S, NEW s0 \in S, NEW G, Steps(S, G)
  PROVE  \E f : Recurs(S, s0, G, f)
  <1> DEFINE I == {n \in Nat : \E g : Computes(S, s0, G, n, g)}
             Of(n) == CHOOSE g : Computes(S, s0, G, n, g)
             f == [n \in Nat |-> Of(n)[n]]
  <1>1. 0 \in I
    <2> DEFINE g == [k \in 0 .. 0 |-> s0]
    <2>1. Computes(S, s0, G, 0, g)
      BY DEF Computes
    <2> QED
      BY <2>1
  <1>2. ASSUME NEW n \in Nat, n \in I
        PROVE  n + 1 \in I
    <2>1. PICK g : Computes(S, s0, G, n, g)
      BY <1>2
    <2> DEFINE h == [k \in 0 .. n + 1 |-> IF k = n + 1 THEN G[<<n, g[n]>>] ELSE g[k]]
    <2>2. g \in [0 .. n -> S] /\ g[n] \in S /\ G[<<n, g[n]>>] \in S
      BY <2>1 DEF Computes, Steps
    <2>3. h \in [0 .. n + 1 -> S] /\ h[0] = s0
      BY <2>1, <2>2 DEF Computes
    <2>4. ASSUME NEW m \in 0 .. (n + 1) - 1
          PROVE  h[m + 1] = G[<<m, h[m]>>]
      <3>1. CASE m = n
        <4>1. n \in 0 .. n + 1 /\ n + 1 \in 0 .. n + 1 /\ n # n + 1
          OBVIOUS
        <4>2. h[n] = g[n] /\ h[n + 1] = G[<<n, g[n]>>]
          BY <4>1
        <4> QED
          BY <3>1, <4>2
      <3>2. CASE m # n
        <4>1. m \in 0 .. n - 1 /\ m # n + 1 /\ m + 1 # n + 1 /\ m \in 0 .. n + 1 /\ m + 1 \in 0 .. n + 1
          BY <3>2
        <4>2. h[m] = g[m] /\ h[m + 1] = g[m + 1]
          BY <4>1
        <4> QED
          BY <2>1, <4>1, <4>2 DEF Computes
      <3> QED
        BY <3>1, <3>2
    <2> HIDE DEF h
    <2>5. Computes(S, s0, G, n + 1, h)
      BY <2>3, <2>4 DEF Computes
    <2> QED
      BY <2>5
  <1> HIDE DEF I
  <1>3. Nat \subseteq I
    BY <1>1, <1>2, InductionOnSet
  <1>4. \A n \in Nat : Computes(S, s0, G, n, Of(n))
    BY <1>3 DEF I
  <1> HIDE DEF Of
  <1>5. \A n \in Nat : f[n] = Of(n)[n] /\ f[n] \in S
    BY <1>4 DEF Computes
  <1>6. f \in [Nat -> S]
    BY <1>5
  <1> HIDE DEF f
  <1>7. f[0] = s0
    BY <1>4, <1>5 DEF Computes
  <1>8. ASSUME NEW n \in Nat
        PROVE  f[n + 1] = G[<<n, f[n]>>]
    <2>1. Of(n + 1)[n + 1] = G[<<n, Of(n + 1)[n]>>]
      BY <1>4 DEF Computes
    <2>2. Of(n)[n] = Of(n + 1)[n]
      BY <1>4, ComputedOnce
    <2> QED
      BY <1>5, <2>1, <2>2
  <1> QED
    BY <1>6, <1>7, <1>8 DEF Recurs

-----------------------------------------------------------------------------
(* Powers and words *)

LEMMA Powers ==
  /\ Power[0] = 1
  /\ \A n \in Nat : Power[n] \in Nat \ {0} /\ Power[n + 1] = 2 * Power[n]
  <1> DEFINE G == [p \in Nat \X Nat |-> 2 * p[2]]
  <1>1. G \in [Nat \X Nat -> Nat] /\ \A n, x \in Nat : G[<<n, x>>] = 2 * x
    OBVIOUS
  <1> HIDE DEF G
  <1>2. PICK f \in [Nat -> Nat] : f[0] = 1 /\ \A n \in Nat : f[n + 1] = G[<<n, f[n]>>]
    <2>1. 1 \in Nat /\ Steps(Nat, G)
      BY <1>1 DEF Steps
    <2>2. \E f : Recurs(Nat, 1, G, f)
      BY <2>1, Recursion
    <2> QED
      BY <2>2 DEF Recurs
  <1>3. \A n \in Nat : f[n] = IF n = 0 THEN 1 ELSE 2 * f[n - 1]
    <2>1. ASSUME NEW n \in Nat, n # 0
          PROVE  f[n] = 2 * f[n - 1]
      <3> DEFINE m == n - 1
      <3>1. m \in Nat /\ n = m + 1
        BY <2>1
      <3> HIDE DEF m
      <3>2. f[n] = 2 * f[m]
        BY <1>1, <1>2, <3>1
      <3> QED
        BY <3>2 DEF m
    <2> QED
      BY <1>2, <2>1
  <1>4. f = [n \in Nat |-> IF n = 0 THEN 1 ELSE 2 * f[n - 1]]
    BY <1>3
  <1>5. Power = [n \in Nat |-> IF n = 0 THEN 1 ELSE 2 * Power[n - 1]]
    BY <1>4 DEF Power
  <1>6. Power[0] = 1 /\ \A n \in Nat : Power[n + 1] = 2 * Power[n]
    <2>1. \A n \in Nat : Power[n] = IF n = 0 THEN 1 ELSE 2 * Power[n - 1]
      BY <1>5
    <2>2. ASSUME NEW n \in Nat
          PROVE  Power[n + 1] = 2 * Power[n]
      <3>1. n + 1 \in Nat /\ n + 1 # 0 /\ (n + 1) - 1 = n
        OBVIOUS
      <3> QED
        BY <2>1, <3>1
    <2> QED
      BY <2>1, <2>2
  <1> DEFINE I == {n \in Nat : Power[n] \in Nat \ {0}}
  <1>7. 0 \in I /\ \A n \in Nat : n \in I => n + 1 \in I
    BY <1>6
  <1> HIDE DEF I
  <1>8. Nat \subseteq I
    BY <1>7, InductionOnSet
  <1> QED
    BY <1>6, <1>8 DEF I

LEMMA PowerOfSum ==
  \A m, n \in Nat : Power[m + n] = Power[m] * Power[n]
  <1> SUFFICES ASSUME NEW m \in Nat
               PROVE  \A n \in Nat : Power[m + n] = Power[m] * Power[n]
    OBVIOUS
  <1> DEFINE I == {n \in Nat : Power[m + n] = Power[m] * Power[n]}
  <1>1. 0 \in I
    BY Powers
  <1>2. ASSUME NEW n \in Nat, n \in I
        PROVE  n + 1 \in I
    <2>1. Power[m + (n + 1)] = 2 * Power[m + n]
      <3>1. m + n \in Nat /\ m + (n + 1) = (m + n) + 1
        OBVIOUS
      <3> QED
        BY <3>1, Powers
    <2>2. Power[m] \in Nat /\ Power[n] \in Nat /\ Power[n + 1] = 2 * Power[n]
      BY Powers
    <2>3. Power[m + n] = Power[m] * Power[n]
      BY <1>2
    <2> QED
      BY <2>1, <2>2, <2>3
  <1> HIDE DEF I
  <1>3. Nat \subseteq I
    BY <1>1, <1>2, InductionOnSet
  <1> QED
    BY <1>3 DEF I

LEMMA Widths ==
  /\ Bits \in Nat \ {0} /\ HalfBits \in Nat \ {0}
  /\ Half \in Nat \ {0, 1} /\ WordSize = Half * Half /\ WordSize \in Nat \ {0, 1}
  /\ \E v \in Nat : WordSize = 2 * v
  /\ Half \in Word /\ 0 \in Word
  <1>1. HalfBits \in Nat \ {0} /\ Bits = HalfBits + HalfBits /\ Bits \in Nat \ {0}
    BY ArithmeticAssumption DEF Bits
  <1>2. WordSize = Half * Half
    BY <1>1, PowerOfSum DEF WordSize, Half
  <1>3. \E v \in Nat \ {0} : Half = 2 * v
    <2> DEFINE k == HalfBits - 1
    <2>1. k \in Nat /\ HalfBits = k + 1
      BY <1>1
    <2> HIDE DEF k
    <2>2. Half = 2 * Power[k] /\ Power[k] \in Nat \ {0}
      BY <2>1, Powers DEF Half
    <2> QED
      BY <2>2
  <1> HIDE DEF Half
  <1>4. PICK v \in Nat \ {0} : Half = 2 * v
    BY <1>3
  <1>5. Half \in Nat \ {0, 1}
    BY <1>4
  <1>6. WordSize = 2 * (v * Half) /\ v * Half \in Nat \ {0}
    BY <1>2, <1>4, <1>5
  <1>7. WordSize \in Nat \ {0, 1} /\ Half < WordSize
    BY <1>2, <1>5, <1>6
  <1> QED
    BY <1>1, <1>2, <1>5, <1>6, <1>7 DEF Word

LEMMA Divided ==
  ASSUME NEW n \in Nat, NEW d \in Nat \ {0}
  PROVE  n \div d \in Nat /\ n % d \in 0 .. d - 1 /\ n = d * (n \div d) + (n % d)
  <1>1. n = d * (n \div d) + (n % d)
    OBVIOUS
  <1>2. n % d \in 0 .. d - 1
    OBVIOUS
  <1>3. n \div d \in Nat
    BY <1>1, <1>2
  <1> QED
    BY <1>1, <1>2, <1>3

LEMMA QuotientOf ==
  ASSUME NEW n \in Int, NEW d \in Nat \ {0}, NEW q \in Int, NEW r \in 0 .. d - 1,
         n = d * q + r
  PROVE  n \div d = q /\ n % d = r
  OBVIOUS

LEMMA Small ==
  ASSUME NEW n \in Word
  PROVE  Wrap(n) = n
  <1>1. WordSize \in Nat \ {0} /\ n \in 0 .. WordSize - 1 /\ n = WordSize * 0 + n
    BY Widths DEF Word
  <1> QED
    BY <1>1, QuotientOf DEF Wrap

-----------------------------------------------------------------------------
(* The double-width product *)

LEMMA HalfProduct ==
  ASSUME NEW H \in Nat \ {0}, NEW x \in 0 .. H - 1, NEW y \in 0 .. H - 1
  PROVE  x * y \in Nat /\ x * y <= (H - 1) * (H - 1)
  <1>1. x * y <= x * (H - 1)
    OBVIOUS
  <1>2. x * (H - 1) <= (H - 1) * (H - 1)
    OBVIOUS
  <1> QED
    BY <1>1, <1>2

\* The partial products of half words, whose sums stay below a word.
LEMMA PartialSum ==
  ASSUME NEW H \in Nat \ {0}, NEW x \in 0 .. H - 1, NEW y \in 0 .. H - 1, NEW c \in 0 .. H - 1
  PROVE  LET t == x * y + c
         IN  /\ t \in 0 .. H * H - 1
             /\ t \div H \in 0 .. H - 1 /\ t % H \in 0 .. H - 1 /\ t = H * (t \div H) + (t % H)
  <1> DEFINE t == x * y + c
  <1>1. t \in Nat /\ t <= (H - 1) * (H - 1) + (H - 1)
    BY HalfProduct
  <1>2. (H - 1) * (H - 1) + (H - 1) < H * H
    OBVIOUS
  <1>3. t \in 0 .. H * H - 1
    BY <1>1, <1>2
  <1> HIDE DEF t
  <1>4. t \div H \in Nat /\ t % H \in 0 .. H - 1 /\ t = H * (t \div H) + (t % H)
    BY <1>1, Divided
  <1>5. t \div H < H
    BY <1>3, <1>4
  <1> QED
    BY <1>3, <1>4, <1>5 DEF t

LEMMA SumOfParts ==
  ASSUME NEW H \in Nat \ {0},
         NEW a0 \in 0 .. H - 1, NEW a1 \in 0 .. H - 1, NEW b0 \in 0 .. H - 1, NEW b1 \in 0 .. H - 1,
         NEW l0 \in 0 .. H - 1, NEW h0 \in 0 .. H - 1, a0 * b0 = H * h0 + l0,
         NEW l1 \in 0 .. H - 1, NEW h1 \in 0 .. H - 1, a1 * b0 + h0 = H * h1 + l1,
         NEW l2 \in 0 .. H - 1, NEW h2 \in 0 .. H - 1, a0 * b1 + l1 = H * h2 + l2
  PROVE  /\ a1 * b1 + h1 + h2 \in 0 .. H * H - 1
         /\ H * l2 + l0 \in 0 .. H * H - 1
         /\ (H * H) * (a1 * b1 + h1 + h2) + (H * l2 + l0) = (H * a1 + a0) * (H * b1 + b0)
  <1>1. a1 * b1 \in Nat /\ a1 * b1 <= (H - 1) * (H - 1)
    BY HalfProduct
  <1>2. (H - 1) * (H - 1) + (H - 1) + (H - 1) = H * H - 1
    OBVIOUS
  <1>3. a1 * b1 + h1 + h2 \in 0 .. H * H - 1
    BY <1>1, <1>2
  <1>4. H * l2 + l0 \in 0 .. H * H - 1
    <2>1. H * l2 <= H * (H - 1) /\ H * l2 \in Nat
      OBVIOUS
    <2> QED
      BY <2>1
  <1>5. (H * a1 + a0) * (H * b1 + b0) = (H * H) * (a1 * b1) + H * (a1 * b0 + a0 * b1) + a0 * b0
    OBVIOUS
  <1>6. a1 * b0 + a0 * b1 = H * h1 + H * h2 + l2 - h0
    OBVIOUS
  <1>7. H * (a1 * b0 + a0 * b1) = (H * H) * h1 + (H * H) * h2 + H * l2 - H * h0
    <2> DEFINE m == a1 * b0 + a0 * b1
    <2>1. m = H * h1 + H * h2 + l2 - h0
      BY <1>6
    <2> HIDE DEF m
    <2>2. H * m = (H * H) * h1 + (H * H) * h2 + H * l2 - H * h0
      BY <2>1
    <2> QED
      BY <2>2 DEF m
  <1>8. (H * H) * (a1 * b1 + h1 + h2) = (H * H) * (a1 * b1) + (H * H) * h1 + (H * H) * h2
    OBVIOUS
  <1> QED
    BY <1>3, <1>4, <1>5, <1>7, <1>8

\* No carry is lost.
LEMMA ProductIsExact ==
  ASSUME NEW a \in Word, NEW b \in Word
  PROVE  LET p == umul128(a, b)
         IN  p.hi \in Word /\ p.lo \in Word /\ a * b = WordSize * p.hi + p.lo
  <1> DEFINE H  == Half
             W  == WordSize
             a0 == Low(a)
             a1 == High(a)
             b0 == Low(b)
             b1 == High(b)
             t0 == a0 * b0
             h0 == High(t0)
             l0 == Low(t0)
             t1 == a1 * b0 + h0
             h1 == High(t1)
             l1 == Low(t1)
             t2 == a0 * b1 + l1
             h2 == High(t2)
             l2 == Low(t2)
             hi == a1 * b1 + h1 + h2
             lo == H * l2 + l0
  <1>1. H \in Nat \ {0} /\ W = H * H /\ W \in Nat \ {0} /\ Word = 0 .. H * H - 1
    BY Widths DEF Word
  <1>2. ASSUME NEW x \in Word
        PROVE  Low(x) \in 0 .. H - 1 /\ High(x) \in 0 .. H - 1 /\ x = H * High(x) + Low(x)
    <2>1. x \in Nat /\ x < H * H
      BY <1>1
    <2>2. High(x) \in Nat /\ Low(x) \in 0 .. H - 1 /\ x = H * High(x) + Low(x)
      BY <1>1, <2>1, Divided DEF High, Low
    <2> DEFINE y == High(x)
    <2> HIDE DEF H, y
    <2>3. y < H
      BY <1>1, <2>1, <2>2 DEF y
    <2> QED
      BY <1>1, <2>2, <2>3 DEF y
  <1>3. /\ a0 \in 0 .. H - 1 /\ a1 \in 0 .. H - 1 /\ a = H * a1 + a0
        /\ b0 \in 0 .. H - 1 /\ b1 \in 0 .. H - 1 /\ b = H * b1 + b0
    BY <1>2
  <1> HIDE DEF H, W, a0, a1, b0, b1
  <1>4. t0 \in Word
    BY <1>1, <1>3, HalfProduct, PartialSum
  <1>5. h0 \in 0 .. H - 1 /\ l0 \in 0 .. H - 1 /\ t0 = H * h0 + l0
    BY <1>2, <1>4
  <1>6. t1 \in Word
    <2> HIDE DEF h0
    <2> QED
      BY <1>1, <1>3, <1>5, PartialSum
  <1>7. h1 \in 0 .. H - 1 /\ l1 \in 0 .. H - 1 /\ t1 = H * h1 + l1
    BY <1>2, <1>6
  <1>8. t2 \in Word
    <2> HIDE DEF l1
    <2> QED
      BY <1>1, <1>3, <1>7, PartialSum
  <1>9. h2 \in 0 .. H - 1 /\ l2 \in 0 .. H - 1 /\ t2 = H * h2 + l2
    BY <1>2, <1>8
  <1>10. umul128(a, b) = [hi |-> Wrap(hi), lo |-> Wrap(t2 * H + l0)]
    <2>1. /\ Wrap(Low(a) * Low(b)) = t0
          /\ Wrap(High(a) * Low(b) + High(t0)) = t1
          /\ Wrap(Low(a) * High(b) + Low(t1)) = t2
      BY <1>4, <1>6, <1>8, Small DEF a0, a1, b0, b1
    <2> QED
      BY <2>1 DEF umul128, H, a0, a1, b0, b1
  <1> HIDE DEF h0, l0, h1, l1, h2, l2
  <1>11. hi \in 0 .. H * H - 1 /\ lo \in 0 .. H * H - 1 /\ (H * H) * hi + lo = a * b
    BY <1>1, <1>3, <1>5, <1>7, <1>9, SumOfParts
  <1>12. Wrap(hi) = hi
    <2> HIDE DEF hi
    <2> QED
      BY <1>1, <1>11, Small
  <1>13. Wrap(t2 * H + l0) = lo
    <2>1. t2 * H + l0 = (H * H) * h2 + lo
      <3> DEFINE t == t2
      <3>1. t = H * h2 + l2
        BY <1>9
      <3> HIDE DEF t
      <3>2. t * H + l0 = (H * H) * h2 + (H * l2 + l0)
        BY <1>1, <1>5, <1>9, <3>1
      <3> QED
        BY <3>2 DEF t
    <2> DEFINE n == t2 * H + l0
    <2>2. n = W * h2 + lo /\ lo \in 0 .. W - 1 /\ W \in Nat \ {0} /\ h2 \in Nat
      BY <1>1, <1>9, <1>11, <2>1
    <2> HIDE DEF n, lo
    <2>3. n \in Nat
      BY <2>2
    <2>4. n % W = lo
      BY <2>2, <2>3, QuotientOf
    <2> QED
      BY <2>4 DEF Wrap, W, n
  <1> HIDE DEF hi, lo, t2
  <1>14. umul128(a, b).hi = hi /\ umul128(a, b).lo = lo
    BY <1>10, <1>12, <1>13
  <1> QED
    BY <1>1, <1>11, <1>14 DEF W

-----------------------------------------------------------------------------
(* The long division *)

\* A digit of a number, as the quotient by the next power tells.
LEMMA NextBit ==
  ASSUME NEW n \in Nat, NEW w \in Nat \ {0}
  PROVE  n \div w = 2 * (n \div (2 * w)) + ((n \div w) % 2)
  <1> DEFINE q == n \div w
             r == n % w
             u == q \div 2
             v == q % 2
  <1>1. q \in Nat /\ r \in 0 .. w - 1 /\ n = w * q + r
    BY Divided
  <1> HIDE DEF q, r
  <1>2. u \in Nat /\ v \in 0 .. 1 /\ q = 2 * u + v
    BY <1>1, Divided
  <1> HIDE DEF u, v
  <1>3. n = (2 * w) * u + (w * v + r)
    BY <1>1, <1>2
  <1>4. w * v + r \in 0 .. 2 * w - 1
    <2>1. CASE v = 0
      BY <1>1, <2>1
    <2>2. CASE v = 1
      BY <1>1, <2>2
    <2> QED
      BY <1>2, <2>1, <2>2
  <1>5. n \div (2 * w) = u
    <2> DEFINE m == w * v + r
               x == 2 * w
    <2>1. m \in 0 .. x - 1 /\ n = x * u + m /\ x \in Nat \ {0}
      BY <1>3, <1>4
    <2> HIDE DEF m, x
    <2>2. n \div x = u
      BY <1>2, <2>1, QuotientOf
    <2> QED
      BY <2>2 DEF x
  <1> QED
    BY <1>2, <1>5 DEF q, v

LEMMA Cancel ==
  ASSUME NEW d \in Nat \ {0}, NEW x \in Nat, NEW y \in Nat, d * x < d * y
  PROVE  x < y
  <1> SUFFICES ASSUME x >= y
               PROVE  FALSE
    OBVIOUS
  <1>1. d * x >= d * y
    OBVIOUS
  <1> QED
    BY <1>1

\* Division is exact after a round, if it was before it.
LEMMA RoundIsExact ==
  ASSUME NEW d \in Word \ {0}, NEW q \in Nat, NEW r \in 0 .. d - 1, NEW bit \in {0, 1},
         2 * (d * q + r) + bit < d * WordSize
  PROVE  LET s == Round([q |-> q, r |-> r], bit, d)
         IN  \E u \in Word, v \in 0 .. d - 1 :
               s = [q |-> u, r |-> v] /\ 2 * (d * q + r) + bit = d * u + v
  <1> DEFINE W == WordSize
             m == 2 * r + bit
             shifted == Wrap(m)
             ge == Subtracts(2 * r >= W, shifted, d)
             one == IF ge THEN 1 ELSE 0
             v == IF ge THEN Wrap(shifted - d) ELSE shifted
  <1>1. /\ W \in Nat \ {0} /\ \E h \in Nat : W = 2 * h
        /\ Word = 0 .. W - 1 /\ d \in Nat \ {0} /\ d < W
    BY Widths DEF Word
  <1>2. Round([q |-> q, r |-> r], bit, d) = [q |-> Wrap(2 * q + one), r |-> v]
    BY DEF Round
  <1> HIDE DEF W
  <1>3. m \in Nat /\ m < 2 * d
    BY <1>1
  <1>4. one \in {0, 1} /\ v \in 0 .. d - 1 /\ m = d * one + v
    <2>1. CASE 2 * r >= W
      <3>1. ge
        BY <2>1 DEF Subtracts
      <3>2. m = W * 1 + (m - W) /\ m - W \in 0 .. W - 1
        BY <1>1, <1>3, <2>1
      <3>3. shifted = m - W
        <4> HIDE DEF m
        <4> DEFINE k == m - W
        <4>0. m \in Int /\ m = W * 1 + k /\ k \in 0 .. W - 1 /\ 1 \in Int
          BY <1>3, <3>2
        <4> HIDE DEF k
        <4>1. m % W = k
          BY <1>1, <4>0, QuotientOf
        <4> QED
          BY <4>1 DEF Wrap, W, k
      <3>4. m - d \in 0 .. d - 1 /\ m - d \in 0 .. W - 1
        BY <1>1, <1>3, <2>1
      <3> DEFINE n == (m - W) - d
      <3>5. n = W * (-1) + (m - d) /\ n \in Int /\ m - d \in 0 .. W - 1
        BY <1>1, <1>3, <3>4
      <3>6. Wrap(n) = m - d
        <4> DEFINE k == m - d
        <4>1. n = W * (-1) + k /\ n \in Int /\ k \in 0 .. W - 1 /\ -1 \in Int
          BY <3>5
        <4> HIDE DEF n, k
        <4>2. n % W = k
          BY <1>1, <4>1, QuotientOf
        <4> QED
          BY <4>2 DEF Wrap, W, k
      <3>7. v = m - d /\ one = 1
        BY <3>1, <3>3, <3>6
      <3> HIDE DEF v, one, m
      <3> QED
        BY <1>1, <1>3, <3>4, <3>7
    <2>2. CASE 2 * r < W
      <3>1. m < W
        BY <1>1, <2>2
      <3>2. shifted = m
        BY <1>1, <1>3, <3>1, Small
      <3>3. ge <=> m >= d
        BY <1>1, <2>2, <3>2 DEF Subtracts
      <3>4. CASE m >= d
        <4>1. m - d \in Word
          BY <1>1, <1>3, <3>1, <3>4
        <4>2. v = m - d /\ one = 1
          BY <3>2, <3>3, <3>4, <4>1, Small
        <4> HIDE DEF v, one, m
        <4> QED
          BY <1>1, <1>3, <3>4, <4>2
      <3>5. CASE ~(m >= d)
        <4>1. v = m /\ one = 0
          BY <3>2, <3>3, <3>5
        <4> HIDE DEF v, one, m
        <4> QED
          BY <1>1, <1>3, <3>5, <4>1
      <3> QED
        BY <3>4, <3>5
    <2> QED
      BY <1>1, <2>1, <2>2
  <1> HIDE DEF v, one
  <1> DEFINE u == 2 * q + one
  <1>5. 2 * (d * q + r) + bit = d * u + v
    BY <1>1, <1>4
  <1>6. u \in Nat /\ d * u < d * W
    BY <1>1, <1>4, <1>5 DEF W
  <1>7. u \in Word
    <2> HIDE DEF u
    <2> QED
      BY <1>1, <1>6, Cancel
  <1> QED
    BY <1>2, <1>4, <1>5, <1>7, Small

\* The bits of the product that the first n rounds have taken.
Taken(p, n) ==
  IF n <= Bits THEN p.hi \div Power[Bits - n]
  ELSE Power[n - Bits] * p.hi + (p.lo \div Power[2 * Bits - n])

LEMMA TakenBits ==
  ASSUME NEW p, p.hi \in Word, p.lo \in Word, NEW d \in Word \ {0}, p.hi < d
  PROVE  /\ Taken(p, 0) = 0 /\ Taken(p, 2 * Bits) = WordSize * p.hi + p.lo
         /\ \A n \in 0 .. 2 * Bits - 1 :
              /\ ProductBit(p, 2 * Bits - (n + 1)) \in {0, 1}
              /\ Taken(p, n + 1) = 2 * Taken(p, n) + ProductBit(p, 2 * Bits - (n + 1))
              /\ Taken(p, n + 1) < d * WordSize
  <1> DEFINE B  == Bits
             W  == WordSize
             hi == p.hi
             lo == p.lo
  <1>1. /\ B \in Nat \ {0} /\ W \in Nat \ {0} /\ W = Power[B]
        /\ hi \in Nat /\ lo \in Nat /\ hi < W /\ lo < W /\ d \in Nat \ {0} /\ d < W /\ hi < d
    BY Widths DEF Word, WordSize
  <1>2. Power[0] = 1 /\ \A n \in Nat : Power[n] \in Nat \ {0}
    BY Powers
  <1>3. \A x \in Nat : x \div 1 = x
    OBVIOUS
  <1>4. \A x \in Nat : x < W => x \div W = 0
    <2> SUFFICES ASSUME NEW x \in Nat, x < W
                 PROVE  x \div W = 0
      OBVIOUS
    <2> HIDE DEF W
    <2>1. x = W * 0 + x /\ x \in 0 .. W - 1 /\ 0 \in Int
      BY <1>1
    <2> QED
      BY <1>1, <2>1, QuotientOf
  <1>5. Taken(p, 0) = 0
    BY <1>1, <1>4 DEF Taken
  <1>6. Taken(p, 2 * B) = W * hi + lo
    <2>1. 2 * B - B = B /\ 2 * B - 2 * B = 0 /\ ~(2 * B <= B)
      BY <1>1
    <2> QED
      BY <1>1, <1>2, <1>3, <2>1 DEF Taken
  <1>7. ASSUME NEW n \in 0 .. 2 * B - 1
        PROVE  /\ ProductBit(p, 2 * B - (n + 1)) \in {0, 1}
               /\ Taken(p, n + 1) = 2 * Taken(p, n) + ProductBit(p, 2 * B - (n + 1))
               /\ Taken(p, n + 1) < d * W
    <2>1. CASE n < B
      <3> DEFINE i == B - (n + 1)
                 w == Power[i]
                 x == hi \div w
                 y == hi \div (2 * w)
      <3>1. i \in Nat /\ 2 * B - (n + 1) >= B /\ (2 * B - (n + 1)) - B = i /\ B - n = i + 1
        BY <1>1, <2>1
      <3>2. w \in Nat \ {0} /\ Power[B - n] = 2 * w
        BY <3>1, Powers
      <3>3. ProductBit(p, 2 * B - (n + 1)) = x % 2
        BY <3>1 DEF ProductBit, Bit
      <3>4. Taken(p, n + 1) = x /\ Taken(p, n) = y
        BY <1>1, <2>1, <3>1, <3>2 DEF Taken
      <3> HIDE DEF B, W, hi, lo, w, i
      <3>5. x = 2 * y + (x % 2) /\ x \in Nat
        BY <1>1, <3>2, NextBit, Divided
      <3>6. x <= hi
        <4>1. hi = w * x + (hi % w) /\ hi % w \in 0 .. w - 1
          BY <1>1, <3>2, Divided
        <4> HIDE DEF x
        <4>2. w * x >= x
          BY <3>2, <3>5
        <4> DEFINE z == w * x
                   o == hi % w
        <4>3. hi = z + o /\ z \in Int /\ o \in Nat /\ z >= x
          BY <3>2, <3>5, <4>1, <4>2
        <4> HIDE DEF z, o
        <4> QED
          BY <1>1, <3>5, <4>3
      <3> HIDE DEF x, y
      <3>7. x < d * W
        <4>1. d * W >= W
          BY <1>1
        <4> QED
          BY <1>1, <3>5, <3>6, <4>1
      <3>8. x % 2 \in {0, 1}
        BY <3>5
      <3> QED
        BY <3>3, <3>4, <3>5, <3>7, <3>8 DEF B, W
    <2>2. CASE n >= B
      <3> DEFINE i == 2 * B - (n + 1)
                 k == n - B
                 w == Power[i]
                 v == Power[k]
                 x == lo \div w
                 y == lo \div (2 * w)
      <3>1. /\ i \in Nat /\ k \in Nat /\ ~(i >= B) /\ (n + 1) - B = k + 1 /\ 2 * B - n = i + 1
            /\ B = (k + 1) + i /\ ~(n + 1 <= B)
        BY <1>1, <2>2
      <3>2. /\ w \in Nat \ {0} /\ Power[2 * B - n] = 2 * w
            /\ v \in Nat \ {0} /\ Power[(n + 1) - B] = 2 * v
            /\ W = (2 * v) * w
        <4>1. w \in Nat \ {0} /\ Power[i + 1] = 2 * w /\ v \in Nat \ {0} /\ Power[k + 1] = 2 * v
          BY <3>1, Powers
        <4>2. k + 1 \in Nat /\ Power[(k + 1) + i] = Power[k + 1] * Power[i]
          <5> DEFINE z == k + 1
          <5>1. z \in Nat /\ i \in Nat
            BY <3>1
          <5> HIDE DEF z, i
          <5>2. Power[z + i] = Power[z] * Power[i]
            BY <5>1, PowerOfSum, Zenon
          <5> QED
            BY <5>1, <5>2 DEF z
        <4>3. W = Power[(k + 1) + i]
          BY <1>1, <3>1
        <4> QED
          BY <3>1, <4>1, <4>2, <4>3
      <3>3. ProductBit(p, 2 * B - (n + 1)) = x % 2
        BY <3>1 DEF ProductBit, Bit
      <3>4. Taken(p, n + 1) = (2 * v) * hi + x
        BY <3>1, <3>2 DEF Taken
      <3>5. Taken(p, n) = v * hi + y
        <4>1. CASE n = B
          <5>1. Taken(p, n) = hi
            BY <1>1, <1>2, <1>3, <4>1 DEF Taken
          <5>2. k = 0 /\ v = 1
            BY <1>1, <1>2, <4>1
          <5>3. W = 2 * w
            BY <3>2, <5>2
          <5>4. y = 0
            BY <1>1, <1>4, <5>3
          <5> QED
            BY <1>1, <5>1, <5>2, <5>4
        <4>2. CASE n # B
          <5>1. ~(n <= B)
            BY <1>1, <2>2, <4>2
          <5> QED
            BY <3>2, <5>1 DEF Taken
        <4> QED
          BY <4>1, <4>2
      <3> HIDE DEF B, W, hi, lo, w, v, i, k
      <3>6. x = 2 * y + (x % 2) /\ x \in Nat /\ y \in Nat
        <4>1. x = 2 * y + (x % 2)
          BY <1>1, <3>2, NextBit
        <4>2. x \in Nat
          BY <1>1, <3>2, Divided
        <4>3. y \in Nat
          <5> DEFINE z == 2 * w
          <5>1. z \in Nat \ {0}
            BY <3>2
          <5> HIDE DEF z
          <5>2. lo \div z \in Nat
            BY <1>1, <5>1, Divided
          <5> QED
            BY <5>2 DEF z
        <4> QED
          BY <4>1, <4>2, <4>3
      <3>7. x < 2 * v
        <4>1. lo = w * x + (lo % w) /\ lo % w \in 0 .. w - 1
          BY <1>1, <3>2, Divided
        <4> DEFINE o == lo % w
        <4>2. lo = w * x + o /\ o \in Nat /\ lo < w * (2 * v)
          BY <1>1, <3>2, <4>1
        <4> HIDE DEF x, o
        <4>3. w * x < w * (2 * v)
          BY <1>1, <3>2, <3>6, <4>2
        <4> QED
          BY <3>2, <3>6, <4>3, Cancel
      <3> HIDE DEF x, y
      <3>8. (2 * v) * hi + x < d * W
        <4>1. (2 * v) * hi + x < (2 * v) * (hi + 1)
          BY <1>1, <3>2, <3>6, <3>7
        <4>2. (2 * v) * (hi + 1) <= (2 * v) * d
          BY <1>1, <3>2
        <4>3. (2 * v) * d <= ((2 * v) * d) * w
          <5> DEFINE z == (2 * v) * d
          <5>1. z \in Nat
            BY <1>1, <3>2
          <5> HIDE DEF z
          <5>2. z <= z * w
            BY <3>2, <5>1
          <5> QED
            BY <5>2 DEF z
        <4>4. ((2 * v) * d) * w = d * W
          BY <1>1, <3>2
        <4> QED
          BY <1>1, <3>2, <3>6, <4>1, <4>2, <4>3, <4>4
      <3>9. x % 2 \in {0, 1}
        BY <3>6
      <3>10. (2 * v) * hi + x = 2 * (v * hi + y) + (x % 2)
        <4> DEFINE o == x % 2
        <4>1. x = 2 * y + o /\ o \in Nat
          BY <3>6, <3>9
        <4> HIDE DEF o
        <4>2. (2 * v) * hi + x = 2 * (v * hi + y) + o
          BY <1>1, <3>2, <3>6, <4>1
        <4> QED
          BY <4>2 DEF o
      <3> QED
        BY <3>3, <3>4, <3>5, <3>8, <3>9, <3>10 DEF B, W
    <2> QED
      BY <1>1, <2>1, <2>2
  <1> QED
    BY <1>5, <1>6, <1>7

LEMMA RoundsRecur ==
  ASSUME NEW p, p.hi \in Word, p.lo \in Word, NEW d \in Word \ {0}, p.hi < d
  PROVE  /\ Rounds(p, d)[0] = [q |-> 0, r |-> 0]
         /\ \A n \in 0 .. 2 * Bits - 1 :
              Rounds(p, d)[n + 1] = Round(Rounds(p, d)[n], ProductBit(p, 2 * Bits - (n + 1)), d)
  <1> DEFINE N == 2 * Bits
             S == [q: Int, r: Int]
             s0 == [q |-> 0, r |-> 0]
             bit(n) == ProductBit(p, N - (n + 1))
             G == [x \in Nat \X S |-> IF x[1] < N THEN Round(x[2], bit(x[1]), d) ELSE s0]
             Recur(f) == f = [n \in 0 .. N |-> IF n = 0 THEN s0
                                               ELSE Round(f[n - 1], ProductBit(p, N - n), d)]
  <1>1. N \in Nat /\ WordSize \in Nat \ {0} /\ d \in Nat
    BY Widths DEF Word
  <1>2. \A n \in 0 .. N - 1 : bit(n) \in {0, 1}
    BY TakenBits
  <1>3. \A s \in S, b \in {0, 1} : Round(s, b, d) \in S
    <2>1. \A x \in Int : Wrap(x) \in Int
      BY <1>1 DEF Wrap
    <2> SUFFICES ASSUME NEW s \in S, NEW b \in {0, 1}
                 PROVE  Round(s, b, d) \in S
      OBVIOUS
    <2> DEFINE shifted == Wrap(2 * s.r + b)
               ge == Subtracts(2 * s.r >= WordSize, shifted, d)
    <2>2. shifted \in Int
      BY <2>1
    <2>3. Wrap(2 * s.q + (IF ge THEN 1 ELSE 0)) \in Int
      <3> HIDE DEF ge
      <3>1. 2 * s.q + (IF ge THEN 1 ELSE 0) \in Int
        OBVIOUS
      <3> QED
        BY <2>1, <3>1
    <2>4. (IF ge THEN Wrap(shifted - d) ELSE shifted) \in Int
      <3> HIDE DEF ge, shifted
      <3>1. shifted - d \in Int
        BY <1>1, <2>2
      <3> QED
        BY <2>1, <2>2, <3>1
    <2>5. Round(s, b, d) = [q |-> Wrap(2 * s.q + (IF ge THEN 1 ELSE 0)),
                            r |-> IF ge THEN Wrap(shifted - d) ELSE shifted]
      BY DEF Round
    <2> QED
      BY <2>3, <2>4, <2>5
  <1> HIDE DEF bit
  <1>4. s0 \in S /\ Steps(S, G)
    <2>1. ASSUME NEW n \in Nat, NEW s \in S
          PROVE  G[<<n, s>>] \in S
      <3>1. G[<<n, s>>] = IF n < N THEN Round(s, bit(n), d) ELSE s0
        OBVIOUS
      <3>2. CASE n < N
        <4>1. bit(n) \in {0, 1}
          BY <1>1, <1>2, <3>2
        <4> QED
          BY <1>3, <3>1, <3>2, <4>1
      <3>3. CASE ~(n < N)
        BY <3>1, <3>3
      <3> QED
        BY <3>2, <3>3
    <2> QED
      BY <2>1 DEF Steps
  <1>5. \A n \in Nat, s \in S : n < N => G[<<n, s>>] = Round(s, bit(n), d)
    OBVIOUS
  <1> HIDE DEF G
  <1>6. PICK f : Recurs(S, s0, G, f)
    <2> HIDE DEF S, s0
    <2> QED
      BY <1>4, Recursion
  <1>7. f[0] = s0 /\ \A n \in 0 .. N - 1 : f[n + 1] = Round(f[n], bit(n), d)
    <2>1. f[0] = s0 /\ \A n \in Nat : f[n] \in S /\ f[n + 1] = G[<<n, f[n]>>]
      BY <1>6 DEF Recurs
    <2> HIDE DEF S
    <2>2. \A n \in 0 .. N - 1 : n \in Nat /\ n < N
      BY <1>1
    <2> QED
      BY <1>5, <2>1, <2>2
  <1> DEFINE g == [n \in 0 .. N |-> f[n]]
  <1>8. Recur(g)
    <2>1. g[0] = s0
      BY <1>1, <1>7
    <2>2. ASSUME NEW n \in 0 .. N, n # 0
          PROVE  g[n] = Round(g[n - 1], ProductBit(p, N - n), d)
      <3> DEFINE m == n - 1
      <3>1. m \in 0 .. N - 1 /\ n = m + 1 /\ m \in 0 .. N
        BY <1>1, <2>2
      <3> HIDE DEF m
      <3>2. g[n] = f[m + 1] /\ g[m] = f[m]
        BY <3>1
      <3>3. f[m + 1] = Round(f[m], bit(m), d)
        BY <1>7, <3>1
      <3>4. bit(m) = ProductBit(p, N - n)
        BY <3>1 DEF bit
      <3> QED
        BY <3>2, <3>3, <3>4 DEF m
    <2>3. DOMAIN g = 0 .. N /\ g = [n \in 0 .. N |-> g[n]]
      OBVIOUS
    <2> HIDE DEF g, N
    <2>4. \A n \in 0 .. N : g[n] = IF n = 0 THEN s0 ELSE Round(g[n - 1], ProductBit(p, N - n), d)
      BY <2>1, <2>2
    <2> QED
      BY <2>3, <2>4
  <1>9. Recur(Rounds(p, d))
    <2>1. Rounds(p, d) = CHOOSE h : Recur(h)
      BY DEF Rounds
    <2> HIDE DEF Recur
    <2> QED
      BY <1>8, <2>1
  <1> DEFINE h == Rounds(p, d)
  <1>10. /\ h[0] = s0
         /\ \A n \in 1 .. N : h[n] = Round(h[n - 1], ProductBit(p, N - n), d)
    <2>1. h = [n \in 0 .. N |-> IF n = 0 THEN s0 ELSE Round(h[n - 1], ProductBit(p, N - n), d)]
      BY <1>9
    <2> HIDE DEF h, s0, N
    <2>2. \A n \in 0 .. N : h[n] = IF n = 0 THEN s0 ELSE Round(h[n - 1], ProductBit(p, N - n), d)
      BY <2>1
    <2> QED
      BY <1>1, <2>2
  <1> HIDE DEF h, N
  <1>11. \A n \in 0 .. N - 1 : h[n + 1] = Round(h[n], ProductBit(p, N - (n + 1)), d)
    <2> SUFFICES ASSUME NEW n \in 0 .. N - 1
                 PROVE  h[n + 1] = Round(h[n], ProductBit(p, N - (n + 1)), d)
      OBVIOUS
    <2>1. n + 1 \in 1 .. N /\ (n + 1) - 1 = n
      BY <1>1
    <2> QED
      BY <1>10, <2>1
  <1> QED
    BY <1>10, <1>11 DEF h, N

LEMMA DivisionIsExact ==
  ASSUME NEW p, p.hi \in Word, p.lo \in Word, NEW d \in Word \ {0}, p.hi < d
  PROVE  \E u \in Word, v \in 0 .. d - 1 :
           Division(p, d) = [q |-> u, r |-> v] /\ WordSize * p.hi + p.lo = d * u + v
  <1> DEFINE N == 2 * Bits
             Exact(n) == \E u \in Word, v \in 0 .. d - 1 :
                           Rounds(p, d)[n] = [q |-> u, r |-> v] /\ Taken(p, n) = d * u + v
             I == {n \in Nat : n <= N => Exact(n)}
  <1>1. N \in Nat /\ 0 \in Word /\ Word \subseteq Nat /\ d \in Nat \ {0}
    BY Widths DEF Word
  <1>2. 0 \in I
    <2>1. 0 \in 0 .. d - 1 /\ 0 = d * 0 + 0
      BY <1>1
    <2>2. Exact(0)
      BY <1>1, <2>1, RoundsRecur, TakenBits
    <2> QED
      BY <2>2
  <1>3. ASSUME NEW n \in Nat, n \in I
        PROVE  n + 1 \in I
    <2> SUFFICES ASSUME n + 1 <= N
                 PROVE  Exact(n + 1)
      <3> HIDE DEF Exact, N
      <3> QED
        BY <1>3
    <2>1. n \in 0 .. N - 1 /\ Exact(n)
      <3> HIDE DEF Exact, N
      <3> QED
        BY <1>1, <1>3
    <2>2. PICK u \in Word, v \in 0 .. d - 1 :
            Rounds(p, d)[n] = [q |-> u, r |-> v] /\ Taken(p, n) = d * u + v
      BY <2>1
    <2> DEFINE bit == ProductBit(p, N - (n + 1))
    <2>3. /\ bit \in {0, 1} /\ Taken(p, n + 1) = 2 * Taken(p, n) + bit
          /\ Taken(p, n + 1) < d * WordSize
      BY <2>1, TakenBits
    <2>4. Rounds(p, d)[n + 1] = Round(Rounds(p, d)[n], bit, d)
      BY <2>1, RoundsRecur
    <2> HIDE DEF bit
    <2>5. u \in Nat /\ 2 * (d * u + v) + bit < d * WordSize
      BY <1>1, <2>2, <2>3
    <2>6. PICK x \in Word, y \in 0 .. d - 1 :
            Round([q |-> u, r |-> v], bit, d) = [q |-> x, r |-> y]
            /\ 2 * (d * u + v) + bit = d * x + y
      BY <2>3, <2>5, RoundIsExact
    <2>7. Rounds(p, d)[n + 1] = [q |-> x, r |-> y] /\ Taken(p, n + 1) = d * x + y
      BY <2>2, <2>3, <2>4, <2>6
    <2> QED
      BY <2>7
  <1> HIDE DEF I
  <1>4. N \in I
    BY <1>1, <1>2, <1>3, InductionOnSet
  <1>5. Exact(N)
    BY <1>1, <1>4 DEF I
  <1>6. Taken(p, N) = WordSize * p.hi + p.lo /\ Division(p, d) = Rounds(p, d)[N]
    BY TakenBits DEF Division
  <1> QED
    BY <1>5, <1>6

\* mul_div_mod returns the quotient and the remainder, or false exactly when the quotient
\* does not fit into a word or there is none.
THEOREM MulDivExact ==
  ASSUME NEW a \in Word, NEW b \in Word, NEW d \in Word
  PROVE  mul_div_mod(a, b, d) =
           IF d = 0 \/ a * b >= d * WordSize THEN NoQuotient
           ELSE [q |-> (a * b) \div d, r |-> (a * b) % d]
  <1> DEFINE W == WordSize
             p == umul128(a, b)
             n == a * b
             hi == p.hi
             lo == p.lo
  <1>1. W \in Nat \ {0} /\ Word = 0 .. W - 1
    BY Widths DEF Word
  <1>2. hi \in Word /\ lo \in Word /\ n = W * hi + lo
    BY ProductIsExact
  <1>3. n \in Nat /\ d \in Nat
    BY <1>1
  <1>4. mul_div_mod(a, b, d) =
          IF d = 0 \/ hi >= d THEN NoQuotient
          ELSE IF hi = 0 THEN [q |-> lo \div d, r |-> lo % d] ELSE Division(p, d)
    BY DEF mul_div_mod
  <1>5. CASE d = 0
    BY <1>4, <1>5
  <1>6. CASE d # 0
    <2>1. hi >= d <=> n >= d * W
      <3> HIDE DEF W, hi, lo, n
      <3>1. hi >= d => W * hi >= d * W
        BY <1>1, <1>2, <1>3
      <3>2. hi < d => W * (hi + 1) <= d * W
        BY <1>1, <1>2, <1>3
      <3>3. W * (hi + 1) = W * hi + W /\ W * hi \in Nat /\ lo \in Nat /\ lo < W
        BY <1>1, <1>2
      <3> QED
        BY <1>1, <1>2, <1>3, <3>1, <3>2, <3>3
    <2>2. CASE hi >= d
      BY <1>4, <1>6, <2>1, <2>2
    <2>3. CASE hi < d /\ hi = 0
      <3>1. n = lo
        BY <1>1, <1>2, <2>3
      <3> HIDE DEF n, hi, lo
      <3> QED
        BY <1>1, <1>2, <1>3, <1>4, <1>6, <2>1, <2>3, <3>1 DEF n
    <2>4. CASE hi < d /\ hi # 0
      <3>1. d \in Word \ {0}
        BY <1>6
      <3>2. PICK u \in Word, v \in 0 .. d - 1 :
              Division(p, d) = [q |-> u, r |-> v] /\ W * hi + lo = d * u + v
        <4> HIDE DEF p
        <4> QED
          BY <1>2, <2>4, <3>1, DivisionIsExact
      <3>3. n = d * u + v /\ u \in Int
        BY <1>1, <1>2, <3>2
      <3> HIDE DEF n
      <3>4. n \div d = u /\ n % d = v
        <4>1. n \in Int /\ d \in Nat \ {0} /\ u \in Int /\ v \in 0 .. d - 1 /\ n = d * u + v
          BY <1>3, <1>6, <3>2, <3>3
        <4> HIDE DEF n
        <4> QED
          BY <4>1, QuotientOf
      <3>5. mul_div_mod(a, b, d) = [q |-> n \div d, r |-> n % d]
        BY <1>1, <1>2, <1>4, <1>6, <2>4, <3>2, <3>4
      <3> QED
        BY <1>1, <1>2, <1>6, <2>1, <2>4, <3>5 DEF n
    <2> QED
      BY <1>1, <1>2, <1>3, <2>2, <2>3, <2>4
  <1> QED
    BY <1>5, <1>6

-----------------------------------------------------------------------------
(* The rest of the checked arithmetic *)

LEMMA AddExact ==
  ASSUME NEW a \in Word, NEW b \in Word
  PROVE  add(a, b) = Fails \/ (add(a, b) \in Word /\ add(a, b) = a + b)
  <1>1. WordSize \in Nat \ {0}
    BY Widths
  <1> QED
    BY <1>1 DEF add, Word, MaxWord

\* A product is false or exact, and it fits if it is not false.
LEMMA MulExact ==
  ASSUME NEW a \in Word, NEW b \in Word
  PROVE  mul(a, b) = Fails \/ (mul(a, b) \in Word /\ mul(a, b) = a * b)
  <1> DEFINE M == MaxWord
  <1>1. /\ M \in Nat /\ Word = 0 .. M
        /\ a \in Nat /\ b \in Nat /\ 0 \in Word
    BY Widths DEF Word, MaxWord
  <1>2. CASE a = 0 \/ b = 0
    <2>1. a * b = 0
      BY <1>1, <1>2
    <2> QED
      BY <1>1, <1>2, <2>1 DEF mul
  <1>3. CASE a # 0 /\ b # 0 /\ ~(a > M \div b)
    <2> DEFINE k == M \div b
    <2>1. k \in Nat /\ M % b \in 0 .. b - 1 /\ M = b * k + (M % b)
      BY <1>1, <1>3, Divided
    <2>2. mul(a, b) = a * b /\ ~(a > k)
      BY <1>3 DEF mul
    <2> HIDE DEF k, M
    <2>3. b * k <= M
      BY <1>1, <2>1
    <2>4. a * b \in Nat /\ a * b <= b * k
      <3>1. a <= k
        BY <1>1, <2>1, <2>2
      <3> QED
        BY <1>1, <2>1, <3>1
    <2>5. a * b <= M
      BY <1>1, <2>1, <2>3, <2>4
    <2> QED
      BY <1>1, <2>2, <2>4, <2>5
  <1>4. CASE a # 0 /\ b # 0 /\ a > M \div b
    BY <1>4 DEF mul
  <1> QED
    BY <1>2, <1>3, <1>4

\* What a quotient is, when it is not false.
LEMMA Quotients ==
  ASSUME NEW a \in Word, NEW b \in Word, NEW d \in Word, mul_div_mod(a, b, d).q # Fails
  PROVE  \E q \in Nat, r \in 0 .. d - 1 :
           mul_div_mod(a, b, d) = [q |-> q, r |-> r] /\ a * b = d * q + r /\ q \in Word
  <1> DEFINE W == WordSize
             n == a * b
  <1>1. W \in Nat \ {0} /\ Word = 0 .. W - 1
    BY Widths DEF Word
  <1>2. a \in Nat /\ b \in Nat /\ d \in Nat
    BY <1>1
  <1>3. ~(d = 0 \/ n >= d * W) /\ mul_div_mod(a, b, d) = [q |-> n \div d, r |-> n % d]
    BY MulDivExact DEF NoQuotient
  <1>4. n \in Nat
    BY <1>2
  <1> HIDE DEF n
  <1>5. n \div d \in Nat /\ n % d \in 0 .. d - 1 /\ n = d * (n \div d) + (n % d)
    BY <1>2, <1>3, <1>4, Divided
  <1>6. n \div d < W
    <2> DEFINE q == n \div d
               r == n % d
    <2>1. q \in Nat /\ r \in Nat /\ n = d * q + r /\ n < d * W
      BY <1>1, <1>2, <1>3, <1>4, <1>5
    <2> HIDE DEF q, r
    <2>2. q >= W => d * q >= d * W
      BY <1>1, <1>2, <2>1
    <2>3. d * q \in Nat /\ d * W \in Nat
      BY <1>1, <1>2, <2>1
    <2> QED
      BY <1>1, <2>1, <2>2, <2>3 DEF q
  <1>7. n \div d \in Word
    BY <1>1, <1>5, <1>6
  <1> QED
    BY <1>3, <1>5, <1>7 DEF n

LEMMA FloorOf ==
  ASSUME NEW a \in Word, NEW b \in Word, NEW d \in Word
  PROVE  LET q == mul_div_floor(a, b, d) IN
           q = Fails \/ (q \in Word /\ d # 0 /\ d * q <= a * b)
  <1> SUFFICES ASSUME mul_div_mod(a, b, d).q # Fails
               PROVE  LET q == mul_div_floor(a, b, d) IN q \in Word /\ d # 0 /\ d * q <= a * b
    BY DEF mul_div_floor
  <1>1. PICK q \in Nat, r \in 0 .. d - 1 :
          mul_div_mod(a, b, d) = [q |-> q, r |-> r] /\ a * b = d * q + r /\ q \in Word
    BY Quotients
  <1>2. mul_div_floor(a, b, d) = q
    BY <1>1 DEF mul_div_floor
  <1>3. d \in Nat /\ d # 0
    BY <1>1, Widths DEF Word
  <1>4. d * q \in Nat /\ r \in Nat
    BY <1>1, <1>3
  <1>5. d * q <= a * b
    BY <1>1, <1>4
  <1> QED
    BY <1>1, <1>2, <1>3, <1>5

LEMMA CeilingOf ==
  ASSUME NEW a \in Word, NEW b \in Word, NEW d \in Word
  PROVE  LET q == mul_div_ceil(a, b, d) IN
           q = Fails \/ (q \in Word /\ d # 0 /\ a * b <= d * q /\ d * (q - 1) < a * b)
  <1> SUFFICES ASSUME mul_div_ceil(a, b, d) # Fails
               PROVE  LET q == mul_div_ceil(a, b, d) IN
                        q \in Word /\ d # 0 /\ a * b <= d * q /\ d * (q - 1) < a * b
    OBVIOUS
  <1>1. mul_div_mod(a, b, d).q # Fails
    BY DEF mul_div_ceil
  <1>2. PICK q \in Nat, r \in 0 .. d - 1 :
          mul_div_mod(a, b, d) = [q |-> q, r |-> r] /\ a * b = d * q + r /\ q \in Word
    BY <1>1, Quotients
  <1>3. WordSize \in Nat \ {0} /\ Word = 0 .. MaxWord /\ MaxWord \in Nat
    BY Widths DEF Word, MaxWord
  <1>4. d \in Nat \ {0} /\ r \in Nat /\ r < d
    BY <1>2, <1>3
  <1>5. d * q \in Nat
    BY <1>2, <1>4
  <1>6. CASE r = 0
    <2>1. mul_div_ceil(a, b, d) = q
      BY <1>1, <1>2, <1>6 DEF mul_div_ceil
    <2>2. d * (q - 1) = d * q - d
      BY <1>2, <1>4
    <2>3. a * b = d * q /\ d * (q - 1) < a * b
      BY <1>2, <1>4, <1>5, <1>6, <2>2
    <2> QED
      BY <1>2, <1>4, <1>5, <2>1, <2>3
  <1>7. CASE r # 0
    <2>1. mul_div_ceil(a, b, d) = q + 1 /\ q # MaxWord
      BY <1>1, <1>2, <1>7 DEF mul_div_ceil
    <2>2. q + 1 \in Word
      BY <1>2, <1>3, <2>1
    <2>3. d * (q + 1) = d * q + d /\ (q + 1) - 1 = q
      BY <1>2, <1>4
    <2>4. a * b <= d * (q + 1) /\ d * q < a * b
      BY <1>2, <1>4, <1>5, <1>7, <2>3
    <2> QED
      BY <1>4, <2>1, <2>2, <2>3, <2>4
  <1> QED
    BY <1>6, <1>7

LEMMA OneIsWord == 1 \in Word
  BY Widths DEF Word

-----------------------------------------------------------------------------
(* The derivation of a cadence *)

LEMMA WordsAreNaturals == Word \subseteq Nat
  BY Widths DEF Word

LEMMA IntervalOf ==
  ASSUME NEW quantum \in Word, NEW rate \in Word
  PROVE  LET i == derive_interval_ns(quantum, rate) IN
           \/ i = Fails
           \/ /\ i \in Word /\ quantum * ByteTicks <= rate * i
              /\ rate * (i - 1) < quantum * ByteTicks
  <1> DEFINE bits == mul(quantum, ByteTicks)
             i == derive_interval_ns(quantum, rate)
  <1>1. CASE quantum = 0 \/ rate = 0 \/ bits = Fails
    BY <1>1 DEF derive_interval_ns
  <1>2. CASE ~(quantum = 0 \/ rate = 0 \/ bits = Fails)
    <2>1. i = mul_div_ceil(bits, 1, rate)
      BY <1>2 DEF derive_interval_ns
    <2>2. ByteTicks \in Word
      BY CadenceAssumption
    <2>3. bits \in Word /\ bits = quantum * ByteTicks
      BY <1>2, <2>2, MulExact
    <2> HIDE DEF bits, i
    <2>4. i = Fails \/ (i \in Word /\ bits * 1 <= rate * i /\ rate * (i - 1) < bits * 1)
      BY <2>1, <2>3, OneIsWord, CeilingOf
    <2>5. bits * 1 = bits
      BY <2>3, WordsAreNaturals
    <2> QED
      BY <2>3, <2>4, <2>5 DEF i
  <1> QED
    BY <1>1, <1>2

LEMMA BurstCapacity ==
  ASSUME NEW rate \in Word \ {0}, NEW horizon \in Word
  PROVE  LET depth == burst_capacity_bytes(rate, horizon) IN
           depth = Fails \/ (depth \in Word /\ ByteTicks * depth <= rate * horizon)
  <1> DEFINE bits == mul(rate, horizon)
             depth == burst_capacity_bytes(rate, horizon)
  <1>1. CASE bits = Fails
    BY <1>1 DEF burst_capacity_bytes
  <1>2. CASE bits # Fails
    <2>1. depth = mul_div_floor(bits, 1, ByteTicks) /\ ByteTicks \in Word
      BY <1>2, CadenceAssumption DEF burst_capacity_bytes
    <2>2. bits \in Word /\ bits = rate * horizon
      BY <1>2, MulExact
    <2> HIDE DEF bits, depth
    <2>3. depth = Fails \/ (depth \in Word /\ ByteTicks * depth <= bits * 1)
      BY <2>1, <2>2, OneIsWord, FloorOf
    <2>4. bits * 1 = bits
      BY <2>2, WordsAreNaturals
    <2> QED
      BY <2>2, <2>3, <2>4 DEF depth
  <1> QED
    BY <1>1, <1>2

LEMMA EffectiveRate ==
  ASSUME NEW c, c.bytes \in Word, c.window \in Word
  PROVE  LET rate == effective_rate_bps(c) IN
           rate = Fails \/ (rate \in Word /\ c.window * rate <= c.bytes * ByteTicks)
  <1> DEFINE bits == mul(c.bytes, ByteTicks)
             rate == effective_rate_bps(c)
  <1>1. CASE bits = Fails
    BY <1>1 DEF effective_rate_bps
  <1>2. CASE bits # Fails
    <2>1. rate = mul_div_floor(bits, 1, c.window) /\ ByteTicks \in Word
      BY <1>2, CadenceAssumption DEF effective_rate_bps
    <2>2. bits \in Word /\ bits = c.bytes * ByteTicks
      BY <1>2, <2>1, MulExact
    <2> HIDE DEF bits, rate
    <2>3. rate = Fails \/ (rate \in Word /\ c.window * rate <= bits * 1)
      BY <2>1, <2>2, OneIsWord, FloorOf
    <2>4. bits * 1 = bits
      BY <2>2, WordsAreNaturals
    <2> QED
      BY <2>2, <2>3, <2>4 DEF rate
  <1> QED
    BY <1>1, <1>2

\* Inputs are u64 numbers.
InputOfWords(in) ==
  {in.requested, in.share, in.min, in.ceiling, in.floor, in.quantum, in.window, in.hint,
   in.burst, in.packets, in.flowBurst, in.flowPackets} \subseteq Word

\* What derive_cadence makes of an input that passes every check of the steps.
RateOf(in)     == Clamped(in, Asked(in))
IntervalFor(in) == Interval(in, RateOf(in))
GrantsOf(in)   == in.window \div IntervalFor(in)
BytesOf(in)    == mul(GrantsOf(in), in.quantum)
BurstOf(in)    == Overrides(in.quantum, Tightened(in.burst, in.flowBurst))
PacketsOf(in)  == Overrides(1, Tightened(in.packets, in.flowPackets))
CadenceOf(in)  ==
  [rate |-> RateOf(in), quantum |-> in.quantum, interval |-> IntervalFor(in),
   window |-> in.window, grants |-> GrantsOf(in), bytes |-> BytesOf(in),
   burst |-> BurstOf(in), packets |-> PacketsOf(in)]

PassesSteps(in) ==
  /\ InBounds(in) /\ Asked(in) # Fails /\ RateOf(in) \in 1 .. MaxRate
  /\ IntervalFor(in) # Fails /\ IntervalFor(in) \in 1 .. MaxInterval
  /\ BytesOf(in) # Fails /\ ~(BurstOf(in) < in.quantum)
  /\ in.shape = "token-bucket" =>
       /\ burst_capacity_bytes(RateOf(in), Horizon) # Fails
       /\ ~(BurstOf(in) > burst_capacity_bytes(RateOf(in), Horizon))

RefusalsOfSteps == {"OutOfRange", "ArithmeticOverflow", "InvalidArgument", "BurstExceedsBound"}

LEMMA StepsOfDerivation ==
  ASSUME NEW in
  PROVE  \/ derive_cadence(in).code \in RefusalsOfSteps
         \/ PassesSteps(in) /\ derive_cadence(in) = Checked(in, CadenceOf(in))
  BY Zenon DEF derive_cadence, PassesSteps, RefusalsOfSteps, Refused, RateOf, IntervalFor, GrantsOf,
     BytesOf, BurstOf, PacketsOf, CadenceOf

LEMMA RateBounds ==
  ASSUME NEW in, InputOfWords(in), PassesSteps(in)
  PROVE  /\ RateOf(in) \in Word \ {0} /\ RateOf(in) <= in.ceiling
         /\ in.floor <= RateOf(in) /\ in.min <= RateOf(in)
  <1> DEFINE asked == Asked(in)
  <1>1. /\ in.ceiling \in Nat /\ in.floor \in Nat /\ in.min \in Nat /\ in.ceiling \in Word
        /\ in.floor <= in.ceiling /\ in.min <= in.ceiling
    BY WordsAreNaturals DEF InputOfWords, PassesSteps, InBounds
  <1>2. asked \in Nat
    <2>1. CASE in.requested # 0
      BY <2>1, WordsAreNaturals DEF InputOfWords, Asked
    <2>2. CASE in.requested = 0
      <3>1. asked = mul_div_floor(in.ceiling, in.share, Ppm) /\ asked # Fails
        BY <2>2 DEF Asked, PassesSteps
      <3>2. in.share \in Word /\ Ppm \in Word
        BY CadenceAssumption DEF InputOfWords
      <3> HIDE DEF asked
      <3> QED
        BY <1>1, <3>1, <3>2, FloorOf, WordsAreNaturals
    <2> QED
      BY <2>1, <2>2
  <1>3. RateOf(in) = Clamped(in, asked) /\ RateOf(in) \in 1 .. MaxRate
    BY DEF RateOf, PassesSteps
  <1>4. MaxRate \in Word
    BY CadenceAssumption
  <1> HIDE DEF asked
  <1>5. RateOf(in) \in Word \ {0}
    BY <1>3, <1>4, Widths DEF Word
  <1> QED
    BY <1>1, <1>2, <1>3, <1>5 DEF Clamped, Larger, Smaller

LEMMA IntervalBounds ==
  ASSUME NEW in, InputOfWords(in), PassesSteps(in)
  PROVE  LET i == IntervalFor(in)
             rate == RateOf(in)
             hinted == in.shape = "windowed" /\ in.hint # 0
         IN  /\ i \in Word \ {0} /\ in.quantum * ByteTicks <= rate * i
             /\ ~hinted => rate * (i - 1) < in.quantum * ByteTicks
             /\ hinted => in.window <= in.hint * i
  <1> DEFINE i == IntervalFor(in)
             rate == RateOf(in)
             plain == derive_interval_ns(in.quantum, rate)
             spread == mul_div_ceil(in.window, 1, in.hint)
  <1>1. /\ rate \in Word \ {0} /\ in.quantum \in Word /\ in.window \in Word /\ in.hint \in Word
        /\ ByteTicks \in Word /\ MaxInterval \in Word
    BY RateBounds, CadenceAssumption DEF InputOfWords
  <1>2. i # Fails /\ i \in 1 .. MaxInterval /\ i = Interval(in, rate)
    BY DEF PassesSteps, IntervalFor
  <1> HIDE DEF i, rate
  <1>3. i \in Word \ {0} /\ i \in Nat
    BY <1>1, <1>2, Widths DEF Word
  <1>4. plain # Fails
    BY <1>2 DEF Interval
  <1>5. /\ plain \in Word /\ in.quantum * ByteTicks <= rate * plain
        /\ rate * (plain - 1) < in.quantum * ByteTicks
    BY <1>1, <1>4, IntervalOf
  <1> HIDE DEF plain
  <1>6. CASE ~(in.shape = "windowed" /\ in.hint # 0)
    <2>1. i = plain
      BY <1>2, <1>4, <1>6 DEF Interval, plain
    <2> QED
      BY <1>3, <1>5, <1>6, <2>1 DEF i, rate
  <1>7. CASE in.shape = "windowed" /\ in.hint # 0
    <2>1. spread # Fails /\ i = Sparser(plain, spread)
      BY <1>2, <1>4, <1>7 DEF Interval, plain
    <2>2. spread \in Word /\ in.window * 1 <= in.hint * spread
      BY <1>1, <2>1, OneIsWord, CeilingOf
    <2> HIDE DEF spread
    <2>3. /\ plain \in Nat /\ spread \in Nat /\ rate \in Nat /\ in.hint \in Nat /\ in.window \in Nat
          /\ in.quantum \in Nat /\ ByteTicks \in Nat
      BY <1>1, <1>5, <2>2, WordsAreNaturals
    <2>4. plain <= i /\ spread <= i
      BY <2>1, <2>3 DEF Sparser, Larger
    <2>5. rate * plain <= rate * i /\ in.hint * spread <= in.hint * i
      BY <1>3, <2>3, <2>4
    <2>6. /\ rate * plain \in Nat /\ rate * i \in Nat /\ in.hint * spread \in Nat /\ in.hint * i \in Nat
          /\ in.quantum * ByteTicks \in Nat /\ in.window * 1 = in.window
      BY <1>3, <2>3
    <2>7. in.quantum * ByteTicks <= rate * i /\ in.window <= in.hint * i
      BY <1>5, <2>2, <2>3, <2>5, <2>6
    <2> QED
      BY <1>3, <1>7, <2>7 DEF i, rate
  <1> QED
    BY <1>6, <1>7

LEMMA GrantBounds ==
  ASSUME NEW in, InputOfWords(in), PassesSteps(in)
  PROVE  /\ GrantsOf(in) \in Word /\ BytesOf(in) \in Word /\ in.window \in Nat \ {0}
         /\ BytesOf(in) * ByteTicks <= RateOf(in) * in.window
         /\ in.shape = "windowed" /\ in.hint # 0 => GrantsOf(in) <= in.hint
  <1> DEFINE i == IntervalFor(in)
             rate == RateOf(in)
             n == GrantsOf(in)
             bytes == BytesOf(in)
             window == in.window
             bits == in.quantum * ByteTicks
  <1>1. /\ rate \in Word \ {0} /\ i \in Word \ {0} /\ bits <= rate * i
        /\ in.shape = "windowed" /\ in.hint # 0 => window <= in.hint * i
    BY RateBounds, IntervalBounds
  <1>2. /\ in.quantum \in Word /\ window \in Word /\ ByteTicks \in Word /\ in.hint \in Word
        /\ MinWindow \in Nat \ {0} /\ window \in MinWindow .. MaxWindow /\ MaxWindow \in Word
    BY CadenceAssumption DEF InputOfWords, PassesSteps, InBounds, limits_are_coherent
  <1>3. n = window \div i /\ bytes = mul(n, in.quantum) /\ bytes # Fails
    BY DEF GrantsOf, BytesOf, PassesSteps
  <1> HIDE DEF i, rate, n, bytes, window
  <1>4. /\ rate \in Nat /\ i \in Nat \ {0} /\ in.quantum \in Nat /\ ByteTicks \in Nat
        /\ in.hint \in Nat /\ window \in Nat \ {0}
    BY <1>1, <1>2, Widths DEF Word
  <1>5. n \in Nat /\ window % i \in 0 .. i - 1 /\ window = i * n + (window % i)
    BY <1>3, <1>4, Divided
  <1>6. i * n <= window /\ i * n \in Nat
    BY <1>4, <1>5
  <1>7. n <= i * n
    <2>1. n * 1 <= n * i
      BY <1>4, <1>5
    <2> QED
      BY <1>4, <1>5, <2>1
  <1>8. n \in Word
    BY <1>2, <1>4, <1>5, <1>6, <1>7, Widths DEF Word
  <1>9. bytes \in Word /\ bytes = n * in.quantum
    BY <1>2, <1>3, <1>8, MulExact
  <1>10. bytes * ByteTicks <= rate * window
    <2>1. bytes * ByteTicks = n * bits
      BY <1>4, <1>5, <1>9
    <2> HIDE DEF bits
    <2>2. bits \in Nat
      BY <1>4 DEF bits
    <2>3. n * bits <= n * (rate * i)
      <3>1. rate * i \in Nat
        BY <1>4
      <3> HIDE DEF bits
      <3> QED
        BY <1>1, <1>5, <2>2, <3>1
    <2>4. n * (rate * i) = rate * (i * n)
      BY <1>4, <1>5
    <2>5. rate * (i * n) <= rate * window
      BY <1>4, <1>6
    <2>6. /\ n * bits \in Nat /\ rate * (i * n) \in Nat /\ rate * window \in Nat
      BY <1>4, <1>5, <1>6, <2>2
    <2> QED
      BY <2>1, <2>3, <2>4, <2>5, <2>6
  <1>11. in.shape = "windowed" /\ in.hint # 0 => n <= in.hint
    <2> SUFFICES ASSUME window <= in.hint * i, ~(n <= in.hint)
                 PROVE  FALSE
      BY <1>1
    <2>1. (in.hint + 1) * i <= n * i
      BY <1>4, <1>5
    <2>2. (in.hint + 1) * i = in.hint * i + i /\ n * i = i * n /\ in.hint * i \in Nat
      BY <1>4, <1>5
    <2> QED
      BY <1>4, <1>5, <1>6, <2>1, <2>2
  <1> QED
    BY <1>4, <1>8, <1>9, <1>10, <1>11 DEF rate, n, bytes, window

\* A flow that declares a bound is never given more.
LEMMA TightenedBelow ==
  ASSUME NEW own \in Nat, NEW flow \in Nat
  PROVE  flow # 0 => Tightened(own, flow) \in 1 .. flow
  BY DEF Tightened

LEMMA BurstBounds ==
  ASSUME NEW in, InputOfWords(in), PassesSteps(in)
  PROVE  /\ BurstOf(in) >= in.quantum
         /\ in.flowBurst # 0 => BurstOf(in) <= in.flowBurst
         /\ in.flowPackets # 0 => PacketsOf(in) <= in.flowPackets
         /\ in.shape = "token-bucket" => BurstOf(in) * ByteTicks <= RateOf(in) * Horizon
  <1>1. /\ in.burst \in Nat /\ in.flowBurst \in Nat /\ in.packets \in Nat /\ in.flowPackets \in Nat
        /\ in.quantum \in Nat
    BY WordsAreNaturals DEF InputOfWords
  <1>2. Tightened(in.burst, in.flowBurst) \in Nat /\ Tightened(in.packets, in.flowPackets) \in Nat
    BY <1>1 DEF Tightened
  <1>3. BurstOf(in) \in Nat /\ BurstOf(in) >= in.quantum
    <2>1. BurstOf(in) \in Nat /\ ~(BurstOf(in) < in.quantum)
      BY <1>1, <1>2 DEF BurstOf, Overrides, PassesSteps
    <2> QED
      BY <1>1, <2>1
  <1>4. in.flowBurst # 0 => BurstOf(in) <= in.flowBurst
    BY <1>1, TightenedBelow DEF BurstOf, Overrides
  <1>5. in.flowPackets # 0 => PacketsOf(in) <= in.flowPackets
    BY <1>1, TightenedBelow DEF PacketsOf, Overrides
  <1>6. ASSUME in.shape = "token-bucket"
        PROVE  BurstOf(in) * ByteTicks <= RateOf(in) * Horizon
    <2> DEFINE depth == burst_capacity_bytes(RateOf(in), Horizon)
    <2>1. RateOf(in) \in Word \ {0} /\ Horizon \in Word /\ ByteTicks \in Word
      BY RateBounds, CadenceAssumption
    <2>2. depth # Fails /\ ~(BurstOf(in) > depth)
      BY <1>6 DEF PassesSteps
    <2>3. depth \in Word /\ ByteTicks * depth <= RateOf(in) * Horizon
      BY <2>1, <2>2, BurstCapacity
    <2> HIDE DEF depth
    <2>4. depth \in Nat /\ ByteTicks \in Nat /\ RateOf(in) \in Nat /\ Horizon \in Nat
      BY <2>1, <2>3, WordsAreNaturals
    <2>5. BurstOf(in) <= depth
      BY <1>3, <2>2, <2>4
    <2>6. BurstOf(in) * ByteTicks <= depth * ByteTicks
      BY <1>3, <2>4, <2>5
    <2>7. /\ depth * ByteTicks = ByteTicks * depth /\ ByteTicks * depth \in Nat
          /\ BurstOf(in) * ByteTicks \in Nat /\ RateOf(in) * Horizon \in Nat
      BY <1>3, <2>4
    <2> QED
      BY <2>3, <2>6, <2>7
  <1> QED
    BY <1>3, <1>4, <1>5, <1>6

\* The checks at the end find no inconsistency: only an overflow is left for them.
LEMMA RecheckPasses ==
  ASSUME NEW in, InputOfWords(in), PassesSteps(in)
  PROVE  LET c == Checked(in, CadenceOf(in)) IN
           /\ c.code \notin {"InvalidState", "CeilingExceeded"}
           /\ c.code = "Ok" => c.cadence = CadenceOf(in)
  <1> DEFINE c == CadenceOf(in)
             effective == effective_rate_bps(c)
  <1>1. /\ c.rate = RateOf(in) /\ c.grants = GrantsOf(in) /\ c.quantum = in.quantum
        /\ c.bytes = BytesOf(in) /\ c.window = in.window
    BY DEF CadenceOf
  <1>2. mul(c.grants, c.quantum) = c.bytes
    BY <1>1 DEF BytesOf
  <1>3. /\ c.bytes \in Word /\ c.window \in Word /\ c.window \in Nat \ {0}
        /\ c.bytes * ByteTicks <= c.rate * c.window
        /\ c.rate \in Nat /\ in.ceiling \in Nat /\ c.rate <= in.ceiling
    BY <1>1, RateBounds, GrantBounds, WordsAreNaturals DEF InputOfWords
  <1> HIDE DEF c
  <1>4. ASSUME effective # Fails
        PROVE  effective \in Nat /\ effective <= c.rate
    <2> HIDE DEF effective
    <2>1. effective \in Word /\ c.window * effective <= c.bytes * ByteTicks
      BY <1>3, <1>4, EffectiveRate DEF effective
    <2> DEFINE e == effective
               w == c.window
               r == c.rate
               b == c.bytes * ByteTicks
    <2>2. e \in Nat /\ w \in Nat \ {0} /\ r \in Nat /\ b \in Nat
      <3>1. ByteTicks \in Word
        BY CadenceAssumption
      <3>2. effective \in Nat /\ c.bytes \in Nat /\ ByteTicks \in Nat
        BY <1>3, <2>1, <3>1, WordsAreNaturals
      <3> QED
        BY <1>3, <3>2
    <2>3. w * e <= b /\ b <= r * w
      BY <1>3, <2>1
    <2> HIDE DEF e, w, r, b
    <2>4. w * e <= w * r
      BY <2>2, <2>3
    <2>5. e <= r
      <3>1. e > r => w * (r + 1) <= w * e
        BY <2>2
      <3>2. w * (r + 1) = w * r + w /\ w * r \in Nat /\ w * e \in Nat
        BY <2>2
      <3> QED
        BY <2>2, <2>4, <3>1, <3>2
    <2> QED
      BY <2>2, <2>5 DEF e, r
  <1>5. ~(effective # Fails /\ effective > c.rate) /\ ~(effective # Fails /\ effective > in.ceiling)
    <2> HIDE DEF effective
    <2> QED
      BY <1>3, <1>4
  <1>6. validate_cadence(c) \notin {"InvalidState", "CeilingExceeded"}
    BY <1>2, <1>5 DEF validate_cadence
  <1>7. validate_cadence(c) = "Ok" => effective # Fails
    BY DEF validate_cadence
  <1>8. Checked(in, c).code \notin {"InvalidState", "CeilingExceeded"}
    BY <1>5, <1>6, <1>7, Zenon DEF Checked, Refused
  <1>9. Checked(in, c).code = "Ok" => Checked(in, c).cadence = c
    BY DEF Checked, Refused
  <1> QED
    BY <1>8, <1>9 DEF c

LEMMA DerivationIsSound ==
  ASSUME NEW in, InputOfWords(in)
  PROVE  /\ derive_cadence(in).code \notin {"InvalidState", "CeilingExceeded"}
         /\ derive_cadence(in).code = "Ok" =>
              PassesSteps(in) /\ derive_cadence(in).cadence = CadenceOf(in)
  BY StepsOfDerivation, RecheckPasses DEF RefusalsOfSteps

-----------------------------------------------------------------------------
(* The input that is made of a policy, a grant and a binding *)

LEMMA InputOf ==
  ASSUME NEW p \in Policies, validate_policy(p), NEW g \in Grants, NEW b \in Bindings
  PROVE  LET in == DerivationInput(p, g, b) IN
           /\ InputOfWords(in)
           /\ in.ceiling = g.ceiling /\ in.floor = g.floor
           /\ in.shape = p.shape /\ in.hint = p.hint
           /\ in.flowBurst = b.burst /\ in.flowPackets = b.packets
           /\ p.min <= in.min
           /\ \A e \in ExceptionsOf(p) : e.class = b.class => e.min <= in.min
  <1> DEFINE in == DerivationInput(p, g, b)
             E == find_exception(p, b.class)
             own == [requested |-> p.rate, share |-> p.share, min |-> p.min,
                     ceiling |-> g.ceiling, floor |-> g.floor,
                     quantum |-> p.quantum, window |-> p.window, shape |-> p.shape,
                     hint |-> p.hint, burst |-> p.burst, packets |-> p.packets,
                     flowBurst |-> b.burst, flowPackets |-> b.packets]
  <1>1. /\ {p.rate, p.share, p.min, p.quantum, p.window, p.hint, p.burst, p.packets} \subseteq Word
        /\ {g.ceiling, g.floor} \subseteq Word /\ {b.burst, b.packets} \subseteq Word
        /\ \A e \in ExceptionsOf(p) : {e.min, e.share, e.burst, e.packets} \subseteq Word
    BY OffersAreWords
  <1>2. \A x, y \in Word : /\ Larger(x, y) \in Word /\ x <= Larger(x, y) /\ y <= Larger(x, y)
                           /\ Overrides(x, y) \in Word
    BY WordsAreNaturals DEF Larger, Overrides
  <1>3. CASE E = {}
    <2>1. in = own
      BY <1>3 DEF DerivationInput
    <2>2. \A e \in ExceptionsOf(p) : ~(e.class = b.class)
      BY <1>3 DEF find_exception
    <2>3. InputOfWords(in)
      BY <1>1, <2>1 DEF InputOfWords
    <2>4. p.min <= in.min
      <3>1. in.min = p.min
        BY <2>1
      <3>2. p.min \in Nat
        BY <1>1, WordsAreNaturals
      <3> HIDE DEF in
      <3> QED
        BY <3>1, <3>2
    <2> QED
      BY <2>1, <2>2, <2>3, <2>4
  <1>4. CASE E # {}
    <2> DEFINE e == CHOOSE x \in E : TRUE
    <2>1. e \in E
      BY <1>4
    <2>2. in = [own EXCEPT !.min = Larger(@, e.min), !.share = Overrides(@, e.share),
                           !.burst = Larger(@, e.burst), !.packets = Larger(@, e.packets)]
      BY <1>4 DEF DerivationInput
    <2> HIDE DEF e
    <2>3. e \in ExceptionsOf(p) /\ e.class = b.class
      BY <2>1 DEF find_exception
    <2>4. \A x \in ExceptionsOf(p) : x.class = b.class => x = e
      BY <2>3 DEF validate_policy, ExceptionsOf
    <2>5. {e.min, e.share, e.burst, e.packets} \subseteq Word
      BY <1>1, <2>3
    <2>6. /\ in.requested = p.rate /\ in.share = Overrides(p.share, e.share)
          /\ in.min = Larger(p.min, e.min) /\ in.ceiling = g.ceiling /\ in.floor = g.floor
          /\ in.quantum = p.quantum /\ in.window = p.window /\ in.shape = p.shape
          /\ in.hint = p.hint /\ in.burst = Larger(p.burst, e.burst)
          /\ in.packets = Larger(p.packets, e.packets)
          /\ in.flowBurst = b.burst /\ in.flowPackets = b.packets
      BY <2>2
    <2> HIDE DEF in
    <2>7. InputOfWords(in)
      BY <1>1, <1>2, <2>5, <2>6 DEF InputOfWords
    <2>8. p.min <= in.min /\ e.min <= in.min
      BY <1>1, <1>2, <2>5, <2>6
    <2> QED
      BY <2>4, <2>6, <2>7, <2>8 DEF in
  <1> QED
    BY <1>3, <1>4

-----------------------------------------------------------------------------
(* The invariant *)

Offered ==
  /\ grant \in Grants /\ binding \in Bindings /\ now \in Instants
  /\ policy # None => policy \in Policies /\ validate_policy(policy)

\* What was derived was derived from the policy, the grant and the binding that are there.
DerivedFromThem ==
  outcome # None =>
    /\ policy # None
    /\ outcome = Envelope(derive_cadence(DerivationInput(policy, grant, binding)),
                          Expiry(grant, now))

IInv == Offered /\ DerivedFromThem

\* What publish_policy accepts and what derive_envelope_internal makes of it keep to this.
THEOREM Invariance == Spec => []IInv
  <1>1. Init => IInv
    BY DEF Init, IInv, Offered, DerivedFromThem
  <1>2. IInv /\ [Next]_vars => IInv'
    <2> SUFFICES ASSUME IInv, [Next]_vars
                 PROVE  IInv'
      OBVIOUS
    <2>1. ASSUME NEW p \in Policies, publish_policy(p)
          PROVE  IInv'
      <3>1. outcome = None
        BY <2>1 DEF IInv, DerivedFromThem, publish_policy
      <3> QED
        BY <2>1, <3>1 DEF IInv, Offered, DerivedFromThem, publish_policy
    <2>2. CASE derive_envelope
      <3>1. Offered'
        BY <2>2 DEF IInv, Offered, derive_envelope
      <3>2. DerivedFromThem'
        BY <2>2 DEF DerivedFromThem, derive_envelope, Envelope
      <3> QED
        BY <3>1, <3>2 DEF IInv
    <2>3. CASE UNCHANGED vars
      <3>1. Offered'
        BY <2>3 DEF IInv, Offered, vars
      <3>2. DerivedFromThem'
        BY <2>3 DEF IInv, DerivedFromThem, vars, Envelope
      <3> QED
        BY <3>1, <3>2 DEF IInv
    <2> QED
      BY <2>1, <2>2, <2>3 DEF Next
  <1> QED
    BY <1>1, <1>2, PTL DEF Spec

\* What is known of an envelope, and of the input that it was derived from.
LEMMA EnvelopeOf ==
  ASSUME IInv, outcome # None
  PROVE  LET in == DerivationInput(policy, grant, binding) IN
           /\ outcome.code \notin {"InvalidState", "CeilingExceeded"}
           /\ Derived =>
                /\ InputOfWords(in) /\ PassesSteps(in) /\ outcome.cadence = CadenceOf(in)
                /\ outcome.expiry = Expiry(grant, now) /\ outcome.expiry # Fails
                /\ ~(outcome.expiry <= now)
  <1> DEFINE in == DerivationInput(policy, grant, binding)
             c == derive_cadence(in)
             expiry == Expiry(grant, now)
  <1>1. /\ policy \in Policies /\ validate_policy(policy) /\ grant \in Grants
        /\ binding \in Bindings /\ outcome = Envelope(c, expiry)
    BY DEF IInv, Offered, DerivedFromThem
  <1>2. InputOfWords(in)
    BY <1>1, InputOf
  <1> HIDE DEF in
  <1>3. /\ c.code \notin {"InvalidState", "CeilingExceeded"}
        /\ c.code = "Ok" => PassesSteps(in) /\ c.cadence = CadenceOf(in)
    BY <1>2, DerivationIsSound
  <1> HIDE DEF c, expiry
  <1>4. \/ outcome = c /\ c.code # "Ok"
        \/ outcome.code \in {"ArithmeticOverflow", "StaleRateGrant"}
        \/ /\ c.code = "Ok" /\ expiry # Fails /\ ~(expiry <= now)
           /\ outcome = [code |-> "Ok", cadence |-> c.cadence, expiry |-> expiry]
    BY <1>1, Zenon DEF Envelope, Refused
  <1>5. CASE outcome = c /\ c.code # "Ok"
    BY <1>3, <1>5 DEF Derived
  <1>6. CASE outcome.code \in {"ArithmeticOverflow", "StaleRateGrant"}
    BY <1>6 DEF Derived
  <1>7. CASE /\ c.code = "Ok" /\ expiry # Fails /\ ~(expiry <= now)
             /\ outcome = [code |-> "Ok", cadence |-> c.cadence, expiry |-> expiry]
    BY <1>2, <1>3, <1>7 DEF in, expiry
  <1> QED
    BY <1>4, <1>5, <1>6, <1>7

-----------------------------------------------------------------------------
(* What follows *)

\* derive_cadence and derive_interval_ns never pace above the ceiling of the grant.
THEOREM NeverAboveCeiling == Spec => []PacedWithinCeiling
  <1>1. IInv => PacedWithinCeiling
    <2> SUFFICES ASSUME IInv, Derived
                 PROVE  Paced.quantum * ByteTicks <= grant.ceiling * Paced.interval
      BY DEF PacedWithinCeiling
    <2> DEFINE in == DerivationInput(policy, grant, binding)
               bits == in.quantum * ByteTicks
               rate == RateOf(in)
               i == IntervalFor(in)
    <2>1. InputOfWords(in) /\ PassesSteps(in) /\ Paced = CadenceOf(in) /\ in.ceiling = grant.ceiling
      BY EnvelopeOf, InputOf DEF Derived, Paced, IInv, Offered, DerivedFromThem
    <2> HIDE DEF in
    <2>2. /\ rate \in Word \ {0} /\ i \in Word \ {0} /\ rate <= in.ceiling
          /\ bits <= rate * i
      BY <2>1, RateBounds, IntervalBounds
    <2>3. in.quantum \in Word /\ in.ceiling \in Word /\ ByteTicks \in Word
      BY <2>1, CadenceAssumption DEF InputOfWords
    <2>4. Paced.quantum = in.quantum /\ Paced.interval = i
      BY <2>1 DEF CadenceOf
    <2> HIDE DEF rate, i
    <2>5. /\ rate \in Nat /\ i \in Nat /\ in.ceiling \in Nat /\ in.quantum \in Nat
          /\ ByteTicks \in Nat
      BY <2>2, <2>3, WordsAreNaturals
    <2>6. rate * i <= in.ceiling * i /\ rate * i \in Nat /\ in.ceiling * i \in Nat /\ bits \in Nat
      BY <2>2, <2>5
    <2>7. bits <= in.ceiling * i
      <3> HIDE DEF bits
      <3> QED
        BY <2>2, <2>6
    <2> QED
      BY <2>1, <2>4, <2>7
  <1> QED
    BY <1>1, Invariance, PTL

\* derive_cadence clamps last to the floors: of the grant, of the policy and of the
\* exception that find_exception finds for the class of the binding.
THEOREM FloorsCovered == Spec => []FloorsAreCovered
  <1>1. IInv => FloorsAreCovered
    <2> SUFFICES ASSUME IInv, Derived
                 PROVE  /\ Paced.rate >= grant.floor /\ Paced.rate >= policy.min
                        /\ \A e \in ExceptionsOf(policy) :
                             e.class = binding.class => Paced.rate >= e.min
      BY DEF FloorsAreCovered
    <2> DEFINE in == DerivationInput(policy, grant, binding)
               rate == RateOf(in)
    <2>1. policy \in Policies /\ grant \in Grants
      BY DEF Derived, IInv, Offered, DerivedFromThem
    <2>2. /\ InputOfWords(in) /\ PassesSteps(in) /\ Paced = CadenceOf(in)
          /\ in.floor = grant.floor /\ policy.min <= in.min
          /\ \A e \in ExceptionsOf(policy) : e.class = binding.class => e.min <= in.min
      BY EnvelopeOf, InputOf DEF Derived, Paced, IInv, Offered, DerivedFromThem
    <2> HIDE DEF in
    <2>3. /\ rate \in Word \ {0} /\ in.floor <= rate /\ in.min <= rate
          /\ in.min \in Word /\ in.floor \in Word
      BY <2>2, RateBounds DEF InputOfWords
    <2>4. Paced.rate = rate
      BY <2>2 DEF CadenceOf
    <2>5. /\ rate \in Nat /\ in.min \in Nat /\ in.floor \in Nat /\ policy.min \in Nat
          /\ \A e \in ExceptionsOf(policy) : e.min \in Nat
      BY <2>1, <2>3, OffersAreWords, WordsAreNaturals
    <2> HIDE DEF rate
    <2> QED
      BY <2>2, <2>3, <2>4, <2>5
  <1> QED
    BY <1>1, Invariance, PTL

\* derive_interval_ns rounds up by less than a tick, and the grants and the bytes of a
\* window are what the hint and the rate have room for.
THEOREM IntervalsAreTight == Spec => []IntervalIsTight
  <1>1. IInv => IntervalIsTight
    <2> SUFFICES ASSUME IInv, Derived
                 PROVE  IntervalIsTight
      BY DEF IntervalIsTight
    <2> DEFINE in == DerivationInput(policy, grant, binding)
               rate == RateOf(in)
               i == IntervalFor(in)
    <2>1. /\ InputOfWords(in) /\ PassesSteps(in) /\ Paced = CadenceOf(in)
          /\ in.shape = policy.shape /\ in.hint = policy.hint
      BY EnvelopeOf, InputOf DEF Derived, Paced, IInv, Offered, DerivedFromThem
    <2> HIDE DEF in
    <2>2. /\ rate \in Word \ {0} /\ i \in Word \ {0}
          /\ ~(in.shape = "windowed" /\ in.hint # 0) => rate * (i - 1) < in.quantum * ByteTicks
      BY <2>1, RateBounds, IntervalBounds
    <2>3. /\ BytesOf(in) * ByteTicks <= rate * in.window
          /\ in.shape = "windowed" /\ in.hint # 0 => GrantsOf(in) <= in.hint
      BY <2>1, GrantBounds
    <2>4. /\ Paced.rate = rate /\ Paced.interval = i /\ Paced.quantum = in.quantum
          /\ Paced.grants = GrantsOf(in) /\ Paced.bytes = BytesOf(in) /\ Paced.window = in.window
      BY <2>1 DEF CadenceOf
    <2> HIDE DEF rate, i
    <2>5. (i - 1) * rate = rate * (i - 1)
      BY <2>2, WordsAreNaturals
    <2> QED
      BY <2>1, <2>2, <2>3, <2>4, <2>5 DEF IntervalIsTight
  <1> QED
    BY <1>1, Invariance, PTL

\* Step 5 of derive_cadence: a binding only tightens the bursts, and a token bucket is
\* not deeper than burst_capacity_bytes allows.
THEOREM BurstsAreBounded == Spec => []BurstIsBounded
  <1>1. IInv => BurstIsBounded
    <2> SUFFICES ASSUME IInv, Derived
                 PROVE  BurstIsBounded
      BY DEF BurstIsBounded
    <2> DEFINE in == DerivationInput(policy, grant, binding)
    <2>1. /\ InputOfWords(in) /\ PassesSteps(in) /\ Paced = CadenceOf(in)
          /\ in.shape = policy.shape
          /\ in.flowBurst = binding.burst /\ in.flowPackets = binding.packets
      BY EnvelopeOf, InputOf DEF Derived, Paced, IInv, Offered, DerivedFromThem
    <2> HIDE DEF in
    <2>2. /\ BurstOf(in) >= in.quantum
          /\ in.flowBurst # 0 => BurstOf(in) <= in.flowBurst
          /\ in.flowPackets # 0 => PacketsOf(in) <= in.flowPackets
          /\ in.shape = "token-bucket" => BurstOf(in) * ByteTicks <= RateOf(in) * Horizon
      BY <2>1, BurstBounds
    <2>3. /\ Paced.rate = RateOf(in) /\ Paced.quantum = in.quantum
          /\ Paced.burst = BurstOf(in) /\ Paced.packets = PacketsOf(in)
      BY <2>1 DEF CadenceOf
    <2> QED
      BY <2>1, <2>2, <2>3 DEF BurstIsBounded
  <1> QED
    BY <1>1, Invariance, PTL

\* validate_cadence and the comparison with the ceiling after it never refuse what the
\* steps of derive_cadence made.
THEOREM NothingIsInconsistent == Spec => []RecheckFindsNothing
  <1>1. IInv => RecheckFindsNothing
    BY EnvelopeOf DEF RecheckFindsNothing
  <1> QED
    BY <1>1, Invariance, PTL

\* derive_envelope_internal: the expiry does not wrap, and neither the longest lifetime
\* nor the grant ends before it.
THEOREM ExpiresInTime == Spec => []ExpiresWithGrant
  <1>1. IInv => ExpiresWithGrant
    <2> SUFFICES ASSUME IInv, Derived
                 PROVE  ExpiresWithGrant
      BY DEF ExpiresWithGrant
    <2> DEFINE life == Smaller(Lifetime, MaxLifetime)
               latest == add(now, life)
    <2>1. outcome.expiry = Expiry(grant, now) /\ outcome.expiry # Fails /\ ~(outcome.expiry <= now)
      BY EnvelopeOf DEF Derived
    <2>2. now \in Word /\ grant.until \in Word
      BY OffersAreWords DEF IInv, Offered
    <2>3. MaxLifetime \in Word /\ life \in Word /\ life <= MaxLifetime
      <3>1. Lifetime \in Word /\ MaxLifetime \in Word
        BY CadenceAssumption
      <3>2. Lifetime \in Nat /\ MaxLifetime \in Nat
        BY <3>1, WordsAreNaturals
      <3> QED
        BY <3>1, <3>2 DEF Smaller
    <2> HIDE DEF life
    <2>4. latest = Fails \/ (latest \in Word /\ latest = now + life)
      BY <2>2, <2>3, AddExact
    <2>5. outcome.expiry = IF latest # Fails /\ grant.until # 0
                           THEN Smaller(latest, grant.until) ELSE latest
      BY <2>1 DEF Expiry, life
    <2> HIDE DEF latest
    <2>6. latest # Fails
      BY <2>1, <2>5
    <2>7. /\ now \in Nat /\ grant.until \in Nat /\ life \in Nat /\ MaxLifetime \in Nat
          /\ latest \in Nat /\ latest \in Word /\ latest = now + life
      BY <2>2, <2>3, <2>4, <2>6, WordsAreNaturals
    <2>8. /\ outcome.expiry \in Word /\ outcome.expiry <= latest
          /\ grant.until # 0 => outcome.expiry <= grant.until
      BY <2>2, <2>5, <2>6, <2>7 DEF Smaller
    <2>9. outcome.expiry \in Nat
      BY <2>8, WordsAreNaturals
    <2>10. outcome.expiry > now /\ outcome.expiry - now <= MaxLifetime
      BY <2>1, <2>3, <2>7, <2>8, <2>9
    <2> QED
      BY <2>8, <2>10 DEF ExpiresWithGrant
  <1> QED
    BY <1>1, Invariance, PTL

\* mul_div_mod: the partial products, their carries and the restoring division give the
\* quotient and the remainder, or fail because the quotient does not fit.
THEOREM LongDivisionIsExact == Spec => []MulDivIsExact
  <1>1. IInv => MulDivIsExact
    <2> SUFFICES ASSUME IInv, NEW a \in {grant.ceiling, MaxWord - grant.ceiling},
                        NEW b \in Word, NEW d \in Word
                 PROVE  mul_div_mod(a, b, d) =
                          IF d = 0 \/ a * b >= d * WordSize THEN NoQuotient
                          ELSE [q |-> (a * b) \div d, r |-> (a * b) % d]
      BY DEF MulDivIsExact
    <2>1. grant.ceiling \in Word
      BY OffersAreWords DEF IInv, Offered
    <2>2. a \in Word
      BY <2>1, Widths DEF Word, MaxWord
    <2> QED
      BY <2>2, MulDivExact
  <1> QED
    BY <1>1, Invariance, PTL

=============================================================================

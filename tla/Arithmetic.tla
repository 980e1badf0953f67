----------------------------- MODULE Arithmetic -----------------------------
(***************************************************************************)
(* The checked arithmetic of src/include/pacing/checked.hpp, on words of   *)
(* 2 * HalfBits bits: 64 in the code, fewer here, so that every overflow   *)
(* is within reach.  Every addition, product and shift of the code wraps.  *)
(*                                                                         *)
(* A function that returns false is one whose value is Fails.              *)
(***************************************************************************)
EXTENDS Integers

CONSTANT HalfBits  \* half the width of a word

ASSUME ArithmeticAssumption == HalfBits \in Nat \ {0}

\* The powers of two.
Power[n \in Nat] == IF n = 0 THEN 1 ELSE 2 * Power[n - 1]

Bits == 2 * HalfBits
Half == Power[HalfBits]
WordSize == Power[Bits]
Word == 0 .. WordSize - 1
MaxWord == WordSize - 1
Fails == -1

Wrap(n) == n % WordSize
Low(n)  == n % Half
High(n) == n \div Half

-----------------------------------------------------------------------------
(* Sums and products that fit, or false *)

add(a, b) == IF a > MaxWord - b THEN Fails ELSE a + b

mul(a, b) ==
  IF a = 0 \/ b = 0 THEN 0
  ELSE IF a > MaxWord \div b THEN Fails
  ELSE a * b

-----------------------------------------------------------------------------
(* The double-width product and its quotient *)

\* umul128: four partial products of half words, with their carries.
umul128(a, b) ==
  LET t0 == Wrap(Low(a) * Low(b))
      t1 == Wrap(High(a) * Low(b) + High(t0))
      t2 == Wrap(Low(a) * High(b) + Low(t1))
  IN  [hi |-> Wrap(High(a) * High(b) + High(t1) + High(t2)),
       lo |-> Wrap(t2 * Half + Low(t0))]

Bit(n, i) == (n \div Power[i]) % 2

\* Variant: the bit that is shifted out of the remainder is forgotten.
SubtractsWithoutCarry(carry, r, d) == r >= d
Subtracts(carry, r, d) == carry \/ r >= d

\* One round of the restoring division: the next bit is shifted into the remainder,
\* and the divisor is subtracted if it fits.
Round(s, bit, d) ==
  LET shifted == Wrap(2 * s.r + bit)
      ge == Subtracts(2 * s.r >= WordSize, shifted, d)
  IN  [q |-> Wrap(2 * s.q + (IF ge THEN 1 ELSE 0)),
       r |-> IF ge THEN Wrap(shifted - d) ELSE shifted]

\* The rounds go from the highest bit of the product to the lowest.
ProductBit(p, i) == IF i >= Bits THEN Bit(p.hi, i - Bits) ELSE Bit(p.lo, i)
Rounds(p, d) ==
  LET round[n \in 0 .. 2 * Bits] ==
        IF n = 0 THEN [q |-> 0, r |-> 0]
        ELSE Round(round[n - 1], ProductBit(p, 2 * Bits - n), d)
  IN  round
Division(p, d) == Rounds(p, d)[2 * Bits]

NoQuotient == [q |-> Fails, r |-> 0]

mul_div_mod(a, b, d) ==
  LET p == umul128(a, b)
  IN  IF d = 0 \/ p.hi >= d THEN NoQuotient
      ELSE IF p.hi = 0 THEN [q |-> p.lo \div d, r |-> p.lo % d]
      ELSE Division(p, d)

mul_div_floor(a, b, d) == mul_div_mod(a, b, d).q

mul_div_ceil(a, b, d) ==
  LET m == mul_div_mod(a, b, d)
  IN  IF m.q = Fails \/ (m.r # 0 /\ m.q = MaxWord) THEN Fails
      ELSE IF m.r # 0 THEN m.q + 1
      ELSE m.q

=============================================================================

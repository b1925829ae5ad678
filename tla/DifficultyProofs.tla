-------------------------- MODULE DifficultyProofs --------------------------
(***************************************************************************)
(* The arithmetic of the ASERT rule: the product of two limbs is exact at  *)
(* every limb width, the polynomial fits 64 unsigned bits with the         *)
(* coefficients of asert.cpp, and the factor stays below two.              *)
(***************************************************************************)
EXTENDS Difficulty, TLAPS

-----------------------------------------------------------------------------
(* The product of two limbs.                                               *)

\* Division by a positive number leaves a remainder below it.
LEMMA Divide ==
    ASSUME NEW x \in Nat, NEW n \in Nat \ {0}
    PROVE  /\ x \div n \in Nat /\ x % n \in 0..n - 1
           /\ x = n * (x \div n) + (x % n)
  BY Z3

\* The product of two numbers is monotone in both.
LEMMA ProductBound ==
    ASSUME NEW n \in Nat, NEW m \in Nat, NEW x \in 0..n, NEW y \in 0..m
    PROVE  x * y \in 0..n * m
  BY Z3

\* A sum of two numbers below n, reduced modulo n, is smaller than the first
\* exactly when it wrapped: the carry test of MulAdd64.
LEMMA WrapIsCarry ==
    ASSUME NEW n \in Nat \ {0}, NEW x \in 0..n - 1, NEW y \in 0..n - 1
    PROVE  LET s == (x + y) % n
               c == IF s < x THEN 1 ELSE 0
           IN  s \in 0..n - 1 /\ x + y = s + c * n
  BY Z3

\* A quotient and a remainder are unique.
LEMMA Remainder ==
    ASSUME NEW n \in Nat \ {0}, NEW q \in Nat, NEW r \in 0..n - 1
    PROVE  (n * q + r) % n = r
  BY Z3

\* The high half of a number below h * h is below h.
LEMMA HighHalf ==
    ASSUME NEW h \in Nat \ {0}, NEW q \in Nat, NEW r \in 0..h - 1, h * q + r < h * h
    PROVE  q \in 0..h - 1
<1>1. SUFFICES ASSUME q >= h PROVE FALSE
  OBVIOUS
<1>2. PICK d \in Nat : q = h + d
  BY <1>1
<1>3. h * q = h * h + h * d /\ h * d >= 0
  BY <1>2, Z3
<1> QED BY <1>3

\* Shifting a number up by half its width keeps its low half.
LEMMA ShiftHalf ==
    ASSUME NEW h \in Nat \ {0}, NEW x1 \in 0..h - 1, NEW x0 \in 0..h - 1
    PROVE  /\ x0 * h \in 0..h * h - 1
           /\ ((h * x1 + x0) * h) % (h * h) = x0 * h
<1>1. x0 * h \in 0..(h - 1) * h /\ (h - 1) * h = h * h - h
  BY ProductBound
<1>2. x0 * h \in 0..h * h - 1 /\ h * h \in Nat \ {0}
  BY <1>1
<1>3. (h * x1 + x0) * h = (h * h) * x1 + x0 * h
  BY Z3
<1> DEFINE n == h * h
           r == x0 * h
<1>4. n \in Nat \ {0} /\ r \in 0..n - 1 /\ (h * x1 + x0) * h = n * x1 + r
  BY <1>2, <1>3
<1>5. (n * x1 + r) % n = r
  <2> HIDE DEF n, r
  <2> QED BY <1>4, Remainder
<1> QED BY <1>2, <1>4, <1>5

\* The four half products make up the product.
LEMMA Expand ==
    ASSUME NEW h \in Nat, NEW x1 \in Nat, NEW x0 \in Nat, NEW y1 \in Nat, NEW y0 \in Nat
    PROVE  (h * x1 + x0) * (h * y1 + y0)
               = (x1 * y1) * (h * h) + (x0 * y1 + x1 * y0) * h + x0 * y0
  BY Z3

\* The three carries, each with its weight, put the product back together.
LEMMA Recombine ==
    ASSUME NEW h \in Nat, NEW p00 \in Nat, NEW pm \in Nat, NEW p11 \in Nat, NEW m1 \in Nat,
           NEW m0 \in Nat, NEW low \in Nat, NEW w \in Nat, NEW add \in Nat,
           NEW c1 \in Nat, NEW c2 \in Nat, NEW c3 \in Nat,
           pm = h * m1 + m0 + c1 * (h * h),
           p00 + m0 * h = low + c2 * (h * h),
           low + add = w + c3 * (h * h)
    PROVE  w + (h * h) * (p11 + c1 * h + m1 + c2 + c3) = p11 * (h * h) + pm * h + p00 + add
<1>1. pm * h = (h * h) * m1 + m0 * h + (h * h) * (c1 * h)
  BY Z3
<1>2. (h * h) * (p11 + c1 * h + m1 + c2 + c3)
        = p11 * (h * h) + (h * h) * (c1 * h) + (h * h) * m1 + c2 * (h * h) + c3 * (h * h)
  BY Z3
<1> QED BY <1>1, <1>2, Z3

\* The high part of a product of two limbs plus a limb is a limb.
LEMMA HighFits ==
    ASSUME NEW n \in Nat \ {0}, NEW w \in Nat, NEW x \in Nat, NEW a \in 0..n - 1, NEW b \in 0..n - 1,
           NEW add \in 0..n - 1, w + n * x = a * b + add
    PROVE  x \in 0..n - 1
<1>1. a * b \in 0..(n - 1) * (n - 1) /\ (n - 1) * (n - 1) + (n - 1) = n * n - n
  BY ProductBound, Z3
<1>2. n * x < n * n
  BY <1>1, Z3
<1> QED BY <1>2, HighHalf

\* MulAdd64 returns the two limbs of a * b + add for every pair of limbs, every
\* addend and every even limb width: both carries have the right weight and the
\* high limb never wraps.
THEOREM MulAddExact ==
    ASSUME NEW a \in 0..Limb - 1, NEW b \in 0..Limb - 1, NEW add \in 0..Limb - 1
    PROVE  /\ MulAdd(a, b, add).lo \in 0..Limb - 1
           /\ MulAdd(a, b, add).hi \in 0..Limb - 1
           /\ MulAdd(a, b, add).lo + Limb * MulAdd(a, b, add).hi = a * b + add
<1> DEFINE a0 == a % Half
           a1 == a \div Half
           b0 == b % Half
           b1 == b \div Half
           p00 == a0 * b0
           p01 == a0 * b1
           p10 == a1 * b0
           p11 == a1 * b1
           mid_lo == (p01 + p10) % Limb
           mid_carry == IF mid_lo < p01 THEN 1 ELSE 0
           m0 == mid_lo % Half
           m1 == mid_lo \div Half
           low == (((mid_lo * Half) % Limb) + p00) % Limb
           low_carry == IF low < p00 THEN 1 ELSE 0
           with_add == (low + add) % Limb
           add_carry == IF with_add < low THEN 1 ELSE 0
           high == p11 + mid_carry * Half + m1 + low_carry + add_carry
<1>1. Half \in Nat \ {0, 1} /\ Limb \in Nat \ {0} /\ Limb = Half * Half
  BY WordsAssumption, Z3 DEF Limb
<1> HIDE DEF a0, a1, b0, b1, p00, p01, p10, p11, mid_lo, mid_carry, m0, m1,
             low, low_carry, with_add, add_carry, high
<1>2. /\ a0 \in 0..Half - 1 /\ a1 \in Nat /\ a = Half * a1 + a0
      /\ b0 \in 0..Half - 1 /\ b1 \in Nat /\ b = Half * b1 + b0
  <2>1. a \in Nat /\ b \in Nat /\ Half \in Nat \ {0}
    BY <1>1
  <2>2. a0 \in 0..Half - 1 /\ a1 \in Nat /\ a = Half * a1 + a0
    BY <2>1, Divide DEF a0, a1
  <2>3. b0 \in 0..Half - 1 /\ b1 \in Nat /\ b = Half * b1 + b0
    BY <2>1, Divide DEF b0, b1
  <2> QED BY <2>2, <2>3
<1>3. a1 \in 0..Half - 1 /\ b1 \in 0..Half - 1
  <2>1. Half * a1 + a0 < Half * Half /\ Half * b1 + b0 < Half * Half
    BY <1>1, <1>2
  <2> QED BY <1>1, <1>2, <2>1, HighHalf
<1>4. /\ p00 \in 0..Limb - 1 /\ p01 \in 0..Limb - 1
      /\ p10 \in 0..Limb - 1 /\ p11 \in 0..Limb - 1
  <2>1. (Half - 1) * (Half - 1) \in 0..Limb - 1
    BY <1>1, Z3
  <2> QED BY <1>1, <1>2, <1>3, <2>1, ProductBound DEF p00, p01, p10, p11
<1>5. mid_lo \in 0..Limb - 1 /\ mid_carry \in {0, 1} /\ p01 + p10 = mid_lo + mid_carry * Limb
  BY <1>1, <1>4, WrapIsCarry DEF mid_lo, mid_carry
<1>6. m0 \in 0..Half - 1 /\ m1 \in Nat /\ mid_lo = Half * m1 + m0
  <2>1. mid_lo \in Nat /\ Half \in Nat \ {0}
    BY <1>1, <1>5
  <2> QED BY <2>1, Divide DEF m0, m1
<1>7. m1 \in 0..Half - 1
  BY <1>1, <1>5, <1>6, HighHalf
<1>8. (mid_lo * Half) % Limb = m0 * Half /\ m0 * Half \in 0..Limb - 1
  BY <1>1, <1>6, <1>7, ShiftHalf
<1>9. low \in 0..Limb - 1 /\ low_carry \in {0, 1} /\ p00 + m0 * Half = low + low_carry * Limb
  <2>1. low = (p00 + m0 * Half) % Limb
    BY <1>1, <1>4, <1>8 DEF low
  <2> DEFINE r == m0 * Half
  <2>2. low = (p00 + r) % Limb /\ r \in 0..Limb - 1
    BY <1>8, <2>1
  <2> HIDE DEF r
  <2>3. low \in 0..Limb - 1 /\ low_carry \in {0, 1} /\ p00 + r = low + low_carry * Limb
    BY <1>1, <1>4, <2>2, WrapIsCarry DEF low_carry
  <2> QED BY <2>3 DEF r
<1>10. with_add \in 0..Limb - 1 /\ add_carry \in {0, 1} /\ low + add = with_add + add_carry * Limb
  BY <1>1, <1>9, WrapIsCarry DEF with_add, add_carry
<1>11. a * b = p11 * Limb + (p01 + p10) * Half + p00
  <2>1. (Half * a1 + a0) * (Half * b1 + b0)
          = (a1 * b1) * (Half * Half) + (a0 * b1 + a1 * b0) * Half + a0 * b0
    BY <1>1, <1>2, <1>3, Expand
  <2> QED BY <1>1, <1>2, <2>1 DEF p00, p01, p10, p11
<1>12. with_add + Limb * high = a * b + add
  <2>1. with_add + Limb * high = p11 * Limb + (p01 + p10) * Half + p00 + add
    <3>1. p01 + p10 = Half * m1 + m0 + mid_carry * (Half * Half)
      BY <1>1, <1>5, <1>6
    <3>2. p01 + p10 \in Nat
      BY <1>4
    <3> QED BY <1>1, <1>4, <1>5, <1>6, <1>7, <1>9, <1>10, <3>1, <3>2, Recombine DEF high
  <2> QED BY <1>11, <2>1
<1>13. high \in 0..Limb - 1
  <2>1. mid_carry * Half \in Nat
    BY <1>1, <1>5
  <2>2. high \in Nat
    BY <1>4, <1>7, <1>9, <1>10, <2>1 DEF high
  <2> QED BY <1>1, <1>10, <1>12, <2>2, HighFits
<1>14. high % Limb = high
  BY <1>1, <1>13
<1>15. MulAdd(a, b, add) = [lo |-> with_add, hi |-> high % Limb]
  BY DEF MulAdd, p00, p01, p10, p11, mid_lo, mid_carry, m1, low, low_carry, with_add, add_carry,
         a0, a1, b0, b1, high
<1> QED BY <1>10, <1>12, <1>13, <1>14, <1>15

-----------------------------------------------------------------------------
(* The factor.                                                             *)


\* The polynomial of FractionFactor with its numbers.
LEMMA Polynomial ==
    ASSUME NEW f \in Nat, f <= 65535
    PROVE  /\ 195766423245049 * f + 971821376 * (f * f) + 5127 * ((f * f) * f) + 140737488355328 \in Nat
           /\ 195766423245049 * f + 971821376 * (f * f) + 5127 * ((f * f) * f) + 140737488355328
                 <= 18446563080438344768
<1> DEFINE square == f * f
           cube == square * f
<1>1. square \in Nat /\ square <= 4294836225
  BY Z3
<1>2. cube \in Nat /\ cube <= 281462092005375
  <2> HIDE DEF square
  <2> QED BY <1>1, Z3
<1> HIDE DEF square, cube
<1>3. /\ 195766423245049 * f + 971821376 * square + 5127 * cube + 140737488355328 \in Nat
      /\ 195766423245049 * f + 971821376 * square + 5127 * cube + 140737488355328
            <= 18446563080438344768
  BY <1>1, <1>2, Z3
<1> QED BY <1>3 DEF square, cube

\* With the coefficients and the radix of asert.cpp the polynomial of
\* FractionFactor is below 2^64 for every fraction, so the unsigned sum never
\* wraps, and the factor lies between one and two in units of the radix: the
\* fractional multiply never does the work of the integer shift.
THEOREM FactorFits ==
    ASSUME Radix = 65536, Linear = 195766423245049, Quadratic = 971821376, Cubic = 5127,
           NEW f \in Nat, f <= 65535
    PROVE  /\ Linear * f + Quadratic * f * f + Cubic * f * f * f + Scale \div 2
                 < 18446744073709551616
           /\ Radix <= FractionFactor(f) /\ FractionFactor(f) < 2 * Radix
<1> DEFINE polynomial == 195766423245049 * f + 971821376 * (f * f) + 5127 * ((f * f) * f) + 140737488355328
<1>1. Scale = 281474976710656
  BY DEF Scale
<1>2. polynomial \in Nat /\ polynomial <= 18446563080438344768
  BY Polynomial
<1>3. Linear * f + Quadratic * f * f + Cubic * f * f * f + Scale \div 2 = polynomial
  BY <1>1, Z3
<1> HIDE DEF polynomial
<1>4. polynomial \div 281474976710656 \in Nat /\ polynomial \div 281474976710656 <= 65535
  BY <1>2, Z3
<1>5. FractionFactor(f) = 65536 + polynomial \div 281474976710656
  BY <1>1, <1>3 DEF FractionFactor
<1> QED BY <1>2, <1>3, <1>4, <1>5
=============================================================================

----------------------------- MODULE Difficulty -----------------------------
(***************************************************************************)
(* Targets and what is computed from them: the compact encoding and the    *)
(* comparison with a hash (consensus/target.cpp), the work of a target     *)
(* (work.cpp), and the next target of the ASERT rule (asert.cpp).  The     *)
(* widths are constants; the code has bytes of 8 bits, targets of 32       *)
(* bytes, limbs of 64 bits and a radix of 16 bits.                         *)
(***************************************************************************)
EXTENDS Words, FiniteSetsExt

CONSTANTS
    ByteBits,
    TargetBytes,                \* TARGET_BYTES
    RadixBits,                  \* RADIX_BITS
    Linear, Quadratic, Cubic,   \* the coefficients in FractionFactor
    Saturation,                 \* EXPONENT_SATURATION
    TimeBound,                  \* the clamp of both timestamps
    SpanBound,                  \* the clamp of spacing and height
    HalfLifeBound               \* the clamp of the half-life

Byte == 2^ByteBits
Mantissa == Byte * Byte * Byte
SignBit == Mantissa \div 2
Index == 0..TargetBytes - 1
NoTarget == [i \in Index |-> Byte]   \* nullopt: no byte has this value

ASSUME DifficultyAssumption ==
    /\ ByteBits \in Nat \ {0} /\ LimbBits % ByteBits = 0
    /\ TargetBytes * ByteBits = (LimbCount - 1) * LimbBits
    /\ 2 * 2^RadixBits <= Limb

-----------------------------------------------------------------------------
(* Compact targets.  A target is big-endian. *)

\* Mutant: a mantissa whose top bit is set is kept as it is.
TargetToCompactSigned(target) ==
    LET nonzero == {i \in Index : target[i] # 0}
        first == Min(nonzero)
        At(i) == IF i \in Index THEN target[i] ELSE 0
        mantissa == (At(first) * Byte + At(first + 1)) * Byte + At(first + 2)
    IN  IF nonzero = {} THEN 0
        ELSE (TargetBytes - first) * Mantissa + mantissa
\* The three most significant bytes and the significant length; a mantissa that
\* would set the sign bit is moved down one byte.
TargetToCompact(target) ==
    LET nonzero == {i \in Index : target[i] # 0}
        first == Min(nonzero)
        size == TargetBytes - first
        At(i) == IF i \in Index THEN target[i] ELSE 0
        mantissa == (At(first) * Byte + At(first + 1)) * Byte + At(first + 2)
    IN  IF nonzero = {} THEN 0
        ELSE IF mantissa >= SignBit THEN (size + 1) * Mantissa + mantissa \div Byte
        ELSE size * Mantissa + mantissa

\* The target a compact value stands for, if it is the one encoding of it.
CompactToTarget(bits) ==
    LET mantissa == bits % Mantissa
        top == TargetBytes - bits \div Mantissa
        digit == <<mantissa \div (Byte * Byte), (mantissa \div Byte) % Byte, mantissa % Byte>>
        target == [i \in Index |-> IF i - top \in 0..2 THEN digit[i - top + 1] ELSE 0]
    IN  IF /\ mantissa \in 1..SignBit - 1
           /\ \A o \in 0..2 : top + o \in Index \/ digit[o + 1] = 0
           /\ TargetToCompact(target) = bits
        THEN target ELSE NoTarget

\* A digest is compared from its last byte, the most significant one.
HashMeetsTarget(digest, target) ==
    \/ digest = [i \in Index |-> target[TargetBytes - 1 - i]]
    \/ \E o \in Index : /\ digest[TargetBytes - 1 - o] < target[o]
                        /\ \A k \in 0..o - 1 : digest[TargetBytes - 1 - k] = target[k]

CheckProofOfWork(digest, bits) ==
    LET target == CompactToTarget(bits)
    IN  target # NoTarget /\ HashMeetsTarget(digest, target)

-----------------------------------------------------------------------------
(* Work.  Values are numbers here; the byte loops of work.cpp add, subtract *)
(* and shift them.                                                          *)

Space == Byte^TargetBytes
BitLength(value) == IF value = 0 THEN 0
                    ELSE CHOOSE n \in 1..TargetBytes * ByteBits : 2^(n - 1) <= value /\ value < 2^n

ShiftedLeft(value, shift) == (value * 2^shift) % Space
SetBit(value, index) == IF (value \div 2^index) % 2 = 1 THEN value ELSE value + 2^index
Subtract(minuend, subtrahend) == (minuend - subtrahend) % Space
\* Work::operator+=, which saturates.
AddWork(a, b) == IF a + b >= Space THEN Space - 1 ELSE a + b

\* One quotient bit of the restoring division.
Restore(r, divisor, s) ==
    IF r.rest >= ShiftedLeft(divisor, s)
    THEN [rest |-> Subtract(r.rest, ShiftedLeft(divisor, s)), quotient |-> SetBit(r.quotient, s)]
    ELSE r

\* Mutant: the division stops before the last bit of the quotient.
OfTargetShort(target) ==
    LET divisor == target + 1
        dividend == Space - 1 - target
        top == BitLength(dividend) - BitLength(divisor)
        step[s \in 0..top + 1] ==
            IF s = top + 1 THEN [rest |-> dividend, quotient |-> 0]
            ELSE Restore(step[s + 1], divisor, s)
    IN  IF target = 0 THEN 0
        ELSE IF target = Space - 1 THEN 1
        ELSE IF top < 0 THEN 1 ELSE AddWork(step[1].quotient, 1)
\* Work::OfTarget: Space \div (target + 1) without ever holding Space, by
\* restoring long division of the complement of the target.
OfTarget(target) ==
    LET divisor == target + 1
        dividend == Space - 1 - target
        top == BitLength(dividend) - BitLength(divisor)
        step[s \in 0..top + 1] ==
            IF s = top + 1 THEN [rest |-> dividend, quotient |-> 0]
            ELSE Restore(step[s + 1], divisor, s)
    IN  IF target = 0 THEN 0
        ELSE IF target = Space - 1 THEN 1
        ELSE IF top < 0 THEN 1 ELSE AddWork(step[0].quotient, 1)

Magnitude(target) == MapThenSumSet(LAMBDA i : target[i] * Byte^(TargetBytes - 1 - i), Index)
OfCompactTarget(bits) ==
    LET target == CompactToTarget(bits)
    IN  IF target = NoTarget THEN 0 ELSE OfTarget(Magnitude(target))

-----------------------------------------------------------------------------
(* The ASERT rule. *)

Clamp(value, low, high) == IF value < low THEN low ELSE IF value > high THEN high ELSE value
Radix == 2^RadixBits
PerLimb == LimbBits \div ByteBits

FromTarget(target) ==
    [l \in Place |-> IF l = LimbCount - 1 THEN 0
                     ELSE MapThenSumSet(LAMBDA b : target[TargetBytes - 1 - (l * PerLimb + b)] * Byte^b,
                                        0..PerLimb - 1)]

ToTarget(value) ==
    [i \in Index |-> LET place == TargetBytes - 1 - i
                     IN  (value[place \div PerLimb] \div Byte^(place % PerLimb)) % Byte]

\* One bit of the numerator: the quotient only grows, and the loop has returned
\* once it reaches Saturation.
NextBit(r, divisor, bit) ==
    LET rest == 2 * r.rest + bit
    IN  IF r.quotient >= Saturation THEN r
        ELSE IF rest >= divisor
        THEN [rest |-> rest - divisor, quotient |-> 2 * r.quotient + 1]
        ELSE [rest |-> rest, quotient |-> 2 * r.quotient]

\* Long division of high * Radix by the divisor, one bit at a time from the top.
ScaledQuotient(high, divisor) ==
    LET bits == BitLength(high) + RadixBits
        step[b \in 0..bits] ==
            IF b = bits THEN [rest |-> 0, quotient |-> 0]
            ELSE NextBit(step[b + 1], divisor,
                         IF b >= RadixBits THEN (high \div 2^(b - RadixBits)) % 2 ELSE 0)
    IN  IF divisor = 0 \/ divisor > HalfLifeBound THEN Saturation
        ELSE Clamp(step[0].quotient, 0, Saturation)

Scale == Radix * Radix * Radix   \* the unit of the polynomial, 2^48 in the code

\* Mutant: the whole unit is left out of the factor.
FractionFactorPartial(fraction) ==
    (Linear * fraction + Quadratic * fraction * fraction
     + Cubic * fraction * fraction * fraction + Scale \div 2) \div Scale
\* The cubic that stands for Radix * 2^(fraction / Radix).
FractionFactor(fraction) ==
    Radix + (Linear * fraction + Quadratic * fraction * fraction
             + Cubic * fraction * fraction * fraction + Scale \div 2) \div Scale

Hardest == [i \in Index |-> IF i = TargetBytes - 1 THEN 1 ELSE 0]

\* Mutant: a chain ahead of its schedule is rounded away from zero.
ExponentFloored(rule, height_delta, tip_time) ==
    LET numerator == Clamp(tip_time, -TimeBound, TimeBound)
                     - Clamp(rule.anchor_time, -TimeBound, TimeBound)
                     - Clamp(rule.spacing, 1, SpanBound) * Clamp(height_delta, 1, SpanBound)
    IN  Clamp((numerator * Radix) \div Clamp(rule.half_life, 1, HalfLifeBound),
              -Saturation, Saturation)
\* The fixed-point number of half-lives the chain is behind its schedule.
Exponent(rule, height_delta, tip_time) ==
    LET numerator == Clamp(tip_time, -TimeBound, TimeBound)
                     - Clamp(rule.anchor_time, -TimeBound, TimeBound)
                     - Clamp(rule.spacing, 1, SpanBound) * Clamp(height_delta, 1, SpanBound)
        half_life == Clamp(rule.half_life, 1, HalfLifeBound)
    IN  IF numerator < 0 THEN -ScaledQuotient(-numerator, half_life)
        ELSE ScaledQuotient(numerator, half_life)

\* AsertNextBits: rule holds the anchor and the parameters of the network.
AsertNextBits(rule, height_delta, tip_time) ==
    LET floor == CompactToTarget(rule.pow_limit_bits)
        anchor == CompactToTarget(rule.anchor_bits)
        limit == FromTarget(floor)
        start == IF Exceeds(FromTarget(anchor), limit) THEN limit ELSE FromTarget(anchor)
        exponent == Exponent(rule, height_delta, tip_time)
        shift == (exponent \div Radix) - RadixBits
        product == MultiplySmall(start, FractionFactor(exponent % Radix))
        left == ShiftLeft(product.value, shift)
        shifted == IF shift > 0 THEN left.value ELSE ShiftRight(product.value, -shift)
    IN  IF floor = NoTarget \/ anchor = NoTarget THEN rule.pow_limit_bits
        ELSE TargetToCompact(IF height_delta <= 0 THEN ToTarget(start)
                             ELSE IF shift > 0 /\ (left.overflow \/ product.overflow)
                             THEN ToTarget(limit)
                             ELSE IF IsZero(shifted) THEN Hardest
                             ELSE IF Exceeds(shifted, limit) THEN ToTarget(limit)
                             ELSE ToTarget(shifted))

\* The rule of a network, anchored at its genesis block.
NextBits(params, tip_height, tip_time) ==
    AsertNextBits([anchor_bits |-> params.genesis_bits, anchor_time |-> params.genesis_timestamp,
                   spacing |-> params.target_block_seconds,
                   half_life |-> params.asert_half_life_seconds,
                   pow_limit_bits |-> params.pow_limit_bits], tip_height, tip_time)

-----------------------------------------------------------------------------
(* The search of mining/block_assembler.cpp.  solutions are the nonces that *)
(* meet the target and last is the largest nonce there is.                  *)

\* Mutant: the last nonce of a budget is passed over.
SolveHeaderShort(nonce, attempts, solutions, last) ==
    LET Tried[k \in 0..attempts] ==
            IF k = 0 THEN [solved |-> FALSE, nonce |-> nonce]
            ELSE LET r == Tried[k - 1]
                 IN  IF r.solved \/ r.nonce = last THEN r
                     ELSE IF r.nonce + 1 \in solutions THEN [solved |-> TRUE, nonce |-> r.nonce + 1]
                     ELSE [r EXCEPT !.nonce = @ + 1]
    IN  Tried[attempts]
\* Whether one of so many nonces solves the header, and the nonce it is left with.
SolveHeader(nonce, attempts, solutions, last) ==
    LET Tried[k \in 0..attempts] ==
            IF k = 0 THEN [solved |-> FALSE, nonce |-> nonce]
            ELSE LET r == Tried[k - 1]
                 IN  IF r.solved THEN r
                     ELSE IF r.nonce \in solutions THEN [r EXCEPT !.solved = TRUE]
                     ELSE IF r.nonce = last THEN r
                     ELSE [r EXCEPT !.nonce = @ + 1]
    IN  Tried[attempts]
=============================================================================

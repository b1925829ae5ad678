------------------------------- MODULE Words -------------------------------
(***************************************************************************)
(* The wide integers of consensus/asert.cpp: LimbCount limbs of LimbBits   *)
(* bits, least significant first, and the routines that multiply, shift    *)
(* and compare them with nothing wider than one limb.                      *)
(***************************************************************************)
EXTENDS Integers

CONSTANTS
    LimbBits,   \* LIMB_BITS
    LimbCount,  \* LIMB_COUNT
    Half        \* 2^(LimbBits / 2), the base the products are decomposed in

Limb == Half * Half

ASSUME WordsAssumption ==
    /\ Half \in Nat \ {0, 1}
    /\ LimbBits \in Nat /\ Limb = 2^LimbBits
    /\ LimbCount \in Nat \ {0}

Place == 0..LimbCount - 1
Zero == [i \in Place |-> 0]
IsZero(value) == \A i \in Place : value[i] = 0

\* Mutant: the carry out of p01 + p10 enters the high word at bit 0.
MulAddCarryUnweighted(a, b, add) ==
    LET p00 == (a % Half) * (b % Half)
        p01 == (a % Half) * (b \div Half)
        p10 == (a \div Half) * (b % Half)
        p11 == (a \div Half) * (b \div Half)
        mid_lo == (p01 + p10) % Limb
        mid_carry == IF mid_lo < p01 THEN 1 ELSE 0
        low == (((mid_lo * Half) % Limb) + p00) % Limb
        low_carry == IF low < p00 THEN 1 ELSE 0
        with_add == (low + add) % Limb
        add_carry == IF with_add < low THEN 1 ELSE 0
    IN  [lo |-> with_add,
         hi |-> (p11 + mid_carry + mid_lo \div Half + low_carry + add_carry) % Limb]
\* MulAdd64: a * b + add as a low and a high limb, from products of half limbs.
\* Every sum wraps at the limb, and a carry is seen by the sum being smaller
\* than what went into it.
MulAdd(a, b, add) ==
    LET p00 == (a % Half) * (b % Half)
        p01 == (a % Half) * (b \div Half)
        p10 == (a \div Half) * (b % Half)
        p11 == (a \div Half) * (b \div Half)
        mid_lo == (p01 + p10) % Limb
        mid_carry == IF mid_lo < p01 THEN 1 ELSE 0
        low == (((mid_lo * Half) % Limb) + p00) % Limb
        low_carry == IF low < p00 THEN 1 ELSE 0
        with_add == (low + add) % Limb
        add_carry == IF with_add < low THEN 1 ELSE 0
    IN  [lo |-> with_add,
         hi |-> (p11 + mid_carry * Half + mid_lo \div Half + low_carry + add_carry) % Limb]

\* The carries of the limb loop of MultiplySmall.
MultiplySmall(value, factor) ==
    LET carry[i \in 0..LimbCount] ==
            IF i = 0 THEN 0 ELSE MulAdd(value[i - 1], factor, carry[i - 1]).hi
    IN  [value |-> [i \in Place |-> MulAdd(value[i], factor, carry[i]).lo],
         overflow |-> carry[LimbCount] # 0]

ShiftRight(value, bits) ==
    LET up == bits \div LimbBits
        low == 2^(bits % LimbBits)
    IN  IF bits >= LimbCount * LimbBits THEN Zero
        ELSE [i \in Place |->
                 IF i + up >= LimbCount THEN 0
                 ELSE value[i + up] \div low
                      + (IF i + up + 1 < LimbCount
                         THEN (value[i + up + 1] * (Limb \div low)) % Limb ELSE 0)]

\* The overflow flag is about source bits: a limb that lands past the top, or
\* the part of the limb that lands on the top place and is pushed over it.
ShiftLeft(value, bits) ==
    LET up == bits \div LimbBits
        high == 2^(bits % LimbBits)
    IN  IF bits >= LimbCount * LimbBits
        THEN [value |-> Zero, overflow |-> ~IsZero(value)]
        ELSE [value |-> [i \in Place |->
                  IF i < up THEN 0
                  ELSE ((value[i - up] * high) % Limb)
                       + (IF i - up >= 1 THEN value[i - up - 1] \div (Limb \div high) ELSE 0)],
              overflow |-> \E i \in Place :
                  \/ i + up >= LimbCount /\ value[i] # 0
                  \/ i + up = LimbCount - 1 /\ value[i] \div (Limb \div high) # 0]

\* The most significant limb that differs decides.
Exceeds(value, limit) ==
    \E i \in Place : /\ value[i] > limit[i]
                     /\ \A j \in Place : j > i => value[j] = limit[j]
=============================================================================

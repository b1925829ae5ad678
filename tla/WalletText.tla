----------------------------- MODULE WalletText -----------------------------
(***************************************************************************)
(* What an owner copies by hand: addresses (wallet/address.cpp) and the    *)
(* recovery phrase (wallet/backup.cpp).                                    *)
(*                                                                         *)
(* A character of an address is its value in the alphabet, NotInAlphabet   *)
(* for one that has none; a prefix is the codes of its characters.  A word *)
(* of a phrase is its place in the word list.  The checksum is computed    *)
(* with the constants of the code; programs and seeds are shorter.         *)
(***************************************************************************)
EXTENDS Integers, SequencesExt, FiniteSetsExt

CONSTANTS
    ProgramBytes,     \* 32
    WordBits,         \* 11
    SeedBits,         \* 256
    HashBits,         \* 8, the bits of the hash that follow the seed
    HashOf(_)         \* the first HashBits bits of the hash of a seed

ASSUME (SeedBits + HashBits) % WordBits = 0

\* No seed, program, address or lock.
Refused == <<>>

BitsOf(values, width) ==
    [k \in 1..Len(values) * width |->
        (values[(k - 1) \div width + 1] \div 2^((width - 1) - ((k - 1) % width))) % 2]
FromBits(bits) == FoldLeft(LAMBDA acc, bit : 2 * acc + bit, 0, bits)
Grouped(bits, width) ==
    [g \in 1..Len(bits) \div width |-> FromBits(SubSeq(bits, (g - 1) * width + 1, g * width))]

-----------------------------------------------------------------------------
(* bech32m *)

NotInAlphabet == 255

\* A checksum is the set of its bits that are one, so exclusive or is the
\* symmetric difference.
Ones(n) == {b \in 0..29 : (n \div 2^b) % 2 = 1}
Xor(a, b) == (a \ b) \cup (b \ a)
Gen == [i \in 0..4 |-> Ones(<<996825010, 642813549, 513874426, 1027748829, 705979059>>[i + 1])]
Bech32mConst == Ones(734539939)

\* Mutant: the top bits are shifted out without being fed back.
PolyModStepOpen(chk, value) == Xor({b + 5 : b \in chk \cap 0..24}, Ones(value))
PolyModStep(chk, value) ==
    LET top == {b - 25 : b \in chk \cap 25..29}
        shifted == Xor({b + 5 : b \in chk \cap 0..24}, Ones(value))
    IN  {b \in 0..29 : Cardinality({i \in top : b \in Gen[i]} \cup IF b \in shifted THEN {5} ELSE {}) % 2 = 1}
PolyMod(values) == FoldLeft(PolyModStep, {0}, values)

Convert8To5(data) ==
    LET bits == BitsOf(data, 8)
    IN  Grouped(bits \o [i \in 1..((5 - (Len(bits) % 5)) % 5) |-> 0], 5)

\* The leftover bits are padding: fewer than a symbol, and all zero.
Convert5To8(values, expected) ==
    LET bits == BitsOf(values, 5)
        whole == Len(bits) \div 8
        padding == SubSeq(bits, 8 * whole + 1, Len(bits))
    IN  IF \/ \E i \in DOMAIN values : values[i] > 31
           \/ Len(padding) >= 5 \/ \E i \in DOMAIN padding : padding[i] # 0
           \/ whole # expected
        THEN Refused ELSE Grouped(bits, 8)

HrpExpand(hrp) == FlattenSeq([i \in DOMAIN hrp |-> <<hrp[i] \div 32, hrp[i] % 32>>]) \o <<0>>

ComputeChecksum5(expanded, five_bit) ==
    LET mod == Xor(PolyMod(expanded \o five_bit \o [i \in 1..6 |-> 0]), Bech32mConst)
    IN  Grouped([k \in 1..30 |-> IF 30 - k \in mod THEN 1 ELSE 0], 5)

EncodeAddress(hrp, version, program) ==
    LET five_bit == <<version>> \o Convert8To5(program)
    IN  [hrp |-> hrp, data |-> five_bit \o ComputeChecksum5(HrpExpand(hrp), five_bit)]

DecodeAddress(hrp, address) ==
    LET data == address.data
        length == Len(address.hrp) + 1 + Len(data)
        program == Convert5To8(SubSeq(data, 2, Len(data) - 6), ProgramBytes)
    IN  IF \/ length \notin 8..90 \/ address.hrp = <<>> \/ Len(data) < 6
           \/ address.hrp # hrp
           \/ NotInAlphabet \in ToSet(data)
           \/ PolyMod(HrpExpand(hrp) \o data) # Bech32mConst
           \/ Len(data) = 6
        THEN Refused
        ELSE IF data[1] > 16 \/ program = Refused THEN Refused
        ELSE [version |-> data[1], program |-> program]

LockToAddress(lock, hrp) ==
    IF lock.version # 1 \/ Len(lock.program) # ProgramBytes THEN Refused
    ELSE EncodeAddress(hrp, 1, lock.program)

\* The version of the address is not looked at again.
AddressToLock(address, hrp) ==
    LET decoded == DecodeAddress(hrp, address)
    IN  IF decoded = Refused THEN Refused ELSE [version |-> 1, program |-> decoded.program]

-----------------------------------------------------------------------------
(* The recovery phrase *)

WordlistSize == 2^WordBits
\* The list in backup.cpp: one word short of 2048.
WordCount == WordlistSize - 1
PhraseLength == (SeedBits + HashBits) \div WordBits

Bip39Word(index) == index % WordCount

\* Mutant: the words are cut from the seed alone, the hash bits left zero.
GenerateMnemonicUnhashed(seed) ==
    LET bits == seed \o [i \in 1..HashBits |-> 0]
    IN  [w \in 1..PhraseLength |-> Bip39Word(Grouped(bits, WordBits)[w])]
GenerateMnemonic(seed) ==
    LET bits == seed \o HashOf(seed)
    IN  [w \in 1..PhraseLength |-> Bip39Word(Grouped(bits, WordBits)[w])]

FindBip39Word(word) == IF word \in 0..WordCount - 1 THEN word ELSE -1

SeedFromMnemonic(words) ==
    IF Len(words) # PhraseLength \/ \E w \in DOMAIN words : FindBip39Word(words[w]) < 0
    THEN Refused
    ELSE LET bits == BitsOf(words, WordBits)
             seed == SubSeq(bits, 1, SeedBits)
         IN  IF HashOf(seed) = SubSeq(bits, SeedBits + 1, SeedBits + HashBits) THEN seed ELSE Refused
=============================================================================

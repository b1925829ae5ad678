------------------------------- MODULE Codec -------------------------------
(***************************************************************************)
(* The canonical encodings: the Reader and the Writer of util/serialize,   *)
(* the wire forms of the primitives and of the network payloads, message   *)
(* framing, weights, and the Merkle root.                                  *)
(*                                                                         *)
(* A byte is a digit in base Base (256 in the code) and the widths of the  *)
(* fixed fields are constants.  A wire form is a record that says how it   *)
(* is read and written; Read and Write interpret it, as the code's         *)
(* Deserialize and Serialize pairs do.                                     *)
(***************************************************************************)
EXTENDS Integers, SequencesExt

CONSTANTS
    Base,
    U8, U16, U32, U64, HashBytes, AddressBytes,   \* widths in bytes
    MaxMoney, MaxBlockWeight, MaxMessageSize,
    MaxProgram, MaxKeys, MaxKeyBytes, MaxSignatureBytes, MaxCoinbaseData,
    MaxUserAgent, MaxItems, CommandCount

WitnessScale == 4

LittleEndian(n, width) == [i \in 1..width |-> (n \div Base^(i - 1)) % Base]
FromDigits(bytes) == FoldRight(LAMBDA b, acc : acc * Base + b, bytes, 0)

-----------------------------------------------------------------------------
(* util/serialize: compact sizes and the reader. *)

WriteCompactSize(n) ==
    IF n < Base - 3 THEN <<n>>
    ELSE IF n < Base^2 THEN <<Base - 3>> \o LittleEndian(n, 2)
    ELSE IF n < Base^4 THEN <<Base - 2>> \o LittleEndian(n, 4)
    ELSE <<Base - 1>> \o LittleEndian(n, 8)

CompactSizeLen(n) ==
    IF n < Base - 3 THEN 1 ELSE IF n < Base^2 THEN 3 ELSE IF n < Base^4 THEN 5 ELSE 9

\* What a read leaves: whether it succeeded, the value, the bytes after it.  Once
\* failed nothing remains.
Fail == [ok |-> FALSE, value |-> <<>>, rest |-> <<>>]
Got(value, rest) == [ok |-> TRUE, value |-> value, rest |-> rest]

Consume(bytes, count) ==
    IF Len(bytes) < count THEN Fail
    ELSE Got(SubSeq(bytes, 1, count), SubSeq(bytes, count + 1, Len(bytes)))

\* A size in two, four or eight bytes is refused when a narrower form holds it.
\* Mutant: a wide form is accepted for a value that fits a narrower one.
CanonicalLax(wide, least) == IF wide.ok THEN Got(FromDigits(wide.value), wide.rest) ELSE Fail
Canonical(wide, least) ==
    IF wide.ok /\ FromDigits(wide.value) >= least THEN Got(FromDigits(wide.value), wide.rest) ELSE Fail
WideSize(bytes, width) ==
    Canonical(Consume(bytes, width), IF width = 2 THEN Base - 3 ELSE Base^(width \div 2))
SizeAfter(tag) ==
    IF ~tag.ok THEN Fail
    ELSE IF tag.value[1] < Base - 3 THEN Got(tag.value[1], tag.rest)
    ELSE WideSize(tag.rest, 2^(tag.value[1] - (Base - 3) + 1))
\* The bytes after a size could hold that many elements of at least min bytes.
Plausible(size, min) == IF size.ok /\ size.value <= Len(size.rest) \div min THEN size ELSE Fail
ReadCompactSize(bytes, min) == IF min = 0 THEN Fail ELSE Plausible(SizeAfter(Consume(bytes, 1)), min)

UpTo(count, max) == IF count.ok /\ count.value <= max THEN count ELSE Fail
ReadCount(bytes, max, min) == UpTo(ReadCompactSize(bytes, min), max)

ConsumeCounted(len) == IF len.ok THEN Consume(len.rest, len.value) ELSE Fail
ReadByteString(bytes, max) == ConsumeCounted(ReadCount(bytes, max, 1))

-----------------------------------------------------------------------------
(* Wire forms.  max and min are the count limit and the least size of one   *)
(* element that the code passes to the reader.                              *)

Raw(width) == [kind |-> "raw", width |-> width]
String(max) == [kind |-> "string", max |-> max]
List(max, min, of) == [kind |-> "list", max |-> max, min |-> min, of |-> of]
Fields(of) == [kind |-> "fields", of |-> of]
\* What follows depends on the fields before it: see WitnessSection.
Section == [kind |-> "section"]
\* A field with a domain rule: an amount, or a flag that is 0 or 1.
Checked(width, rule) == [kind |-> "checked", width |-> width, rule |-> rule]

Signed(bytes) == LET n == FromDigits(bytes) span == Base^Len(bytes)
                 IN  IF 2 * n >= span THEN n - span ELSE n
IsValidAmount(amount) == amount >= 0 /\ amount <= MaxMoney

OutPoint == Fields(<<Raw(HashBytes), Raw(U32)>>)
TxInput == Fields(<<OutPoint, Raw(U32)>>)
TxInputSize == HashBytes + U32 + U32
Lock == Fields(<<Raw(U8), String(MaxProgram)>>)
TxOutput == Fields(<<Checked(U64, "amount"), Lock>>)
TxOutputMin == U64 + 2
PublicKey == Fields(<<Raw(U16), String(MaxKeyBytes)>>)
Signature == Fields(<<Raw(U16), String(MaxSignatureBytes)>>)
TaggedMin == U16 + 1
SpendCondition == Fields(<<Raw(U8), Raw(U8), List(MaxKeys, TaggedMin, PublicKey)>>)
Witness == Fields(<<SpendCondition, List(MaxKeys, TaggedMin, Signature)>>)
\* Mutant: the floor of a witness counts a signature that need not be there.
WitnessMinOfSigned == U8 + U8 + 1 + 1 + TaggedMin
WitnessMin == U8 + U8 + 1 + 1
TransactionMin == U32 + 3 + U32

\* Mutant: the scale of base bytes is applied twice.
WeightBoundedCountTwice(min_base_bytes) ==
    MaxBlockWeight \div (WitnessScale * WitnessScale * min_base_bytes)
\* Count limits that follow from the weight of a block.
WeightBoundedCount(min_base_bytes) == MaxBlockWeight \div (WitnessScale * min_base_bytes)
MaxInputs == WeightBoundedCount(TxInputSize)
MaxOutputs == WeightBoundedCount(TxOutputMin)
MaxTransactions == WeightBoundedCount(TransactionMin)

WithoutWitnesses == Fields(<<Raw(U32), List(MaxInputs, TxInputSize, TxInput),
                             List(MaxOutputs, TxOutputMin, TxOutput), Raw(U32)>>)
Witnesses == List(MaxInputs, WitnessMin, Witness)
\* One input, whose outpoint is the zero hash at the largest index.
IsCoinbase(base) ==
    /\ Len(base[2]) = 1
    /\ base[2][1][1] = <<[i \in 1..HashBytes |-> 0], [i \in 1..U32 |-> Base - 1]>>
\* The section the txid does not commit to: a byte string in a coinbase, one
\* witness per input in any other transaction.
WitnessSection(base) == IF IsCoinbase(base) THEN String(MaxCoinbaseData) ELSE Witnesses
FormOf(form, before) == IF form.kind = "section" THEN WitnessSection(before) ELSE form
Transaction == Fields(WithoutWitnesses.of \o <<Section>>)

BlockHeader == Fields(<<Raw(U32), Raw(U32), Raw(HashBytes), Raw(HashBytes), Raw(U64), Raw(U32), Raw(U64)>>)
BlockHeaderSize == 3 * U32 + 2 * HashBytes + 2 * U64
Block == Fields(<<BlockHeader, List(MaxTransactions, TransactionMin, Transaction)>>)

Coin == Fields(<<Raw(U32), Checked(U8, "flag"), TxOutput>>)
CoinMin == U32 + 1 + TxOutputMin
TxUndo == List(MaxInputs, CoinMin, Coin)
BlockUndo == List(MaxTransactions, 1, TxUndo)
StoredHeader == Fields(<<BlockHeader, Raw(U64), Raw(U8), Raw(U8)>>)

\* Of a wallet backup: scheme, account, highest index, gap limit and label.
Account == Fields(<<String(64), Raw(U32), Raw(U32), Raw(U32), String(128)>>)
Metadata == Fields(<<Raw(U32), List(Base^U64, 1, Account)>>)

Hello == Fields(<<Raw(U32), Raw(U64), Raw(U64), Raw(HashBytes), Raw(U32), Raw(U64), String(MaxUserAgent)>>)
Empty == Fields(<<>>)   \* HelloAck and GetAddr
GetHeaders == Fields(<<Raw(U32), List(MaxItems, HashBytes, Raw(HashBytes)), Raw(HashBytes)>>)
Headers == Fields(<<List(MaxItems, BlockHeaderSize, BlockHeader)>>)
Inventory == Fields(<<Raw(U32), Raw(HashBytes)>>)
GetData == Fields(<<List(MaxItems, U32 + HashBytes, Inventory)>>)
NetworkAddress == Fields(<<Raw(U8), Raw(AddressBytes), Raw(U16)>>)
Addr == Fields(<<List(MaxItems, U8 + AddressBytes + U16, NetworkAddress)>>)
Ping == Fields(<<Raw(U64)>>)

RECURSIVE Write(_, _), Read(_, _)

\* Fields one after the other; the first failure is the failure of the whole.
Extended(r, field) ==
    IF r.ok /\ field.ok THEN Got(Append(r.value, field.value), field.rest) ELSE Fail
ReadAll(forms, bytes) ==
    FoldLeft(LAMBDA r, form : Extended(r, Read(FormOf(form, r.value), r.rest)), Got(<<>>, bytes), forms)
WriteAll(forms, values) == FlattenSeq([i \in DOMAIN values |-> Write(FormOf(forms[i], values), values[i])])

\* The parts of a list or of a structure, `count` of them.
Part(form, i) == IF form.kind = "list" THEN form.of ELSE form.of[i]
ReadCounted(form, count) ==
    IF count.ok THEN ReadAll([i \in 1..count.value |-> Part(form, i)], count.rest) ELSE Fail

Read(form, bytes) ==
    CASE form.kind = "raw" -> Consume(bytes, form.width)
      [] form.kind = "checked" ->
            LET r == Consume(bytes, form.width)
            IN  IF r.ok /\ (IF form.rule = "flag" THEN r.value[1] <= 1 ELSE IsValidAmount(Signed(r.value)))
                THEN r ELSE Fail
      [] form.kind = "string" -> ReadByteString(bytes, form.max)
      [] form.kind \in {"list", "fields"} ->
            ReadCounted(form, IF form.kind = "list" THEN ReadCount(bytes, form.max, form.min)
                              ELSE Got(Len(form.of), bytes))

Write(form, value) ==
    CASE form.kind \in {"raw", "checked"} -> value
      [] form.kind = "string" -> WriteCompactSize(Len(value)) \o value
      [] form.kind \in {"list", "fields"} ->
            (IF form.kind = "list" THEN WriteCompactSize(Len(value)) ELSE <<>>)
                \o WriteAll([i \in DOMAIN value |-> Part(form, i)], value)

\* A parse that also calls Finish: every byte belongs to the structure.
Finish(r) == IF r.ok /\ r.rest = <<>> THEN r ELSE Fail
Decode(form, bytes) == Finish(Read(form, bytes))

-----------------------------------------------------------------------------
(* Weight. *)

TxWeight(tx) ==
    LET base == Len(Write(WithoutWitnesses, SubSeq(tx, 1, 4)))
        full == Len(Write(Transaction, tx))
    IN  base * WitnessScale + (full - base)

BlockWeight(block) ==
    FoldLeft(LAMBDA w, tx : w + TxWeight(tx),
             (BlockHeaderSize + CompactSizeLen(Len(block[2]))) * WitnessScale, block[2])

-----------------------------------------------------------------------------
(* Message framing.  A header is the magic, the command, the length and the *)
(* checksum.                                                                *)

MagicBytes == 1
HeaderSize == MagicBytes + U16 + 2 * U32

\* The first bytes of the double SHA-256 of a payload, for payloads that differ.
Digest(payload) == <<FoldLeft(LAMBDA h, b : (h * 2 + b + 1) % Base, 1, payload)>>
Checksum(payload) == IF payload = <<>> THEN LittleEndian(0, U32) ELSE Digest(payload)

SerialiseMessage(command, payload, magic) ==
    <<magic>> \o LittleEndian(command, U16) \o LittleEndian(Len(payload), U32)
              \o Checksum(payload) \o payload

\* The fields of a header, each at its offset.
HeaderFields(buffer) ==
    LET Field(at, width) == SubSeq(buffer, at + 1, at + width)
    IN  [magic |-> Field(0, MagicBytes), command |-> FromDigits(Field(MagicBytes, U16)),
         length |-> FromDigits(Field(MagicBytes + U16, U32)), checksum |-> Field(MagicBytes + U16 + U32, U32)]
Unusable(head, magic) ==
    head.magic # <<magic>> \/ head.command >= CommandCount \/ head.length > MaxMessageSize

\* Mutant: a buffer that holds the header is taken to hold the body.
FrameMessageEager(buffer, magic) ==
    LET head == HeaderFields(buffer)
    IN  IF Len(buffer) < HeaderSize THEN [result |-> "NeedMore"]
        ELSE IF Unusable(head, magic) THEN [result |-> "Malformed"]
        ELSE [result |-> "Complete", command |-> head.command,
              payload |-> SubSeq(buffer, HeaderSize + 1, Len(buffer)), consumed |-> Len(buffer)]
FrameMessage(buffer, magic) ==
    LET head == HeaderFields(buffer)
        payload == SubSeq(buffer, HeaderSize + 1, HeaderSize + head.length)
    IN  IF Len(buffer) < HeaderSize THEN [result |-> "NeedMore"]
        ELSE IF Unusable(head, magic) THEN [result |-> "Malformed"]
        ELSE IF Len(buffer) < HeaderSize + head.length THEN [result |-> "NeedMore"]
        ELSE IF head.checksum # Checksum(payload) THEN [result |-> "Malformed"]
        ELSE [result |-> "Complete", command |-> head.command, payload |-> payload,
              consumed |-> HeaderSize + head.length]

-----------------------------------------------------------------------------
(* The Merkle root.  A tagged hash is the term it hashes. *)

Branch(left, right) == <<"branch", left, right>>

\* Mutant: an odd node is paired with itself.
NextLevelDoubled(level) ==
    [i \in 1..(Len(level) + 1) \div 2 |->
        Branch(level[2 * i - 1], IF 2 * i <= Len(level) THEN level[2 * i] ELSE level[2 * i - 1])]
\* Pairs are hashed; an odd node moves up as it is.
NextLevel(level) ==
    [i \in 1..(Len(level) + 1) \div 2 |->
        IF 2 * i <= Len(level) THEN Branch(level[2 * i - 1], level[2 * i]) ELSE level[2 * i - 1]]

RECURSIVE TopOf(_)
TopOf(level) == IF Len(level) = 1 THEN level[1] ELSE TopOf(NextLevel(level))

\* Mutant: the count is left out of the root and odd nodes are paired with themselves.
RECURSIVE DoubledTopOf(_)
DoubledTopOf(level) == IF Len(level) = 1 THEN level[1] ELSE DoubledTopOf(NextLevelDoubled(level))
RootWithoutCount(wtxids) ==
    IF wtxids = <<>> THEN <<>>
    ELSE <<"root", DoubledTopOf([i \in DOMAIN wtxids |-> <<"leaf", wtxids[i]>>])>>
ComputeMerkleRoot(wtxids) ==
    IF wtxids = <<>> THEN <<>>
    ELSE <<"root", Len(wtxids), TopOf([i \in DOMAIN wtxids |-> <<"leaf", wtxids[i]>>])>>
=============================================================================

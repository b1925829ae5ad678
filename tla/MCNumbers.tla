----------------------------- MODULE MCNumbers -----------------------------
(***************************************************************************)
(* The pure functions of the consensus library checked against what they   *)
(* are meant to compute.  A state is one input of one of the functions.    *)
(***************************************************************************)
EXTENDS Difficulty, Issuance, Codec

VARIABLE probe

Number(value) == MapThenSumSet(LAMBDA i : value[i] * Limb^i, Place)
Digits(n) == [i \in Index |-> (n \div Byte^(TargetBytes - 1 - i)) % Byte]
Wide(n) == [i \in Place |-> (n \div Limb^i) % Limb]

\* Numbers at, just below and just above every power of two, and two that fill
\* the bits in between.
Edges(bits) == UNION {{2^b - 1, 2^b, 2^b + 1} : b \in 0..bits - 1}
               \cup {2^bits - 1, (2^bits - 1) \div 3, (2^bits - 1) \div 5, (2^bits - 1) \div 7}

Rules == [anchor_bits : {TargetToCompact(Digits(n)) : n \in {1, 5, 63, 64, 4095, 65536, 1048575}},
          anchor_time : {0}, spacing : {2}, half_life : {3, 4},
          pow_limit_bits : {TargetToCompact(Digits(n)) : n \in {65536, 16777215}}]

\* Values of the wire forms, the smallest of each among them.
Spend == <<<<<<1>>, <<0>>>>, <<5>>>>
Mint == <<<<<<0>>, <<Base - 1>>>>, <<0>>>>
Pay(program) == <<<<3, 1>>, <<<<1>>, program>>>>
Bare == <<<<<<1>>, <<0>>, <<>>>>, <<>>>>
Full == <<<<<<1>>, <<1>>, <<<<<<1>>, <<2, 2>>>>>>>>, <<<<<<1>>, <<>>>>>>>>
Tx(inputs, outputs, section) == <<<<1>>, inputs, outputs, <<0>>, section>>
Header == <<<<1>>, <<0>>, <<1>>, <<2>>, <<0, 1>>, <<3>>, <<4, 4>>>>
Txs == {Tx(<<>>, <<>>, <<>>), Tx(<<Mint>>, <<Pay(<<>>)>>, <<4, 0>>), Tx(<<Mint>>, <<>>, <<>>),
        Tx(<<Spend>>, <<Pay(<<1>>)>>, <<Bare>>), Tx(<<Spend, Mint>>, <<Pay(<<1, 2>>), Pay(<<>>)>>, <<Full, Bare>>)}
Form == [String |-> String(MaxItems), Witness |-> Witness, Transaction |-> Transaction, Coin |-> Coin,
         Block |-> Block, StoredHeader |-> StoredHeader, BlockUndo |-> BlockUndo, Hello |-> Hello,
         GetHeaders |-> GetHeaders, Headers |-> Headers, Empty |-> Empty, GetData |-> GetData,
         Ping |-> Ping, Addr |-> Addr, Metadata |-> Metadata]
Sample(form, values) == [kind : {"value"}, form : {form}, value : values]
Samples ==
    UNION {Sample("Transaction", Txs), Sample("Witness", {Bare, Full}),
           Sample("Block", {<<Header, txs>> : txs \in SeqOf(Txs, 2)}),
           Sample("StoredHeader", {<<Header, <<0, 1>>, <<2>>, <<1>>>>}),
           Sample("BlockUndo", {<<>>, <<<<>>>>, <<<<>>, <<<<<<2>>, <<1>>, Pay(<<1>>)>>>>>>}),
           Sample("Hello", {<<<<1>>, <<0, 0>>, <<1, 1>>, <<3>>, <<2>>, <<5, 5>>, ua>> : ua \in {<<>>, <<1, 2>>}}),
           Sample("GetHeaders", {<<<<1>>, hashes, <<0>>>> : hashes \in {<<>>, <<<<1>>>>, <<<<1>>, <<2>>, <<3>>>>}}),
           Sample("Headers", {<<<<>>>>, <<<<Header, Header>>>>}), Sample("Empty", {<<>>}),
           Sample("GetData", {<<<<>>>>, <<<<<<<<2>>, <<1>>>>>>>>}), Sample("Ping", {<<<<1, 0>>>>}),
           Sample("Metadata", {<<<<2>>, accounts>> :
                                  accounts \in SeqOf([1..5 -> {<<1>>}] \cup {<<<<>>, <<0>>, <<5>>, <<2>>, <<>>>>}, 3)}),
           Sample("Addr", {<<<<>>>>, <<<<<<<<4>>, <<1, 2>>, <<3>>>>>>>>})}
Messages == [command : {0, 3}, payload : {<<>>, <<1>>, <<0, 5>>}]
Leaves == SeqOf({<<"id", "a">>, <<"id", "b">>, Branch(<<"leaf", <<"id", "a">>>>, <<"leaf", <<"id", "b">>>>)}, 4)

Probes ==
    \/ probe \in [kind : {"limbs"}, value : Edges(LimbBits * LimbCount), factor : {0, 1, 16, 31, 63},
             bits : {0, 1, 5, 6, 7, 11, 12, 24, 29, 30, 40}]
    \/ probe \in [kind : {"target"}, value : {n \in Edges(24) : n < Space}]
    \/ probe \in [kind : {"asert"}, rule : Rules, height : 0..3, time : -12..60]
    \/ probe \in [kind : {"bytes"}, form : {"String", "Witness"}, bytes : SeqOf(0..Base - 1, 5)]
    \/ probe \in [kind : {"bytes"}, form : {"Transaction", "Coin", "Metadata"}, bytes : SeqOf({0, 1, Base - 1}, 8)]
    \/ probe \in Samples
    \/ probe \in [kind : {"block"}, inputs : 1..3, outputs : 1..3, count : 0..6]
    \/ probe \in [kind : {"stream"}, messages : SeqOf(Messages, 2), cut : 0..12]
    \/ probe \in [kind : {"merkle"}, wtxids : Leaves]
    \/ probe \in [kind : {"issuance"}, era_blocks : 0..3, initial_reward : 0..30, height : 0..50]

\* The limb routines of asert.cpp compute the product and the shifts of the
\* numbers they hold, and report overflow exactly when a set bit is lost.
LimbsExact ==
    probe.kind = "limbs" =>
        LET w == Wide(probe.value)
            span == Limb^LimbCount - 1
            product == MultiplySmall(w, probe.factor)
            left == ShiftLeft(w, probe.bits)
            fits == \/ probe.value = 0
                    \/ probe.bits <= 30 /\ probe.value <= span \div 2^probe.bits
        IN  /\ product.overflow = (probe.factor # 0 /\ probe.value > span \div probe.factor)
            /\ ~product.overflow => Number(product.value) = probe.value * probe.factor
            /\ left.overflow = ~fits
            /\ fits => Number(left.value) = (IF probe.value = 0 THEN 0 ELSE probe.value * 2^probe.bits)
            /\ Number(ShiftRight(w, probe.bits)) =
                   (IF probe.bits > 30 THEN 0 ELSE probe.value \div 2^probe.bits)

\* Every target TargetToCompact is given has an encoding the decoder accepts: it
\* stands for a target no easier than the original, and within one unit of the
\* last mantissa byte of it.
CompactRoundsDown ==
    probe.kind = "target" /\ probe.value > 0 =>
        LET bits == TargetToCompact(Digits(probe.value))
            back == CompactToTarget(bits)
            exponent == bits \div Mantissa
        IN  /\ back # NoTarget
            /\ Magnitude(back) <= probe.value
            /\ probe.value - Magnitude(back) < (IF exponent > 3 THEN Byte^(exponent - 3) ELSE 1)

\* Work::OfTarget is the exact quotient of the hash space by target + 1, rounding
\* a target to its compact form never lowers its work, and a hash meets a target
\* exactly when it is at most the target.
WorkIsQuotient ==
    probe.kind = "target" /\ probe.value > 0 =>
        /\ OfTarget(probe.value) = Space \div (probe.value + 1)
        /\ OfCompactTarget(TargetToCompact(Digits(probe.value))) >= OfTarget(probe.value)
        /\ \A n \in {probe.value - 1, probe.value, probe.value + 1} \cap 0..Space - 1 :
              HashMeetsTarget([i \in Index |-> Digits(n)[TargetBytes - 1 - i]], Digits(probe.value))
                  <=> n <= probe.value

\* What the ASERT rule means: the anchor target times the factor of the fraction,
\* times two to the whole half-lives, at least one and at most the limit.
Meant(rule, height, time) ==
    LET limit == Magnitude(CompactToTarget(rule.pow_limit_bits))
        anchor == Min({limit, Magnitude(CompactToTarget(rule.anchor_bits))})
        behind == time - rule.anchor_time - rule.spacing * height
        scaled == IF behind < 0 THEN -((-behind * Radix) \div rule.half_life)
                  ELSE (behind * Radix) \div rule.half_life
        exponent == Clamp(scaled, -Saturation, Saturation)
        whole == exponent \div Radix - RadixBits
        product == anchor * FractionFactor(exponent % Radix)
        exact == IF whole > 0
                 THEN IF product > limit \div 2^whole THEN limit ELSE product * 2^whole
                 ELSE product \div 2^(-whole)
    IN  IF height = 0 THEN anchor ELSE Clamp(exact, 1, limit)

\* AsertNextBits encodes exactly the target the rule means: the limb arithmetic,
\* the bitwise division, the saturation and the clamps lose nothing.
AsertExact ==
    probe.kind = "asert" =>
        AsertNextBits(probe.rule, probe.height, probe.time)
            = TargetToCompact(Digits(Meant(probe.rule, probe.height, probe.time)))

\* A chain whose tip is later is never asked for a harder target, and one that is
\* a block further along in the same time never for an easier one.
AsertMonotone ==
    probe.kind = "asert" /\ probe.height > 0 =>
        LET params == [genesis_bits |-> probe.rule.anchor_bits,
                       genesis_timestamp |-> probe.rule.anchor_time,
                       target_block_seconds |-> probe.rule.spacing,
                       asert_half_life_seconds |-> probe.rule.half_life,
                       pow_limit_bits |-> probe.rule.pow_limit_bits]
            heights == {probe.height, probe.height + 1}
            times == {probe.time, probe.time + 1}
        IN  \A ease \in {[h \in heights, t \in times |-> Magnitude(CompactToTarget(NextBits(params, h, t)))]} :
            /\ ease[probe.height, probe.time] <= ease[probe.height, probe.time + 1]
            /\ ease[probe.height, probe.time] >= ease[probe.height + 1, probe.time]

\* Every structure has one encoding: bytes that a decoder accepts are the bytes
\* the encoder writes for what it decoded, so ids cannot be changed on the wire.
OneEncoding ==
    probe.kind = "bytes" =>
        LET decoded == Decode(Form[probe.form], probe.bytes)
        IN  decoded.ok => Write(Form[probe.form], decoded.value) = probe.bytes

\* What a node encodes, every node decodes to the same value: no size floor or
\* count limit refuses it, and no part of the encoding is an encoding by itself.
RoundTrips ==
    probe.kind = "value" =>
        LET bytes == Write(Form[probe.form], probe.value)
        IN  /\ Decode(Form[probe.form], bytes) = Got(probe.value, <<>>)
            /\ \A n \in 0..Len(bytes) - 1 : ~Decode(Form[probe.form], SubSeq(bytes, 1, n)).ok

\* The count limits of the decoder, which params.hpp derives from the weight cap,
\* never refuse a block of well-formed transactions that is within the cap.
LimitsAdmitWeight ==
    probe.kind = "block" =>
        LET tx == Tx([i \in 1..probe.inputs |-> Spend], [i \in 1..probe.outputs |-> Pay(<<>>)],
                     [i \in 1..probe.inputs |-> Bare])
            block == <<Header, [i \in 1..probe.count |-> tx]>>
        IN  BlockWeight(block) <= MaxBlockWeight => Decode(Block, Write(Block, block)).ok

\* The messages framed from a buffer, and the bytes kept for the next read.
RECURSIVE Drain(_)
Drain(buffer) ==
    LET framed == FrameMessage(buffer, 2)
    IN  IF framed.result # "Complete" THEN [messages |-> <<>>, kept |-> buffer]
        ELSE LET more == Drain(SubSeq(buffer, framed.consumed + 1, Len(buffer)))
             IN  [messages |-> <<[command |-> framed.command, payload |-> framed.payload]>>
                                   \o more.messages, kept |-> more.kept]

\* The messages a peer sent come out of the framer whole and in order wherever
\* the stream was cut between two reads.
FramesSurviveCuts ==
    probe.kind = "stream" =>
        LET stream == FlattenSeq([i \in DOMAIN probe.messages |->
                          SerialiseMessage(probe.messages[i].command, probe.messages[i].payload, 2)])
            cut == Min({probe.cut, Len(stream)})
            early == Drain(SubSeq(stream, 1, cut))
            late == Drain(early.kept \o SubSeq(stream, cut + 1, Len(stream)))
        IN  early.messages \o late.messages = probe.messages /\ late.kept = <<>>

\* Two different lists of transactions never have the same Merkle root, also when
\* one repeats its last entries or holds the hash of an inner node.
MerkleBinds ==
    probe.kind = "merkle" =>
        \A other \in Leaves :
            ComputeMerkleRoot(other) = ComputeMerkleRoot(probe.wtxids) => other = probe.wtxids

\* The rewards of all blocks below a height never sum to more than TotalIssuance,
\* reach it exactly at IssuanceEndHeight, and are zero from there on.
SupplyCapped ==
    probe.kind = "issuance" =>
        LET end == IssuanceEndHeight(probe)
            minted == MapThenSumSet(LAMBDA h : BlockReward(h, probe), 0..probe.height - 1)
        IN  /\ minted <= TotalIssuance(probe)
            /\ probe.height >= end => /\ minted = TotalIssuance(probe)
                                      /\ BlockReward(probe.height, probe) = 0
            /\ probe.height < end => BlockReward(probe.height, probe) > 0
=============================================================================

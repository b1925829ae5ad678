---------------------------- MODULE HeaderRules ----------------------------
(***************************************************************************)
(* The rules a block header is judged by: consensus/validation.cpp         *)
(* (CheckBlockHeader, MedianTimePast, ContextualCheckBlockHeader) and the  *)
(* context chain/block_index.cpp builds for them (Ancestor,                *)
(* MedianTimePastAt, NextTargetBits, HeaderContextFor).                    *)
(*                                                                         *)
(* A block is named by its hash, so a block IS its name: Header[b] is the  *)
(* header whose hash is b, and the name of a predecessor that no node has  *)
(* is simply not a member of Block.  A compact target is modelled by the   *)
(* number it encodes (0 for an encoding that decodes to nothing) and the   *)
(* digest of a header by the number compared with the target.              *)
(***************************************************************************)
EXTENDS Integers, Sequences, FiniteSets

CONSTANTS
    Block,              \* the hashes of every header that can be offered
    Genesis,            \* the chain parameter every index is seeded with
    Header,             \* [Block -> [prev, height, bits, time, digest, root]]
    HashSpace,          \* the number of digests, 2^256 in the code
    PowLimit,           \* params.pow_limit_bits, as a target
    TrivialDifficulty,  \* params.trivial_difficulty (regtest)
    AllowMinDifficulty, \* params.allow_min_difficulty_blocks (testnet)
    Spacing,            \* params.target_block_seconds
    AsertNextBits(_, _),\* consensus::AsertNextBits(params, height, time)
    MedianTimeSpan,     \* MEDIAN_TIME_SPAN
    MaxFuture,          \* MAX_FUTURE_BLOCK_SECONDS
    MaxTime,            \* the largest int64_t
    MaxHeight           \* the largest uint32_t

ASSUME HeaderAssumption ==
    /\ Genesis \in Block
    /\ \A b \in Block : /\ Header[b].height \in 0..MaxHeight
                        /\ Header[b].bits \in Nat
                        /\ Header[b].time \in 0..MaxTime
                        /\ Header[b].digest \in Nat
    /\ Header[Genesis].height = 0
    /\ Header[Genesis].prev \notin Block
    /\ MaxHeight \in Nat /\ MaxTime \in Nat

ASSUME ParamAssumption ==
    /\ HashSpace \in Nat /\ PowLimit \in Nat /\ PowLimit < HashSpace
    /\ Spacing \in Nat /\ MaxFuture \in Nat
    /\ MedianTimeSpan \in Nat \ {0}
    /\ TrivialDifficulty \in BOOLEAN /\ AllowMinDifficulty \in BOOLEAN

-----------------------------------------------------------------------------
\* Work::OfCompactTarget: the expected number of attempts, none for no target.
WorkOf(bits) == IF bits = 0 THEN 0 ELSE HashSpace \div (bits + 1)

\* The digest is at or under a usable target that is no easier than the floor.
CheckBlockHeader(b) ==
    /\ Header[b].bits # 0
    /\ Header[b].bits <= PowLimit
    /\ Header[b].digest <= Header[b].bits

\* A block and the ones its parent links lead to, genesis first.
Lineage[b \in Block] ==
    IF Header[b].prev \in Block THEN Append(Lineage[Header[b].prev], b) ELSE <<b>>

\* A hash is not among the ancestors of the header it names, so following parent
\* links ends and the equation above has its solution.
ASSUME LineageAssumption ==
    \A b \in Block :
        /\ Lineage[b] \in Seq(Block)
        /\ Lineage[b] = IF Header[b].prev \in Block
                        THEN Append(Lineage[Header[b].prev], b) ELSE <<b>>

Ancestor(b, height) == Lineage[b][height + 1]

\* The element at position size/2 of the times of a block and its nearest
\* ancestors, MedianTimeSpan of them or as many as there are.
MedianTimePastAt(b) ==
    LET oldest == IF Header[b].height < MedianTimeSpan THEN 0
                  ELSE Header[b].height - MedianTimeSpan + 1
        window == {Ancestor(b, h) : h \in oldest..Header[b].height}
        Upto(t)  == Cardinality({a \in window : Header[a].time <= t})
        Below(t) == Cardinality({a \in window : Header[a].time < t})
        middle == Cardinality(window) \div 2
    IN  CHOOSE t \in {Header[a].time : a \in window} :
            Below(t) <= middle /\ middle < Upto(t)

\* The target a child of `parent` stamped `time` must carry.
NextTargetBits(parent, time) ==
    LET gapIsLarge == /\ Spacing > 0
                      /\ Header[parent].time <= MaxTime - 2 * Spacing
                      /\ time > Header[parent].time + 2 * Spacing
    IN  IF TrivialDifficulty \/ (AllowMinDifficulty /\ gapIsLarge)
        THEN PowLimit
        ELSE AsertNextBits(Header[parent].height, Header[parent].time)

\* ContextualCheckBlockHeader in the context HeaderContextFor(parent, now), of
\* any header and of the header of a block.
Follows(header, parent, now) ==
    /\ header.prev = parent
    /\ Header[parent].height # MaxHeight
    /\ header.height = Header[parent].height + 1
    /\ header.bits = NextTargetBits(parent, header.time)
    /\ header.time > MedianTimePastAt(parent)
    /\ now + MaxFuture <= MaxTime
    /\ header.time <= now + MaxFuture
ContextualCheckBlockHeader(b, parent, now) == Follows(Header[b], parent, now)
=============================================================================

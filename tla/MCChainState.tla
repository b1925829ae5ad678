---------------------------- MODULE MCChainState ----------------------------
(***************************************************************************)
(* Universes of blocks for ChainState.  Every block is worth the same work *)
(* unless its bits say otherwise, so length and order of arrival decide.   *)
(***************************************************************************)
EXTENDS ChainState

MCAsert(height, time) == 1
MCReward(height) == 2

Blk(prev, height, root) ==
    [prev |-> prev, height |-> height, bits |-> 1, time |-> height,
     digest |-> 1, root |-> root]

Coinbase(height) ==
    [inputs |-> <<>>, outputs |-> <<[amount |-> 2, burn |-> FALSE]>>, sequence |-> height]
Spend(from) ==
    [inputs |-> <<<<from, 1>>>>, outputs |-> <<[amount |-> 2, burn |-> FALSE]>>,
     sequence |-> 0]

-----------------------------------------------------------------------------
\* Two branches over a1 that confirm the same payment at different heights.
ForkTx == [k0 |-> Coinbase(0), k1 |-> Coinbase(1), k2 |-> Coinbase(2), j2 |-> Coinbase(2),
           j3 |-> Coinbase(3), pay |-> Spend("k1"), next |-> Spend("pay")]
ForkHeader ==
    [g  |-> Blk("none", 0, <<"k0">>),
     a1 |-> Blk("g", 1, <<"k1">>),
     a2 |-> Blk("a1", 2, <<"k2", "pay">>),
     b2 |-> Blk("a1", 2, <<"j2">>),
     b3 |-> Blk("b2", 3, <<"j3", "pay", "next">>)]
ForkBlock == DOMAIN ForkHeader
ForkTxs == DOMAIN ForkTx
ForkBodies == [b \in ForkBlock |-> {ForkHeader[b].root} \ {<<"k0">>}]

-----------------------------------------------------------------------------
\* Two branches over genesis, the longer one spending its own coinbase.
RivalTx == [k0 |-> Coinbase(0), k1 |-> Coinbase(1), j1 |-> Coinbase(1),
            j2 |-> Coinbase(2), pay |-> Spend("j1")]
RivalHeader ==
    [g  |-> Blk("none", 0, <<"k0">>),
     a1 |-> Blk("g", 1, <<"k1">>),
     b1 |-> Blk("g", 1, <<"j1">>),
     b2 |-> Blk("b1", 2, <<"j2", "pay">>)]
RivalBlock == DOMAIN RivalHeader
RivalTxs == DOMAIN RivalTx
RivalBodies == [b \in RivalBlock |-> {RivalHeader[b].root} \ {<<"k0">>}]

-----------------------------------------------------------------------------
\* A right block of the least difficulty, allowed after a long gap; against it a
\* heavier branch whose first block spends a coin its own ancestry never created
\* and whose second is not even a block: it has two coinbases.
WrongTx == [k0 |-> Coinbase(0), k1 |-> Coinbase(1), j1 |-> Coinbase(1),
            j2 |-> Coinbase(2), stray |-> Spend("k1")]
WrongTxs == DOMAIN WrongTx
WrongHeader ==
    [g  |-> Blk("none", 0, <<"k0">>),
     a1 |-> [Blk("g", 1, <<"k1">>) EXCEPT !.bits = 3, !.time = 3],
     b1 |-> Blk("g", 1, <<"j1", "stray">>),
     b2 |-> Blk("b1", 2, <<"j2", "j2">>)]
WrongBlock == DOMAIN WrongHeader
WrongBodies == [b \in WrongBlock |-> {WrongHeader[b].root} \ {<<"k0">>}]
=============================================================================

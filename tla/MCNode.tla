------------------------------- MODULE MCNode -------------------------------
(***************************************************************************)
(* A branch that confirms a payment, a longer one that does not, and the   *)
(* transactions that depend on it.                                         *)
(***************************************************************************)
EXTENDS Node

MCAsert(height, time) == 1
MCReward(height) == 10

Blk(prev, height, root) ==
    [prev |-> prev, height |-> height, bits |-> 1, time |-> height,
     digest |-> 1, root |-> root]
Coinbase(height) ==
    [inputs |-> <<>>, sequence |-> height,
     outputs |-> <<[amount |-> 5, burn |-> FALSE], [amount |-> 5, burn |-> FALSE]>>]
Pay(from, amount) ==
    [inputs |-> <<from>>, outputs |-> <<[amount |-> amount, burn |-> FALSE]>>,
     sequence |-> 0]

\* `rich` outbids pay and next, and `young` spends a
\* coinbase of the shorter branch.
MCTxData ==
    [k0 |-> Coinbase(0), k1 |-> Coinbase(1), k2 |-> Coinbase(2), j2 |-> Coinbase(2),
     j3 |-> Coinbase(3),
     pay |-> Pay(<<"k1", 1>>, 4), next |-> Pay(<<"pay", 1>>, 2),
     rich |-> Pay(<<"k1", 1>>, 1),
     young |-> Pay(<<"k2", 1>>, 2)]
MCTx == DOMAIN MCTxData
MCHeader ==
    [g  |-> Blk("none", 0, <<"k0">>),
     a1 |-> Blk("g", 1, <<"k1">>),
     a2 |-> Blk("a1", 2, <<"k2", "pay">>),
     b2 |-> Blk("a1", 2, <<"j2">>),
     b3 |-> Blk("b2", 3, <<"j3">>)]
MCBlock == DOMAIN MCHeader
MCBodies == [b \in MCBlock |-> {MCHeader[b].root} \ {<<"k0">>}]
MCWeight == [t \in MCTx |-> 1]
MCRank == [k0 |-> 10, k1 |-> 11, k2 |-> 12, j2 |-> 13, j3 |-> 14,
           pay |-> 2, next |-> 1, rich |-> 3, young |-> 4]
=============================================================================

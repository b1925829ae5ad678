----------------------------- MODULE MCMempool ------------------------------
(***************************************************************************)
(* A tree of four transactions over one coin, two rivals for its links,    *)
(* and two transactions over a second coin.  Amounts are chosen so that    *)
(* replacements and evictions go either way.                               *)
(***************************************************************************)
EXTENDS Mempool

MCReward(height) == 20

Out(n) == [amount |-> n, burn |-> FALSE]
Coinbase(height, n) ==
    [inputs |-> <<>>, outputs |-> <<Out(n), Out(n)>>, sequence |-> height]
Pay(from, n) ==
    [inputs |-> from, outputs |-> <<Out(n)>>, sequence |-> 0]

\* Fees: a 1, b 4, c 1, rival of b 7, rival of a 9, d 6, lone 8, join 2.
MCTxData ==
    [base  |-> Coinbase(1, 20),
     a     |-> [inputs |-> <<<<"base", 1>>>>, outputs |-> <<Out(10), Out(9)>>, sequence |-> 0],
     b     |-> Pay(<<<<"a", 1>>>>, 6),
     c     |-> Pay(<<<<"b", 1>>>>, 5),
     rivalB |-> Pay(<<<<"a", 1>>>>, 3),
     d     |-> Pay(<<<<"a", 2>>>>, 3),
     rivalA |-> Pay(<<<<"base", 1>>>>, 11),
     lone  |-> Pay(<<<<"base", 2>>>>, 12),
     join  |-> Pay(<<<<"lone", 1>>, <<"a", 1>>>>, 20)]
MCTx == DOMAIN MCTxData
MCWeight == [t \in MCTx |->
    CASE t = "rivalA" -> 3 [] t \in {"lone", "d"} -> 2 [] OTHER -> 1]
MCRank == [base |-> 0, a |-> 4, b |-> 2, c |-> 7, rivalB |-> 1, rivalA |-> 3,
           lone |-> 6, join |-> 5, d |-> 8]

Coins(S) == [o \in OutPoint |-> IF o \in S THEN 1 ELSE NoCoin]
MCViews ==
    {[coins |-> Coins({<<"base", 1>>, <<"base", 2>>}), height |-> 3],
     [coins |-> Coins({<<"a", 1>>, <<"a", 2>>, <<"base", 2>>}), height |-> 4],
     [coins |-> Coins({<<"base", 1>>}), height |-> 1]}
MCConfirmed == {<<"base", "a">>, <<"base", "rivalA">>, <<"base", "lone", "join">>}
=============================================================================

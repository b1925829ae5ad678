-------------------------------- MODULE Utxo --------------------------------
(***************************************************************************)
(* The unspent output set as a function and the edits a block makes to it: *)
(* utxo/connect.cpp, with the input rules of consensus/validation.cpp.     *)
(*                                                                         *)
(* An output is named by <<transaction, position>>, and a transaction is   *)
(* its id, so amount, lock and coinbase flag of a Coin are fixed by its    *)
(* outpoint.  The one field that depends on the branch is the height it    *)
(* was created at, and a set of coins maps every outpoint to that height,  *)
(* or to NoCoin.                                                           *)
(***************************************************************************)
EXTENDS Integers, Sequences, FiniteSetsExt

CONSTANTS
    Tx,                \* transaction ids
    TxData,            \* [Tx -> [inputs, outputs, sequence]]: inputs are the
                       \* outpoints spent, none for a coinbase, whose one input
                       \* names the null outpoint and carries `sequence`
    WellFormed,        \* the transactions CheckTransaction accepts
    Authorised,        \* the ones whose witnesses satisfy every lock they open
    BlockReward(_),    \* consensus::BlockReward by height
    CoinbaseMaturity,  \* params.coinbase_maturity
    MaxMoney,          \* MAX_MONEY
    MaxTransactions    \* block_limits.max_transactions, and the weight limit

ASSUME TxAssumption ==
    /\ \A t \in Tx : /\ TxData[t].inputs \in Seq(Tx \X (Nat \ {0}))
                     /\ TxData[t].outputs \in Seq([amount: Nat, burn: BOOLEAN])
    /\ WellFormed \subseteq Tx /\ Authorised \subseteq Tx
    /\ CoinbaseMaturity \in Nat /\ MaxMoney \in Nat /\ MaxTransactions \in Nat

Inputs(t)  == TxData[t].inputs
Outputs(t) == TxData[t].outputs
IsCoinbase(t) == Inputs(t) = <<>>

OutPoint == UNION {{<<t, i>> : i \in DOMAIN Outputs(t)} : t \in Tx}
NoCoin == -1
NoCoins == [o \in OutPoint |-> NoCoin]
IsCoins(coins) == coins \in [OutPoint -> Nat \cup {NoCoin}]

IsValidAmount(n) == n \in 0..MaxMoney
AmountOf(o) == Outputs(o[1])[o[2]].amount

Spends(t) == Range(Inputs(t))
\* IsStored: an output no lock can open never enters the set.
Created(t) == {<<t, i>> : i \in {j \in DOMAIN Outputs(t) : ~Outputs(t)[j].burn}}

InputSum(t)  == MapThenSumSet(AmountOf, Spends(t))
OutputSum(t) == MapThenSumSet(LAMBDA i : Outputs(t)[i].amount, DOMAIN Outputs(t))

-----------------------------------------------------------------------------
(* One transaction, forwards.                                              *)

\* Every SpendCoin of the input loop finds a coin; a repeated outpoint finds
\* nothing the second time.
SpendsCoins(coins, t) ==
    /\ IsInjective(Inputs(t))
    /\ \A o \in Spends(t) : o \in OutPoint /\ coins[o] # NoCoin

SpentCoins(coins, t) == [i \in DOMAIN Inputs(t) |-> coins[Inputs(t)[i]]]

\* Maturity, then the fee, then the signatures.
CheckTransactionInputs(coins, t, height) ==
    /\ \A o \in Spends(t) :
          IsCoinbase(o[1]) => height - coins[o] >= CoinbaseMaturity
    /\ IsValidAmount(InputSum(t)) /\ IsValidAmount(OutputSum(t))
    /\ OutputSum(t) <= InputSum(t)
    /\ \A o \in Spends(t) : ~Outputs(o[1])[o[2]].burn
    /\ t \in Authorised

TransactionFee(t) == InputSum(t) - OutputSum(t)

\* Every AddCoin of the output loop finds the outpoint free.
CreatesFresh(coins, t) ==
    \A o \in Created(t) : coins[o] = NoCoin \/ o \in Spends(t)

CanApply(coins, t, height) ==
    /\ ~IsCoinbase(t) => /\ SpendsCoins(coins, t)
                         /\ CheckTransactionInputs(coins, t, height)
    /\ CreatesFresh(coins, t)

AfterTx(coins, t, height) ==
    [o \in OutPoint |-> IF o \in Created(t) THEN height
                        ELSE IF o \in Spends(t) THEN NoCoin
                        ELSE coins[o]]

(* One transaction, backwards.                                             *)

\* What it created is there and is what it created; what it spent is not.
CanRevert(coins, t, height, spent) ==
    /\ \A o \in Created(t) : coins[o] = height
    /\ Len(spent) = Len(Inputs(t))
    /\ \A o \in Spends(t) : coins[o] = NoCoin \/ o \in Created(t)

BeforeTx(coins, t, spent) ==
    [o \in OutPoint |->
        IF o \in Spends(t) THEN spent[CHOOSE i \in DOMAIN Inputs(t) : Inputs(t)[i] = o]
        ELSE IF o \in Created(t) THEN NoCoin
        ELSE coins[o]]

-----------------------------------------------------------------------------
(* A whole block, whose transactions are `body`.                           *)

\* CheckCoinbaseAmount.
CheckCoinbaseAmount(body, height, fees) ==
    /\ IsValidAmount(OutputSum(body[1]))
    /\ OutputSum(body[1]) <= BlockReward(height) + fees

\* ConnectBlock.  undo has one entry per transaction but the coinbase.
ConnectBlock(body, height, coins) ==
    LET Step(r, i) ==
            LET t == body[i]
                fees == IF i = 1 THEN 0 ELSE r.fees + TransactionFee(t)
            IN  IF /\ r.ok
                   /\ IsCoinbase(t) = (i = 1)
                   /\ CanApply(r.coins, t, height)
                   /\ IsValidAmount(fees)
                THEN [ok |-> TRUE,
                      coins |-> AfterTx(r.coins, t, height),
                      undo |-> IF i = 1 THEN r.undo
                               ELSE Append(r.undo, SpentCoins(r.coins, t)),
                      fees |-> fees]
                ELSE [r EXCEPT !.ok = FALSE]
        after[i \in 0..Len(body)] ==
            IF i = 0
            THEN [ok |-> Len(body) > 0, coins |-> coins, undo |-> <<>>, fees |-> 0]
            ELSE Step(after[i - 1], i)
        last == after[Len(body)]
    IN  IF last.ok /\ CheckCoinbaseAmount(body, height, last.fees)
        THEN last ELSE [last EXCEPT !.ok = FALSE, !.coins = coins]

\* DisconnectBlock, last transaction first.
DisconnectBlock(body, height, undo, coins) ==
    LET SpentBy(i) == IF i = 1 THEN <<>> ELSE undo[i - 1]
        Step(i, r) ==
            IF r.ok /\ CanRevert(r.coins, body[i], height, SpentBy(i))
            THEN [ok |-> TRUE, coins |-> BeforeTx(r.coins, body[i], SpentBy(i))]
            ELSE [r EXCEPT !.ok = FALSE]
        undone[n \in 0..Len(body)] ==
            IF n = 0
            THEN [ok |-> Len(body) > 0 /\ Len(undo) + 1 = Len(body), coins |-> coins]
            ELSE Step(Len(body) + 1 - n, undone[n - 1])
        first == undone[Len(body)]
    IN  IF first.ok THEN first ELSE [ok |-> FALSE, coins |-> coins]

\* CheckBlock's rules about the transactions.  A Merkle root stands for the
\* list it was computed from.
CheckBody(body, height, root) ==
    /\ Len(body) \in 1..MaxTransactions
    /\ \A i \in DOMAIN body : IsCoinbase(body[i]) <=> i = 1
    /\ TxData[body[1]].sequence = height
    /\ body = root
    /\ Range(body) \subseteq WellFormed
    /\ \A i, j \in DOMAIN body : i # j => Spends(body[i]) \cap Spends(body[j]) = {}
=============================================================================

---------------------------- MODULE WalletCoins ----------------------------
(***************************************************************************)
(* The money side of the wallet: finding its coins on the active chain     *)
(* (Wallet::Rescan), choosing coins for a payment (SelectCoins), building  *)
(* the payment (TxBuilder, Wallet::SendToLock) and estimating fees.        *)
(*                                                                         *)
(* A lock is the path it is derived from, <<seed, account, index>>, or any *)
(* other value for a lock that is not the wallet's.  A transaction is      *)
(* [id, ins, outs, coinbase] with outpoints <<id, n>>.                     *)
(***************************************************************************)
EXTENDS Accounts, SequencesExt, FiniteSetsExt

NullLock == <<>>

DeriveLock(wallet, id, index) ==
    IF HasAccount(wallet.accounts, id) THEN <<wallet.seed, id, index>> ELSE NullLock

Owned(wallet) ==
    UNION {{DeriveLock(wallet, account.id, index) : index \in 0..account.highest} :
              account \in ToSet(wallet.accounts)}

-----------------------------------------------------------------------------
(* Rescan *)

Amounts(entries) == FoldLeft(LAMBDA sum, e : sum + e.amount, 0, entries)

ScanTx(wallet, tx, height) ==
    LET mine == Owned(wallet)
        spent == SelectSeq(wallet.utxos, LAMBDA u : u.outpoint \in tx.ins)
        kept == SelectSeq(wallet.utxos, LAMBDA u : u.outpoint \notin tx.ins)
        entries == [n \in DOMAIN tx.outs |->
                       [outpoint |-> <<tx.id, n>>, amount |-> tx.outs[n].amount, lock |-> tx.outs[n].lock,
                        height |-> height, coinbase |-> tx.coinbase]]
        got == SelectSeq(entries, LAMBDA u : u.lock \in mine)
        sent == Amounts(spent)
        received == Amounts(got)
        record == [height |-> height, received |-> received, sent |-> sent,
                   fee |-> IF sent > received /\ ~tx.coinbase THEN sent - received ELSE 0]
    IN  [wallet EXCEPT !.utxos = kept \o got,
                       !.txs = IF spent = <<>> /\ got = <<>> THEN @
                               ELSE [id \in DOMAIN @ \cup {tx.id} |-> IF id = tx.id THEN record ELSE @[id]]]

ScanBlock(wallet, block) == FoldLeft(LAMBDA w, tx : ScanTx(w, tx, block.height), wallet, block.txs)

IsMature(entry, tip_height, maturity) ==
    ~entry.coinbase \/ tip_height >= entry.height + maturity

Balance(wallet, maturity) ==
    LET Ready(u) == IsMature(u, wallet.tip_height, maturity)
    IN  [confirmed |-> Amounts(SelectSeq(wallet.utxos, Ready)),
         pending |-> Amounts(SelectSeq(wallet.utxos, LAMBDA u : ~Ready(u)))]

TipHeight(blocks) == IF blocks = <<>> THEN 0 ELSE Last(blocks).height

\* Mutant: the coins found by the last scan are kept, as if chains only grew.
RescanOnTop(wallet, blocks) ==
    FoldLeft(ScanBlock, [wallet EXCEPT !.tip_height = TipHeight(blocks)], blocks)
Rescan(wallet, blocks) ==
    FoldLeft(ScanBlock, [wallet EXCEPT !.utxos = <<>>, !.tip_height = TipHeight(blocks)], blocks)

-----------------------------------------------------------------------------
(* Coin selection *)

InputWeight(sig_bytes) == 36 * 4 + sig_bytes
OutputWeight == 4 * (8 + 1 + 1 + 32)
EstimateTxWeight(inputs, outputs, sig_bytes) ==
    10 * 4 + inputs * InputWeight(sig_bytes) + outputs * OutputWeight
DustForFeeRate(fee_rate) == (InputWeight(72) + OutputWeight) * fee_rate
DustThreshold == 1000
DefaultFeerate == 10

\* What the selection allows for: one output, signatures of 2420 bytes.
EstimatedFee(inputs, fee_rate) == fee_rate * EstimateTxWeight(inputs, 1, 2420)

\* std::sort leaves the order of equal amounts open; here it is the given order.
Sorted(utxos) ==
    LET Before(i, j) == \/ utxos[i].amount > utxos[j].amount
                        \/ utxos[i].amount = utxos[j].amount /\ i < j
        places == SetToSortSeq(DOMAIN utxos, Before)
    IN  [k \in DOMAIN places |-> utxos[places[k]]]

\* Change that is not worth spending is left to the fee.
Settle(inputs, target, fee_rate) ==
    LET fee == EstimatedFee(Len(inputs), fee_rate)
        change == Amounts(inputs) - target - fee
        dust == change < DustForFeeRate(fee_rate)
    IN  [success |-> TRUE, inputs |-> inputs,
         fee |-> IF dust THEN fee + change ELSE fee, change |-> IF dust THEN 0 ELSE change]

\* Mutant: the fee is fixed before the inputs are counted.
CoverFlat(best, target, fee_rate) ==
    LET Enough(k) == Amounts(SubSeq(best, 1, k)) >= target + EstimatedFee(1, fee_rate)
        sizes == {k \in DOMAIN best : Enough(k)}
    IN  IF target <= 0 \/ sizes = {} THEN [success |-> FALSE]
        ELSE Settle(SubSeq(best, 1, Min(sizes)), target, fee_rate)
\* Coins are taken from the largest down until they cover the target and the
\* fee for as many as were taken; both passes of the loop stop there.
Cover(best, target, fee_rate) ==
    LET Enough(k) == Amounts(SubSeq(best, 1, k)) >= target + EstimatedFee(k, fee_rate)
        sizes == {k \in DOMAIN best : Enough(k)}
    IN  IF target <= 0 \/ sizes = {} THEN [success |-> FALSE]
        ELSE Settle(SubSeq(best, 1, Min(sizes)), target, fee_rate)
SelectCoins(utxos, target, fee_rate) == Cover(Sorted(utxos), target, fee_rate)

-----------------------------------------------------------------------------
(* Building a payment *)

\* The key of an input is derived from the account and index of its coin.
Built(selection, payment, change_lock) ==
    IF ~selection.success THEN [built |-> FALSE]
    ELSE [built |-> TRUE, spends |-> selection.inputs,
          outs |-> IF selection.change >= DustThreshold
                   THEN <<payment, [lock |-> change_lock, amount |-> selection.change]>>
                   ELSE <<payment>>]
Build(utxos, recipient, amount, fee_rate) ==
    IF utxos = <<>> THEN [built |-> FALSE]
    ELSE Built(SelectCoins(utxos, amount, fee_rate), [lock |-> recipient, amount |-> amount], utxos[1].lock)

\* The fee a signed transaction reports is what it does not pay out.
FeeOf(built) == Amounts(built.spends) - Amounts(built.outs)

SendToLock(wallet, recipient, amount, given_rate, maturity) ==
    LET spendable == SelectSeq(wallet.utxos, LAMBDA u : IsMature(u, wallet.tip_height, maturity))
        fee_rate == IF given_rate <= 0 THEN DefaultFeerate ELSE given_rate
    IN  Build(spendable, recipient, amount, fee_rate)

-----------------------------------------------------------------------------
(* Fee estimation *)

Window == 100
Recent == 10
MinFeerate == 1

\* Mutant: the percentiles are read from the rates as they came.
FeeSampleUnsorted(rates) ==
    [p10 |-> rates[Len(rates) \div 10 + 1], median |-> rates[Len(rates) \div 2 + 1]]
FeeSample(rates) ==
    LET sorted == SortSeq(rates, <)
    IN  [p10 |-> sorted[Min({Len(rates) \div 10, Len(rates) - 1}) + 1],
         median |-> sorted[Len(rates) \div 2 + 1]]

RecordBlock(samples, rates) ==
    LET grown == Append(samples, FeeSample(rates))
    IN  IF rates = <<>> THEN samples
        ELSE IF Len(grown) > Window THEN Tail(grown) ELSE grown

Estimate(samples) ==
    LET recent == SubSeq(samples, Max({1, Len(samples) - Recent + 1}), Len(samples))
        Mean(Of(_)) == FoldLeft(LAMBDA sum, s : sum + Of(s), 0, recent) \div Len(recent)
        AtLeast(rate) == Max({rate, MinFeerate})
    IN  IF samples = <<>>
        THEN [economy |-> DefaultFeerate, normal |-> 2 * DefaultFeerate, priority |-> 5 * DefaultFeerate]
        ELSE [economy |-> AtLeast(Mean(LAMBDA s : s.p10)),
              normal |-> AtLeast(Mean(LAMBDA s : s.median)),
              priority |-> AtLeast(Mean(LAMBDA s : 2 * s.median))]
=============================================================================

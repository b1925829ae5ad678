----------------------------- MODULE SpendRules -----------------------------
(***************************************************************************)
(* What makes a transaction acceptable by itself, and what makes it a      *)
(* permitted spend: consensus/validation.cpp, over the scheme table and    *)
(* Verify of crypto/signature.cpp and the message of primitives/sighash.   *)
(*                                                                         *)
(* `known` is the set of signature schemes of a build.  A key or signature *)
(* says by `sized` whether it has the length its scheme prescribes.  A     *)
(* commitment is the condition it commits to, and a signature is the key   *)
(* that made it and the message it was made over.                          *)
(***************************************************************************)
EXTENDS Codec, FiniteSetsExt

Reserved == 0            \* SCHEME_RESERVED, CONDITION_VERSION_RESERVED
Threshold == 1           \* CONDITION_VERSION_THRESHOLD
Unspendable == 0         \* LOCK_VERSION_UNSPENDABLE
Commitment == 1          \* LOCK_VERSION_CONDITION_COMMITMENT

HasWrongSize(item, known) == item.scheme \in known /\ ~item.sized

\* PublicKey's order.
Precedes(a, b) == a.scheme < b.scheme \/ (a.scheme = b.scheme /\ a.id < b.id)

CheckSpendCondition(condition, known) ==
    LET keys == condition.keys
    IN  /\ condition.version # Reserved
        /\ condition.version = Threshold =>
              /\ Len(keys) \in 1..MaxKeys
              /\ condition.threshold \in 1..Len(keys)
              /\ \A i \in DOMAIN keys : /\ keys[i].scheme # Reserved
                                        /\ ~HasWrongSize(keys[i], known)
                                        /\ i > 1 => Precedes(keys[i - 1], keys[i])

\* Mutant: spare signatures are ignored.
CheckWitnessSpare(witness, known) ==
    LET condition == witness.condition
    IN  /\ CheckSpendCondition(condition, known)
        /\ condition.version = Threshold => Len(witness.signatures) >= condition.threshold
        /\ \A i \in DOMAIN witness.signatures : ~HasWrongSize(witness.signatures[i], known)
CheckWitness(witness, known) ==
    LET condition == witness.condition
        signatures == witness.signatures
    IN  /\ CheckSpendCondition(condition, known)
        /\ condition.version = Threshold => Len(signatures) = condition.threshold
        /\ \A i \in DOMAIN signatures : signatures[i].scheme # Reserved
        /\ condition.version = Threshold =>
              \A i \in DOMAIN signatures : ~HasWrongSize(signatures[i], known)

-----------------------------------------------------------------------------
(* CheckTransaction. *)

\* TryAccumulate: CheckedAdd in the width of an amount.
Overflow == [ok |-> FALSE, total |-> 0]
Accumulate(sum, amount) ==
    IF ~sum.ok \/ sum.total + amount \notin -(Base^U64 \div 2)..(Base^U64 \div 2) - 1 THEN Overflow
    ELSE [ok |-> TRUE, total |-> sum.total + amount]

\* Mutant: only the total is judged.
AmountsInRangeAtEnd(outputs) ==
    LET last == FoldLeft(LAMBDA sum, out : Accumulate(sum, out.amount), [ok |-> TRUE, total |-> 0], outputs)
    IN  last.ok /\ IsValidAmount(last.total)
\* Each amount, and the total after each.
AmountsInRange(outputs) ==
    FoldLeft(LAMBDA sum, out :
                 LET next == Accumulate(sum, out.amount)
                 IN  IF IsValidAmount(out.amount) /\ next.ok /\ IsValidAmount(next.total)
                     THEN next ELSE Overflow,
             [ok |-> TRUE, total |-> 0], outputs).ok

NullOutPoint == <<"null">>
TxIsCoinbase(tx) == tx.inputs = <<NullOutPoint>>

CheckTransaction(tx, known) ==
    /\ Len(tx.inputs) \in 1..MaxInputs /\ Len(tx.outputs) \in 1..MaxOutputs
    /\ IF TxIsCoinbase(tx) THEN tx.witnesses = <<>> /\ tx.coinbase_data <= MaxCoinbaseData
       ELSE /\ tx.coinbase_data = 0
            /\ Len(tx.witnesses) = Len(tx.inputs)
            /\ NullOutPoint \notin ToSet(tx.inputs)
    /\ AmountsInRange(tx.outputs)
    /\ ~TxIsCoinbase(tx) => /\ IsInjective(tx.inputs)
                            /\ \A i \in DOMAIN tx.witnesses : CheckWitness(tx.witnesses[i], known)
    /\ tx.weight <= MaxBlockWeight

-----------------------------------------------------------------------------
(* CheckSpendAuthorisation. *)

\* VerifySchnorr and VerifyWithOpenSsl.  The verifications of the libraries are
\* taken to be exact, and every scheme of the table to be available.
VerifyByLibrary(signature, key, message) ==
    IF ~key.usable THEN "Malformed"
    ELSE IF signature.signer = key.id /\ signature.over = message THEN "Valid" ELSE "Invalid"

Verify(signature, key, message, known) ==
    IF signature.scheme = Reserved THEN "Reserved"
    ELSE IF signature.scheme \notin known THEN "UnknownScheme"
    ELSE IF ~key.sized \/ ~signature.sized THEN "Malformed"
    ELSE VerifyByLibrary(signature, key, message)

\* Mutants: the walk starts over for each signature; a scheme this build does not
\* know is a forgery.
SatisfiesThresholdAnew(witness, message, known) ==
    \A s \in DOMAIN witness.signatures : \E i \in DOMAIN witness.condition.keys :
        /\ witness.condition.keys[i].scheme = witness.signatures[s].scheme
        /\ Verify(witness.signatures[s], witness.condition.keys[i], message, known)
               \in {"Valid", "UnknownScheme"}
SatisfiesThresholdStrict(witness, message, known) ==
    LET keys == witness.condition.keys
        Answers(i, signature) == /\ keys[i].scheme = signature.scheme
                                 /\ Verify(signature, keys[i], message, known) = "Valid"
        Walk(next, signature) ==
            LET found == {i \in next..Len(keys) : Answers(i, signature)}
            IN  IF next = 0 \/ found = {} THEN 0 ELSE Min(found) + 1
    IN  FoldLeft(Walk, 1, witness.signatures) # 0
\* Each signature takes the first key after the last one taken that answers it,
\* or, under a scheme this build does not know, that is of its scheme.
SatisfiesThreshold(witness, message, known) ==
    LET keys == witness.condition.keys
        Answers(i, signature) ==
            /\ keys[i].scheme = signature.scheme
            /\ Verify(signature, keys[i], message, known) \in {"Valid", "UnknownScheme"}
        Walk(next, signature) ==
            LET found == {i \in next..Len(keys) : Answers(i, signature)}
            IN  IF next = 0 \/ found = {} THEN 0 ELSE Min(found) + 1
    IN  FoldLeft(Walk, 1, witness.signatures) # 0

\* Mutant: the input is not named.
SignatureHashAnyInput(chain_id, tx, index, amount, condition) ==
    <<chain_id, tx.inputs, tx.outputs, amount, condition>>
\* The network, the transaction without its witnesses (of which its inputs and
\* outputs are told apart here), and the input: its place, what it is worth and
\* what it is locked to.
SignatureHash(chain_id, tx, index, amount, condition) ==
    <<chain_id, tx.inputs, tx.outputs, index, amount, condition>>

CheckSpendAuthorisation(tx, spent, chain_id, known) ==
    /\ ~TxIsCoinbase(tx)
    /\ Len(spent) = Len(tx.inputs) /\ Len(tx.witnesses) = Len(tx.inputs)
    /\ \A i \in DOMAIN tx.inputs :
          LET condition == tx.witnesses[i].condition
          IN  /\ spent[i].lock.version # Unspendable
              /\ spent[i].lock.version = Commitment =>
                    /\ spent[i].lock.program = condition
                    /\ condition.version = Threshold =>
                          SatisfiesThreshold(tx.witnesses[i],
                              SignatureHash(chain_id, tx, i, spent[i].amount, condition), known)
=============================================================================

-------------------------------- MODULE Pool --------------------------------
(***************************************************************************)
(* The mempool as a record, and what its methods do to it: mempool.cpp.    *)
(*                                                                         *)
(*   P.entries   entries_                                                  *)
(*   P.parents   in-pool transactions an entry recorded as its parents     *)
(*   P.children  and as its children; both empty for what is not an entry  *)
(*   P.spentBy   spent_by_, from an outpoint to the entry spending it      *)
(*   P.weight, P.fees   total_weight_ and total_fees_                      *)
(*                                                                         *)
(* An entry is named by its txid.  A copy with other witnesses spends the  *)
(* same outpoints and pays the same fee, so the second replacement rule    *)
(* always refuses it; by_txid_ is then the identity on the entries.        *)
(***************************************************************************)
EXTENDS Utxo, SequencesExt

CONSTANTS
    NoTx,             \* no entry
    WeightOf,         \* [Tx -> Transaction::Weight]
    Rank,             \* [Tx -> Nat], the order of the hashes
    MaxPoolWeight,    \* MAX_MEMPOOL_WEIGHT
    MinRelayFeerate,  \* MIN_RELAY_FEERATE
    MaxAncestors,     \* MAX_MEMPOOL_ANCESTORS
    MaxDescendants,   \* MAX_MEMPOOL_DESCENDANTS
    MaxEvictions      \* MAX_REPLACEMENT_EVICTIONS

ASSUME PoolAssumption ==
    /\ NoTx \notin Tx
    /\ WeightOf \in [Tx -> Nat \ {0}]
    /\ Rank \in [Tx -> Nat] /\ \A s, t \in Tx : Rank[s] = Rank[t] => s = t
    /\ {MaxPoolWeight, MinRelayFeerate, MaxAncestors, MaxDescendants, MaxEvictions}
           \subseteq Nat

EmptyPool ==
    [entries |-> {}, parents |-> [t \in Tx |-> {}], children |-> [t \in Tx |-> {}],
     spentBy |-> [o \in OutPoint |-> NoTx], weight |-> 0, fees |-> 0]

-----------------------------------------------------------------------------
(* Packages.                                                               *)

\* What the links reach from t, t included.
Reach(links, t) ==
    LET grown[n \in 0..Cardinality(Tx)] ==
            IF n = 0 THEN {t}
            ELSE grown[n - 1] \cup UNION {links[x] : x \in grown[n - 1]}
    IN  grown[Cardinality(Tx)]

DescendantsOf(P, t) == Reach(P.children, t)
AncestorsOf(P, t)   == Reach(P.parents, t)

Weights(S) == MapThenSumSet(LAMBDA t : WeightOf[t], S)
Fees(S)    == MapThenSumSet(TransactionFee, S)

\* CompareFeerate: a 128-bit product either side, so exact.
PaysLess(S, R) == Fees(S) * Weights(R) < Fees(R) * Weights(S)
PaysSame(S, R) == Fees(S) * Weights(R) = Fees(R) * Weights(S)

-----------------------------------------------------------------------------
(* Leaving the pool.                                                       *)

\* Mutant: the parents are not told.
UnlinkedHalf(P, S) ==
    [entries  |-> P.entries \ S,
     parents  |-> [x \in Tx |-> IF x \in S THEN {}
                                ELSE P.parents[x] \ {t \in S : x \in P.children[t]}],
     children |-> [x \in Tx |-> IF x \in S THEN {} ELSE P.children[x]],
     spentBy  |-> [o \in OutPoint |-> IF P.spentBy[o] \in S THEN NoTx ELSE P.spentBy[o]],
     weight   |-> P.weight - Weights(S),
     fees     |-> P.fees - Fees(S)]

\* Unlink for each entry of S, in any order: each takes its name out of the
\* links of its parents and of its children, and frees what it spends.
Unlinked(P, S) ==
    [entries  |-> P.entries \ S,
     parents  |-> [x \in Tx |-> IF x \in S THEN {}
                                ELSE P.parents[x] \ {t \in S : x \in P.children[t]}],
     children |-> [x \in Tx |-> IF x \in S THEN {}
                                ELSE P.children[x] \ {t \in S : x \in P.parents[t]}],
     spentBy  |-> [o \in OutPoint |->
                      IF P.spentBy[o] \in S /\ o \in Spends(P.spentBy[o])
                      THEN NoTx ELSE P.spentBy[o]],
     weight   |-> P.weight - Weights(S),
     fees     |-> P.fees - Fees(S)]

\* RemoveRecursive for each entry of S: a package already gone takes with it
\* whatever a later one would have reached through it.
WithoutPackages(P, S) == Unlinked(P, UNION {DescendantsOf(P, t) : t \in S})

\* What the block confirmed goes alone, what conflicts with it in packages.
RemoveForBlock(P, body) ==
    LET rest == Unlinked(P, P.entries \cap ToSet(body))
    IN  WithoutPackages(rest, {t \in rest.entries : \E s \in ToSet(body) :
                                  \E o \in Spends(s) : rest.spentBy[o] = t})

\* The cheapest package: its root is what one round of Trim removes.
Worst(P) ==
    CHOOSE t \in P.entries : \A s \in P.entries \ {t} :
        \/ PaysLess(DescendantsOf(P, t), DescendantsOf(P, s))
        \/ PaysSame(DescendantsOf(P, t), DescendantsOf(P, s)) /\ Rank[t] < Rank[s]

\* Mutant: the root goes without its package.
TrimmedAlone(P) == Unlinked(P, {Worst(P)})

Trimmed(P) == WithoutPackages(P, {Worst(P)})

-----------------------------------------------------------------------------
(* Entering the pool.                                                      *)

\* ResolveInputs: a confirmed coin, or an output of an entry, which would be
\* created at the height of the next block.
Resolved(P, coins, height) ==
    [o \in OutPoint |-> IF coins[o] # NoCoin THEN coins[o]
                        ELSE IF o[1] \in P.entries THEN height ELSE NoCoin]

\* What acceptance and the sweep after a reorganisation both ask.
Holds(P, t, coins, height) ==
    LET view == Resolved(P, coins, height)
    IN  SpendsCoins(view, t) /\ CheckTransactionInputs(view, t, height)

\* One round of RemoveForReorg.
Judged(P, t, coins, height) ==
    IF t \in P.entries /\ ~Holds(P, t, coins, height)
    THEN WithoutPackages(P, {t}) ELSE P

\* Mutant: only the first input is looked at.
DirectConflictsFirst(P, t) == {P.spentBy[Inputs(t)[1]]} \ {NoTx}

DirectConflicts(P, t) == {P.spentBy[o] : o \in Spends(t)} \ {NoTx}
Doomed(P, t) == UNION {DescendantsOf(P, s) : s \in DirectConflicts(P, t)}
ParentsIn(P, t) == {o[1] : o \in Spends(t)} \cap P.entries

\* Mutant: only the rate is compared.
OutbidsByRate(P, t) ==
    \A s \in DirectConflicts(P, t) : PaysLess(DescendantsOf(P, s), {t})

\* A higher rate than each package displaced and more than all of them in total.
Outbids(P, t) ==
    Doomed(P, t) # {} =>
        /\ \A s \in DirectConflicts(P, t) : PaysLess(DescendantsOf(P, s), {t})
        /\ TransactionFee(t) > Fees(Doomed(P, t))

\* Mutant: the limit counts what an ancestor has, not what it will have.
WithinLimitsByOne(P, t) ==
    LET doomed    == Doomed(P, t)
        ancestors == UNION {AncestorsOf(P, p) : p \in ParentsIn(P, t)} \ doomed
    IN  /\ Cardinality(ancestors) <= MaxAncestors
        /\ \A a \in ancestors :
              Cardinality(DescendantsOf(P, a) \ (doomed \cup {a})) <= MaxDescendants

\* Ancestors and descendants in the pool as it will be.
WithinLimits(P, t) ==
    LET doomed    == Doomed(P, t)
        ancestors == UNION {AncestorsOf(P, p) : p \in ParentsIn(P, t)} \ doomed
    IN  /\ Cardinality(ancestors) <= MaxAncestors
        /\ \A a \in ancestors :
              Cardinality(DescendantsOf(P, a) \ (doomed \cup {a})) + 1 <= MaxDescendants

Admits(P, t, coins, height) ==
    /\ ~IsCoinbase(t) /\ t \in WellFormed /\ t \notin P.entries
    /\ Holds(P, t, coins, height)
    /\ WeightOf[t] <= MaxPoolWeight
    /\ TransactionFee(t) >= WeightOf[t] * MinRelayFeerate
    /\ Cardinality(Doomed(P, t)) <= MaxEvictions
    /\ Outbids(P, t)
    /\ ParentsIn(P, t) \cap Doomed(P, t) = {}
    /\ WithinLimits(P, t)

\* Mutant: the weight of what is displaced stays in the total.
InsertedHeavy(P, t) ==
    LET rest    == Unlinked(P, Doomed(P, t))
        parents == ParentsIn(P, t)
    IN  [entries  |-> rest.entries \cup {t},
         parents  |-> [rest.parents EXCEPT ![t] = parents],
         children |-> [x \in Tx |-> IF x \in parents THEN rest.children[x] \cup {t}
                                    ELSE rest.children[x]],
         spentBy  |-> [o \in OutPoint |-> IF o \in Spends(t) THEN t ELSE rest.spentBy[o]],
         weight   |-> P.weight + WeightOf[t],
         fees     |-> rest.fees + TransactionFee(t)]

\* The displaced entries go and t comes in; Trim is still to follow.
Inserted(P, t) ==
    LET rest    == Unlinked(P, Doomed(P, t))
        parents == ParentsIn(P, t)
    IN  [entries  |-> rest.entries \cup {t},
         parents  |-> [rest.parents EXCEPT ![t] = parents],
         children |-> [x \in Tx |-> IF x \in parents THEN rest.children[x] \cup {t}
                                    ELSE rest.children[x]],
         spentBy  |-> [o \in OutPoint |-> IF o \in Spends(t) THEN t ELSE rest.spentBy[o]],
         weight   |-> rest.weight + WeightOf[t],
         fees     |-> rest.fees + TransactionFee(t)]

-----------------------------------------------------------------------------
(* Templates.                                                              *)

\* Every root with its package, the best-paying first.
Ranked(P) ==
    SetToSortSeq(P.entries, LAMBDA s, t :
        \/ PaysLess(DescendantsOf(P, t), DescendantsOf(P, s))
        \/ PaysSame(DescendantsOf(P, t), DescendantsOf(P, s)) /\ Rank[s] < Rank[t])

\* Mutant: parents are not waited for.
EmittedAnyOrder(P, included, package) == SetToSeqs(package)

\* The orders a package can be emitted in: an entry whose recorded parents are
\* all included, whichever the hash set offers first.
Emitted(P, included, package) ==
    {s \in SetToSeqs(package) :
        \A i \in DOMAIN s :
            P.parents[s[i]] \subseteq included \cup {s[j] : j \in 1..(i - 1)}}

\* GetTemplates: the lists of transactions a template can carry.
GetTemplates(P, available) ==
    LET Step(r, t) ==
            LET package == AncestorsOf(P, t) \ r.included
                weight  == r.used + Weights(package)
            IN  IF t \in r.included \/ weight > available THEN r
                ELSE [included |-> r.included \cup package,
                      used |-> weight,
                      lists |-> {l \o s : l \in r.lists,
                                          s \in Emitted(P, r.included, package)}]
    IN  FoldLeft(Step, [included |-> {}, used |-> 0, lists |-> {<<>>}], Ranked(P)).lists
=============================================================================

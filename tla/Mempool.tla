------------------------------ MODULE Mempool -------------------------------
(***************************************************************************)
(* The mempool as a component: any sequence of calls of its public methods *)
(* against any view of the unspent set.  What the node's own sequence of   *)
(* calls adds is module Node.                                              *)
(*                                                                         *)
(* Trim and RemoveForReorg are loops; each round is a step, and no other   *)
(* call begins before the loop has ended.                                  *)
(***************************************************************************)
EXTENDS Pool

CONSTANTS Views,     \* [coins, height]: what a caller may pass
          Confirmed  \* the lists of transactions of blocks a caller may pass

VARIABLES
    pool,     \* the Mempool
    arrival,  \* what Accept is trimming for
    sweep     \* what RemoveForReorg has still to judge, and against what

vars == <<pool, arrival, sweep>>

NoArrival == NoTx
NoSweep == [todo |-> {}, coins |-> NoCoins, height |-> 0]

Init == pool = EmptyPool /\ arrival = NoArrival /\ sweep = NoSweep

Trimming == pool.weight > MaxPoolWeight /\ pool.entries # {}
Idle == ~Trimming /\ sweep.todo = {}

\* A refused transaction changes nothing.
Accept(t, coins, height) ==
    /\ Idle
    /\ Admits(pool, t, coins, height)
    /\ pool' = Inserted(pool, t)
    /\ arrival' = t
    /\ UNCHANGED sweep

Trim ==
    /\ Trimming
    /\ pool' = Trimmed(pool)
    /\ UNCHANGED <<arrival, sweep>>

BlockConnected(body) ==
    /\ Idle
    /\ pool' = RemoveForBlock(pool, body)
    /\ arrival' = NoArrival
    /\ UNCHANGED sweep

RemoveForReorg(coins, height) ==
    /\ Idle /\ pool.entries # {}
    /\ sweep' = [todo |-> pool.entries, coins |-> coins, height |-> height]
    /\ arrival' = NoArrival
    /\ UNCHANGED pool

Judge(t) ==
    /\ t \in sweep.todo
    /\ pool' = Judged(pool, t, sweep.coins, sweep.height)
    /\ sweep' = IF sweep.todo = {t} THEN NoSweep ELSE [sweep EXCEPT !.todo = @ \ {t}]
    /\ UNCHANGED arrival

Next ==
    \/ Trim
    \/ \E v \in Views : \/ RemoveForReorg(v.coins, v.height)
                        \/ \E t \in Tx : Accept(t, v.coins, v.height)
    \/ \E body \in Confirmed : BlockConnected(body)
    \/ \E t \in Tx : Judge(t)

Spec == Init /\ [][Next]_vars
-----------------------------------------------------------------------------
\* The state has its type.
TypeOK ==
    /\ pool.entries \subseteq Tx
    /\ pool.parents \in [Tx -> SUBSET Tx] /\ pool.children \in [Tx -> SUBSET Tx]
    /\ pool.spentBy \in [OutPoint -> Tx \cup {NoTx}]
    /\ pool.weight \in Nat /\ pool.fees \in Nat
    /\ arrival \in Tx \cup {NoTx} /\ sweep.todo \subseteq Tx

\* "Removal is link-exact": links join entries to entries, are recorded at both
\* ends, and lead only to something the child really spends.
LinkExact ==
    \A s, t \in Tx :
        /\ s \in pool.parents[t] <=> t \in pool.children[s]
        /\ s \in pool.parents[t] => /\ {s, t} \subseteq pool.entries
                                    /\ \E o \in Spends(t) : o[1] = s

\* spent_by_ names the entry that spends an outpoint, and so no two entries ever
\* spend the same one, whatever was replaced, trimmed or confirmed.
OneSpender ==
    \A t \in Tx, o \in OutPoint :
        pool.spentBy[o] = t <=> (t \in pool.entries /\ o \in Spends(t))

\* The running totals are the totals, so the cap is a cap on what is there.
TotalsExact == pool.weight = Weights(pool.entries) /\ pool.fees = Fees(pool.entries)

\* Everything the pool derives from its entries is what the entries say: links at
\* both ends, the spender of each outpoint, weight and fees.  Every rule of
\* Mempool::Accept trusts the four, and every removal has to undo all of them.
IndicesExact == LinkExact /\ OneSpender /\ TotalsExact

\* Removals, replacements and arrivals in any order keep every package inside
\* the ancestor and descendant limits.
PackagesBounded ==
    \A t \in pool.entries :
        /\ Cardinality(AncestorsOf(pool, t) \ {t}) <= MaxAncestors
        /\ Cardinality(DescendantsOf(pool, t) \ {t}) <= MaxDescendants

\* Whatever leaves the pool other than by confirmation leaves with its whole
\* package: a child never outlives a parent it is linked to.
PackagesLeaveWhole ==
    [][(arrival' # NoArrival \/ sweep.todo # {}) =>
          \A t \in pool.entries \ pool'.entries :
              DescendantsOf(pool, t) \cap pool'.entries = {}]_vars

\* Replacement never costs a miner: an arrival that displaces something leaves
\* the pool paying more in total.
ReplacementPays ==
    [][(pool'.entries \ pool.entries # {} /\ pool.entries \ pool'.entries # {})
          => pool'.fees > pool.fees]_vars
=============================================================================

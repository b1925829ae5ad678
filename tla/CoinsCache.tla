----------------------------- MODULE CoinsCache -----------------------------
(***************************************************************************)
(* The layers of utxo/coins.cpp: the database, the node's cache over it,   *)
(* and the batch ConnectBlock and DisconnectBlock build over that.  A      *)
(* layer maps an outpoint to a coin, to None for a tombstone, or to        *)
(* Untouched where the layer has no entry.                                 *)
(*                                                                         *)
(* A flush writes its entries one by one, in any order.  Reads that reach  *)
(* the database may fail once it has faulted, and then show nothing.       *)
(***************************************************************************)
CONSTANTS OutPoint, Coin, None, Untouched

ASSUME CoinAssumption ==
    None \notin Coin /\ Untouched \notin Coin /\ Untouched # None

VARIABLES db,       \* Family::Coins
          root,     \* entries_ of the node's cache
          batch,    \* entries_ of the batch over it
          phase,    \* "idle", "open", "flushing" or "committing"
          todo,     \* what the flush has still to write
          staged,   \* the WriteBatch on its way to the database
          faulted   \* ChainDb::Impl::faulted

vars == <<db, root, batch, phase, todo, staged, faulted>>

View == [OutPoint -> Coin \cup {None}]
Layer == [OutPoint -> Coin \cup {None, Untouched}]
NoChanges == [o \in OutPoint |-> Untouched]
Entries(layer) == {o \in OutPoint : layer[o] # Untouched}

\* GetCoin: this layer's entry, or what the base answers.
Over(layer, base) ==
    [o \in OutPoint |-> IF layer[o] # Untouched THEN layer[o] ELSE base[o]]

Coins == Over(root, db)
Draft == Over(batch, Coins)

\* HaveCoin of the database, and of the node's cache over it.
StoreHas(o) ==
    IF db[o] = None THEN {FALSE} ELSE IF faulted THEN BOOLEAN ELSE {TRUE}
RootHas(o) == IF root[o] # Untouched THEN {root[o] # None} ELSE StoreHas(o)
DraftHas(o) == IF batch[o] # Untouched THEN {batch[o] # None} ELSE RootHas(o)

\* Mutant: a tombstone is always left.
MarkSpentAlways(layer, o, baseHas) == [layer EXCEPT ![o] = None]

\* MarkSpent: a tombstone only where there is something to hide.
MarkSpent(layer, o, baseHas) ==
    [layer EXCEPT ![o] = IF baseHas THEN None ELSE Untouched]

Init ==
    /\ db \in [OutPoint -> {None}]
    /\ root = NoChanges /\ batch = NoChanges
    /\ phase = "idle" /\ todo = {} /\ staged = NoChanges /\ faulted = FALSE

-----------------------------------------------------------------------------
(* The batch of one block.                                                 *)

Begin ==
    /\ phase = "idle"
    /\ phase' = "open"
    /\ UNCHANGED <<db, root, batch, todo, staged, faulted>>

AddCoin(o, c) ==
    /\ phase = "open"
    /\ FALSE \in DraftHas(o)
    /\ batch' = [batch EXCEPT ![o] = c]
    /\ UNCHANGED <<db, root, phase, todo, staged, faulted>>

SpendCoin(o) ==
    /\ phase = "open"
    /\ Draft[o] # None
    /\ \E has \in RootHas(o) : batch' = MarkSpent(batch, o, has)
    /\ UNCHANGED <<db, root, phase, todo, staged, faulted>>

\* A rule failed half way: the batch is destroyed.
Discard ==
    /\ phase = "open"
    /\ phase' = "idle" /\ batch' = NoChanges
    /\ UNCHANGED <<db, root, todo, staged, faulted>>

Flush ==
    /\ phase = "open"
    /\ phase' = "flushing" /\ todo' = Entries(batch)
    /\ UNCHANGED <<db, root, batch, staged, faulted>>

\* CoinsCache::Write into the node's cache.
Write(o) ==
    /\ phase = "flushing" /\ o \in todo
    /\ \/ batch[o] # None /\ root' = [root EXCEPT ![o] = batch[o]]
       \/ /\ batch[o] = None
          /\ \E has \in StoreHas(o) : root' = MarkSpent(root, o, has)
    /\ todo' = todo \ {o}
    /\ UNCHANGED <<db, batch, phase, staged, faulted>>

\* Mutant: the batch is emptied before it is written.
FlushedEarly ==
    /\ phase = "flushing"
    /\ phase' = "idle" /\ batch' = NoChanges /\ todo' = {}
    /\ UNCHANGED <<db, root, staged, faulted>>

Flushed ==
    /\ phase = "flushing" /\ todo = {}
    /\ phase' = "idle" /\ batch' = NoChanges
    /\ UNCHANGED <<db, root, todo, staged, faulted>>

-----------------------------------------------------------------------------
(* CommitTip.                                                              *)

\* The node's cache goes into a WriteBatch and is empty from then on.
CommitTip ==
    /\ phase = "idle" /\ ~faulted
    /\ phase' = "committing" /\ staged' = root /\ root' = NoChanges
    /\ UNCHANGED <<db, batch, todo, faulted>>

Land ==
    /\ phase = "committing"
    /\ phase' = "idle" /\ db' = Over(staged, db) /\ staged' = NoChanges
    /\ UNCHANGED <<root, batch, todo, faulted>>

Refuse ==
    /\ phase = "committing"
    /\ phase' = "idle" /\ staged' = NoChanges /\ faulted' = TRUE
    /\ UNCHANGED <<db, root, batch, todo>>

\* Some other read or write failed.
Fault ==
    /\ faulted' = TRUE
    /\ phase # "committing"
    /\ UNCHANGED <<db, root, batch, phase, todo, staged>>

Crash ==
    /\ root' = NoChanges /\ batch' = NoChanges /\ staged' = NoChanges
    /\ phase' = "idle" /\ todo' = {} /\ faulted' = FALSE
    /\ UNCHANGED db

Next ==
    \/ Begin \/ Discard \/ Flush \/ Flushed \/ CommitTip \/ Land \/ Refuse
    \/ Fault \/ Crash
    \/ \E o \in OutPoint : SpendCoin(o) \/ Write(o) \/ \E c \in Coin : AddCoin(o, c)

Spec == Init /\ [][Next]_vars
-----------------------------------------------------------------------------
\* The state has its type, and a flush writes what the batch holds.
TypeOK ==
    /\ db \in View /\ root \in Layer /\ batch \in Layer /\ staged \in Layer
    /\ phase \in {"idle", "open", "flushing", "committing"}
    /\ todo \subseteq Entries(batch) /\ faulted \in BOOLEAN

\* What the node sees: the part of a flush still to come on top of the cache,
\* or a WriteBatch that has not landed, on top of the database.
Pending == [o \in OutPoint |-> IF o \in todo THEN batch[o] ELSE Untouched]
Seen == Over(staged, Over(Pending, Coins))

A == INSTANCE CoinSet WITH
        stored <- db, coins <- Seen,
        draft <- IF phase = "open" THEN Draft ELSE Seen,
        drafting <- phase = "open"

\* The layers answer as one set does: a flush is invisible while it runs and
\* all or nothing, a block that fails leaves no trace, a refused commit puts the
\* node back to what is stored.
ImplementsCoinSet == A!Spec

\* "A tombstone is only needed to hide something": no layer keeps one for a coin
\* its base does not have, so the node's cache grows with the unspent set and
\* not with the history of the chain.
TombstonesHide ==
    \A o \in OutPoint :
        /\ root[o] = None => db[o] # None
        /\ (phase = "open" /\ batch[o] = None) => Coins[o] # None
=============================================================================

-------------------------- MODULE CoinsCacheProofs --------------------------
(***************************************************************************)
(* The layers of CoinsCache implement CoinSet, for any outpoints and any   *)
(* coins.                                                                  *)
(***************************************************************************)
EXTENDS CoinsCache, TLAPS

\* Which layers can hold anything in which phase.
Quiet ==
    /\ phase \in {"idle", "committing"} => batch = NoChanges
    /\ phase = "committing" => root = NoChanges
    /\ phase # "committing" => staged = NoChanges
    /\ phase # "flushing" => todo = {}
    /\ phase = "committing" => ~faulted

Inv == TypeOK /\ Quiet /\ TombstonesHide

\* Empty layers over the stored coins.
LEMMA InitInv == Init => Inv
BY CoinAssumption
DEF Init, Inv, TypeOK, Quiet, TombstonesHide, View, Layer, NoChanges, Entries, Coins, Over

\* Every step keeps the types of the layers.
LEMMA NextTypeOK == Inv /\ [Next]_vars => TypeOK'
<1> SUFFICES ASSUME Inv, [Next]_vars PROVE TypeOK'
    OBVIOUS
<1> USE CoinAssumption DEF Inv, TypeOK, Quiet, View, Layer, NoChanges, Entries
<1>1. CASE Begin BY <1>1 DEF Begin
<1>2. CASE Discard BY <1>2 DEF Discard
<1>3. CASE Flush BY <1>3 DEF Flush
<1>4. CASE Flushed BY <1>4 DEF Flushed
<1>5. CASE CommitTip BY <1>5 DEF CommitTip
<1>6. CASE Land BY <1>6 DEF Land, Over
<1>7. CASE Refuse BY <1>7 DEF Refuse
<1>8. CASE Fault BY <1>8 DEF Fault
<1>9. CASE Crash BY <1>9 DEF Crash
<1>10. ASSUME NEW o \in OutPoint, SpendCoin(o) PROVE TypeOK'
    BY <1>10 DEF SpendCoin, MarkSpent
<1>11. ASSUME NEW o \in OutPoint, Write(o) PROVE TypeOK'
    BY <1>11 DEF Write, MarkSpent
<1>12. ASSUME NEW o \in OutPoint, NEW c \in Coin, AddCoin(o, c) PROVE TypeOK'
    BY <1>12 DEF AddCoin
<1>13. CASE UNCHANGED vars BY <1>13 DEF vars
<1> QED
    BY <1>1, <1>2, <1>3, <1>4, <1>5, <1>6, <1>7, <1>8, <1>9, <1>10, <1>11, <1>12, <1>13
    DEF Next

\* Every step leaves the layers empty that its phase does not use.
LEMMA NextQuiet == Inv /\ [Next]_vars => Quiet'
<1> SUFFICES ASSUME Inv, [Next]_vars PROVE Quiet'
    OBVIOUS
<1> USE DEF Inv, TypeOK, Quiet
<1>1. CASE Begin BY <1>1 DEF Begin
<1>2. CASE Discard BY <1>2 DEF Discard
<1>3. CASE Flush BY <1>3 DEF Flush
<1>4. CASE Flushed BY <1>4 DEF Flushed
<1>5. CASE CommitTip BY <1>5 DEF CommitTip
<1>6. CASE Land BY <1>6 DEF Land
<1>7. CASE Refuse BY <1>7 DEF Refuse
<1>8. CASE Fault BY <1>8 DEF Fault
<1>9. CASE Crash BY <1>9 DEF Crash
<1>10. ASSUME NEW o \in OutPoint, SpendCoin(o) PROVE Quiet'
    BY <1>10 DEF SpendCoin
<1>11. ASSUME NEW o \in OutPoint, Write(o) PROVE Quiet'
    BY <1>11 DEF Write
<1>12. ASSUME NEW o \in OutPoint, NEW c \in Coin, AddCoin(o, c) PROVE Quiet'
    BY <1>12 DEF AddCoin
<1>13. CASE UNCHANGED vars BY <1>13 DEF vars
<1> QED
    BY <1>1, <1>2, <1>3, <1>4, <1>5, <1>6, <1>7, <1>8, <1>9, <1>10, <1>11, <1>12, <1>13
    DEF Next

\* Every step keeps a spent coin hidden from what lies below it.
LEMMA NextTombstones == Inv /\ [Next]_vars => TombstonesHide'
<1> SUFFICES ASSUME Inv, [Next]_vars PROVE TombstonesHide'
    OBVIOUS
<1> USE CoinAssumption
    DEF Inv, TypeOK, Quiet, View, Layer, NoChanges, TombstonesHide, Coins, Over
<1>1. CASE Begin BY <1>1 DEF Begin
<1>2. CASE Discard BY <1>2 DEF Discard
<1>3. CASE Flush BY <1>3 DEF Flush
<1>4. CASE Flushed BY <1>4 DEF Flushed
<1>5. CASE CommitTip BY <1>5 DEF CommitTip
<1>6. CASE Land BY <1>6 DEF Land
<1>7. CASE Refuse BY <1>7 DEF Refuse
<1>8. CASE Fault BY <1>8 DEF Fault
<1>9. CASE Crash BY <1>9 DEF Crash
<1>10. ASSUME NEW o \in OutPoint, SpendCoin(o) PROVE TombstonesHide'
    BY <1>10 DEF SpendCoin, MarkSpent, RootHas, StoreHas
<1>11. ASSUME NEW o \in OutPoint, Write(o) PROVE TombstonesHide'
    BY <1>11 DEF Write, MarkSpent, StoreHas
<1>12. ASSUME NEW o \in OutPoint, NEW c \in Coin, AddCoin(o, c) PROVE TombstonesHide'
    BY <1>12 DEF AddCoin
<1>13. CASE UNCHANGED vars BY <1>13 DEF vars
<1> QED
    BY <1>1, <1>2, <1>3, <1>4, <1>5, <1>6, <1>7, <1>8, <1>9, <1>10, <1>11, <1>12, <1>13
    DEF Next

\* The inductive invariant of the layers: types, which layer is empty when, and
\* tombstones only where they hide something.
THEOREM LayersInvariant == Spec => []Inv
<1>1. Inv /\ [Next]_vars => Inv'
    BY NextTypeOK, NextQuiet, NextTombstones DEF Inv
<1> QED BY InitInv, <1>1, PTL DEF Spec

\* MarkSpent never leaves a tombstone that hides nothing, so the node's cache
\* does not grow with the history of the chain.
THEOREM TombstonesAlwaysHide == Spec => []TombstonesHide
<1>1. Inv => TombstonesHide
    BY DEF Inv
<1> QED BY LayersInvariant, <1>1, PTL
-----------------------------------------------------------------------------
\* The first view is the stored set.
LEMMA InitRefines == Init => A!Init
<1> SUFFICES ASSUME Init PROVE A!Init
    OBVIOUS
<1>1. Seen = db
    BY DEF Init, Seen, Pending, Coins, Over, NoChanges
<1> QED BY <1>1 DEF Init, A!Init

\* Every step is a step of the set, or leaves it as it was.
LEMMA NextRefines == Inv /\ [Next]_vars => [A!Next]_(A!setVars)
<1> SUFFICES ASSUME Inv, [Next]_vars PROVE [A!Next]_(A!setVars)
    OBVIOUS
<1> USE CoinAssumption DEF Inv, TypeOK, Quiet
<1>1. CASE Begin
    <2>1. Seen' = Seen /\ Draft' = Draft
        BY <1>1 DEF Begin, Seen, Pending, Coins, Draft, Over
    <2>2. Draft = Seen
        BY <1>1 DEF Begin, Seen, Pending, Coins, Draft, Over, NoChanges
    <2>3. A!Begin
        BY <1>1, <2>1, <2>2 DEF Begin, A!Begin
    <2> QED BY <2>3 DEF A!Next
<1>2. CASE Discard
    <2>1. Seen' = Seen
        BY <1>2 DEF Discard, Seen, Pending, Coins, Over
    <2>2. A!Abandon
        BY <1>2, <2>1 DEF Discard, A!Abandon
    <2> QED BY <2>2 DEF A!Next
<1>3. CASE Flush
    <2>1. Seen' = Draft
        BY <1>3 DEF Flush, Seen, Pending, Coins, Draft, Over, NoChanges, Entries
    <2>2. A!Publish
        BY <1>3, <2>1 DEF Flush, A!Publish
    <2> QED BY <2>2 DEF A!Next
<1>4. CASE Flushed
    <2>1. Seen' = Seen
        BY <1>4 DEF Flushed, Seen, Pending, Coins, Over
    <2> QED BY <1>4, <2>1 DEF Flushed, A!setVars
<1>5. CASE CommitTip
    <2>1. Seen' = Seen
        BY <1>5 DEF CommitTip, Seen, Pending, Coins, Over, NoChanges, View, Layer
    <2> QED BY <1>5, <2>1 DEF CommitTip, A!setVars
<1>6. CASE Land
    <2>1. Seen' = Seen /\ db' = Seen
        BY <1>6 DEF Land, Seen, Pending, Coins, Over, NoChanges, View, Layer
    <2>2. A!Store
        BY <1>6, <2>1 DEF Land, A!Store
    <2> QED BY <2>2 DEF A!Next
<1>7. CASE Refuse
    <2>1. Seen' = db
        BY <1>7 DEF Refuse, Seen, Pending, Coins, Over, NoChanges, View, Layer
    <2>2. A!Lose
        BY <1>7, <2>1 DEF Refuse, A!Lose
    <2> QED BY <2>2 DEF A!Next
<1>8. CASE Fault
    <2>1. Seen' = Seen /\ Draft' = Draft
        BY <1>8 DEF Fault, Seen, Pending, Coins, Draft, Over
    <2>2. A!Fault
        BY <1>8, <2>1 DEF Fault, A!Fault
    <2> QED BY <2>2 DEF A!Next
<1>9. CASE Crash
    <2>1. Seen' = db
        BY <1>9 DEF Crash, Seen, Pending, Coins, Over, NoChanges, View
    <2>2. A!Crash
        BY <1>9, <2>1 DEF Crash, A!Crash
    <2> QED BY <2>2 DEF A!Next
<1>10. ASSUME NEW o \in OutPoint, SpendCoin(o) PROVE A!Spend(o)
    <2>1. Seen' = Seen
        BY <1>10 DEF SpendCoin, Seen, Pending, Coins, Over
    <2>2. \/ Draft' = [Draft EXCEPT ![o] = None]
          \/ faulted /\ Draft' = [Draft EXCEPT ![o] = db[o]]
        <3>1. PICK has \in RootHas(o) : batch' = MarkSpent(batch, o, has)
            BY <1>10 DEF SpendCoin
        <3>2. CASE has
            BY <1>10, <3>1, <3>2 DEF SpendCoin, Coins, Draft, Over, MarkSpent, View, Layer
        <3>3. CASE ~has
            <4>1. Draft' = [Draft EXCEPT ![o] = Coins[o]]
                BY <1>10, <3>1, <3>3
                DEF SpendCoin, Coins, Draft, Over, MarkSpent, View, Layer
            <4>2. Coins[o] = None \/ (faulted /\ Coins[o] = db[o])
                BY <3>1, <3>3 DEF RootHas, StoreHas, Coins, Over
            <4> QED BY <4>1, <4>2
        <3> QED BY <3>2, <3>3
    <2> QED BY <1>10, <2>1, <2>2 DEF SpendCoin, A!Spend
<1>11. ASSUME NEW o \in OutPoint, Write(o) PROVE A!Reappear(o) \/ UNCHANGED A!setVars
    <2>1. \/ Seen' = Seen
          \/ faulted /\ Seen' = [Seen EXCEPT ![o] = db[o]]
        <3>1. CASE batch[o] # None
            BY <1>11, <3>1
            DEF Write, Seen, Pending, Coins, Over, View, Layer, NoChanges, Entries
        <3>2. ASSUME batch[o] = None, NEW has \in StoreHas(o), root' = MarkSpent(root, o, has)
              PROVE  \/ Seen' = Seen
                     \/ faulted /\ Seen' = [Seen EXCEPT ![o] = db[o]]
            <4>1. CASE has
                BY <1>11, <3>2, <4>1
                DEF Write, Seen, Pending, Coins, Over, MarkSpent, View, Layer, NoChanges
            <4>2. CASE ~has
                <5>1. Seen' = [Seen EXCEPT ![o] = db[o]]
                    BY <1>11, <3>2, <4>2
                    DEF Write, Seen, Pending, Coins, Over, MarkSpent, View, Layer, NoChanges
                <5>2. db[o] = None \/ faulted
                    BY <3>2, <4>2 DEF StoreHas
                <5>3. Seen[o] = None /\ Seen = [x \in OutPoint |-> Seen[x]]
                    BY <1>11, <3>2
                    DEF Write, Seen, Pending, Coins, Over, NoChanges
                <5> QED BY <5>1, <5>2, <5>3
            <4> QED BY <4>1, <4>2
        <3> QED BY <1>11, <3>1, <3>2 DEF Write
    <2> QED BY <1>11, <2>1 DEF Write, A!Reappear, A!setVars
<1>12. ASSUME NEW o \in OutPoint, NEW c \in Coin, AddCoin(o, c) PROVE A!Add(o, c)
    <2>1. Seen' = Seen
        BY <1>12 DEF AddCoin, Seen, Pending, Coins, Over
    <2>2. Draft' = [Draft EXCEPT ![o] = c]
        BY <1>12 DEF AddCoin, Coins, Draft, Over, View, Layer
    <2>3. Draft[o] = None \/ (faulted /\ Draft[o] = db[o])
        BY <1>12 DEF AddCoin, DraftHas, RootHas, StoreHas, Coins, Draft, Over, View, Layer
    <2> QED BY <1>12, <2>1, <2>2, <2>3 DEF AddCoin, A!Add
<1>13. CASE UNCHANGED vars
    BY <1>13 DEF vars, A!setVars, Seen, Pending, Coins, Draft, Over
<1> QED
    BY <1>1, <1>2, <1>3, <1>4, <1>5, <1>6, <1>7, <1>8, <1>9, <1>10, <1>11, <1>12, <1>13
    DEF Next, A!Next

\* The layered cache of coins.cpp with the commit of chain_db.cpp implements one
\* set of coins: flushes are atomic, failed blocks leave nothing behind, and a
\* failed read can only show again what is stored.
THEOREM LayersImplementCoinSet == Spec => ImplementsCoinSet
<1> QED BY LayersInvariant, InitRefines, NextRefines, PTL DEF Spec, ImplementsCoinSet, A!Spec
=============================================================================

----------------------------- MODULE ChainState -----------------------------
(***************************************************************************)
(* The chain a node is on and the database behind it: chain/chain_state.cpp*)
(* over storage/chain_db.cpp, with crashes, refused writes and failed      *)
(* reads.                                                                  *)
(*                                                                         *)
(* Every call changes memory and then writes to the database one record    *)
(* at a time.  `writes` holds the writes a call has still to make, so a    *)
(* crash can fall between any two of them; the coins and the tip go in one *)
(* batch (CommitTip) and are one write.  `coins` is what the root          *)
(* CoinsCache answers; how its layers answer it is module CoinsCache.      *)
(*                                                                         *)
(*   db.bodies   Family::Blocks, the blocks with a stored body             *)
(*   db.undo     Family::Undo, from a block to its BlockUndo               *)
(*   db.headers  Family::Index, from a block to its StoredHeader           *)
(*   db.coins    Family::Coins                                             *)
(*   db.tip      Family::Meta, NoBlock when no tip was ever committed      *)
(***************************************************************************)
EXTENDS BlockTree, Utxo

CONSTANTS Clock,       \* readings of the wall clock
          Bodies,      \* [Block -> lists of transactions that can come with it]
          Announced,   \* the headers that can come without a body
          MayFault,    \* whether the database can fail
          MaxCrashes   \* bound on the number of crashes

ASSUME ClockAssumption == Clock \subseteq 0..MaxTime
ASSUME BoundAssumption ==
    MaxCrashes \in Nat /\ MayFault \in BOOLEAN /\ Announced \subseteq Block
ASSUME RootAssumption ==
    \A b \in Block : Header[b].root \in Seq(Tx) /\ Bodies[b] \subseteq Seq(Tx)

VARIABLES
    index,    \* BlockIndex
    chain,    \* ActiveChain::blocks_, genesis first
    coins,    \* what CoinsCache::GetCoin answers
    heard,    \* the chain a TipObserver has been told of
    faulted,  \* ChainDb::Impl::faulted, the latch HasFault reports
    db,       \* what is on disk
    phase,    \* what the node is doing
    plan,     \* the rest of the ChainSwitch being carried out
    writes,   \* the writes the current call has still to make
    replay,   \* the stored headers LoadChain has still to go through
    held,     \* the tip when ActivateBestChain was called, until the next call
    crashes   \* how often the node has crashed

memory  == <<index, chain, coins, heard, faulted>>
control == <<phase, plan, writes, replay, held>>
vars == <<memory, control, db, crashes>>

Tip == chain[Len(chain)]
NoPlan == [disconnect |-> <<>>, connect |-> <<>>]

\* A StoredHeader, less the header itself.
Record(I, b) == [seq |-> I.seq[b], validity |-> I.validity[b], failure |-> I.failure[b]]
Put(f, k, v) == [x \in DOMAIN f \cup {k} |-> IF x = k THEN v ELSE f[x]]

HeaderWrite(b) == [kind |-> "header", block |-> b]
BlockWrite(b)  == [kind |-> "block", block |-> b]
UndoWrite(b, undo) == [kind |-> "undo", block |-> b, undo |-> undo]
TipWrite(b, event) == [kind |-> "tip", block |-> b, event |-> event]

Between == {"idle", "returned", "stopped"}
Up == Between \cup {"planning", "switching"}
\* The caller may make another call.
Ready == phase \in Between /\ writes = <<>>

Init ==
    /\ index = NewIndex
    /\ chain = <<Genesis>>
    /\ coins = NoCoins
    /\ heard = <<Genesis>>
    /\ faulted = FALSE
    /\ db = [bodies |-> {}, undo |-> <<>>, headers |-> <<>>,
             coins |-> NoCoins, tip |-> NoBlock]
    /\ phase = "idle" /\ plan = NoPlan /\ writes = <<>> /\ replay = {}
    /\ held = NoBlock
    /\ crashes = 0

-----------------------------------------------------------------------------
(* Headers and bodies arrive.                                              *)

AcceptHeader(b, now) ==
    /\ Ready
    /\ AddsHeader(index, b, now)
    /\ LET I == WithHeader(index, b)
       IN  IsEligible(I, b) /\ index' = I
    /\ writes' = <<HeaderWrite(b)>>
    /\ phase' = "idle" /\ held' = NoBlock
    /\ UNCHANGED <<chain, coins, heard, faulted, db, plan, replay, crashes>>

\* Exists: a stored key is found, unless the read fails.
Answers(stored) == IF stored THEN (IF faulted THEN BOOLEAN ELSE {TRUE}) ELSE {FALSE}

CheckBlock(b, body) ==
    CheckBlockHeader(b) /\ CheckBody(body, Header[b].height, Header[b].root)

AcceptBlock(b, body, now) ==
    /\ Ready
    /\ AddsHeader(index, b, now)
    /\ LET I == WithHeader(index, b)
       IN  /\ IsEligible(I, b)
           /\ \E haveBlock \in Answers(b \in db.bodies) :
                 \/ /\ haveBlock
                    /\ index' = I
                    /\ writes' = <<>>
                 \/ /\ ~haveBlock /\ ~CheckBlock(b, body)
                    /\ index' = WithFailure(I, b)
                    /\ writes' = <<HeaderWrite(b)>>
                 \/ /\ ~haveBlock /\ CheckBlock(b, body)
                    /\ index' = WithValidity(I, b, BodyValid)
                    /\ writes' = <<BlockWrite(b), HeaderWrite(b)>>
    /\ phase' = "idle" /\ held' = NoBlock
    /\ UNCHANGED <<chain, coins, heard, faulted, db, plan, replay, crashes>>

-----------------------------------------------------------------------------
(* The database.                                                           *)

PutBlock ==
    /\ writes # <<>> /\ Head(writes).kind = "block"
    /\ db' = [db EXCEPT !.bodies = @ \cup {Head(writes).block}]
    /\ writes' = Tail(writes)
    /\ UNCHANGED <<memory, phase, plan, replay, held, crashes>>

PutUndo ==
    /\ writes # <<>> /\ Head(writes).kind = "undo"
    /\ db' = [db EXCEPT !.undo = Put(@, Head(writes).block, Head(writes).undo)]
    /\ writes' = Tail(writes)
    /\ UNCHANGED <<memory, phase, plan, replay, held, crashes>>

CommitHeader ==
    /\ writes # <<>> /\ Head(writes).kind = "header"
    /\ LET b == Head(writes).block
       IN  db' = [db EXCEPT !.headers = Put(@, b, Record(index, b))]
    /\ writes' = Tail(writes)
    /\ UNCHANGED <<memory, phase, plan, replay, held, crashes>>

\* Mutant: a tip is committed whatever was lost before it.
MayAlwaysCommit == TRUE

\* No tip is committed on top of a loss.
MayCommit == ~faulted

\* The batch of coins and tip lands, and then the observer is told.
CommitTip ==
    /\ writes # <<>> /\ Head(writes).kind = "tip"
    /\ MayCommit
    /\ db' = [db EXCEPT !.coins = coins, !.tip = Tip]
    /\ heard' = IF Head(writes).event = "connected"
                THEN Append(heard, Head(writes).block) ELSE SubSeq(heard, 1, Len(heard) - 1)
    /\ writes' = Tail(writes)
    /\ UNCHANGED <<index, chain, coins, faulted, phase, plan, replay, held, crashes>>

\* Any other write is refused: the latch is set and the caller goes on.
WriteRefused ==
    /\ MayFault
    /\ writes # <<>> /\ Head(writes).kind # "tip"
    /\ faulted' = TRUE
    /\ writes' = Tail(writes)
    /\ UNCHANGED <<index, chain, coins, heard, db, phase, plan, replay, held, crashes>>

\* Mutant: the coins land without the tip.
CommitTipHalf ==
    /\ MayFault
    /\ writes # <<>> /\ Head(writes).kind = "tip"
    /\ faulted' = TRUE
    /\ db' = [db EXCEPT !.coins = coins]
    /\ phase' = "stopped" /\ plan' = NoPlan /\ writes' = <<>>
    /\ UNCHANGED <<index, chain, coins, heard, replay, held, crashes>>

\* A failed commit stops the activation.  On a faulted database it is refused
\* before the cache is flushed; if the batch itself fails, the cache is
\* already empty and answers what the database does.
CommitTipRefused ==
    /\ MayFault
    /\ writes # <<>> /\ Head(writes).kind = "tip"
    /\ faulted' = TRUE
    /\ coins' = IF faulted THEN coins ELSE db.coins
    /\ phase' = "stopped" /\ plan' = NoPlan /\ writes' = <<>>
    /\ UNCHANGED <<index, chain, heard, db, replay, held, crashes>>

\* A read fails.  From here on any read may.
ReadFails ==
    /\ MayFault
    /\ phase \in Up /\ ~faulted
    /\ faulted' = TRUE
    /\ UNCHANGED <<index, chain, coins, heard, db, control, crashes>>
-----------------------------------------------------------------------------
(* ActivateBestChain.                                                      *)

\* The blocks to revert, tip first, and to apply, lowest first.
PlanChainSwitch(from, to) ==
    LET low  == IF Header[from].height < Header[to].height
                THEN Header[from].height ELSE Header[to].height
        fork == Max({h \in 0..low : Ancestor(from, h) = Ancestor(to, h)})
    IN  [forkPoint  |-> Ancestor(to, fork),
         disconnect |-> [i \in 1..(Header[from].height - fork) |->
                            Ancestor(from, Header[from].height - i + 1)],
         connect    |-> [i \in 1..(Header[to].height - fork) |->
                            Ancestor(to, fork + i)]]

ActivateBestChain ==
    /\ Ready
    /\ phase' = "planning"
    /\ held' = Tip
    /\ UNCHANGED <<memory, plan, writes, replay, db, crashes>>

\* Leading bodies of the new branch this node has; a failed read cuts it short.
Reachable(connect) ==
    LET stored == {n \in 0..Len(connect) :
                      \A i \in 1..n : connect[i] \in db.bodies}
    IN  IF faulted THEN stored ELSE {Max(stored)}

\* Mutant: anything but standing still is worth it.
WorthMoving(attainable) == attainable # Tip

\* The guard against paying for an announcement.
WorthSwitching(attainable) == IsBetterTip(index, attainable, Tip)

\* One pass of the loop: return, or begin a switch that ends somewhere better.
PlanPass ==
    /\ phase = "planning"
    /\ \/ /\ index.best \in {NoBlock, Tip}
          /\ phase' = "returned" /\ plan' = NoPlan
       \/ /\ index.best \notin {NoBlock, Tip}
          /\ LET switch == PlanChainSwitch(Tip, index.best)
             IN  \E reachable \in Reachable(switch.connect) :
                    LET attainable == IF reachable = 0 THEN switch.forkPoint
                                      ELSE switch.connect[reachable]
                    IN  IF WorthSwitching(attainable)
                        THEN /\ phase' = "switching"
                             /\ plan' = [disconnect |-> switch.disconnect,
                                         connect |-> SubSeq(switch.connect, 1, reachable)]
                        ELSE phase' = "returned" /\ plan' = NoPlan
    /\ UNCHANGED <<memory, writes, replay, held, db, crashes>>

PassDone ==
    /\ phase = "switching" /\ writes = <<>> /\ plan = NoPlan
    /\ phase' = "planning"
    /\ UNCHANGED <<memory, plan, writes, replay, held, db, crashes>>

Stop ==
    /\ phase' = "stopped" /\ plan' = NoPlan
    /\ UNCHANGED <<memory, writes, replay, held, db, crashes>>

\* With the latch set, the coins of a block being applied or reverted may be
\* misread: one that could not be seen in the database is not hidden by the
\* cache when it is spent.
Misread(after, touched) ==
    IF ~faulted THEN {after}
    ELSE {[o \in OutPoint |-> IF o \in kept THEN db.coins[o] ELSE after[o]] :
             kept \in SUBSET {o \in touched : db.coins[o] # NoCoin}}

\* Mutant: reversals are left for a later commit.
DisconnectWritesNothing(b) == <<>>

DisconnectWrites(b) == <<TipWrite(b, "disconnected")>>

DisconnectTip ==
    /\ phase = "switching" /\ writes = <<>> /\ plan.disconnect # <<>>
    /\ LET b == Tip
           body == Header[b].root
           stored == b \in db.bodies /\ b \in DOMAIN db.undo
           undone == DisconnectBlock(body, Header[b].height, db.undo[b], coins)
       IN  \E legible \in Answers(b # Genesis /\ b = Head(plan.disconnect) /\ stored) :
              \/ ~(legible /\ undone.ok) /\ Stop
              \/ /\ legible /\ undone.ok
                 /\ coins' \in Misread(undone.coins, UNION {Created(t) : t \in Range(body)})
                 /\ chain' = SubSeq(chain, 1, Len(chain) - 1)
                 /\ plan' = [plan EXCEPT !.disconnect = Tail(@)]
                 /\ writes' = DisconnectWrites(b)
                 /\ UNCHANGED <<index, heard, faulted, phase, replay, held, db, crashes>>

\* Mutant: a failure is always the block's.
StorageNeverFaulted == FALSE

StorageFaulted == faulted

\* Mutant: the tip is committed before what it needs.
ConnectWritesTipFirst(b, undo) ==
    <<TipWrite(b, "connected"), UndoWrite(b, undo), HeaderWrite(b)>>

\* The undo record and the header go first: the tip needs both.
ConnectWrites(b, undo) ==
    <<UndoWrite(b, undo), HeaderWrite(b), TipWrite(b, "connected")>>

\* A block that fails is ruled out, unless the failure may be the database's:
\* a coin that could not be read looks like one that does not exist.
ConnectTip ==
    /\ phase = "switching" /\ writes = <<>>
    /\ plan.disconnect = <<>> /\ plan.connect # <<>>
    /\ LET b == Head(plan.connect)
           body == Header[b].root
           sound == index.validity[b] >= BodyValid \/ CheckBlock(b, body)
           I == IF sound THEN WithValidity(index, b, BodyValid) ELSE index
           applied == ConnectBlock(body, Header[b].height, coins)
       IN  \E legible \in Answers(Header[b].prev = Tip /\ b \in db.bodies),
              valid \in Answers(sound /\ applied.ok) :
              \/ (~legible \/ (~valid /\ StorageFaulted)) /\ Stop
              \/ /\ legible /\ ~valid /\ ~StorageFaulted
                 /\ index' = WithFailure(I, b)
                 /\ plan' = NoPlan
                 /\ writes' = <<HeaderWrite(b)>>
                 /\ UNCHANGED <<chain, coins, heard, faulted, phase, replay, held, db, crashes>>
              \/ /\ legible /\ valid
                 /\ coins' \in Misread(applied.coins, UNION {Spends(t) : t \in Range(body)})
                 /\ chain' = Append(chain, b)
                 /\ index' = WithValidity(I, b, FullyValid)
                 /\ plan' = [plan EXCEPT !.connect = Tail(@)]
                 /\ writes' = ConnectWrites(b, applied.undo)
                 /\ UNCHANGED <<heard, faulted, phase, replay, held, db, crashes>>
-----------------------------------------------------------------------------
(* Crashes, and LoadChain after one.                                       *)

Crash ==
    /\ phase \in Up /\ crashes < MaxCrashes
    /\ phase' = "down"
    /\ index' = NewIndex /\ chain' = <<Genesis>> /\ coins' = NoCoins
    /\ heard' = <<Genesis>> /\ faulted' = FALSE
    /\ plan' = NoPlan /\ writes' = <<>> /\ replay' = {} /\ held' = NoBlock
    /\ crashes' = crashes + 1
    /\ UNCHANGED db

\* A node that refused to start can be started again.
LoadHeaders ==
    /\ phase \in {"down", "refused"}
    /\ phase' = "loading"
    /\ index' = NewIndex
    /\ replay' = DOMAIN db.headers \ {Genesis}
    /\ UNCHANGED <<chain, coins, heard, faulted, plan, writes, held, db, crashes>>

\* The stored headers in arrival order; an unstable sort, so equals in any.
Earliest == {b \in replay : \A c \in replay : db.headers[b].seq <= db.headers[c].seq}

\* Mutant: the replay is judged by the wall clock.
ReplayByWallClock(now) == now

\* Held at or above every stored timestamp, and below where adding overflows.
ReplayClock(now) ==
    LET latest == Max({now} \cup {Header[b].time : b \in DOMAIN db.headers})
    IN  Min({latest, MaxTime - MaxFuture})

LoadHeader(b, now) ==
    /\ phase = "loading" /\ b \in Earliest
    /\ IF AddsHeader(index, b, ReplayClock(now))
       THEN /\ index' = WithValidity(WithHeader(index, b), b, db.headers[b].validity)
            /\ replay' = replay \ {b}
            /\ UNCHANGED phase
       ELSE phase' = "refused" /\ UNCHANGED <<index, replay>>
    /\ UNCHANGED <<chain, coins, heard, faulted, plan, writes, held, db, crashes>>

LoadFailures ==
    /\ phase = "loading" /\ replay = {}
    /\ phase' = "ruling"
    /\ replay' = {b \in DOMAIN db.headers : db.headers[b].failure = "Itself"}
    /\ UNCHANGED <<memory, plan, writes, held, db, crashes>>

LoadFailure(b) ==
    /\ phase = "ruling" /\ b \in Earliest
    /\ index' = WithFailure(index, b)
    /\ replay' = replay \ {b}
    /\ UNCHANGED <<chain, coins, heard, faulted, phase, plan, writes, held, db, crashes>>

\* The coins of a database that has never committed a tip are genesis's.
StoredTip == IF db.tip = NoBlock THEN Genesis ELSE db.tip

LoadTip ==
    /\ phase = "ruling" /\ replay = {}
    /\ IF \/ db.tip = NoBlock
          \/ db.tip \in index.known /\ IsEligible(index, db.tip)
       THEN phase' = "resuming" /\ chain' = <<StoredTip>>
       ELSE phase' = "refused" /\ UNCHANGED chain
    /\ UNCHANGED <<index, coins, heard, faulted, plan, writes, replay, held, db, crashes>>

NoParent(b) == b = Genesis

\* ResumeAt walks the parent links up to genesis; the rest of the node is
\* then built over the restored chain.
ResumeAt ==
    /\ phase = "resuming"
    /\ IF NoParent(Head(chain))
       THEN /\ phase' = "idle" /\ coins' = db.coins
            /\ heard' = chain
            /\ UNCHANGED chain
       ELSE /\ chain' = <<Header[Head(chain)].prev>> \o chain
            /\ UNCHANGED <<phase, coins, heard>>
    /\ UNCHANGED <<index, faulted, plan, writes, replay, held, db, crashes>>

-----------------------------------------------------------------------------
Arrive == \E b \in Block, now \in Clock :
             \/ b \in Announced /\ AcceptHeader(b, now)
             \/ \E body \in Bodies[b] : AcceptBlock(b, body, now)
Store == PutBlock \/ PutUndo \/ CommitHeader \/ CommitTip
Activate == PlanPass \/ PassDone \/ DisconnectTip \/ ConnectTip
Fail == WriteRefused \/ CommitTipRefused \/ ReadFails
Load == \/ LoadHeaders \/ LoadFailures \/ LoadTip \/ ResumeAt
        \/ \E b \in Block : LoadFailure(b) \/ \E now \in Clock : LoadHeader(b, now)

Next == Arrive \/ ActivateBestChain \/ Store \/ Activate \/ Fail \/ Crash \/ Load

\* The thread that called ActivateBestChain is not blocked by anything, so a
\* call that is running keeps taking steps until it returns.  Some step of a
\* running call is always possible, so this is the weak fairness of those
\* steps; saying it without ENABLED keeps the runs short.
Running == phase \in {"planning", "switching"}
Fairness == []<>~Running \/ []<><<TRUE>>_vars

Spec == Init /\ [][Next]_vars /\ Fairness
-----------------------------------------------------------------------------
\* The state has its type.
TypeOK ==
    /\ IsIndex(index) /\ IsCoins(coins) /\ faulted \in BOOLEAN
    /\ chain \in Seq(Block) /\ chain # <<>> /\ heard \in Seq(Block)
    /\ db.bodies \subseteq Block /\ db.tip \in Block \cup {NoBlock} /\ IsCoins(db.coins)
    /\ DOMAIN db.undo \subseteq Block /\ DOMAIN db.headers \subseteq Block
    /\ phase \in Up \cup {"down", "loading", "ruling", "resuming", "refused"}
    /\ replay \subseteq Block /\ held \in Block \cup {NoBlock} /\ crashes \in 0..MaxCrashes

\* What a chain leaves unspent, said without applying anything: an output is
\* there if some block above genesis created it and none spent it.
UnspentAfter(path) ==
    [o \in OutPoint |->
        LET By(Touch(_)) == {i \in DOMAIN path \ {1} :
                                \E t \in Range(Header[path[i]].root) : o \in Touch(t)}
        IN  IF By(Created) = {} \/ By(Spends) # {} THEN NoCoin
            ELSE Header[path[Max(By(Created))]].height]

\* A block is right if its transactions are sound and apply to what its own
\* ancestry leaves unspent.
Right(b) ==
    /\ CheckBlock(b, Header[b].root)
    /\ ConnectBlock(Header[b].root, Header[b].height,
                    UnspentAfter(Lineage[Header[b].prev])).ok

\* The stored coins are the ones the stored tip implies, after any crash, any
\* refused write and any misread: CommitTip is the only write of either.
StoreCoherent == db.coins = UnspentAfter(Lineage[StoredTip])

\* Between two calls on a database that has not failed, the chain and the coins
\* in memory are the stored ones, so nothing a restart forgets was relied on.
MemoryMatchesStore ==
    (phase \in Up /\ ~faulted /\ writes = <<>>)
        => chain = Lineage[StoredTip] /\ coins = db.coins

\* An observer hears of a block after its commit and never otherwise, so the
\* chain it has been told of is always the stored one, even on a database that
\* has failed and whose commits are refused.
ObserverFollowsStore == phase \in Up => heard = Lineage[StoredTip]

\* Every block up to the stored tip can be found again after a crash and can be
\* reverted: its body, its undo record and an eligible, fully valid header
\* record are stored before the tip that needs them.
TipIsRecoverable ==
    \A b \in Range(Lineage[StoredTip]) \ {Genesis} :
        /\ b \in db.bodies /\ b \in DOMAIN db.undo /\ b \in DOMAIN db.headers
        /\ db.headers[b].validity = FullyValid /\ db.headers[b].failure = "None"

\* A block is ruled out, in memory or on disk, only for what it is: never
\* because a read or a write failed, and never because of the chain the node
\* happened to be on.
OnlyWrongRuledOut ==
    \A b \in Block :
        (\/ index.failure[b] = "Itself"
         \/ b \in DOMAIN db.headers /\ db.headers[b].failure = "Itself") => ~Right(b)

\* The header tree keeps its shape through crashes and replays: parents first,
\* failures inherited, best_header_ what a full scan would choose.
IndexIsSound == IsTree(index) /\ IsFailureInherited(index) /\ IsBestMaximal(index)

\* A restart is refused only when a header was stored without its parent, or
\* under an arrival number that does not come after its parent's: a restart
\* numbers the entries anew and leaves the stored numbers as they are, so after a
\* loss they may collide.  Neither the clock nor a failure is ever a reason.
RefusedOnlyForDisorder ==
    phase = "refused" =>
        \E b \in DOMAIN db.headers \ {Genesis} :
            LET parent == Header[b].prev
            IN  /\ parent # Genesis
                /\ parent \in DOMAIN db.headers => db.headers[parent].seq >= db.headers[b].seq

\* ActivateBestChain returns: every pass raises the tip or rules a block out.
ActivationReturns == Running ~> ~Running

\* "activation either improves the tip or leaves it alone", as long as no block
\* has been ruled out: when it returns, the tip it started from is no better than
\* the one it ends on, whatever bodies are withheld.  Once a branch is ruled out on
\* the way the loop may stop at the fork, facing a header whose body it lacks.
TipNeverWorse ==
    phase = "returned" /\ (\A b \in index.known : IsEligible(index, b)) => ~IsBetterTip(index, held, Tip)

-----------------------------------------------------------------------------
(* What a comment says that the code does not do.                          *)

\* chain_db.hpp:190 "Replaying in this order therefore never presents a child
\* before its parent": LoadChain never refuses what this node itself stored.
ReplayNeverRefuses == phase # "refused"
=============================================================================

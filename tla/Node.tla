-------------------------------- MODULE Node --------------------------------
(***************************************************************************)
(* The chain and the mempool of one node, and the calls that move them:    *)
(* PoolKeeper, Advance, ImportBlocks, ServeRpc and Run of                  *)
(* node/amariand.cpp, Submit of rpc/dispatch.cpp and the block handler of  *)
(* net/peer_manager.cpp.                                                   *)
(*                                                                         *)
(* The pool is told of blocks by ChainState, as its TipObserver.  Calls do *)
(* not overlap here.                                                       *)
(***************************************************************************)
EXTENDS ChainState, SequencesExt

CONSTANTS NoTx, WeightOf, Rank, MaxPoolWeight, MinRelayFeerate, MaxAncestors,
          MaxDescendants, MaxEvictions,   \* as in Pool
          Offered,        \* the transactions peers and wallets offer
          TemplateWeight  \* what a block has left after its coinbase

ASSUME OfferAssumption == Offered \subseteq Tx /\ TemplateWeight \in Nat

VARIABLES pool, arrival, sweep,  \* as in Mempool
          reorganised,  \* PoolKeeper::reorganised_
          serving,      \* Run has come to ServeRpc
          caller,       \* who is between AcceptBlock and its answer
          given         \* and the block it was given

M == INSTANCE Mempool WITH Views <- {}, Confirmed <- {}

poolVars == <<pool, arrival, sweep>>
callVars == <<serving, caller, given>>
nodeVars == <<vars, poolVars, reorganised, callVars>>

NodeInit ==
    /\ Init /\ M!Init
    /\ reorganised = FALSE /\ serving = FALSE /\ caller = "none" /\ given = NoBlock

Unoccupied == Ready /\ caller = "none" /\ M!Idle
NextHeight == Header[Tip].height + 1

-----------------------------------------------------------------------------
(* Before the node serves: catching up, and --import-blocks.               *)

Import ==
    /\ Unoccupied /\ ~serving
    /\ Arrive
    /\ UNCHANGED <<poolVars, reorganised, callVars>>

Advance ==
    /\ Unoccupied /\ ~serving
    /\ ActivateBestChain
    /\ caller' = "advance"
    /\ UNCHANGED <<poolVars, reorganised, serving, given>>

\* A block BuildBlockTemplate assembles: on the tip, out of what the pool offers.
OwnTemplate(b) ==
    Header[b].prev = Tip /\ Tail(Header[b].root) \in M!GetTemplates(pool, TemplateWeight)

\* --generate: one round of GenerateBlocks, whose next step is Advance.
GenerateBlocks(b) ==
    /\ Unoccupied /\ ~serving /\ phase = "returned"
    /\ OwnTemplate(b)
    /\ \E now \in Clock : AcceptBlock(b, Header[b].root, now)
    /\ caller' = "mine" /\ given' = b
    /\ UNCHANGED <<poolVars, reorganised, serving>>

\* Only Advance settles, and nothing calls it once the pool can hold anything.
Settle ==
    /\ phase = "returned" /\ caller = "advance"
    /\ reorganised' = FALSE
    /\ IF reorganised /\ pool.entries # {}
       THEN M!RemoveForReorg(coins, NextHeight)
       ELSE UNCHANGED poolVars
    /\ caller' = "none"
    /\ UNCHANGED <<vars, serving, given>>

ServeRpc ==
    /\ Unoccupied /\ ~serving /\ phase = "returned"
    /\ serving' = TRUE
    /\ UNCHANGED <<vars, poolVars, reorganised, caller, given>>

-----------------------------------------------------------------------------
(* While it serves: submitblock, a block from a peer, transactions.        *)

\* accept_transaction and submit_transaction.
Offer(t) ==
    /\ Unoccupied /\ serving
    /\ M!Accept(t, coins, NextHeight)
    /\ UNCHANGED <<vars, reorganised, callVars>>

\* The loop inside Accept.
Trim == M!Trim /\ UNCHANGED <<vars, reorganised, callVars>>

\* The headers handler of a peer.
Announce(b) ==
    /\ Unoccupied /\ serving
    /\ \E now \in Clock : AcceptHeader(b, now)
    /\ UNCHANGED <<poolVars, reorganised, callVars>>

Give(c, b) ==
    /\ Unoccupied /\ serving
    /\ \E now \in Clock, body \in Bodies[b] : AcceptBlock(b, body, now)
    /\ caller' = c /\ given' = b
    /\ UNCHANGED <<poolVars, reorganised, serving>>

\* The generate method, which rebuilds the template for each block.
Generate(b) ==
    /\ TrivialDifficulty
    /\ OwnTemplate(b)
    /\ Give("generate", b)

\* AcceptBlock has refused the body, or it has not.
Given ==
    /\ caller \in {"submit", "generate", "peer", "mine"} /\ phase = "idle" /\ writes = <<>>
    /\ IF IsEligible(index, given)
       THEN /\ ActivateBestChain
            /\ IF caller = "mine" THEN caller' = "advance" /\ given' = NoBlock
               ELSE UNCHANGED <<caller, given>>
       ELSE caller' = "none" /\ given' = NoBlock /\ UNCHANGED vars
    /\ UNCHANGED <<poolVars, reorganised, serving>>

\* Mutant: the keeper was never registered.
ToldNobody == CommitTip /\ UNCHANGED <<poolVars, reorganised, callVars>>

\* BlockConnected edits the pool, BlockDisconnected only remembers.
Told ==
    /\ CommitTip
    /\ IF Head(writes).event = "connected"
       THEN M!BlockConnected(Header[Head(writes).block].root) /\ UNCHANGED reorganised
       ELSE reorganised' = TRUE /\ UNCHANGED poolVars
    /\ UNCHANGED callVars

\* Submit removes its own block from the pool once more, if it is on the chain;
\* the handler of a peer's block tells the wallet and not the pool.
Answer ==
    /\ phase = "returned" /\ caller \in {"submit", "generate", "peer"}
    /\ IF caller # "peer" /\ given \in ToSet(chain)
       THEN M!BlockConnected(Header[given].root) ELSE UNCHANGED poolVars
    /\ caller' = "none" /\ given' = NoBlock
    /\ UNCHANGED <<vars, reorganised, serving>>

\* The pool is not stored.
Restart ==
    /\ Crash
    /\ pool' = M!EmptyPool /\ arrival' = M!NoArrival /\ sweep' = M!NoSweep
    /\ reorganised' = FALSE
    /\ serving' = FALSE /\ caller' = "none" /\ given' = NoBlock

\* What goes on without the pool.  The database does not fail here.
Elsewhere ==
    /\ PutBlock \/ PutUndo \/ CommitHeader \/ Activate \/ Load
    /\ UNCHANGED <<poolVars, reorganised, callVars>>

NodeNext ==
    \/ Import \/ Advance \/ Settle \/ ServeRpc
    \/ \E t \in Offered : Offer(t)
    \/ \E b \in Announced : Announce(b)
    \/ \E b \in Block : GenerateBlocks(b) \/ Generate(b) \/ \E c \in {"submit", "peer"} : Give(c, b)
    \/ Trim \/ Given \/ Told \/ Answer \/ Restart \/ Elsewhere

NodeSpec == NodeInit /\ [][NodeNext]_nodeVars
-----------------------------------------------------------------------------
Applies(body, height, before) ==
    FoldLeft(LAMBDA r, t : IF r.ok /\ CanApply(r.coins, t, height)
                           THEN [ok |-> TRUE, coins |-> AfterTx(r.coins, t, height)]
                           ELSE [r EXCEPT !.ok = FALSE],
             [ok |-> TRUE, coins |-> before], body).ok

\* Until a block is reversed while the node serves, whatever GetTemplates hands
\* to the assembler, which does not judge it again, applies to the coins in the
\* order it is handed over: replacements, evictions and confirmations in any
\* order leave nothing that the next block could not contain.
MinableUntilReversed ==
    (Unoccupied /\ ~reorganised) =>
        \A body \in M!GetTemplates(pool, TemplateWeight) : Applies(body, NextHeight, coins)

\* Nothing the committed chain confirmed is in the pool, and nothing in the pool
\* spends an outpoint the committed chain has spent: at any moment of any call,
\* after a reversal too.
PoolUnconfirmed ==
    \A i \in DOMAIN heard \ {1} : \A s \in ToSet(Header[heard[i]].root) :
        /\ s \notin pool.entries
        /\ \A o \in Spends(s) : pool.spentBy[o] = NoTx
=============================================================================

------------------------------ MODULE CoinSet -------------------------------
(***************************************************************************)
(* What the unspent output set promises, without its layers: one set that  *)
(* is stored, one the node works with, and one a block is being built on.  *)
(* CoinsCache implements it; ChainState is written against it.             *)
(***************************************************************************)
CONSTANTS OutPoint, Coin, None

VARIABLES stored,    \* what a restart finds
          coins,     \* what the node works with
          draft,     \* what the block in progress has made of it
          drafting,  \* whether there is one
          faulted    \* whether the store has failed

setVars == <<stored, coins, draft, drafting, faulted>>

Init ==
    /\ stored \in [OutPoint -> {None}]
    /\ coins = stored /\ draft = stored /\ drafting = FALSE /\ faulted = FALSE

Begin ==
    /\ ~drafting /\ drafting' = TRUE
    /\ UNCHANGED <<stored, coins, draft, faulted>>

\* A coin is created where there is none, or where a failed read shows none.
Add(o, c) ==
    /\ drafting
    /\ draft[o] = None \/ (faulted /\ draft[o] = stored[o])
    /\ draft' = [draft EXCEPT ![o] = c]
    /\ UNCHANGED <<stored, coins, drafting, faulted>>

\* A spent coin is gone, unless the store would show it again and has failed.
Spend(o) ==
    /\ drafting
    /\ draft[o] # None
    /\ \/ draft' = [draft EXCEPT ![o] = None]
       \/ faulted /\ draft' = [draft EXCEPT ![o] = stored[o]]
    /\ UNCHANGED <<stored, coins, drafting, faulted>>

\* All of the block or nothing of it.
Publish ==
    /\ drafting /\ drafting' = FALSE
    /\ coins' = draft
    /\ UNCHANGED <<stored, draft, faulted>>

Abandon ==
    /\ drafting /\ drafting' = FALSE
    /\ draft' = coins
    /\ UNCHANGED <<stored, coins, faulted>>

\* Whatever is stored is stored whole.
Store ==
    /\ ~drafting /\ ~faulted
    /\ stored' = coins
    /\ UNCHANGED <<coins, draft, drafting, faulted>>

\* The store refuses: the node is back to what is stored.
Lose ==
    /\ ~drafting
    /\ coins' = stored /\ draft' = stored /\ faulted' = TRUE
    /\ UNCHANGED <<stored, drafting>>

Reappear(o) ==
    /\ faulted /\ ~drafting
    /\ coins' = [coins EXCEPT ![o] = stored[o]]
    /\ draft' = coins'
    /\ UNCHANGED <<stored, drafting, faulted>>

Fault ==
    /\ faulted' = TRUE
    /\ UNCHANGED <<stored, coins, draft, drafting>>

Crash ==
    /\ coins' = stored /\ draft' = stored /\ drafting' = FALSE /\ faulted' = FALSE
    /\ UNCHANGED stored

Next ==
    \/ Begin \/ Publish \/ Abandon \/ Store \/ Lose \/ Fault \/ Crash
    \/ \E o \in OutPoint : Spend(o) \/ Reappear(o) \/ \E c \in Coin : Add(o, c)

Spec == Init /\ [][Next]_setVars
=============================================================================

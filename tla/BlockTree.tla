----------------------------- MODULE BlockTree ------------------------------
(***************************************************************************)
(* The header tree of chain/block_index.cpp as a value and the operations  *)
(* on it: which headers are known, how much work each branch has, what was *)
(* ruled out, and which header chain selection prefers.                    *)
(*                                                                         *)
(* An index is one record, so that ChainState can apply several of its     *)
(* operations in one step:                                                 *)
(*   known    the keys of entries_                                         *)
(*   work     BlockIndexEntry::total_work                                  *)
(*   validity BlockIndexEntry::validity                                    *)
(*   failure  BlockIndexEntry::failure                                     *)
(*   seq      BlockIndexEntry::sequence                                    *)
(*   next     next_sequence_                                               *)
(*   best     best_header_, NoBlock for the null pointer                   *)
(***************************************************************************)
EXTENDS HeaderRules

CONSTANT NoBlock   \* the null BlockIndexEntry pointer

ASSUME NullAssumption == NoBlock \notin Block

\* BlockValidity, in its declared (ascending) order.
HeaderValid == 0
BodyValid   == 1
FullyValid  == 2
Validity    == HeaderValid..FullyValid
Failure     == {"None", "Itself", "Ancestor"}

-----------------------------------------------------------------------------
\* BlockIndex::BlockIndex: genesis alone, fully valid by definition.
NewIndex ==
    [known    |-> {Genesis},
     work     |-> [b \in Block |-> IF b = Genesis
                                   THEN WorkOf(Header[Genesis].bits) ELSE 0],
     validity |-> [b \in Block |-> IF b = Genesis
                                   THEN FullyValid ELSE HeaderValid],
     failure  |-> [b \in Block |-> "None"],
     seq      |-> [b \in Block |-> 0],
     next     |-> 1,
     best     |-> Genesis]

IsEligible(I, b) == I.failure[b] = "None"

\* Mutant: between equals, the header seen last.
IsBetterTipLastSeen(I, candidate, incumbent) ==
    /\ IsEligible(I, candidate)
    /\ \/ ~IsEligible(I, incumbent)
       \/ I.work[candidate] > I.work[incumbent]
       \/ /\ I.work[candidate] = I.work[incumbent]
          /\ I.seq[candidate] > I.seq[incumbent]

\* Work decides, and between equals the header seen first.
IsBetterTip(I, candidate, incumbent) ==
    /\ IsEligible(I, candidate)
    /\ \/ ~IsEligible(I, incumbent)
       \/ I.work[candidate] > I.work[incumbent]
       \/ /\ I.work[candidate] = I.work[incumbent]
          /\ I.seq[candidate] < I.seq[incumbent]

\* Mutant: a header may extend a branch that was ruled out.
AcceptableOnFailed(I, b, now) ==
    /\ CheckBlockHeader(b)
    /\ Header[b].prev \in I.known
    /\ ContextualCheckBlockHeader(b, Header[b].prev, now)

\* The checks of AddHeader on a header that is not indexed yet.
Acceptable(I, b, now) ==
    /\ CheckBlockHeader(b)
    /\ Header[b].prev \in I.known
    /\ IsEligible(I, Header[b].prev)
    /\ ContextualCheckBlockHeader(b, Header[b].prev, now)

\* The entry AddHeader makes, and the one comparison that keeps best_header_.
Entered(I, b) ==
    [I EXCEPT !.known = @ \cup {b},
              !.work[b] = I.work[Header[b].prev] + WorkOf(Header[b].bits),
              !.validity[b] = HeaderValid,
              !.failure[b] = "None",
              !.seq[b] = I.next,
              !.next = @ + 1]

Inserted(I, b) ==
    LET J == Entered(I, b)
    IN  [J EXCEPT !.best = IF I.best = NoBlock \/ IsBetterTip(J, b, I.best)
                           THEN b ELSE I.best]

\* Whether AddHeader returns an entry, and the index it leaves: offering a
\* known header again changes nothing.
AddsHeader(I, b, now) == b \in I.known \/ Acceptable(I, b, now)
WithHeader(I, b) == IF b \in I.known THEN I ELSE Inserted(I, b)

\* Mutant: the last report wins.
WithLatestValidity(I, b, reached) == [I EXCEPT !.validity[b] = reached]

\* RecordValidity never lowers a recorded level.
WithValidity(I, b, reached) ==
    IF b \in I.known /\ reached > I.validity[b]
    THEN [I EXCEPT !.validity[b] = reached]
    ELSE I

ChildrenOf(I, b) == {c \in I.known : Header[c].prev = b}

\* What the walk of RecordFailure reaches below its root: the least set that
\* holds the not yet failed children of the root and of its own members.
Subtree(I, root) ==
    LET below == {x \in I.known : /\ IsEligible(I, x)
                                  /\ Header[x].height > Header[root].height}
        Closed(S) == \A c \in below : Header[c].prev \in S \cup {root} => c \in S
    IN  {x \in below : \A S \in SUBSET below : Closed(S) => x \in S}

\* Mutant: any eligible entry will do.
RescanForAny(I) ==
    LET eligible == {b \in I.known : IsEligible(I, b)}
    IN  IF eligible = {} THEN NoBlock ELSE CHOOSE b \in eligible : TRUE

\* RescanForBestHeader: the best eligible entry, or none.
RescanForBestHeader(I) ==
    LET eligible == {b \in I.known : IsEligible(I, b)}
    IN  IF eligible = {} THEN NoBlock
        ELSE CHOOSE b \in eligible :
                 \A c \in eligible \ {b} : ~IsBetterTip(I, c, b)

\* Mutant: nothing is recorded.
WithFailureForgotten(I, root) == I

\* RecordFailure: the root failed itself, everything below by its ancestry.
WithFailure(I, root) ==
    IF root \notin I.known \/ ~IsEligible(I, root) THEN I
    ELSE LET doomed == Subtree(I, root)
             J == [I EXCEPT !.failure = [b \in Block |->
                      IF b = root THEN "Itself"
                      ELSE IF b \in doomed THEN "Ancestor" ELSE I.failure[b]]]
         IN  IF J.best = NoBlock \/ ~IsEligible(J, J.best)
             THEN [J EXCEPT !.best = RescanForBestHeader(J)]
             ELSE J
-----------------------------------------------------------------------------
\* Every field of the index has its type, and genesis is never lost.
IsIndex(I) ==
    /\ I \in [known: SUBSET Block, work: [Block -> Nat],
              validity: [Block -> Validity], failure: [Block -> Failure],
              seq: [Block -> Nat], next: Nat, best: Block \cup {NoBlock}]
    /\ Genesis \in I.known

\* Entries form a tree under genesis: the predecessor of every other entry is
\* an entry, one lower, and arrived before it.  LoadHeaders and PlanChainSwitch
\* rest on it ("a topological order of the tree besides").
IsTree(I) ==
    \A b \in I.known \ {Genesis} :
        /\ Header[b].prev \in I.known
        /\ Header[b].height = Header[Header[b].prev].height + 1
        /\ I.seq[Header[b].prev] < I.seq[b]

\* Arrival numbers are handed out once each, which is what makes IsBetterTip a
\* strict order on entries of equal work.
ArrivalIsStrict(I) ==
    \A b, c \in I.known : I.seq[b] < I.next /\ (I.seq[b] = I.seq[c] => b = c)

\* A child has strictly more total work than its parent, so an ancestor never
\* ties with a descendant.  ActivateBestChain's truncated target relies on it.
WorkIsCumulative(I) ==
    \A b \in I.known \ {Genesis} : I.work[Header[b].prev] < I.work[b]

\* Rejection reaches exactly the descendants: nothing below a ruled out entry
\* is eligible, and an entry is only blamed for its ancestry when its parent
\* is ruled out.  RecordFailure's walk and AddHeader's check of the parent
\* together keep this, at whatever moment either runs.
IsFailureInherited(I) ==
    \A b \in I.known \ {Genesis} :
        /\ ~IsEligible(I, Header[b].prev) => ~IsEligible(I, b)
        /\ I.failure[b] = "Ancestor" => ~IsEligible(I, Header[b].prev)

\* best_header_, kept by one comparison per insertion and rescanned only when
\* it is itself ruled out, is always what a full scan would choose: an eligible
\* entry no other beats, and null exactly when nothing is eligible.
IsBestMaximal(I) ==
    IF I.best = NoBlock THEN \A b \in I.known : ~IsEligible(I, b)
    ELSE /\ I.best \in I.known /\ IsEligible(I, I.best)
         /\ \A b \in I.known : ~IsBetterTip(I, b, I.best)
=============================================================================

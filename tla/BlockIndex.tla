----------------------------- MODULE BlockIndex -----------------------------
(***************************************************************************)
(* An index driven alone, in any order a caller may: headers arrive, are   *)
(* judged, and are ruled out.                                              *)
(***************************************************************************)
EXTENDS BlockTree, Assembler

CONSTANTS Clock,    \* the readings of the wall clock a caller may pass
          Levels,   \* the validity levels a caller may report
          MinerClock \* the readings a template is asked for at

ASSUME CallerAssumption == /\ Clock \subseteq 0..MaxTime /\ Levels \subseteq Validity
                           /\ MinerClock \subseteq 0..MaxTime - MaxFuture

VARIABLE index

Init == index = NewIndex

AddHeader(b, now) ==
    /\ AddsHeader(index, b, now)
    /\ index' = WithHeader(index, b)

RecordValidity(b, reached) ==
    /\ b \in index.known
    /\ index' = WithValidity(index, b, reached)

RecordFailure(b) ==
    /\ b \in index.known
    /\ index' = WithFailure(index, b)

Next ==
    \/ \E b \in Block, now \in Clock : AddHeader(b, now)
    \/ \E b \in Block, reached \in Levels : RecordValidity(b, reached)
    \/ \E b \in Block : RecordFailure(b)

Spec == Init /\ [][Next]_index
-----------------------------------------------------------------------------
\* The index has its type whatever the callers do.
TypeOK == IsIndex(index)

\* Entries form a tree under genesis in arrival order, the order LoadHeaders
\* replays them in ("a topological order of the tree besides").
Tree == IsTree(index)

\* No two entries share an arrival number, so IsBetterTip is a strict order.
ArrivalStrict == ArrivalIsStrict(index)

\* An ancestor has strictly less work than its descendants, which
\* ActivateBestChain's truncated target relies on.
WorkCumulative == WorkIsCumulative(index)

\* RecordFailure and AddHeader together rule out exactly the descendants of
\* what failed, at whatever moment either runs.
FailureInherited == IsFailureInherited(index)

\* best_header_, kept by one comparison per insertion and rescanned only when
\* it is itself ruled out, is always what a full scan would choose.
BestMaximal == IsBestMaximal(index)

\* What was judged stays judged: no step forgets a header, lowers a validity
\* level, clears a failure or renumbers an arrival.
JudgementsStand ==
    [][\A b \in index.known :
          /\ b \in index'.known
          /\ index.validity[b] <= index'.validity[b]
          /\ ~IsEligible(index, b) => index'.failure[b] = index.failure[b]
          /\ index'.seq[b] = index.seq[b]]_index

\* While the preferred header is not ruled out it is replaced only by one with
\* strictly more work: arriving later never wins a tie ("first seen").
FirstSeenKeepsTie ==
    [][(index.best # NoBlock /\ IsEligible(index', index.best))
          => \/ index'.best = index.best
             \/ index'.work[index'.best] > index.work[index.best]]_index

\* On the best tip and by any clock a template can be built unless the chain's own
\* median is out of the clock's reach, and its header, once solved, is one the node
\* accepts by any later clock: "a tip whose timestamps run ahead of this machine is
\* a chain this node has already accepted".
TemplateAccepted ==
    index.best # NoBlock =>
        \A now \in MinerClock :
            \A template \in {BuildBlockTemplate(index.best, now)} :
                /\ template.built <=> /\ Header[index.best].height # MaxHeight
                                      /\ now > MedianTimePastAt(index.best) - MaxFuture
                /\ template.built => /\ template.header.bits \in 1..PowLimit
                                     /\ \A later \in now..MaxTime - MaxFuture :
                                            Follows(template.header, index.best, later)
=============================================================================

-------------------------- MODULE BlockIndexProofs --------------------------
(***************************************************************************)
(* The invariants of BlockIndex hold in every run, for every universe of   *)
(* headers and every parameter.                                            *)
(***************************************************************************)
EXTENDS BlockIndex, BlockTreeProofs, FiniteSetTheorems

\* The inductive invariant of the state machine.
Inv == IndexInv(index)

\* Every operation of the index, from any state it can be in, keeps it a tree
\* of uniquely numbered arrivals whose work accumulates, whose failures are
\* inherited downwards and whose best header is the one a full scan would find.
THEOREM IndexInvariant == Spec => []Inv
<1>1. Init => Inv
  BY NewIndexInv DEF Init, Inv
<1>2. Inv /\ [Next]_index => Inv'
  <2> SUFFICES ASSUME IndexInv(index), [Next]_index PROVE IndexInv(index')
    BY DEF Inv
  <2>1. CASE \E b \in Block, now \in Clock : AddHeader(b, now)
    <3> PICK b \in Block, now \in Clock : AddHeader(b, now)
      BY <2>1
    <3>1. CASE b \in index.known
      BY <3>1 DEF AddHeader, WithHeader
    <3>2. CASE b \notin index.known
      BY <3>2, InsertedInv DEF AddHeader, AddsHeader, WithHeader
    <3> QED BY <3>1, <3>2
  <2>2. CASE \E b \in Block, reached \in Levels : RecordValidity(b, reached)
    BY <2>2, CallerAssumption, WithValidityInv DEF RecordValidity
  <2>3. CASE \E b \in Block : RecordFailure(b)
    BY <2>3, WithFailureInv DEF RecordFailure
  <2>4. CASE UNCHANGED index
    BY <2>4
  <2> QED BY <2>1, <2>2, <2>3, <2>4 DEF Next
<1> QED BY <1>1, <1>2, PTL DEF Spec

\* The index always has its type.
THEOREM IndexType == Spec => []TypeOK
<1>1. Inv => TypeOK
  BY DEF Inv, IndexInv, TypeOK
<1> QED BY <1>1, IndexInvariant, PTL

\* The index is always one tree of distinct arrivals in which work accumulates, as
\* IsBetterTip and the truncated target of ActivateBestChain need.
THEOREM IndexIsOrderedTree == Spec => [](Tree /\ ArrivalStrict /\ WorkCumulative)
<1>1. Inv => Tree /\ ArrivalStrict /\ WorkCumulative
  BY DEF Inv, IndexInv, Tree, ArrivalStrict, WorkCumulative
<1> QED BY <1>1, IndexInvariant, PTL

\* best_header_ is always what a scan of the whole index would choose.
THEOREM BestIsMaximal == Spec => []BestMaximal
<1>1. Inv => BestMaximal
  BY DEF Inv, IndexInv, BestMaximal
<1> QED BY <1>1, IndexInvariant, PTL

\* Rejection always covers exactly the descendants of what was rejected.
THEOREM FailureIsInherited == Spec => []FailureInherited
<1>1. Inv => FailureInherited
  BY DEF Inv, IndexInv, FailureInherited
<1> QED BY <1>1, IndexInvariant, PTL

-----------------------------------------------------------------------------
(* What a step may never do. *)

\* Every step of the index leaves both alone.
LEMMA StepsKeep == Inv /\ [Next]_index => Stand(index, index') /\ KeepsTie(index, index')
<1> SUFFICES ASSUME IndexInv(index), [Next]_index
             PROVE  Stand(index, index') /\ KeepsTie(index, index')
  BY DEF Inv
<1>0. Stand(index, index) /\ KeepsTie(index, index)
  <2>1. IsIndex(index)
    BY DEF IndexInv
  <2> QED BY <2>1 DEF Stand, KeepsTie, IsIndex, Validity, HeaderValid, FullyValid
<1>1. CASE \E b \in Block, now \in Clock : AddHeader(b, now)
  <2> PICK b \in Block, now \in Clock : AddHeader(b, now)
    BY <1>1
  <2>1. CASE b \in index.known
    BY <1>0, <2>1 DEF AddHeader, WithHeader
  <2>2. CASE b \notin index.known
    BY <2>2, InsertedSteps DEF AddHeader, WithHeader
  <2> QED BY <2>1, <2>2
<1>2. CASE \E b \in Block, reached \in Levels : RecordValidity(b, reached)
  BY <1>2, CallerAssumption, WithValiditySteps DEF RecordValidity
<1>3. CASE \E b \in Block : RecordFailure(b)
  BY <1>3, WithFailureSteps DEF RecordFailure
<1>4. CASE UNCHANGED index
  BY <1>0, <1>4
<1> QED BY <1>1, <1>2, <1>3, <1>4 DEF Next

\* No call forgets a header, lowers a validity level, clears a failure or renumbers
\* an arrival, for any universe of headers and any order of calls.
THEOREM JudgementsAlwaysStand == Spec => JudgementsStand
<1>1. Inv /\ [Next]_index => [Stand(index, index')]_index
  BY StepsKeep
<1> QED BY <1>1, IndexInvariant, PTL DEF Spec, JudgementsStand, Stand

\* The preferred header gives way only to more work, or when it is ruled out.
THEOREM FirstSeenAlwaysKeepsTie == Spec => FirstSeenKeepsTie
<1>1. Inv /\ [Next]_index => [KeepsTie(index, index')]_index
  BY StepsKeep
<1> QED BY <1>1, IndexInvariant, PTL DEF Spec, FirstSeenKeepsTie, KeepsTie

-----------------------------------------------------------------------------
(* The template a miner is given. *)

\* In a finite window of blocks some block's time has the middle position.
LEMMA MedianExists ==
    ASSUME NEW W \in SUBSET Block, IsFiniteSet(W), W # {}
    PROVE  \E t \in {Header[a].time : a \in W} :
               /\ Cardinality({a \in W : Header[a].time < t}) <= Cardinality(W) \div 2
               /\ Cardinality(W) \div 2 < Cardinality({a \in W : Header[a].time <= t})
<1> DEFINE times == {Header[a].time : a \in W}
           Upto(t) == {a \in W : Header[a].time <= t}
           Below(t) == {a \in W : Header[a].time < t}
           middle == Cardinality(W) \div 2
           good == {t \in times : middle < Cardinality(Upto(t))}
<1>1. MaxTime \in Nat /\ \A a \in W : Header[a].time \in Nat /\ Header[a].time <= MaxTime
  BY HeaderAssumption
<1>2. Cardinality(W) \in Nat /\ Cardinality(W) # 0
  BY FS_CardinalityType, FS_EmptySet
<1>3. middle \in Nat /\ middle < Cardinality(W)
  BY <1>2
<1> HIDE DEF middle
<1>4. times \subseteq Nat /\ times # {} /\ \A x \in times : x <= MaxTime
  BY <1>1
<1>5. good # {}
  <2>1. Max(times) \in times /\ \A x \in times : x <= Max(times)
    BY <1>1, <1>4, GreatestNatural
  <2>2. Upto(Max(times)) = W
    BY <2>1
  <2> QED BY <1>3, <2>1, <2>2
<1>6. good \subseteq Nat
  BY <1>4
<1>7. PICK m \in good : \A y \in good : m <= y
  <2> HIDE DEF good
  <2> QED BY <1>5, <1>6, LeastNatural
<1>8. Cardinality(Below(m)) <= middle
  <2>1. IsFiniteSet(Below(m)) /\ Cardinality(Below(m)) \in Nat
    BY FS_Subset, FS_CardinalityType
  <2> SUFFICES ASSUME middle < Cardinality(Below(m)) PROVE FALSE
    BY <1>3, <2>1
  <2>2. Below(m) # {}
    <3>1. Cardinality(Below(m)) # 0
      BY <1>3, <2>1
    <3> QED BY <3>1, FS_EmptySet
  <2> DEFINE lower == {Header[a].time : a \in Below(m)}
  <2>3. lower \subseteq Nat /\ lower # {} /\ \A x \in lower : x <= MaxTime
    BY <1>1, <2>2
  <2>4. Max(lower) \in lower /\ \A x \in lower : x <= Max(lower)
    <3> HIDE DEF lower
    <3> QED BY <1>1, <2>3, GreatestNatural
  <2>5. PICK b \in Below(m) : Max(lower) = Header[b].time
    BY <2>4
  <2>6. \A a \in Below(m) : Header[a].time <= Header[b].time
    BY <2>4, <2>5
  <2>7. m \in Nat /\ Header[b].time \in Nat /\ Header[b].time < m
    BY <1>1, <1>6
  <2>8. Upto(Header[b].time) = Below(m)
    BY <1>1, <2>6, <2>7
  <2>9. Header[b].time \in good
    BY <2>8
  <2>10. m <= Header[b].time
    BY <1>7, <2>9, Zenon
  <2> QED BY <2>7, <2>10
<1> QED BY <1>7, <1>8 DEF middle

\* The median of a block in the index is the time of a block.
LEMMA MedianIsTime ==
    ASSUME NEW I, IndexInv(I), NEW b \in I.known
    PROVE  MedianTimePastAt(b) \in 0..MaxTime
<1> DEFINE oldest == IF Header[b].height < MedianTimeSpan THEN 0
                     ELSE Header[b].height - MedianTimeSpan + 1
           span == oldest..Header[b].height
           W == {Ancestor(b, h) : h \in span}
<1>1. b \in Block /\ Lineage[b] \in Seq(Block) /\ Len(Lineage[b]) = Header[b].height + 1
  BY LineageInIndex, LineageEnds
<1>2. Header[b].height \in Nat /\ oldest \in Nat /\ Header[b].height \in span
  BY <1>1, HeaderAssumption, ParamAssumption
<1>3. \A h \in span : Ancestor(b, h) \in Block
  BY <1>1, <1>2 DEF Ancestor
<1>4. IsFiniteSet(span)
  BY <1>2, FS_Interval
<1> HIDE DEF span
<1>5. W \in SUBSET Block /\ W # {}
  BY <1>2, <1>3
<1>6. IsFiniteSet(W)
  <2> DEFINE f == [h \in span |-> Ancestor(b, h)]
  <2>1. f \in Surjection(span, W)
    BY DEF Surjection
  <2> QED BY <1>4, <2>1, FS_Surjection
<1> DEFINE times == {Header[a].time : a \in W}
           Middle(t) == /\ Cardinality({a \in W : Header[a].time < t}) <= Cardinality(W) \div 2
                        /\ Cardinality(W) \div 2 < Cardinality({a \in W : Header[a].time <= t})
<1>7. MedianTimePastAt(b) = CHOOSE t \in times : Middle(t)
  BY DEF MedianTimePastAt, span
<1> HIDE DEF W
<1>8. \E t \in times : Middle(t)
  BY <1>5, <1>6, MedianExists
<1>9. times \subseteq 0..MaxTime
  BY <1>5, HeaderAssumption
<1> HIDE DEF times, Middle
<1> QED BY <1>7, <1>8, <1>9

\* What BuildBlockTemplate makes of a tip whose median is a time.
LEMMA TemplateFollows ==
    ASSUME NEW b \in Block, MedianTimePastAt(b) \in 0..MaxTime, NEW now \in 0..MaxTime - MaxFuture,
           NEW template, template = BuildBlockTemplate(b, now)
    PROVE  /\ template.built <=> /\ Header[b].height # MaxHeight
                                 /\ now > MedianTimePastAt(b) - MaxFuture
           /\ template.built => /\ template.header.bits \in 1..PowLimit
                                /\ \A later \in now..MaxTime - MaxFuture :
                                       Follows(template.header, b, later)
<1> DEFINE median == MedianTimePastAt(b)
           time == TemplateTime(b, now)
           bits == NextTargetBits(b, time)
           header == [prev |-> b, height |-> Header[b].height + 1, time |-> time, bits |-> bits]
           timely == time > median /\ now + MaxFuture <= MaxTime /\ time <= now + MaxFuture
<1>1. MaxTime \in Nat /\ MaxFuture \in Nat /\ median \in 0..MaxTime /\ now \in Nat
      /\ now <= MaxTime - MaxFuture
  BY HeaderAssumption, ParamAssumption
<1>2. time = IF now < (IF median < MaxTime THEN median + 1 ELSE median)
             THEN IF median < MaxTime THEN median + 1 ELSE median ELSE now
  BY DEF TemplateTime
<1>3. bits \in 1..PowLimit /\ UsableTarget(b)
  <2>1. AsertNextBits(Header[b].height, Header[b].time) \in 1..PowLimit
    BY HeaderAssumption, TargetAssumption
  <2>2. PowLimit \in 1..PowLimit
    BY ParamAssumption, TargetAssumption
  <2> QED BY <2>1, <2>2 DEF NextTargetBits, UsableTarget
<1> HIDE DEF median, time, bits
<1>4. timely <=> now > median - MaxFuture
  BY <1>1, <1>2
<1>5. timely => \A later \in now..MaxTime - MaxFuture :
                   time <= later + MaxFuture /\ later + MaxFuture <= MaxTime
  BY <1>1, <1>2
<1>6. Follows(header, b, now) <=> Header[b].height # MaxHeight /\ timely
  BY DEF Follows, median, bits
<1>7. timely /\ Header[b].height # MaxHeight =>
          \A later \in now..MaxTime - MaxFuture : Follows(header, b, later)
  BY <1>5 DEF Follows, median, bits
<1>8. template = IF Header[b].height # MaxHeight /\ UsableTarget(b) /\ Follows(header, b, now)
                 THEN [built |-> TRUE, header |-> header] ELSE NoTemplate
  BY DEF BuildBlockTemplate, time, bits
<1>9. header.bits = bits
  OBVIOUS
<1> HIDE DEF header, timely
<1> QED BY <1>3, <1>4, <1>6, <1>7, <1>8, <1>9 DEF NoTemplate, median

\* Whatever chain the index has accepted, the assembler builds on its best tip
\* unless the clock is too far behind the chain, and never builds a header that the
\* node itself would turn down.
THEOREM TemplateIsAlwaysAccepted == Spec => []TemplateAccepted
<1>1. Inv => TemplateAccepted
  <2> SUFFICES ASSUME IndexInv(index), index.best # NoBlock, NEW now \in MinerClock,
                      NEW template, template = BuildBlockTemplate(index.best, now)
               PROVE  /\ template.built <=> /\ Header[index.best].height # MaxHeight
                                            /\ now > MedianTimePastAt(index.best) - MaxFuture
                      /\ template.built => /\ template.header.bits \in 1..PowLimit
                                           /\ \A later \in now..MaxTime - MaxFuture :
                                                  Follows(template.header, index.best, later)
    BY DEF Inv, TemplateAccepted
  <2>1. index.best \in index.known
    BY DEF IndexInv, IsBestMaximal
  <2>2. index.best \in Block /\ MedianTimePastAt(index.best) \in 0..MaxTime
    BY <2>1, MedianIsTime, LineageInIndex
  <2>3. now \in 0..MaxTime - MaxFuture
    BY CallerAssumption
  <2> QED BY <2>2, <2>3, TemplateFollows
<1> QED BY <1>1, IndexInvariant, PTL
=============================================================================

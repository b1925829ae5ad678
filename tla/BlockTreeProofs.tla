-------------------------- MODULE BlockTreeProofs ---------------------------
(***************************************************************************)
(* What the operations of the header tree preserve, for every universe of  *)
(* headers and every parameter.                                            *)
(***************************************************************************)
EXTENDS BlockTree, FiniteSetsExt, WellFoundedInduction, TLAPS

\* Total work is bounded by arrivals, which is what gives every nonempty set
\* of entries one of greatest work.
WorkBounded(I) ==
    \A b \in I.known : I.work[b] <= (I.seq[b] + 1) * HashSpace

IndexInv(I) ==
    /\ IsIndex(I)
    /\ IsTree(I)
    /\ ArrivalIsStrict(I)
    /\ WorkIsCumulative(I)
    /\ IsFailureInherited(I)
    /\ IsBestMaximal(I)
    /\ WorkBounded(I)

\* Every nonempty set of naturals has a least member.
LEMMA LeastNatural ==
    ASSUME NEW T, T \subseteq Nat, T # {}
    PROVE  \E x \in T : \A y \in T : x <= y
<1> DEFINE R == {p \in Nat \X Nat : p[1] < p[2]}
<1>1. IsWellFoundedOn(R, Nat)
  <2>1. R = OpToRel(<, Nat)
    BY DEF OpToRel
  <2> QED BY <2>1, NatLessThanWellFounded, Zenon
<1>2. PICK x \in T : \A y \in T : ~(<<y, x>> \in R)
  <2> HIDE DEF R
  <2> QED BY <1>1, WFMin, Zenon
<1>3. ASSUME NEW y \in T, y < x PROVE FALSE
  <2>1. <<y, x>> \in Nat \X Nat /\ <<y, x>>[1] = y /\ <<y, x>>[2] = x
    OBVIOUS
  <2>2. <<y, x>> \in R
    BY <2>1, <1>3
  <2> QED BY <1>2, <2>2
<1>4. \A y \in T : x <= y
  BY <1>3
<1> QED BY <1>4

\* Monotonicity of a product in its left factor.
LEMMA ProductMonotone ==
    ASSUME NEW m \in Nat, NEW n \in Nat, NEW k \in Nat, m <= n
    PROVE  m * k <= n * k /\ m * k \in Nat
<1>1. PICK d \in Nat : n = m + d
  <2>1. n - m \in Nat /\ n = m + (n - m)
    OBVIOUS
  <2> QED BY <2>1
<1>2. n * k = m * k + d * k /\ m * k \in Nat /\ d * k \in Nat
  BY <1>1
<1> QED BY <1>2

\* A header that meets a target at or under the floor is worth at least one
\* attempt and at most the whole hash space (Work::OfCompactTarget).
LEMMA WorkOfHeader ==
    ASSUME NEW b \in Block, CheckBlockHeader(b)
    PROVE  WorkOf(Header[b].bits) \in 1..HashSpace
<1> DEFINE d == Header[b].bits + 1
           q == HashSpace \div d
<1>1. d \in Nat /\ d >= 1 /\ d <= HashSpace /\ HashSpace \in Nat
  BY HeaderAssumption, ParamAssumption DEF CheckBlockHeader
<1> HIDE DEF d
<1>2. q \in Int /\ d * q <= HashSpace /\ HashSpace < d * (q + 1)
  BY <1>1
<1> HIDE DEF q
<1>3. q >= 1
  <2>1. CASE q <= 0
    <3>1. d * (q + 1) <= d
      BY <1>1, <1>2, <2>1
    <3> QED BY <3>1, <1>1, <1>2
  <2> QED BY <2>1, <1>2
<1>4. q <= d * q
  BY <1>1, <1>2, <1>3
<1>5. q \in 1..HashSpace
  BY <1>1, <1>2, <1>3, <1>4
<1>6. Header[b].bits # 0
  BY DEF CheckBlockHeader
<1> QED BY <1>5, <1>6 DEF WorkOf, d, q

\* A nonempty set of eligible entries has one that no other of them beats:
\* the least recent among those of greatest work.
LEMMA BestExists ==
    ASSUME NEW I, IsIndex(I), ArrivalIsStrict(I), WorkBounded(I),
           NEW E, E \subseteq I.known, E # {}, \A b \in E : IsEligible(I, b)
    PROVE  \E b \in E : \A c \in E : ~IsBetterTip(I, c, b)
<1> DEFINE K == I.next * HashSpace
           Spare == {K - I.work[b] : b \in E}
<1>1. /\ E \subseteq Block /\ HashSpace \in Nat /\ I.next \in Nat
      /\ \A b \in E : I.work[b] \in Nat /\ I.seq[b] \in Nat
  BY ParamAssumption DEF IsIndex
<1>2. \A b \in E : K - I.work[b] \in Nat
  <2> SUFFICES ASSUME NEW b \in E PROVE K - I.work[b] \in Nat
    OBVIOUS
  <2>1. I.seq[b] + 1 <= I.next
    BY <1>1 DEF ArrivalIsStrict
  <2>2. (I.seq[b] + 1) * HashSpace <= K
    BY <2>1, <1>1, ProductMonotone
  <2>3. I.work[b] <= (I.seq[b] + 1) * HashSpace
    BY DEF WorkBounded
  <2>4. (I.seq[b] + 1) * HashSpace \in Nat /\ K \in Nat
    BY <1>1
  <2> QED BY <2>2, <2>3, <2>4, <1>1
<1>3. PICK x \in Spare : \A y \in Spare : x <= y
  <2>1. Spare \subseteq Nat
    BY <1>2
  <2>2. Spare # {}
    OBVIOUS
  <2> HIDE DEF Spare
  <2> QED BY <2>1, <2>2, LeastNatural
<1>4. PICK top \in E : x = K - I.work[top]
  OBVIOUS
<1>5. \A c \in E : I.work[c] <= I.work[top]
  <2> SUFFICES ASSUME NEW c \in E PROVE I.work[c] <= I.work[top]
    OBVIOUS
  <2>1. K - I.work[top] <= K - I.work[c]
    BY <1>3, <1>4
  <2>2. K \in Nat
    BY <1>1
  <2> HIDE DEF K
  <2> QED BY <2>1, <2>2, <1>1
<1> DEFINE Equals == {c \in E : I.work[c] = I.work[top]}
           Seqs == {I.seq[c] : c \in Equals}
<1>6. PICK s \in Seqs : \A y \in Seqs : s <= y
  <2>1. Seqs \subseteq Nat
    BY <1>1
  <2>2. Seqs # {}
    BY <1>4
  <2> HIDE DEF Seqs
  <2> QED BY <2>1, <2>2, LeastNatural, Zenon
<1>7. PICK b \in Equals : s = I.seq[b]
  OBVIOUS
<1>8. ASSUME NEW c \in E PROVE ~IsBetterTip(I, c, b)
  <2>1. I.work[c] <= I.work[b] /\ (I.work[c] = I.work[b] => I.seq[b] <= I.seq[c])
    BY <1>5, <1>6, <1>7
  <2> QED BY <2>1, <1>1, <1>7 DEF IsBetterTip
<1> QED BY <1>7, <1>8
-----------------------------------------------------------------------------
\* NewIndex, an index holding genesis alone, satisfies the invariant.
LEMMA NewIndexInv == IndexInv(NewIndex)
<1>1. Genesis \in Block /\ NoBlock \notin Block /\ HashSpace \in Nat
      /\ Header[Genesis].bits \in Nat
  BY HeaderAssumption, ParamAssumption, NullAssumption
<1>2. WorkOf(Header[Genesis].bits) \in 0..HashSpace
  <2> DEFINE d == Header[Genesis].bits + 1
             q == HashSpace \div d
  <2>1. d \in Nat /\ d >= 1
    BY <1>1
  <2> HIDE DEF d
  <2>2. q \in Int /\ d * q <= HashSpace /\ HashSpace < d * (q + 1)
    BY <1>1, <2>1
  <2> HIDE DEF q
  <2>3. q >= 0
    <3>1. CASE q + 1 <= 0
      <4>1. d * (q + 1) <= 0
        BY <2>1, <2>2, <3>1
      <4> QED BY <4>1, <2>1, <2>2, <1>1
    <3> QED BY <3>1, <2>2
  <2>4. q <= d * q
    BY <2>1, <2>2, <2>3
  <2> QED BY <2>2, <2>3, <2>4, <1>1, <2>1 DEF WorkOf, d, q
<1>3. IsIndex(NewIndex)
  BY <1>1, <1>2 DEF NewIndex, IsIndex, Validity, HeaderValid, FullyValid, Failure
<1> QED BY <1>1, <1>2, <1>3 DEF IndexInv, IsTree, ArrivalIsStrict, WorkIsCumulative,
        IsFailureInherited, IsBestMaximal, WorkBounded, NewIndex, IsBetterTip, IsEligible

\* AddHeader keeps the invariant when it makes a new entry.
LEMMA InsertedInv ==
    ASSUME NEW I, IndexInv(I), NEW b \in Block, b \notin I.known,
           NEW now, Acceptable(I, b, now)
    PROVE  IndexInv(Inserted(I, b))
<1> DEFINE p == Header[b].prev
           J == Inserted(I, b)
<1>0. IsIndex(I)
  BY DEF IndexInv
<1>1. /\ p \in I.known /\ IsEligible(I, p) /\ p \in Block /\ p # b
      /\ Header[b].height = Header[p].height + 1
      /\ NoBlock \notin Block /\ I.known \subseteq Block
  BY <1>0, NullAssumption
     DEF Acceptable, ContextualCheckBlockHeader, Follows, IsIndex
<1>2. WorkOf(Header[b].bits) \in 1..HashSpace /\ HashSpace \in Nat
  BY WorkOfHeader, ParamAssumption DEF Acceptable
<1>3. /\ J.known = I.known \cup {b}
      /\ J.work = [I.work EXCEPT ![b] = I.work[p] + WorkOf(Header[b].bits)]
      /\ J.failure = [I.failure EXCEPT ![b] = "None"]
      /\ J.seq = [I.seq EXCEPT ![b] = I.next]
      /\ J.next = I.next + 1
  BY <1>0 DEF Inserted, Entered, IsIndex
<1>4. J.best = IF I.best = NoBlock \/ IsBetterTip(J, b, I.best) THEN b ELSE I.best
  BY <1>0, ZenonT(30) DEF Inserted, Entered, IsIndex, IsBetterTip, IsEligible
<1>5. IsIndex(J)
  <2>1. /\ HeaderValid \in Validity /\ "None" \in Failure
        /\ I.work[p] + WorkOf(Header[b].bits) \in Nat /\ I.next + 1 \in Nat
    BY <1>0, <1>1, <1>2 DEF IsIndex, Validity, HeaderValid, FullyValid, Failure
  <2>2. /\ I.known \cup {b} \in SUBSET Block
        /\ [I.work EXCEPT ![b] = I.work[p] + WorkOf(Header[b].bits)] \in [Block -> Nat]
        /\ [I.validity EXCEPT ![b] = HeaderValid] \in [Block -> Validity]
        /\ [I.failure EXCEPT ![b] = "None"] \in [Block -> Failure]
        /\ [I.seq EXCEPT ![b] = I.next] \in [Block -> Nat]
    BY <1>0, <1>1, <2>1 DEF IsIndex
  <2>3. Entered(I, b)
           \in [known: SUBSET Block, work: [Block -> Nat],
                validity: [Block -> Validity], failure: [Block -> Failure],
                seq: [Block -> Nat], next: Nat, best: Block \cup {NoBlock}]
    BY <1>0, <2>1, <2>2, Zenon DEF IsIndex, Entered
  <2>4. (IF I.best = NoBlock \/ IsBetterTip(Entered(I, b), b, I.best) THEN b ELSE I.best)
           \in Block \cup {NoBlock}
    BY <1>0 DEF IsIndex
  <2> QED BY <2>3, <2>4, <1>0, <1>3 DEF Inserted, IsIndex
<1>6. \A c \in I.known : /\ J.work[c] = I.work[c] /\ J.seq[c] = I.seq[c]
                         /\ J.failure[c] = I.failure[c] /\ c # b
  BY <1>0, <1>1, <1>3 DEF IsIndex
<1>7. /\ J.work[b] = I.work[p] + WorkOf(Header[b].bits) /\ J.seq[b] = I.next
      /\ J.failure[b] = "None"
  BY <1>0, <1>1, <1>3 DEF IsIndex
<1>8. /\ I.next \in Nat /\ \A c \in I.known : I.work[c] \in Nat /\ I.seq[c] \in Nat
      /\ Genesis \in I.known
  BY <1>0, <1>1 DEF IsIndex
<1> HIDE DEF J
<1>9. IsTree(J)
  BY <1>1, <1>3, <1>6, <1>7, <1>8 DEF IndexInv, IsTree, ArrivalIsStrict
<1>10. ArrivalIsStrict(J)
  BY <1>3, <1>6, <1>7, <1>8 DEF IndexInv, ArrivalIsStrict
<1>11. WorkIsCumulative(J)
  BY <1>1, <1>2, <1>3, <1>6, <1>7, <1>8 DEF IndexInv, WorkIsCumulative, IsTree
<1>12. IsFailureInherited(J)
  BY <1>1, <1>3, <1>6, <1>7, <1>8
     DEF IndexInv, IsFailureInherited, IsTree, IsEligible
<1>13. WorkBounded(J)
  <2> SUFFICES ASSUME NEW c \in J.known
               PROVE  J.work[c] <= (J.seq[c] + 1) * HashSpace
    BY DEF WorkBounded
  <2>1. CASE c \in I.known
    BY <2>1, <1>6 DEF IndexInv, WorkBounded
  <2>2. CASE c = b
    <3>1. I.work[p] <= (I.seq[p] + 1) * HashSpace /\ I.seq[p] + 1 <= I.next
      BY <1>1, <1>8 DEF IndexInv, WorkBounded, ArrivalIsStrict
    <3>2. (I.seq[p] + 1) * HashSpace <= I.next * HashSpace
      BY <3>1, <1>1, <1>2, <1>8, ProductMonotone
    <3>3. /\ (I.next + 1) * HashSpace = I.next * HashSpace + HashSpace
          /\ I.next * HashSpace \in Nat /\ (I.seq[p] + 1) * HashSpace \in Nat
      BY <1>1, <1>2, <1>8
    <3> QED BY <2>2, <3>1, <3>2, <3>3, <1>1, <1>2, <1>7, <1>8
  <2> QED BY <2>1, <2>2, <1>3
<1>14. IsBestMaximal(J)
  <2>1. I.best # NoBlock
    BY <1>1 DEF IndexInv, IsBestMaximal
  <2>2. I.best \in I.known /\ IsEligible(I, I.best)
        /\ \A c \in I.known : ~IsBetterTip(I, c, I.best)
    BY <2>1 DEF IndexInv, IsBestMaximal
  <2>3. \A c, d \in I.known : IsBetterTip(J, c, d) <=> IsBetterTip(I, c, d)
    BY <1>6 DEF IsBetterTip, IsEligible
  <2>4. CASE IsBetterTip(J, b, I.best)
    <3>1. J.best = b
      BY <1>4, <2>4
    <3>2. \A c \in I.known : ~IsBetterTip(J, c, b)
      BY <2>2, <2>3, <2>4, <1>6, <1>7, <1>8, <1>2, <1>1 DEF IsBetterTip, IsEligible
    <3>3. ~IsBetterTip(J, b, b)
      BY <1>7, <1>1, <1>2, <1>8 DEF IsBetterTip
    <3> QED BY <3>1, <3>2, <3>3, <1>1, <1>3, <1>7 DEF IsBestMaximal, IsEligible
  <2>5. CASE ~IsBetterTip(J, b, I.best)
    <3>1. J.best = I.best
      BY <1>4, <2>1, <2>5
    <3> QED BY <3>1, <2>1, <2>2, <2>3, <2>5, <1>3, <1>6 DEF IsBestMaximal, IsEligible
  <2> QED BY <2>4, <2>5
<1> QED BY <1>5, <1>9, <1>10, <1>11, <1>12, <1>13, <1>14 DEF IndexInv, J
\* RecordValidity touches no field the other conjuncts speak of.
LEMMA WithValidityInv ==
    ASSUME NEW I, IndexInv(I), NEW b \in Block, NEW reached \in Validity
    PROVE  IndexInv(WithValidity(I, b, reached))
<1> DEFINE J == WithValidity(I, b, reached)
<1>1. IsIndex(I)
  BY DEF IndexInv
<1>2. /\ IsIndex(J) /\ J.known = I.known /\ J.work = I.work /\ J.seq = I.seq
      /\ J.next = I.next /\ J.failure = I.failure /\ J.best = I.best
  BY <1>1 DEF IsIndex, WithValidity
<1> HIDE DEF J
<1> QED BY <1>2 DEF IndexInv, IsTree, ArrivalIsStrict, WorkIsCumulative,
        IsFailureInherited, IsBestMaximal, WorkBounded, IsBetterTip, IsEligible, J

\* What Subtree computes: eligible entries, closed under eligible children of
\* itself and of the root, and holding nothing that does not hang below it.
LEMMA SubtreeFacts ==
    ASSUME NEW I, IndexInv(I), NEW root \in I.known
    PROVE  /\ Subtree(I, root) \subseteq {x \in I.known : IsEligible(I, x)}
           /\ root \notin Subtree(I, root)
           /\ \A c \in I.known \ {Genesis} :
                 (IsEligible(I, c) /\ Header[c].prev \in Subtree(I, root) \cup {root})
                    => c \in Subtree(I, root)
           /\ \A x \in Subtree(I, root) :
                 Header[x].prev \in Subtree(I, root) \cup {root}
<1> DEFINE below == {x \in I.known : /\ IsEligible(I, x)
                                     /\ Header[x].height > Header[root].height}
           Closed(S) == \A c \in below : Header[c].prev \in S \cup {root} => c \in S
           doomed == {x \in below : \A S \in SUBSET below : Closed(S) => x \in S}
<1>1. Subtree(I, root) = doomed
  BY DEF Subtree
<1>2. I.known \subseteq Block /\ \A x \in I.known : Header[x].height \in Nat
  BY HeaderAssumption DEF IndexInv, IsIndex
<1>3. doomed \subseteq below /\ root \notin doomed
  BY <1>2
<1>4. Closed(doomed)
  <2> SUFFICES ASSUME NEW c \in below, Header[c].prev \in doomed \cup {root},
                      NEW S \in SUBSET below, Closed(S)
               PROVE  c \in S
    OBVIOUS
  <2>1. Header[c].prev \in S \cup {root}
    OBVIOUS
  <2> QED BY <2>1
<1>5. ASSUME NEW c \in I.known \ {Genesis}, IsEligible(I, c),
             Header[c].prev \in doomed \cup {root}
      PROVE  c \in doomed
  <2>1. Header[c].prev \in I.known
        /\ Header[c].height = Header[Header[c].prev].height + 1
    BY DEF IndexInv, IsTree
  <2>2. Header[Header[c].prev].height >= Header[root].height
    BY <1>2, <1>3, <1>5
  <2>3. c \in below
    BY <1>2, <1>5, <2>1, <2>2
  <2> HIDE DEF below, doomed
  <2> QED BY <1>4, <1>5, <2>3
<1>6. ASSUME NEW x \in doomed, Header[x].prev \notin doomed \cup {root}
      PROVE  FALSE
  <2> DEFINE S == doomed \ {x}
  <2>1. S \in SUBSET below
    BY <1>3
  <2>2. Closed(S)
    <3> HIDE DEF doomed, below
    <3> QED BY <1>4, <1>6
  <2>3. x \in S
    <3> HIDE DEF S
    <3> QED BY <2>1, <2>2
  <2> QED BY <2>3
<1>7. below \subseteq {x \in I.known : IsEligible(I, x)}
  OBVIOUS
<1> HIDE DEF below, doomed
<1> QED BY <1>1, <1>3, <1>5, <1>6, <1>7

\* RecordFailure keeps the invariant.
LEMMA WithFailureInv ==
    ASSUME NEW I, IndexInv(I), NEW root \in Block
    PROVE  IndexInv(WithFailure(I, root))
<1>1. CASE root \notin I.known \/ ~IsEligible(I, root)
  BY <1>1 DEF WithFailure
<1>2. CASE root \in I.known /\ IsEligible(I, root)
  <2> DEFINE doomed == Subtree(I, root)
             failure == [b \in Block |->
                 IF b = root THEN "Itself"
                 ELSE IF b \in doomed THEN "Ancestor" ELSE I.failure[b]]
             K == [I EXCEPT !.failure = failure]
             J == IF K.best = NoBlock \/ ~IsEligible(K, K.best)
                  THEN [K EXCEPT !.best = RescanForBestHeader(K)] ELSE K
  <2>1. WithFailure(I, root) = J
    BY <1>2 DEF WithFailure
  <2>2. IsIndex(I) /\ I.known \subseteq Block
    BY DEF IndexInv, IsIndex
  <2>3. /\ doomed \subseteq {x \in I.known : IsEligible(I, x)}
        /\ \A c \in I.known \ {Genesis} :
              (IsEligible(I, c) /\ Header[c].prev \in doomed \cup {root}) => c \in doomed
        /\ \A x \in doomed : Header[x].prev \in doomed \cup {root}
    BY <1>2, SubtreeFacts
  <2> HIDE DEF doomed
  <2>4. failure \in [Block -> Failure]
    BY <2>2 DEF IsIndex, Failure
  <2>5. IsIndex(K) /\ K.known = I.known /\ K.work = I.work /\ K.seq = I.seq
        /\ K.next = I.next /\ K.failure = failure /\ K.best = I.best
    BY <2>2, <2>4 DEF IsIndex
  <2>6. \A b \in I.known : /\ ~IsEligible(I, b) => failure[b] = I.failure[b]
                           /\ b \in doomed \cup {root} => failure[b] # "None"
                           /\ b \notin doomed \cup {root} => failure[b] = I.failure[b]
                           /\ failure[b] = "Ancestor" => b \in doomed \/ I.failure[b] = "Ancestor"
    BY <1>2, <2>2, <2>3 DEF IsEligible
  <2> HIDE DEF failure, K
  <2>7. IsFailureInherited(K)
    BY <1>2, <2>3, <2>5, <2>6 DEF IndexInv, IsTree, IsFailureInherited, IsEligible
  <2>8. IsTree(K) /\ ArrivalIsStrict(K) /\ WorkIsCumulative(K) /\ WorkBounded(K)
    BY <2>5 DEF IndexInv, IsTree, ArrivalIsStrict, WorkIsCumulative, WorkBounded
  <2>9. CASE K.best = NoBlock \/ ~IsEligible(K, K.best)
    <3> DEFINE E == {b \in K.known : IsEligible(K, b)}
               r == RescanForBestHeader(K)
    <3>1. J = [K EXCEPT !.best = r]
      BY <2>9
    <3>2. E = {} => r = NoBlock
      BY DEF RescanForBestHeader
    <3>3. E # {} => r \in E /\ \A c \in E \ {r} : ~IsBetterTip(K, c, r)
      <4> SUFFICES ASSUME E # {}
                   PROVE  r \in E /\ \A c \in E \ {r} : ~IsBetterTip(K, c, r)
        OBVIOUS
      <4>1. \E b \in E : \A c \in E : ~IsBetterTip(K, c, b)
        <5>1. E \subseteq K.known /\ \A b \in E : IsEligible(K, b)
          OBVIOUS
        <5> HIDE DEF E
        <5> QED BY <5>1, <2>5, <2>8, BestExists
      <4>2. r = CHOOSE b \in E : \A c \in E \ {b} : ~IsBetterTip(K, c, b)
        BY DEF RescanForBestHeader
      <4> HIDE DEF E, r
      <4> QED BY <4>1, <4>2
    <3>4. r \in Block \cup {NoBlock}
      <4> HIDE DEF r
      <4> QED BY <3>2, <3>3, <2>5 DEF IsIndex
    <3> HIDE DEF r
    <3>5. /\ IsIndex(J) /\ J.known = K.known /\ J.work = K.work /\ J.seq = K.seq
          /\ J.next = K.next /\ J.failure = K.failure /\ J.best = r
      BY <3>1, <3>4, <2>5 DEF IsIndex
    <3>6. \A c, d : IsBetterTip(J, c, d) <=> IsBetterTip(K, c, d)
      <4> HIDE DEF J
      <4> QED BY <3>5 DEF IsBetterTip, IsEligible
    <3>7. \A c, d \in K.known : ~IsEligible(K, c) => ~IsBetterTip(K, c, d)
      BY DEF IsBetterTip
    <3>8. r # NoBlock => ~IsBetterTip(K, r, r)
      BY <2>5, <3>2, <3>3 DEF IsBetterTip, IsIndex
    <3>9. IsBestMaximal(J)
      <4> HIDE DEF J
      <4>1. CASE E = {}
        BY <4>1, <3>2, <3>5 DEF IsBestMaximal, IsEligible
      <4>2. CASE E # {}
        <5>1. r # NoBlock /\ r \in K.known /\ IsEligible(K, r)
          BY <4>2, <3>3, <2>5, NullAssumption DEF IsIndex
        <5>2. \A c \in K.known : ~IsBetterTip(J, c, r)
          BY <4>2, <5>1, <3>3, <3>6, <3>7, <3>8
        <5> QED BY <5>1, <5>2, <3>5 DEF IsBestMaximal, IsEligible
      <4> QED BY <4>1, <4>2
    <3>10. IsTree(J) /\ ArrivalIsStrict(J) /\ WorkIsCumulative(J) /\ WorkBounded(J)
           /\ IsFailureInherited(J)
      <4> HIDE DEF J
      <4> QED BY <3>5, <2>7, <2>8 DEF IsTree, ArrivalIsStrict, WorkIsCumulative,
              WorkBounded, IsFailureInherited, IsEligible
    <3> QED BY <2>1, <3>5, <3>9, <3>10 DEF IndexInv
  <2>10. CASE ~(K.best = NoBlock \/ ~IsEligible(K, K.best))
    <3>1. J = K
      BY <2>10
    <3>2. IsBestMaximal(K)
      <4>1. K.best \in K.known /\ IsEligible(I, K.best)
            /\ \A c \in I.known : ~IsBetterTip(I, c, K.best)
        BY <2>10, <2>5 DEF IndexInv, IsBestMaximal
      <4>2. ASSUME NEW c \in I.known, IsBetterTip(K, c, K.best)
            PROVE  IsBetterTip(I, c, K.best)
        BY <4>1, <4>2, <2>5, <2>6, <2>10 DEF IsBetterTip, IsEligible
      <4> QED BY <4>1, <4>2, <2>5, <2>10 DEF IsBestMaximal
    <3> QED BY <2>1, <3>1, <3>2, <2>5, <2>7, <2>8 DEF IndexInv
  <2> QED BY <2>9, <2>10
<1> QED BY <1>1, <1>2

-----------------------------------------------------------------------------
(* What an operation leaves alone. *)

\* J forgets nothing that I had judged.
Stand(I, J) ==
    \A b \in I.known :
        /\ b \in J.known
        /\ I.validity[b] <= J.validity[b]
        /\ ~IsEligible(I, b) => J.failure[b] = I.failure[b]
        /\ J.seq[b] = I.seq[b]

\* J prefers another header than I only for more work, or because it had to.
KeepsTie(I, J) ==
    (I.best # NoBlock /\ IsEligible(J, I.best))
        => J.best = I.best \/ J.work[J.best] > I.work[I.best]

\* Inserting a header leaves every other entry alone and wins no tie: the new
\* arrival number is above all others.
LEMMA InsertedSteps ==
    ASSUME NEW I, IndexInv(I), NEW b \in Block, b \notin I.known
    PROVE  Stand(I, Inserted(I, b)) /\ KeepsTie(I, Inserted(I, b))
<1> DEFINE J == Inserted(I, b)
<1>1. IsIndex(I) /\ ArrivalIsStrict(I) /\ IsBestMaximal(I)
  BY DEF IndexInv
<1>2. /\ J.known = I.known \cup {b}
      /\ \A c \in I.known : /\ J.validity[c] = I.validity[c] /\ J.failure[c] = I.failure[c]
                            /\ J.seq[c] = I.seq[c] /\ J.work[c] = I.work[c]
      /\ J.seq[b] = I.next
  BY <1>1 DEF Inserted, Entered, IsIndex
<1>3. Stand(I, J)
  BY <1>1, <1>2 DEF Stand, IsIndex, Validity, HeaderValid, FullyValid
<1>4. KeepsTie(I, J)
  <2> SUFFICES ASSUME I.best # NoBlock, J.best # I.best PROVE J.work[J.best] > I.work[I.best]
    BY DEF KeepsTie
  <2> DEFINE K == Entered(I, b)
  <2>1. J.best = b /\ IsBetterTip(K, b, I.best) /\ J.work = K.work
    BY <1>1 DEF Inserted, Entered, IsIndex
  <2>2. I.best \in I.known /\ IsEligible(I, I.best)
    BY <1>1 DEF IsBestMaximal
  <2>3. /\ K.failure[I.best] = "None" /\ K.work[I.best] = I.work[I.best]
        /\ K.seq[I.best] = I.seq[I.best] /\ K.seq[b] = I.next
    BY <1>1, <2>2 DEF Entered, IsIndex, IsEligible
  <2>4. I.seq[I.best] \in Nat /\ I.next \in Nat /\ I.seq[I.best] < I.next
    BY <1>1, <2>2 DEF ArrivalIsStrict, IsIndex
  <2> QED BY <2>1, <2>3, <2>4 DEF IsBetterTip, IsEligible
<1> QED BY <1>3, <1>4

\* Reporting a level only ever raises it.
LEMMA WithValiditySteps ==
    ASSUME NEW I, IndexInv(I), NEW b \in Block, NEW reached \in Validity
    PROVE  Stand(I, WithValidity(I, b, reached)) /\ KeepsTie(I, WithValidity(I, b, reached))
<1> DEFINE J == WithValidity(I, b, reached)
<1>1. IsIndex(I)
  BY DEF IndexInv
<1>2. /\ J.known = I.known /\ J.work = I.work /\ J.seq = I.seq /\ J.failure = I.failure /\ J.best = I.best
      /\ \A c \in I.known : I.validity[c] <= J.validity[c]
  BY <1>1 DEF WithValidity, IsIndex, Validity, HeaderValid, FullyValid
<1> QED BY <1>2 DEF Stand, KeepsTie

\* Ruling a header out touches eligible entries only, and keeps the preferred
\* header unless that is one of them.
LEMMA WithFailureSteps ==
    ASSUME NEW I, IndexInv(I), NEW root \in I.known
    PROVE  Stand(I, WithFailure(I, root)) /\ KeepsTie(I, WithFailure(I, root))
<1> DEFINE J == WithFailure(I, root)
<1>0. IsIndex(I)
  BY DEF IndexInv
<1>1. CASE ~IsEligible(I, root)
  <2>1. J = I
    BY <1>1 DEF WithFailure
  <2> QED BY <2>1, <1>0 DEF Stand, KeepsTie, IsIndex, Validity, HeaderValid, FullyValid
<1>2. CASE IsEligible(I, root)
  <2> DEFINE doomed == Subtree(I, root)
             failure == [b \in Block |-> IF b = root THEN "Itself"
                                        ELSE IF b \in doomed THEN "Ancestor" ELSE I.failure[b]]
             K == [I EXCEPT !.failure = failure]
  <2>1. doomed \subseteq {x \in I.known : IsEligible(I, x)}
    BY SubtreeFacts
  <2>2. J = IF K.best = NoBlock \/ ~IsEligible(K, K.best) THEN [K EXCEPT !.best = RescanForBestHeader(K)] ELSE K
    BY <1>2 DEF WithFailure
  <2>3. /\ K.known = I.known /\ K.work = I.work /\ K.seq = I.seq /\ K.validity = I.validity
        /\ K.failure = failure /\ K.best = I.best
    BY <1>0 DEF IsIndex
  <2>4. /\ J.known = I.known /\ J.work = I.work /\ J.seq = I.seq /\ J.validity = I.validity /\ J.failure = failure
        /\ I.best # NoBlock /\ IsEligible(K, I.best) => J.best = I.best
    BY <1>0, <2>2, <2>3 DEF IsIndex
  <2>5. Stand(I, J)
    BY <1>0, <1>2, <2>1, <2>4 DEF Stand, IsIndex, IsEligible, Validity, HeaderValid, FullyValid
  <2>6. KeepsTie(I, J)
    BY <2>3, <2>4 DEF KeepsTie, IsEligible
  <2> QED BY <2>5, <2>6
<1> QED BY <1>1, <1>2
-----------------------------------------------------------------------------
(* Paths from genesis, and the operations as the chain state sees them.    *)

\* Every set of naturals with an upper bound has a greatest member.
LEMMA GreatestNatural ==
    ASSUME NEW T, T \subseteq Nat, T # {}, NEW top \in Nat, \A x \in T : x <= top
    PROVE  Max(T) \in T /\ \A x \in T : x <= Max(T)
<1> DEFINE gaps == {top - x : x \in T}
<1>1. gaps \subseteq Nat /\ gaps # {}
  <2>1. \A x \in T : top - x \in Nat
    OBVIOUS
  <2> QED BY <2>1, Zenon
<1>2. PICK g \in gaps : \A h \in gaps : g <= h
  BY <1>1, LeastNatural, Zenon
<1>3. PICK m \in T : g = top - m
  OBVIOUS
<1>4. ASSUME NEW x \in T PROVE m >= x
  <2>1. top - x \in gaps
    OBVIOUS
  <2>2. top - m <= top - x
    BY <1>2, <1>3, <2>1
  <2>3. top \in Nat /\ m \in Nat /\ x \in Nat
    OBVIOUS
  <2> QED BY <2>2, <2>3
<1>5. \E x \in T : \A y \in T : x >= y
  BY <1>4
<1>6. Max(T) \in T /\ \A y \in T : Max(T) >= y
  BY <1>5, Zenon DEF Max
<1> QED BY <1>6

\* The path to a header ends with it, and begins with the path to its parent.
LEMMA LineageEnds ==
    ASSUME NEW b \in Block
    PROVE  /\ Lineage[b] \in Seq(Block) /\ Lineage[b] # <<>> /\ Lineage[b][Len(Lineage[b])] = b
           /\ b \in Range(Lineage[b])
           /\ Header[b].prev \in Block =>
                 /\ Lineage[b] = Append(Lineage[Header[b].prev], b)
                 /\ SubSeq(Lineage[b], 1, Len(Lineage[b]) - 1) = Lineage[Header[b].prev]
                 /\ Len(Lineage[b]) = Len(Lineage[Header[b].prev]) + 1
                 /\ Range(Lineage[b]) = Range(Lineage[Header[b].prev]) \cup {b}
<1>1. CASE Header[b].prev \notin Block
  <2>1. Lineage[b] = <<b>> /\ Lineage[b] \in Seq(Block)
    BY <1>1, LineageAssumption, Zenon
  <2>2. Len(<<b>>) = 1 /\ <<b>>[1] = b /\ 1 \in DOMAIN <<b>>
    OBVIOUS
  <2> QED BY <1>1, <2>1, <2>2 DEF Range
<1>2. CASE Header[b].prev \in Block
  <2> DEFINE s == Lineage[Header[b].prev]
             t == Append(s, b)
  <2>1. s \in Seq(Block) /\ Lineage[b] = t /\ t \in Seq(Block)
    BY <1>2, LineageAssumption, Zenon
  <2> HIDE DEF s
  <2>2. /\ Len(t) = Len(s) + 1 /\ t[Len(t)] = b
        /\ \A i \in DOMAIN s : t[i] = s[i]
        /\ DOMAIN t = DOMAIN s \cup {Len(s) + 1}
    BY <2>1
  <2>3. SubSeq(t, 1, Len(t) - 1) = s
    BY <2>1, <2>2
  <2>4. Range(t) = Range(s) \cup {b}
    BY <2>1, <2>2 DEF Range
  <2> QED BY <2>1, <2>2, <2>3, <2>4 DEF s
<1> QED BY <1>1, <1>2

\* Genesis is its own path, and ends it.
LEMMA GenesisPath == Lineage[Genesis] = <<Genesis>> /\ <<Genesis>>[Len(<<Genesis>>)] = Genesis
BY HeaderAssumption, LineageAssumption, Zenon

\* With a header, the path to it holds the parent, as long as there is one.
LEMMA LineageClosed ==
    ASSUME NEW b \in Block, NEW x \in Range(Lineage[b]), Header[x].prev \in Block
    PROVE  Header[x].prev \in Range(Lineage[b])
<1> DEFINE Shut(c) == \A y \in Range(Lineage[c]) :
                         Header[y].prev \in Block => Header[y].prev \in Range(Lineage[c])
           bad == {Len(Lineage[c]) : c \in {d \in Block : ~Shut(d)}}
<1>1. bad \subseteq Nat
  BY LineageEnds
<1>2. bad = {}
  <2> SUFFICES ASSUME bad # {} PROVE FALSE
    OBVIOUS
  <2>1. PICK n \in bad : \A m \in bad : n <= m
    BY <1>1, LeastNatural, Zenon
  <2>2. PICK c \in Block : ~Shut(c) /\ n = Len(Lineage[c])
    OBVIOUS
  <2>3. CASE Header[c].prev \notin Block
    <3>1. Range(Lineage[c]) = {c}
      <4>1. Lineage[c] = <<c>>
        BY <2>3, LineageAssumption, Zenon
      <4>2. Range(<<c>>) = {c}
        BY DEF Range
      <4> QED BY <4>1, <4>2
    <3> QED BY <2>2, <2>3, <3>1
  <2>4. CASE Header[c].prev \in Block
    <3> DEFINE p == Header[c].prev
    <3>1. /\ p \in Block /\ Len(Lineage[c]) = Len(Lineage[p]) + 1 /\ p \in Range(Lineage[p])
          /\ Lineage[p] \in Seq(Block) /\ Range(Lineage[c]) = Range(Lineage[p]) \cup {c}
      BY <2>4, LineageEnds, Zenon
    <3>2. Shut(p)
      <4> SUFFICES ASSUME ~Shut(p) PROVE FALSE
        OBVIOUS
      <4>1. Len(Lineage[p]) \in bad
        BY <3>1
      <4>2. n <= Len(Lineage[p]) /\ Len(Lineage[p]) \in Nat
        BY <2>1, <3>1, <4>1
      <4> QED BY <2>2, <3>1, <4>2
    <3> QED BY <2>2, <3>1, <3>2
  <2> QED BY <2>3, <2>4
<1>3. Shut(b)
  BY <1>2, Zenon
<1> QED BY <1>3

\* The path to an entry of the index is in the index, starts at genesis, has one
\* block per height, and is eligible to its beginning if the entry is.
LEMMA LineageInIndex ==
    ASSUME NEW I, IndexInv(I), NEW b \in I.known
    PROVE  /\ b \in Block /\ Lineage[b] \in Seq(I.known) /\ Range(Lineage[b]) \subseteq I.known
           /\ Len(Lineage[b]) = Header[b].height + 1 /\ Lineage[b][1] = Genesis
           /\ \A x \in Range(Lineage[b]) : Header[x].height <= Header[b].height
           /\ IsEligible(I, b) => \A x \in Range(Lineage[b]) : IsEligible(I, x)
<1> DEFINE Path(c) == /\ Range(Lineage[c]) \subseteq I.known
                      /\ Len(Lineage[c]) = Header[c].height + 1 /\ Lineage[c][1] = Genesis
                      /\ \A x \in Range(Lineage[c]) : Header[x].height <= Header[c].height
                      /\ IsEligible(I, c) => \A x \in Range(Lineage[c]) : IsEligible(I, x)
           bad == {Header[c].height : c \in {d \in I.known : ~Path(d)}}
<1>0. /\ I.known \subseteq Block /\ \A c \in Block : Header[c].height \in Nat
      /\ IsTree(I) /\ IsFailureInherited(I)
  BY HeaderAssumption DEF IndexInv, IsIndex
<1>1. bad \subseteq Nat
  BY <1>0
<1>2. bad = {}
  <2> SUFFICES ASSUME bad # {} PROVE FALSE
    OBVIOUS
  <2>1. PICK n \in bad : \A m \in bad : n <= m
    <3> HIDE DEF bad
    <3> QED BY <1>1, LeastNatural, Zenon
  <2>2. PICK c \in I.known : ~Path(c) /\ n = Header[c].height
    OBVIOUS
  <2>3. CASE c = Genesis
    <3>1. Lineage[Genesis] = <<Genesis>>
      BY HeaderAssumption, LineageAssumption, Zenon
    <3>2. Range(<<Genesis>>) = {Genesis} /\ Len(<<Genesis>>) = 1 /\ <<Genesis>>[1] = Genesis
      BY DEF Range
    <3>3. Path(Genesis)
      <4>1. Genesis \in I.known /\ Header[Genesis].height = 0
        BY <2>2, <2>3, HeaderAssumption
      <4>2. /\ Range(Lineage[Genesis]) = {Genesis} /\ Len(Lineage[Genesis]) = 1
            /\ Lineage[Genesis][1] = Genesis
        BY <3>1, <3>2, Zenon
      <4>3. Len(Lineage[Genesis]) = Header[Genesis].height + 1
        BY <4>1, <4>2
      <4>4. \A x \in {Genesis} : Header[x].height <= Header[Genesis].height
        BY <4>1
      <4> QED BY <4>1, <4>2, <4>3, <4>4, Zenon
    <3> QED BY <2>2, <2>3, <3>3
  <2>4. CASE c # Genesis
    <3> DEFINE p == Header[c].prev
    <3>1. p \in I.known /\ Header[c].height = Header[p].height + 1
          /\ (IsEligible(I, c) => IsEligible(I, p))
      BY <1>0, <2>4 DEF IsTree, IsFailureInherited
    <3>2. Path(p)
      <4> HIDE DEF Path
      <4> SUFFICES ASSUME ~Path(p) PROVE FALSE
        OBVIOUS
      <4>1. Header[p].height \in bad
        BY <3>1
      <4> HIDE DEF bad
      <4>2. n <= Header[p].height
        BY <2>1, <4>1
      <4> HIDE DEF p
      <4>3. Header[p].height \in Nat /\ n = Header[p].height + 1
        BY <1>0, <2>2, <3>1
      <4> QED BY <4>2, <4>3
    <3>3. /\ Lineage[p] \in Seq(Block) /\ Lineage[p] # <<>> /\ Lineage[c] = Append(Lineage[p], c)
          /\ Len(Lineage[c]) = Len(Lineage[p]) + 1
          /\ Range(Lineage[c]) = Range(Lineage[p]) \cup {c}
      BY <1>0, <3>1, LineageEnds, Zenon
    <3>4. Lineage[c][1] = Lineage[p][1]
      BY <3>3
    <3>5. Header[p].height \in Nat /\ Header[c].height \in Nat
      BY <1>0, <3>1
    <3>6. \A x \in Range(Lineage[c]) : Header[x].height <= Header[c].height
      <4> SUFFICES ASSUME NEW x \in Range(Lineage[p]) PROVE Header[x].height <= Header[c].height
        BY <3>3, <3>5
      <4>1. Header[x].height <= Header[p].height /\ Header[x].height \in Nat
        BY <1>0, <3>2
      <4> HIDE DEF Path, bad, p
      <4> QED BY <3>1, <3>5, <4>1
    <3>7. Path(c)
      <4> HIDE DEF p
      <4> QED BY <2>2, <3>1, <3>2, <3>3, <3>4, <3>5, <3>6
    <3> QED BY <2>2, <3>7
  <2> QED BY <2>3, <2>4
<1>3. Path(b)
  BY <1>2, Zenon
<1>4. Lineage[b] \in Seq(Block) /\ Range(Lineage[b]) \subseteq I.known
  BY <1>0, <1>3, LineageEnds
<1>5. Lineage[b] \in Seq(I.known)
  BY <1>4 DEF Range
<1> QED BY <1>0, <1>3, <1>5

\* Ruling a header out does not reach a path it is not on.
LEMMA FailureElsewhere ==
    ASSUME NEW I, IndexInv(I), NEW root \in I.known, NEW t \in I.known,
           root \notin Range(Lineage[t])
    PROVE  \A x \in Range(Lineage[t]) : WithFailure(I, root).failure[x] = I.failure[x]
<1> DEFINE path == Range(Lineage[t])
           doomed == Subtree(I, root)
           hit == {Header[x].height : x \in path \cap doomed}
<1>0. /\ I.known \subseteq Block /\ \A c \in Block : Header[c].height \in Nat
      /\ IsTree(I) /\ IsIndex(I) /\ path \subseteq I.known
  <2>1. path \subseteq I.known
    BY LineageInIndex
  <2> QED BY <2>1, HeaderAssumption DEF IndexInv, IsIndex
<1>1. hit \subseteq Nat
  BY <1>0
<1>2. path \cap doomed = {}
  <2> SUFFICES ASSUME path \cap doomed # {} PROVE FALSE
    OBVIOUS
  <2>1. PICK n \in hit : \A m \in hit : n <= m
    <3>1. hit # {}
      OBVIOUS
    <3> HIDE DEF hit
    <3> QED BY <1>1, <3>1, LeastNatural, Zenon
  <2>2. PICK x \in path \cap doomed : n = Header[x].height
    OBVIOUS
  <2>3. Header[x].prev \in doomed \cup {root}
    BY <2>2, SubtreeFacts
  <2>4. x # Genesis
    BY <1>0, <2>3, SubtreeFacts, HeaderAssumption
  <2>5. Header[x].prev \in I.known /\ Header[x].height = Header[Header[x].prev].height + 1
    BY <1>0, <2>2, <2>4 DEF IsTree
  <2>6. Header[x].prev \in path
    BY <1>0, <2>2, <2>5, LineageClosed
  <2>7. Header[Header[x].prev].height \in hit
    BY <2>3, <2>6
  <2>8. Header[Header[x].prev].height \in Nat /\ n = Header[Header[x].prev].height + 1
    BY <1>0, <2>2, <2>5
  <2> HIDE DEF hit
  <2> QED BY <2>1, <2>7, <2>8
<1>3. CASE ~IsEligible(I, root)
  BY <1>3 DEF WithFailure
<1>4. CASE IsEligible(I, root)
  <2> DEFINE failure == [b \in Block |-> IF b = root THEN "Itself"
                                        ELSE IF b \in doomed THEN "Ancestor" ELSE I.failure[b]]
             K == [I EXCEPT !.failure = failure]
             J == WithFailure(I, root)
  <2>1. J = IF K.best = NoBlock \/ ~IsEligible(K, K.best) THEN [K EXCEPT !.best = RescanForBestHeader(K)] ELSE K
    BY <1>4 DEF WithFailure
  <2>2. J.failure = failure
    BY <1>0, <2>1 DEF IsIndex
  <2>3. \A x \in path : failure[x] = I.failure[x]
    BY <1>0, <1>2
  <2> QED BY <2>2, <2>3
<1> QED BY <1>3, <1>4

\* How an index J can differ from I after one operation.
HeaderAdded(I, J, b) ==
    /\ IndexInv(J) /\ b \in J.known /\ J.known = I.known \cup {b}
    /\ \A c \in I.known : /\ J.validity[c] = I.validity[c] /\ J.failure[c] = I.failure[c]
                          /\ J.seq[c] = I.seq[c] /\ J.work[c] = I.work[c]
    /\ b \notin I.known => J.validity[b] = HeaderValid /\ J.failure[b] = "None"
ValidityRaised(I, J, b, reached) ==
    /\ IndexInv(J) /\ J.known = I.known /\ J.failure = I.failure
    /\ J.seq = I.seq /\ J.work = I.work /\ J.best = I.best
    /\ \A c \in I.known : c # b => J.validity[c] = I.validity[c]
    /\ J.validity[b] = IF reached > I.validity[b] THEN reached ELSE I.validity[b]
FailureRecorded(I, J, root) ==
    /\ IndexInv(J) /\ J.known = I.known /\ J.validity = I.validity
    /\ J.seq = I.seq /\ J.work = I.work /\ ~IsEligible(J, root)
    /\ \A c \in I.known : ~IsEligible(I, c) => J.failure[c] = I.failure[c]

\* AddHeader, new or known: one more entry at most, the others as they were.
LEMMA HeaderFrame ==
    ASSUME NEW I, IndexInv(I), NEW b \in Block, NEW now, AddsHeader(I, b, now)
    PROVE  HeaderAdded(I, WithHeader(I, b), b)
<1>1. CASE b \in I.known
  BY <1>1 DEF WithHeader, HeaderAdded
<1>2. CASE b \notin I.known
  <2> DEFINE J == Inserted(I, b)
  <2>1. WithHeader(I, b) = J
    BY <1>2 DEF WithHeader
  <2>2. IndexInv(J)
    BY <1>2, InsertedInv DEF AddsHeader
  <2>3. IsIndex(I)
    BY DEF IndexInv
  <2>4. /\ J.known = I.known \cup {b}
        /\ \A c \in I.known : /\ J.validity[c] = I.validity[c] /\ J.failure[c] = I.failure[c]
                              /\ J.seq[c] = I.seq[c] /\ J.work[c] = I.work[c]
        /\ J.validity[b] = HeaderValid /\ J.failure[b] = "None"
    BY <1>2, <2>3 DEF Inserted, Entered, IsIndex
  <2> HIDE DEF J
  <2> QED BY <1>2, <2>1, <2>2, <2>4 DEF HeaderAdded
<1> QED BY <1>1, <1>2

\* RecordValidity raises one level.
LEMMA ValidityFrame ==
    ASSUME NEW I, IndexInv(I), NEW b \in I.known, NEW reached \in Validity
    PROVE  ValidityRaised(I, WithValidity(I, b, reached), b, reached)
<1>1. IsIndex(I) /\ b \in Block
  BY DEF IndexInv, IsIndex
<1>2. IndexInv(WithValidity(I, b, reached))
  BY <1>1, WithValidityInv
<1>3. CASE reached > I.validity[b]
  <2> DEFINE J == [I EXCEPT !.validity[b] = reached]
  <2>1. WithValidity(I, b, reached) = J
    BY <1>3 DEF WithValidity
  <2>2. /\ J.known = I.known /\ J.failure = I.failure /\ J.seq = I.seq /\ J.work = I.work /\ J.best = I.best
        /\ \A c \in I.known : c # b => J.validity[c] = I.validity[c]
        /\ J.validity[b] = reached
    BY <1>1 DEF IsIndex
  <2> HIDE DEF J
  <2> QED BY <1>2, <1>3, <2>1, <2>2 DEF ValidityRaised
<1>4. CASE ~(reached > I.validity[b])
  <2>1. WithValidity(I, b, reached) = I
    BY <1>4 DEF WithValidity
  <2> QED BY <1>4, <2>1 DEF ValidityRaised
<1> QED BY <1>3, <1>4

\* RecordFailure changes failures only, and rules its root out.
LEMMA FailureFrame ==
    ASSUME NEW I, IndexInv(I), NEW root \in I.known
    PROVE  FailureRecorded(I, WithFailure(I, root), root)
<1>1. IsIndex(I) /\ root \in Block
  BY DEF IndexInv, IsIndex
<1>2. IndexInv(WithFailure(I, root)) /\ Stand(I, WithFailure(I, root))
  BY <1>1, WithFailureInv, WithFailureSteps
<1>3. CASE ~IsEligible(I, root)
  <2>1. WithFailure(I, root) = I
    BY <1>3 DEF WithFailure
  <2> QED BY <1>3, <2>1 DEF FailureRecorded
<1>4. CASE IsEligible(I, root)
  <2> DEFINE failure == [b \in Block |-> IF b = root THEN "Itself"
                                        ELSE IF b \in Subtree(I, root) THEN "Ancestor" ELSE I.failure[b]]
             K == [I EXCEPT !.failure = failure]
             J == WithFailure(I, root)
  <2>1. J = IF K.best = NoBlock \/ ~IsEligible(K, K.best) THEN [K EXCEPT !.best = RescanForBestHeader(K)] ELSE K
    BY <1>4 DEF WithFailure
  <2>2. /\ J.known = I.known /\ J.work = I.work /\ J.seq = I.seq /\ J.validity = I.validity /\ J.failure = failure
    BY <1>1, <2>1 DEF IsIndex
  <2>3. failure[root] = "Itself"
    BY <1>1
  <2> HIDE DEF J, failure
  <2> QED BY <1>2, <2>2, <2>3 DEF FailureRecorded, IsEligible, Stand, J
<1> QED BY <1>3, <1>4

\* An ancestor has strictly less work.
LEMMA LineageWork ==
    ASSUME NEW I, IndexInv(I), NEW b \in I.known, NEW x \in Range(Lineage[b]), x # b
    PROVE  I.work[x] < I.work[b]
<1> DEFINE Less(c) == \A y \in Range(Lineage[c]) : y # c => I.work[y] < I.work[c]
           bad == {Header[c].height : c \in {d \in I.known : ~Less(d)}}
<1>0. /\ I.known \subseteq Block /\ \A c \in Block : Header[c].height \in Nat /\ I.work[c] \in Nat
      /\ IsTree(I) /\ WorkIsCumulative(I)
  <2>1. \A c \in Block : Header[c].height \in Nat
    BY HeaderAssumption
  <2> QED BY <2>1 DEF IndexInv, IsIndex
<1>1. bad \subseteq Nat
  BY <1>0
<1>2. bad = {}
  <2> SUFFICES ASSUME bad # {} PROVE FALSE
    OBVIOUS
  <2>1. PICK n \in bad : \A m \in bad : n <= m
    <3> HIDE DEF bad
    <3> QED BY <1>1, LeastNatural, Zenon
  <2>2. PICK c \in I.known : ~Less(c) /\ n = Header[c].height
    OBVIOUS
  <2>3. CASE c = Genesis
    <3>1. Range(<<Genesis>>) = {Genesis}
      BY DEF Range
    <3> QED BY <2>2, <2>3, <3>1, GenesisPath
  <2>4. CASE c # Genesis
    <3> DEFINE p == Header[c].prev
    <3>1. p \in I.known /\ Header[c].height = Header[p].height + 1 /\ I.work[p] < I.work[c]
      BY <1>0, <2>4 DEF IsTree, WorkIsCumulative
    <3>2. Less(p)
      <4> SUFFICES ASSUME ~Less(p) PROVE FALSE
        OBVIOUS
      <4>1. Header[p].height \in bad
        BY <3>1
      <4>2. n <= Header[p].height /\ Header[p].height \in Nat /\ n = Header[p].height + 1
        BY <1>0, <2>1, <2>2, <3>1, <4>1
      <4> HIDE DEF Less, bad, p
      <4> QED BY <4>2
    <3>3. Range(Lineage[c]) = Range(Lineage[p]) \cup {c}
      BY <1>0, <3>1, LineageEnds, Zenon
    <3>4. ASSUME NEW y \in Range(Lineage[p]) PROVE I.work[y] < I.work[c]
      <4>1. y = p \/ I.work[y] < I.work[p]
        BY <3>2
      <4>2. y \in Block /\ p \in Block /\ c \in Block
        BY <1>0, <3>1, LineageInIndex
      <4>3. I.work[y] \in Nat /\ I.work[p] \in Nat /\ I.work[c] \in Nat
        BY <1>0, <4>2
      <4> HIDE DEF p, Less
      <4> QED BY <3>1, <4>1, <4>3
    <3> QED BY <2>2, <3>3, <3>4
  <2> QED BY <2>3, <2>4
<1>3. Less(b)
  BY <1>2
<1> QED BY <1>3

\* Being better is a strict order on eligible entries.
LEMMA BetterOrder ==
    ASSUME NEW I, IndexInv(I), NEW x \in I.known, NEW y \in I.known, NEW z \in I.known,
           IsEligible(I, x), IsEligible(I, y), IsEligible(I, z)
    PROVE  /\ ~IsBetterTip(I, x, x)
           /\ IsBetterTip(I, x, y) => ~IsBetterTip(I, y, x)
           /\ IsBetterTip(I, x, y) /\ ~IsBetterTip(I, z, y) => IsBetterTip(I, x, z)
<1>1. \A c \in {x, y, z} : I.work[c] \in Nat /\ I.seq[c] \in Nat
  BY DEF IndexInv, IsIndex
<1> QED BY <1>1 DEF IsBetterTip

\* Sequences put together one at a time from the front.
LEMMA Fronted ==
    ASSUME NEW S, NEW p \in S, NEW t \in Seq(S)
    PROVE  /\ <<p>> \o t \in Seq(S) /\ <<p>> \o t # <<>>
           /\ Head(<<p>> \o t) = p /\ Tail(<<p>> \o t) = t
           /\ \A s \in Seq(S) : Append(s, p) \o t = s \o (<<p>> \o t)
           /\ t # <<>> => t = <<Head(t)>> \o Tail(t)
<1>0. <<p>> \in Seq(S) /\ Len(<<p>>) = 1 /\ <<p>>[1] = p
  OBVIOUS
<1> DEFINE u == <<p>> \o t
<1>1. u \in Seq(S) /\ Len(u) = Len(t) + 1 /\ u[1] = p /\ \A i \in 1..Len(t) : u[i + 1] = t[i]
  BY <1>0
<1> HIDE DEF u
<1>2. u # <<>> /\ Head(u) = p
  BY <1>1
<1>3. Tail(u) = t
  <2>1. Tail(u) \in Seq(S) /\ Len(Tail(u)) = Len(t) /\ \A i \in 1..Len(t) : Tail(u)[i] = u[i + 1]
    BY <1>1, <1>2
  <2> QED BY <1>1, <2>1
<1>4. ASSUME NEW s \in Seq(S) PROVE Append(s, p) \o t = s \o u
  <2>1. Append(s, p) = s \o <<p>>
    BY <1>0
  <2>2. (s \o <<p>>) \o t = s \o (<<p>> \o t)
    BY <1>0
  <2> QED BY <2>1, <2>2 DEF u
<1>5. t # <<>> => t = <<Head(t)>> \o Tail(t)
  OBVIOUS
<1> QED BY <1>1, <1>2, <1>3, <1>4, <1>5 DEF u

=============================================================================

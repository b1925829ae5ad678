-------------------------- MODULE ChainStateProofs --------------------------
(***************************************************************************)
(* What the chain state and its database keep for every universe of        *)
(* headers, bodies and clocks, and any number of crashes: the inductive    *)
(* invariant, one lemma for each step of a node that is up, a crash and    *)
(* LoadChain, and what follows from it.                                    *)
(***************************************************************************)
EXTENDS ChainState, BlockTreeProofs

-----------------------------------------------------------------------------
(* What a call can have left to write.                                     *)

\* What AcceptHeader, AcceptBlock and a failed block leave to write.
Simple(q, K) ==
    \/ q = <<>>
    \/ \E b \in K : q = <<HeaderWrite(b)>> \/ q = <<BlockWrite(b), HeaderWrite(b)>>

\* b was reverted in memory, and its reversal is still to be committed.
Reverting(q, b) == q = <<TipWrite(b, "disconnected")>>

\* b was applied in memory, and some of ConnectWrites is still to be made.
Applying(q, b) ==
    \/ Len(q) = 3 /\ q = ConnectWrites(b, q[1].undo)
    \/ q = <<HeaderWrite(b), TipWrite(b, "connected")>>
    \/ q = <<TipWrite(b, "connected")>>

Queue(q, K) == Simple(q, K) \/ \E b \in K : Reverting(q, b) \/ Applying(q, b)

\* Taking the first of one, two or three.
LEMMA Taken ==
    ASSUME NEW x, NEW y, NEW z
    PROVE  /\ Head(<<x>>) = x /\ Tail(<<x>>) = <<>> /\ <<x>> # <<>> /\ Len(<<x>>) = 1 /\ <<x>>[1] = x
           /\ Head(<<x, y>>) = x /\ Tail(<<x, y>>) = <<y>> /\ <<x, y>> # <<>>
           /\ Len(<<x, y>>) = 2 /\ <<x, y>>[2] = y
           /\ Head(<<x, y, z>>) = x /\ Tail(<<x, y, z>>) = <<y, z>> /\ <<x, y, z>> # <<>>
           /\ Len(<<x, y, z>>) = 3 /\ <<x, y, z>>[3] = z
OBVIOUS

\* The fields of a queued write.
LEMMA WriteFields ==
    ASSUME NEW b, NEW u, NEW e
    PROVE  /\ HeaderWrite(b).kind = "header" /\ HeaderWrite(b).block = b
           /\ BlockWrite(b).kind = "block" /\ BlockWrite(b).block = b
           /\ UndoWrite(b, u).kind = "undo" /\ UndoWrite(b, u).block = b
           /\ TipWrite(b, e).kind = "tip" /\ TipWrite(b, e).block = b /\ TipWrite(b, e).event = e
BY DEF HeaderWrite, BlockWrite, UndoWrite, TipWrite

\* What the next write is, and what is left after it.
LEMMA QueueCases ==
    ASSUME NEW K, NEW q, Queue(q, K), q # <<>>
    PROVE  \E b \in K :
              /\ Head(q).block = b
              /\ \/ Head(q).kind = "block" /\ Simple(q, K) /\ Tail(q) = <<HeaderWrite(b)>>
                 \/ Head(q).kind = "header" /\ Simple(q, K) /\ Tail(q) = <<>>
                 \/ Head(q).kind = "undo" /\ Applying(q, b)
                    /\ Tail(q) = <<HeaderWrite(b), TipWrite(b, "connected")>>
                 \/ Head(q).kind = "header" /\ Applying(q, b) /\ Tail(q) = <<TipWrite(b, "connected")>>
                    /\ Len(q) = 2
                 \/ Head(q).kind = "tip" /\ Head(q).event = "connected" /\ Applying(q, b) /\ Tail(q) = <<>>
                    /\ Len(q) = 1
                 \/ Head(q).kind = "tip" /\ Head(q).event = "disconnected" /\ Reverting(q, b) /\ Tail(q) = <<>>
<1>1. CASE \E b \in K : q = <<HeaderWrite(b)>>
  BY <1>1, Taken, WriteFields DEF Simple
<1>2. CASE \E b \in K : q = <<BlockWrite(b), HeaderWrite(b)>>
  BY <1>2, Taken, WriteFields DEF Simple
<1>3. CASE \E b \in K : Reverting(q, b)
  BY <1>3, Taken, WriteFields DEF Reverting
<1>4. CASE \E b \in K : Len(q) = 3 /\ q = ConnectWrites(b, q[1].undo)
  <2>1. PICK b \in K : Len(q) = 3 /\ q = ConnectWrites(b, q[1].undo)
    BY <1>4
  <2> DEFINE u == q[1].undo
  <2>2. q = <<UndoWrite(b, u), HeaderWrite(b), TipWrite(b, "connected")>> /\ Applying(q, b)
    BY <2>1 DEF Applying, ConnectWrites
  <2> HIDE DEF u
  <2> QED BY <2>2, Taken, WriteFields
<1>5. CASE \E b \in K : q = <<HeaderWrite(b), TipWrite(b, "connected")>>
  BY <1>5, Taken, WriteFields DEF Applying
<1>6. CASE \E b \in K : q = <<TipWrite(b, "connected")>>
  BY <1>6, Taken, WriteFields DEF Applying
<1> QED BY <1>1, <1>2, <1>3, <1>4, <1>5, <1>6, Zenon DEF Queue, Simple, Applying

\* The last write tells the kinds of queue apart.
LEMMA QueueEnds ==
    ASSUME NEW K, NEW q, NEW b
    PROVE  /\ Simple(q, K) => q = <<>> \/ q[Len(q)].kind = "header"
           /\ Reverting(q, b) => q # <<>> /\ q[Len(q)] = TipWrite(b, "disconnected")
           /\ Applying(q, b) => q # <<>> /\ q[Len(q)] = TipWrite(b, "connected")
<1>1. Simple(q, K) => q = <<>> \/ q[Len(q)].kind = "header"
  BY Taken, WriteFields DEF Simple
<1>2. Reverting(q, b) => q # <<>> /\ q[Len(q)] = TipWrite(b, "disconnected")
  BY Taken DEF Reverting
<1>3. ASSUME Applying(q, b) PROVE q # <<>> /\ q[Len(q)] = TipWrite(b, "connected")
  <2>1. CASE Len(q) = 3 /\ q = ConnectWrites(b, q[1].undo)
    <3> DEFINE u == q[1].undo
    <3>1. q = <<UndoWrite(b, u), HeaderWrite(b), TipWrite(b, "connected")>>
      BY <2>1 DEF ConnectWrites
    <3> HIDE DEF u
    <3> QED BY <3>1, Taken
  <2> QED BY <1>3, <2>1, Taken DEF Applying
<1> QED BY <1>1, <1>2, <1>3

\* So a queue is of one kind and about one block.
LEMMA QueueOf ==
    ASSUME NEW K, NEW q, NEW b, NEW c
    PROVE  /\ Simple(q, K) => ~Applying(q, b) /\ ~Reverting(q, b)
           /\ Applying(q, b) => ~Reverting(q, c)
           /\ Applying(q, b) /\ Applying(q, c) => b = c
           /\ Reverting(q, b) /\ Reverting(q, c) => b = c
<1> DEFINE end == q[Len(q)]
<1>1. Simple(q, K) => q = <<>> \/ end.kind = "header"
  BY QueueEnds, Zenon
<1>2. ASSUME NEW d, Reverting(q, d)
      PROVE  q # <<>> /\ end.kind = "tip" /\ end.event = "disconnected" /\ end.block = d
  <2>1. q # <<>> /\ end = TipWrite(d, "disconnected")
    BY <1>2, QueueEnds
  <2> HIDE DEF end
  <2> QED BY <2>1 DEF TipWrite
<1>3. ASSUME NEW d, Applying(q, d)
      PROVE  q # <<>> /\ end.kind = "tip" /\ end.event = "connected" /\ end.block = d
  <2>1. q # <<>> /\ end = TipWrite(d, "connected")
    BY <1>3, QueueEnds, Zenon
  <2> HIDE DEF end
  <2> QED BY <2>1 DEF TipWrite
<1> HIDE DEF end
<1>4. Simple(q, K) => ~Applying(q, b) /\ ~Reverting(q, b)
  BY <1>1, <1>2, <1>3
<1>5. Applying(q, b) => ~Reverting(q, c)
  BY <1>2, <1>3
<1>6. Applying(q, b) /\ Applying(q, c) => b = c
  BY <1>3
<1>7. Reverting(q, b) /\ Reverting(q, c) => b = c
  BY <1>2
<1> QED BY <1>4, <1>5, <1>6, <1>7

-----------------------------------------------------------------------------
(* The index in the hands of the chain state.                              *)

Eligible(I) == {b \in I.known : IsEligible(I, b)}

\* The blocks a switch is to apply lie on the path to its target, so they are
\* eligible when the target is; the fork exists because both paths start at genesis.
LEMMA PlanOnPath ==
    ASSUME NEW I, IndexInv(I), NEW from \in I.known, NEW to \in I.known, IsEligible(I, to)
    PROVE  LET switch == PlanChainSwitch(from, to)
           IN  /\ switch.connect \in Seq(Eligible(I)) /\ switch.disconnect \in Seq(Block)
               /\ switch.forkPoint \in Range(Lineage[from]) \cap Range(Lineage[to])
<1> DEFINE F == Lineage[from]
           T == Lineage[to]
           low == IF Header[from].height < Header[to].height THEN Header[from].height ELSE Header[to].height
           shared == {h \in 0..low : Ancestor(from, h) = Ancestor(to, h)}
           fork == Max(shared)
           connect == [i \in 1..(Header[to].height - fork) |-> Ancestor(to, fork + i)]
           disconnect == [i \in 1..(Header[from].height - fork) |-> Ancestor(from, Header[from].height - i + 1)]
<1>1. /\ F \in Seq(I.known) /\ Len(F) = Header[from].height + 1 /\ F[1] = Genesis
      /\ T \in Seq(I.known) /\ Len(T) = Header[to].height + 1 /\ T[1] = Genesis
      /\ from \in Block /\ to \in Block /\ \A x \in Range(T) : x \in I.known /\ IsEligible(I, x)
  BY LineageInIndex
<1>2. Header[from].height \in Nat /\ Header[to].height \in Nat /\ I.known \subseteq Block
  <2>1. \A c \in Block : Header[c].height \in Nat
    BY HeaderAssumption
  <2> QED BY <1>1, <2>1 DEF IndexInv, IsIndex
<1>3. low \in Nat /\ low <= Header[from].height /\ low <= Header[to].height
  BY <1>2
<1>4. fork \in shared
  <2>1. Ancestor(from, 0) = Genesis /\ Ancestor(to, 0) = Genesis
    BY <1>1 DEF Ancestor
  <2>2. shared \subseteq Nat /\ shared # {} /\ \A x \in shared : x <= low
    BY <1>3, <2>1
  <2> QED BY <1>3, <2>2, GreatestNatural
<1>5. fork \in Nat /\ fork <= low /\ Ancestor(from, fork) = Ancestor(to, fork)
  BY <1>3, <1>4
<1> HIDE DEF fork, low, shared
<1>a. fork <= Header[from].height /\ fork <= Header[to].height
  BY <1>2, <1>3, <1>5
<1>6. connect \in Seq(Eligible(I))
  <2> DEFINE n == Header[to].height - fork
  <2>1. n \in Nat /\ \A i \in 1..n : fork + i + 1 \in 1..Header[to].height + 1
    BY <1>2, <1>5, <1>a
  <2>2. \A k \in 1..Header[to].height + 1 : T[k] \in Eligible(I)
    BY <1>1 DEF Eligible, Range
  <2>3. \A i \in 1..n : Ancestor(to, fork + i) \in Eligible(I)
    <3> HIDE DEF n, T
    <3> QED BY <2>1, <2>2 DEF Ancestor, T
  <2> HIDE DEF n
  <2>4. [i \in 1..n |-> Ancestor(to, fork + i)] \in Seq(Eligible(I))
    BY <2>1, <2>3
  <2> QED BY <2>4 DEF n
<1>7. disconnect \in Seq(Block)
  <2> DEFINE n == Header[from].height - fork
  <2>1. n \in Nat /\ \A i \in 1..n : Header[from].height - i + 1 + 1 \in 1..Header[from].height + 1
    BY <1>2, <1>5, <1>a
  <2>2. \A k \in 1..Header[from].height + 1 : F[k] \in Block
    BY <1>1, <1>2
  <2>3. \A i \in 1..n : Ancestor(from, Header[from].height - i + 1) \in Block
    <3> HIDE DEF n, F
    <3> QED BY <2>1, <2>2 DEF Ancestor, F
  <2> HIDE DEF n
  <2>4. [i \in 1..n |-> Ancestor(from, Header[from].height - i + 1)] \in Seq(Block)
    BY <2>1, <2>3
  <2> QED BY <2>4 DEF n
<1>8. Ancestor(to, fork) \in Range(F) \cap Range(T)
  <2>1. fork + 1 \in 1..Header[from].height + 1 /\ fork + 1 \in 1..Header[to].height + 1
    BY <1>2, <1>5, <1>a
  <2>2. F[fork + 1] = T[fork + 1]
    BY <1>5 DEF Ancestor
  <2>3. DOMAIN F = 1..Header[from].height + 1 /\ DOMAIN T = 1..Header[to].height + 1
    BY <1>1
  <2> HIDE DEF F, T
  <2>4. T[fork + 1] \in Range(F) \cap Range(T)
    BY <2>1, <2>2, <2>3 DEF Range
  <2> QED BY <2>4 DEF Ancestor, T
<1>9. PlanChainSwitch(from, to) = [forkPoint |-> Ancestor(to, fork), disconnect |-> disconnect, connect |-> connect]
  BY DEF PlanChainSwitch, fork, low, shared
<1> HIDE DEF connect, disconnect
<1> QED BY <1>6, <1>7, <1>8, <1>9

-----------------------------------------------------------------------------
(* The inductive invariant.                                                *)

Phases == Up \cup {"down", "loading", "ruling", "resuming", "refused"}

\* What is on disk has its type.
StoreTyped ==
    /\ DOMAIN db = {"bodies", "undo", "headers", "coins", "tip"}
    /\ db.bodies \subseteq Block /\ db.tip \in Block \cup {NoBlock}
    /\ DOMAIN db.undo \subseteq Block /\ DOMAIN db.headers \subseteq Block
    /\ \A b \in DOMAIN db.headers :
          db.headers[b] \in [seq: Nat, validity: Validity, failure: Failure]

\* A plan is in hand only during a switch and names eligible entries, a call has one
\* kind of write left, and a node that is not up has neither writes nor faults.
ControlSound ==
    /\ phase \in Phases /\ faulted \in BOOLEAN /\ (faulted => MayFault)
    /\ Queue(writes, index.known)
    /\ phase \notin Up => writes = <<>> /\ ~faulted
    /\ phase = "planning" => writes = <<>>
    /\ phase # "switching" => plan = NoPlan
    /\ phase = "switching" => plan \in [disconnect: Seq(Block), connect: Seq(Eligible(index))]
    /\ replay \subseteq DOMAIN db.headers

\* The chain in memory is the path to its tip, the observer's is the path to the
\* stored tip, and ResumeAt has walked a part of the latter.
PathsSound ==
    /\ phase \in Up => chain = Lineage[Tip] /\ Tip \in index.known /\ heard = Lineage[StoredTip]
    /\ phase = "resuming" =>
          /\ StoredTip \in index.known
          /\ chain \in Seq(Block) /\ chain # <<>> /\ Head(chain) \in index.known
          /\ Lineage[Head(chain)] \o Tail(chain) = Lineage[StoredTip]

\* While the database has not failed, memory and disk differ by the one block whose
\* commit is pending.
OneBlockApart ==
    (phase \in Up /\ ~faulted) =>
        \/ Simple(writes, index.known) /\ StoredTip = Tip /\ coins = db.coins
        \/ Reverting(writes, StoredTip) /\ Header[StoredTip].prev = Tip
        \/ Applying(writes, Tip) /\ Header[Tip].prev = StoredTip

Inv == StoreTyped /\ IndexInv(index) /\ ControlSound /\ PathsSound /\ OneBlockApart

\* The blocks the invariant speaks of are blocks.
LEMMA Named ==
    ASSUME Inv
    PROVE  /\ index.known \subseteq Block /\ Genesis \in index.known /\ StoredTip \in Block
           /\ StoredTip # NoBlock
           /\ phase \in Up => Tip \in Block /\ Tip # NoBlock
           /\ IsTree(index)
           /\ \A b \in index.known : Header[b].prev \in Block => Header[b].prev \in index.known
<1>1. index.known \subseteq Block /\ Genesis \in index.known /\ IsTree(index)
  BY DEF Inv, IndexInv, IsIndex
<1>2. StoredTip \in Block
  BY HeaderAssumption DEF Inv, StoreTyped, StoredTip
<1>3. phase \in Up => Tip \in Block
  BY <1>1 DEF Inv, PathsSound
<1>4. \A b \in index.known : Header[b].prev \in Block => Header[b].prev \in index.known
  BY <1>1, HeaderAssumption DEF IsTree
<1> QED BY <1>1, <1>2, <1>3, <1>4, NullAssumption

\* A node that has just written genesis.
LEMMA InitInv == Init => Inv
<1> SUFFICES ASSUME Init PROVE Inv
  OBVIOUS
<1>1. StoreTyped
  BY DEF Init, StoreTyped
<1>2. IndexInv(index)
  BY NewIndexInv DEF Init
<1>3. ControlSound
  <2>1. Queue(writes, index.known)
    BY DEF Init, Queue, Simple
  <2> QED BY <2>1, BoundAssumption, Zenon DEF Init, ControlSound, Phases, Up, Between
<1>4. index.known = {Genesis} /\ Tip = Genesis /\ StoredTip = Genesis /\ chain = <<Genesis>>
  BY GenesisPath, NullAssumption DEF Init, NewIndex, Tip, StoredTip
<1>5. PathsSound
  BY <1>4, GenesisPath DEF Init, PathsSound
<1>6. OneBlockApart
  BY <1>4 DEF Init, OneBlockApart, Simple
<1> QED BY <1>1, <1>2, <1>3, <1>5, <1>6 DEF Inv

\* Between calls nothing is pending: memory is what is stored.
LEMMA NothingPending ==
    ASSUME Inv, phase \in Up, ~faulted, writes = <<>>
    PROVE  StoredTip = Tip /\ coins = db.coins
<1>1. ~Reverting(writes, StoredTip) /\ ~Applying(writes, Tip)
  BY QueueEnds, Zenon
<1> QED BY <1>1 DEF Inv, OneBlockApart

\* A call that only adds to the index, with what it leaves to write.
LEMMA GrownInv ==
    ASSUME Inv, phase \in Up, writes = <<>>, phase \in Between,
           IndexInv(index'), index.known \subseteq index'.known,
           Simple(writes', index'.known), phase' = "idle",
           UNCHANGED <<chain, coins, heard, faulted, db, plan, replay>>
    PROVE  Inv'
<1>1. Tip' = Tip /\ StoredTip' = StoredTip
  BY DEF Tip, StoredTip
<1>2. StoreTyped'
  BY DEF Inv, StoreTyped
<1>3. ControlSound'
  <2>1. Queue(writes', index'.known)
    BY DEF Queue
  <2>2. plan = NoPlan
    BY DEF Inv, ControlSound, Between
  <2> QED BY <2>1, <2>2 DEF Inv, ControlSound, Phases, Up, Between
<1>4. PathsSound'
  BY <1>1 DEF Inv, PathsSound, Up, Between
<1>5. OneBlockApart'
  BY <1>1, NothingPending DEF OneBlockApart
<1> QED BY <1>2, <1>3, <1>4, <1>5 DEF Inv

\* AcceptHeader and AcceptBlock: the index grows or rises, and one or two writes are queued.
LEMMA ArriveInv == Inv /\ Arrive => Inv'
<1> SUFFICES ASSUME Inv, Arrive PROVE Inv'
  OBVIOUS
<1>0. IndexInv(index)
  BY DEF Inv
<1>1. PICK b \in Block, now \in Clock : \/ AcceptHeader(b, now)
                                        \/ \E body \in Bodies[b] : AcceptBlock(b, body, now)
  BY DEF Arrive
<1> DEFINE I == WithHeader(index, b)
<1>2. AddsHeader(index, b, now) /\ Ready /\ phase' = "idle"
      /\ UNCHANGED <<chain, coins, heard, faulted, db, plan, replay>>
  BY <1>1 DEF AcceptHeader, AcceptBlock
<1>3. IndexInv(I) /\ b \in I.known /\ I.known = index.known \cup {b}
  <2>1. HeaderAdded(index, I, b)
    BY <1>0, <1>2, HeaderFrame, Zenon
  <2> QED BY <2>1, Zenon DEF HeaderAdded
<1>4. phase \in Up /\ phase \in Between /\ writes = <<>>
  BY <1>2 DEF Ready, Up
<1>5. /\ IndexInv(index') /\ index.known \subseteq index'.known
      /\ Simple(writes', index'.known)
  <2>1. CASE AcceptHeader(b, now)
    <3>1. index' = I /\ writes' = <<HeaderWrite(b)>>
      BY <2>1 DEF AcceptHeader
    <3> HIDE DEF I
    <3> QED BY <1>3, <3>1 DEF Simple
  <2>2. CASE \E body \in Bodies[b] : AcceptBlock(b, body, now)
    <3>1. PICK body \in Bodies[b] : AcceptBlock(b, body, now)
      BY <2>2
    <3>2. \/ index' = I /\ writes' = <<>>
          \/ index' = WithFailure(I, b) /\ writes' = <<HeaderWrite(b)>>
          \/ index' = WithValidity(I, b, BodyValid) /\ writes' = <<BlockWrite(b), HeaderWrite(b)>>
      BY <3>1 DEF AcceptBlock
    <3> HIDE DEF I
    <3>3. IndexInv(WithFailure(I, b)) /\ WithFailure(I, b).known = I.known
      <4>1. FailureRecorded(I, WithFailure(I, b), b)
        BY <1>3, FailureFrame, Zenon
      <4> QED BY <4>1, Zenon DEF FailureRecorded
    <3>4. IndexInv(WithValidity(I, b, BodyValid)) /\ WithValidity(I, b, BodyValid).known = I.known
      <4>1. BodyValid \in Validity
        BY DEF BodyValid, Validity, HeaderValid, FullyValid
      <4>2. ValidityRaised(I, WithValidity(I, b, BodyValid), b, BodyValid)
        BY <1>3, <4>1, ValidityFrame, Zenon
      <4> QED BY <4>2, Zenon DEF ValidityRaised
    <3> QED BY <1>3, <3>2, <3>3, <3>4 DEF Simple
  <2> QED BY <1>1, <2>1, <2>2
<1> QED BY <1>2, <1>4, <1>5, GrownInv

\* What is left of a queue after a write that is not the commit.
LEMMA QueueRest ==
    ASSUME NEW K, NEW q, Queue(q, K), q # <<>>, Head(q).kind # "tip"
    PROVE  /\ Queue(Tail(q), K)
           /\ Simple(q, K) => Simple(Tail(q), K)
           /\ \A c : /\ Applying(q, c) => c \in K /\ Applying(Tail(q), c)
                     /\ ~Reverting(q, c)
<1>1. PICK b \in K :
         \/ Head(q).kind = "block" /\ Simple(q, K) /\ Tail(q) = <<HeaderWrite(b)>>
         \/ Head(q).kind = "header" /\ Simple(q, K) /\ Tail(q) = <<>>
         \/ Head(q).kind = "undo" /\ Applying(q, b)
            /\ Tail(q) = <<HeaderWrite(b), TipWrite(b, "connected")>>
         \/ Head(q).kind = "header" /\ Applying(q, b) /\ Tail(q) = <<TipWrite(b, "connected")>>
  BY QueueCases
<1>2. CASE Simple(q, K)
  <2>1. \A c : ~Applying(q, c) /\ ~Reverting(q, c)
    BY <1>2, QueueOf
  <2>2. Simple(Tail(q), K)
    BY <1>1, <2>1 DEF Simple
  <2> QED BY <2>1, <2>2 DEF Queue
<1>3. CASE ~Simple(q, K)
  <2>1. Applying(q, b) /\ Applying(Tail(q), b)
    BY <1>1, <1>3 DEF Applying
  <2>2. \A c : (Applying(q, c) => c = b) /\ ~Reverting(q, c)
    BY <2>1, QueueOf
  <2> QED BY <1>3, <2>1, <2>2 DEF Queue
<1> QED BY <1>2, <1>3

\* A write that is not the commit, made or refused.
LEMMA WrittenInv ==
    ASSUME Inv, writes # <<>>, Head(writes).kind # "tip", writes' = Tail(writes), StoreTyped',
           db'.tip = db.tip, db'.coins = db.coins, DOMAIN db.headers \subseteq DOMAIN db'.headers,
           faulted' \in BOOLEAN, faulted => faulted', faulted' => MayFault,
           UNCHANGED <<index, chain, coins, heard, phase, plan, replay>>
    PROVE  Inv'
<1>1. Tip' = Tip /\ StoredTip' = StoredTip
  BY DEF Tip, StoredTip
<1>2. Queue(writes, index.known) /\ phase \in Up /\ phase # "planning"
  BY DEF Inv, ControlSound
<1>3. /\ Queue(writes', index.known)
      /\ Simple(writes, index.known) => Simple(writes', index.known)
      /\ Applying(writes, Tip) => Applying(writes', Tip)
      /\ ~Reverting(writes, StoredTip)
  BY <1>2, QueueRest, Zenon
<1>4. ControlSound'
  BY <1>2, <1>3 DEF Inv, ControlSound
<1>5. PathsSound'
  BY <1>1, Zenon DEF Inv, PathsSound
<1>6. OneBlockApart'
  BY <1>1, <1>2, <1>3 DEF Inv, OneBlockApart
<1>7. IndexInv(index')
  BY DEF Inv
<1> QED BY <1>4, <1>5, <1>6, <1>7 DEF Inv

\* The three writes that are not the commit keep the types of what is stored.
LEMMA StoredWrite ==
    ASSUME Inv, writes # <<>>, PutBlock \/ PutUndo \/ CommitHeader
    PROVE  /\ StoreTyped' /\ db'.tip = db.tip /\ db'.coins = db.coins
           /\ db.bodies \subseteq db'.bodies /\ DOMAIN db.undo \subseteq DOMAIN db'.undo
           /\ Head(writes).block \in index.known /\ Head(writes).kind \in {"block", "undo", "header"}
           /\ Head(writes).kind = "undo" => Head(writes).block \in DOMAIN db'.undo
           /\ Head(writes).kind # "header" => db'.headers = db.headers
           /\ Head(writes).kind = "header" =>
                 db'.headers = Put(db.headers, Head(writes).block, Record(index, Head(writes).block))
           /\ DOMAIN db.headers \subseteq DOMAIN db'.headers
<1> DEFINE b == Head(writes).block
<1>1. b \in index.known /\ b \in Block
  <2>1. Queue(writes, index.known)
    BY DEF Inv, ControlSound
  <2> QED BY <2>1, QueueCases, Named, Zenon
<1>2. StoreTyped
  BY DEF Inv
<1> HIDE DEF b
<1>3. CASE PutBlock
  <2>1. db' = [db EXCEPT !.bodies = @ \cup {b}] /\ Head(writes).kind = "block"
    BY <1>3 DEF PutBlock, b
  <2>2. /\ db'.bodies = db.bodies \cup {b} /\ db'.undo = db.undo /\ db'.headers = db.headers
        /\ db'.tip = db.tip /\ db'.coins = db.coins /\ DOMAIN db' = DOMAIN db
    BY <1>2, <2>1 DEF StoreTyped
  <2> QED BY <1>1, <1>2, <2>1, <2>2 DEF StoreTyped, b
<1>4. CASE PutUndo
  <2> DEFINE undo == Put(db.undo, b, Head(writes).undo)
  <2>1. db' = [db EXCEPT !.undo = undo] /\ Head(writes).kind = "undo"
    BY <1>4 DEF PutUndo, b
  <2>2. DOMAIN undo = DOMAIN db.undo \cup {b}
    BY DEF Put
  <2> HIDE DEF undo
  <2>3. /\ db'.bodies = db.bodies /\ db'.undo = undo /\ db'.headers = db.headers
        /\ db'.tip = db.tip /\ db'.coins = db.coins /\ DOMAIN db' = DOMAIN db
    BY <1>2, <2>1 DEF StoreTyped
  <2> QED BY <1>1, <1>2, <2>1, <2>2, <2>3 DEF StoreTyped, b
<1>5. CASE CommitHeader
  <2> DEFINE headers == Put(db.headers, b, Record(index, b))
  <2>1. db' = [db EXCEPT !.headers = headers] /\ Head(writes).kind = "header"
    BY <1>5 DEF CommitHeader, b
  <2>2. Record(index, b) \in [seq: Nat, validity: Validity, failure: Failure]
    <3>1. IsIndex(index)
      BY DEF Inv, IndexInv
    <3> QED BY <1>1, <3>1 DEF Record, IsIndex
  <2>3. /\ DOMAIN headers = DOMAIN db.headers \cup {b}
        /\ headers[b] = Record(index, b) /\ \A c \in DOMAIN db.headers : c # b => headers[c] = db.headers[c]
    BY DEF Put
  <2>4. headers = Put(db.headers, b, Record(index, b))
    OBVIOUS
  <2> HIDE DEF headers
  <2>5. /\ db'.bodies = db.bodies /\ db'.undo = db.undo /\ db'.headers = headers
        /\ db'.tip = db.tip /\ db'.coins = db.coins /\ DOMAIN db' = DOMAIN db
    BY <1>2, <2>1 DEF StoreTyped
  <2>6. StoreTyped'
    <3>1. \A c \in DOMAIN headers : headers[c] \in [seq: Nat, validity: Validity, failure: Failure]
      BY <1>2, <2>2, <2>3 DEF StoreTyped
    <3> QED BY <1>1, <1>2, <2>3, <2>5, <3>1 DEF StoreTyped
  <2> QED BY <1>1, <2>1, <2>3, <2>4, <2>5, <2>6 DEF b
<1> QED BY <1>3, <1>4, <1>5, Zenon

\* The commit: what was pending is stored, and the observer hears of it.
LEMMA CommitTipCases ==
    ASSUME Inv, CommitTip
    PROVE  /\ ~faulted /\ phase \in Up /\ phase # "planning" /\ writes' = <<>>
           /\ db'.bodies = db.bodies /\ db'.undo = db.undo /\ db'.headers = db.headers
           /\ db'.tip = Tip /\ db'.coins = coins /\ DOMAIN db' = DOMAIN db
           /\ Tip' = Tip /\ StoredTip' = Tip /\ heard' = Lineage[Tip]
           /\ UNCHANGED <<index, chain, coins, faulted, phase, plan, replay>>
           /\ \/ Applying(writes, Tip) /\ Len(writes) = 1 /\ Header[Tip].prev = StoredTip
              \/ Reverting(writes, StoredTip) /\ Header[StoredTip].prev = Tip
<1>1. /\ writes # <<>> /\ Head(writes).kind = "tip" /\ ~faulted /\ writes' = Tail(writes)
      /\ db' = [db EXCEPT !.coins = coins, !.tip = Tip]
      /\ heard' = IF Head(writes).event = "connected" THEN Append(heard, Head(writes).block)
                  ELSE SubSeq(heard, 1, Len(heard) - 1)
      /\ UNCHANGED <<index, chain, coins, faulted, phase, plan, replay>>
  BY DEF CommitTip, MayCommit
<1>2. Queue(writes, index.known) /\ phase \in Up /\ phase # "planning" /\ heard = Lineage[StoredTip]
  BY <1>1 DEF Inv, ControlSound, PathsSound
<1>3. /\ db'.bodies = db.bodies /\ db'.undo = db.undo /\ db'.headers = db.headers
      /\ db'.tip = Tip /\ db'.coins = coins /\ DOMAIN db' = DOMAIN db
  BY <1>1 DEF Inv, StoreTyped
<1>4. Tip \in Block /\ Tip # NoBlock /\ StoredTip \in Block
  BY <1>2, Named
<1>5. Tip' = Tip /\ StoredTip' = Tip
  BY <1>1, <1>3, <1>4 DEF Tip, StoredTip
<1>6. PICK b \in index.known :
         /\ Head(writes).block = b /\ writes' = <<>>
         /\ \/ Head(writes).event = "connected" /\ Applying(writes, b) /\ Len(writes) = 1
            \/ Head(writes).event = "disconnected" /\ Reverting(writes, b)
  BY <1>1, <1>2, QueueCases
<1>7. CASE Head(writes).event = "connected" /\ Applying(writes, b) /\ Len(writes) = 1
  <2>1. Applying(writes, Tip) /\ Header[Tip].prev = StoredTip
    BY <1>1, <1>2, <1>7, QueueOf, Zenon DEF Inv, OneBlockApart
  <2>2. b = Tip
    BY <1>7, <2>1, QueueOf
  <2>3. Lineage[Tip] = Append(Lineage[StoredTip], Tip)
    BY <1>4, <2>1, LineageEnds
  <2>4. heard' = Lineage[Tip]
    BY <1>1, <1>2, <1>6, <1>7, <2>2, <2>3
  <2> QED BY <1>1, <1>2, <1>3, <1>5, <1>6, <1>7, <2>1, <2>4
<1>8. CASE Head(writes).event = "disconnected" /\ Reverting(writes, b)
  <2>1. Reverting(writes, StoredTip) /\ Header[StoredTip].prev = Tip
    BY <1>1, <1>2, <1>8, QueueOf, Zenon DEF Inv, OneBlockApart
  <2>2. SubSeq(Lineage[StoredTip], 1, Len(Lineage[StoredTip]) - 1) = Lineage[Tip]
    BY <1>4, <2>1, LineageEnds
  <2>3. heard' = Lineage[Tip]
    BY <1>1, <1>2, <1>8, <2>2, Zenon
  <2> QED BY <1>1, <1>2, <1>3, <1>5, <1>6, <2>1, <2>3, Zenon
<1> QED BY <1>6, <1>7, <1>8, Zenon

\* CommitTip moves the stored tip by the one block memory is ahead or behind.
LEMMA CommitTipInv == Inv /\ CommitTip => Inv'
<1> SUFFICES ASSUME Inv, CommitTip PROVE Inv'
  OBVIOUS
<1>1. /\ phase \in Up /\ phase # "planning" /\ writes' = <<>>
      /\ db'.bodies = db.bodies /\ db'.undo = db.undo /\ db'.headers = db.headers
      /\ db'.tip = Tip /\ db'.coins = coins /\ DOMAIN db' = DOMAIN db
      /\ Tip' = Tip /\ StoredTip' = Tip /\ heard' = Lineage[Tip]
      /\ UNCHANGED <<index, chain, coins, faulted, phase, plan, replay>>
  BY CommitTipCases
<1>2. Tip \in Block /\ Tip \in index.known /\ chain = Lineage[Tip]
  BY <1>1, Named, Zenon DEF Inv, PathsSound
<1>3. StoreTyped'
  BY <1>1, <1>2, Zenon DEF Inv, StoreTyped
<1>4. ControlSound'
  BY <1>1, Zenon DEF Inv, ControlSound, Queue, Simple
<1>5. PathsSound'
  BY <1>1, <1>2, Zenon DEF PathsSound, Up, Between
<1>6. OneBlockApart'
  BY <1>1 DEF OneBlockApart, Simple
<1>7. IndexInv(index')
  BY <1>1 DEF Inv
<1> QED BY <1>3, <1>4, <1>5, <1>6, <1>7 DEF Inv

\* Whatever the next queued write is.
LEMMA StoreInv == Inv /\ Store => Inv'
<1>1. ASSUME Inv, PutBlock \/ PutUndo \/ CommitHeader PROVE Inv'
  <2>1. writes # <<>> /\ writes' = Tail(writes)
        /\ UNCHANGED <<index, chain, coins, heard, faulted, phase, plan, replay>>
    BY <1>1 DEF PutBlock, PutUndo, CommitHeader, memory
  <2>2. /\ StoreTyped' /\ db'.tip = db.tip /\ db'.coins = db.coins
        /\ Head(writes).kind \in {"block", "undo", "header"}
        /\ DOMAIN db.headers \subseteq DOMAIN db'.headers
    BY <1>1, <2>1, StoredWrite
  <2>3. Head(writes).kind # "tip" /\ faulted' \in BOOLEAN /\ (faulted' => MayFault) /\ (faulted => faulted')
    BY <1>1, <2>1, <2>2 DEF Inv, ControlSound
  <2> QED BY <1>1, <2>1, <2>2, <2>3, WrittenInv
<1> QED BY <1>1, CommitTipInv DEF Store

\* A refused write or a failed read latches the fault, a refused commit also stops the call,
\* and the database stays as it was.
LEMMA FailInv == Inv /\ Fail => Inv'
<1> SUFFICES ASSUME Inv, Fail PROVE Inv'
  OBVIOUS
<1>0. IndexInv(index) /\ StoreTyped
  BY DEF Inv
<1>1. CASE WriteRefused
  <2>1. writes # <<>> /\ Head(writes).kind # "tip" /\ writes' = Tail(writes) /\ faulted' = TRUE /\ MayFault
        /\ UNCHANGED <<index, chain, coins, heard, phase, plan, replay>> /\ db' = db
    BY <1>1 DEF WriteRefused
  <2>2. StoreTyped'
    BY <1>0, <2>1 DEF StoreTyped
  <2> QED BY <2>1, <2>2, WrittenInv
<1>2. CASE CommitTipRefused
  <2>1. /\ writes # <<>> /\ faulted' = TRUE /\ MayFault /\ phase' = "stopped" /\ plan' = NoPlan /\ writes' = <<>>
        /\ UNCHANGED <<index, chain, heard, db, replay>>
    BY <1>2 DEF CommitTipRefused
  <2>2. phase \in Up
    BY <2>1 DEF Inv, ControlSound
  <2>3. Tip' = Tip /\ StoredTip' = StoredTip
    BY <2>1 DEF Tip, StoredTip
  <2>4. StoreTyped' /\ IndexInv(index')
    BY <1>0, <2>1 DEF StoreTyped
  <2>5. ControlSound'
    BY <2>1 DEF Inv, ControlSound, Queue, Simple, Phases, Up, Between
  <2>6. PathsSound'
    BY <2>1, <2>2, <2>3 DEF Inv, PathsSound
  <2>7. OneBlockApart'
    BY <2>1 DEF OneBlockApart
  <2> QED BY <2>4, <2>5, <2>6, <2>7 DEF Inv
<1>3. CASE ReadFails
  <2>1. /\ faulted' = TRUE /\ MayFault /\ phase \in Up
        /\ UNCHANGED <<index, chain, coins, heard, db, phase, plan, writes, replay>>
    BY <1>3 DEF ReadFails, control
  <2>2. Tip' = Tip /\ StoredTip' = StoredTip
    BY <2>1 DEF Tip, StoredTip
  <2>3. StoreTyped' /\ IndexInv(index')
    BY <1>0, <2>1 DEF StoreTyped
  <2>4. ControlSound'
    BY <2>1 DEF Inv, ControlSound
  <2>5. PathsSound'
    BY <2>1, <2>2, Zenon DEF Inv, PathsSound
  <2>6. OneBlockApart'
    BY <2>1 DEF OneBlockApart
  <2> QED BY <2>3, <2>4, <2>5, <2>6 DEF Inv
<1> QED BY <1>1, <1>2, <1>3 DEF Fail

\* A step of the activation loop that touches neither memory nor disk.
LEMMA SteppedInv ==
    ASSUME Inv, phase \in Up, phase' \in Up, UNCHANGED <<memory, db, writes, replay>>,
           phase' = "planning" => writes = <<>>,
           phase' # "switching" => plan' = NoPlan,
           phase' = "switching" => plan' \in [disconnect: Seq(Block), connect: Seq(Eligible(index))]
    PROVE  Inv'
<1>0. UNCHANGED <<index, chain, coins, heard, faulted, db, writes, replay>>
  BY DEF memory
<1>1. Tip' = Tip /\ StoredTip' = StoredTip
  BY <1>0 DEF Tip, StoredTip
<1>2. StoreTyped' /\ IndexInv(index')
  BY <1>0 DEF Inv, StoreTyped
<1>3. ControlSound'
  BY <1>0 DEF Inv, ControlSound, Phases
<1>4. PathsSound'
  BY <1>0, <1>1, Zenon DEF Inv, PathsSound, Up, Between
<1>5. OneBlockApart'
  BY <1>0, <1>1 DEF Inv, OneBlockApart
<1> QED BY <1>2, <1>3, <1>4, <1>5 DEF Inv

\* Cutting the new branch leaves a prefix of it.
LEMMA ReachableIn ==
    ASSUME NEW S, NEW connect \in Seq(S), NEW n \in Reachable(connect)
    PROVE  n \in 0..Len(connect)
<1> DEFINE stored == {k \in 0..Len(connect) : \A i \in 1..k : connect[i] \in db.bodies}
<1>1. Len(connect) \in Nat
  OBVIOUS
<1>2. stored \subseteq Nat /\ 0 \in stored /\ \A x \in stored : x <= Len(connect)
  BY <1>1
<1>3. Max(stored) \in stored
  BY <1>1, <1>2, GreatestNatural, Zenon
<1>4. n \in stored
  BY <1>3 DEF Reachable
<1> QED BY <1>4

\* Whatever is legible is there; with no fault, also the other way round.
LEMMA AnswersMean ==
    ASSUME NEW c \in BOOLEAN, NEW a \in Answers(c)
    PROVE  (a => c) /\ (~faulted => a = c) /\ a \in BOOLEAN
BY Zenon DEF Answers

\* A pass ends, or plans a switch to a tip better than the one held, of stored and eligible blocks.
LEMMA PlanPassInv ==
    ASSUME Inv, PlanPass
    PROVE  /\ Inv' /\ phase' \in {"returned", "switching"}
           /\ phase' = "switching" =>
                 IF plan'.connect = <<>> THEN \E f \in Range(Lineage[Tip]) : IsBetterTip(index, f, Tip)
                 ELSE IsBetterTip(index, plan'.connect[Len(plan'.connect)], Tip)
<1>1. phase = "planning" /\ UNCHANGED <<memory, writes, replay, held, db, crashes>>
  BY DEF PlanPass
<1>2. phase \in Up /\ IndexInv(index) /\ writes = <<>>
  BY <1>1 DEF Up, Inv, ControlSound
<1>3. Tip \in index.known
  BY <1>2 DEF Inv, PathsSound
<1>4. CASE phase' = "returned" /\ plan' = NoPlan
  <2>1. Inv'
    BY <1>1, <1>2, <1>4, SteppedInv DEF Up, Between
  <2> QED BY <1>4, <2>1
<1>5. CASE ~(phase' = "returned" /\ plan' = NoPlan)
  <2> DEFINE switch == PlanChainSwitch(Tip, index.best)
             Attainable(n) == IF n = 0 THEN switch.forkPoint ELSE switch.connect[n]
  <2>1. index.best # NoBlock
    BY <1>5 DEF PlanPass
  <2>2. PICK n \in Reachable(switch.connect) :
           /\ WorthSwitching(Attainable(n)) /\ phase' = "switching"
           /\ plan' = [disconnect |-> switch.disconnect, connect |-> SubSeq(switch.connect, 1, n)]
    BY <1>5 DEF PlanPass
  <2>3. index.best \in index.known /\ IsEligible(index, index.best)
    BY <1>2, <2>1 DEF IndexInv, IsBestMaximal
  <2>4. /\ switch.connect \in Seq(Eligible(index)) /\ switch.disconnect \in Seq(Block)
        /\ switch.forkPoint \in Range(Lineage[Tip])
    BY <1>2, <1>3, <2>3, PlanOnPath
  <2> DEFINE cut == SubSeq(switch.connect, 1, n)
  <2>5. n \in 0..Len(switch.connect)
    BY <2>4, ReachableIn
  <2>6. /\ cut \in Seq(Eligible(index)) /\ Len(cut) = n /\ (n # 0 => cut[n] = switch.connect[n] /\ cut # <<>>)
        /\ (n = 0 => cut = <<>>)
    <3> HIDE DEF switch
    <3> QED BY <2>4, <2>5
  <2>7. plan'.connect = cut /\ plan'.disconnect = switch.disconnect
        /\ plan' \in [disconnect: Seq(Block), connect: Seq(Eligible(index))]
    <3> HIDE DEF switch, cut
    <3> QED BY <2>2, <2>4, <2>6 DEF cut
  <2>8. Inv'
    BY <1>1, <1>2, <2>2, <2>7, SteppedInv, Zenon DEF Up
  <2>9. IsBetterTip(index, Attainable(n), Tip)
    BY <2>2 DEF WorthSwitching
  <2> HIDE DEF switch, cut
  <2>10. CASE n = 0
    <3>1. IsBetterTip(index, switch.forkPoint, Tip)
      BY <2>9, <2>10
    <3> QED BY <2>2, <2>4, <2>6, <2>7, <2>8, <2>10, <3>1, Zenon
  <2>11. CASE n # 0
    <3>1. IsBetterTip(index, switch.connect[n], Tip)
      BY <2>9, <2>11
    <3> QED BY <2>2, <2>6, <2>7, <2>8, <2>11, <3>1, Zenon
  <2> QED BY <2>10, <2>11
<1> QED BY <1>4, <1>5

\* DisconnectTip reverts the tip in memory and queues its reversal.
LEMMA DisconnectTipInv == Inv /\ DisconnectTip => Inv'
<1> SUFFICES ASSUME Inv, DisconnectTip PROVE Inv'
  OBVIOUS
<1>1. phase = "switching" /\ writes = <<>> /\ plan.disconnect # <<>>
  BY DEF DisconnectTip
<1>2. phase \in Up /\ chain = Lineage[Tip] /\ Tip \in index.known /\ heard = Lineage[StoredTip]
      /\ plan \in [disconnect: Seq(Block), connect: Seq(Eligible(index))]
  BY <1>1 DEF Up, Inv, PathsSound, ControlSound
<1>3. CASE Stop
  BY <1>1, <1>2, <1>3, SteppedInv DEF Stop, Up, Between
<1>4. CASE ~Stop
  <2>1. /\ Tip # Genesis
        /\ chain' = SubSeq(chain, 1, Len(chain) - 1) /\ plan' = [plan EXCEPT !.disconnect = Tail(@)]
        /\ writes' = <<TipWrite(Tip, "disconnected")>>
        /\ UNCHANGED <<index, heard, faulted, phase, replay, db>>
    <3>1. PICK legible \in Answers(Tip # Genesis /\ Tip = Head(plan.disconnect)
                                   /\ (Tip \in db.bodies /\ Tip \in DOMAIN db.undo)) :
             /\ legible
             /\ chain' = SubSeq(chain, 1, Len(chain) - 1) /\ plan' = [plan EXCEPT !.disconnect = Tail(@)]
             /\ writes' = DisconnectWrites(Tip)
             /\ UNCHANGED <<index, heard, faulted, phase, replay, db>>
      BY <1>4 DEF DisconnectTip
    <3>2. Tip # Genesis
      BY <3>1, AnswersMean, Zenon
    <3> QED BY <3>1, <3>2 DEF DisconnectWrites
  <2> DEFINE p == Header[Tip].prev
  <2>2. p \in index.known /\ p \in Block /\ Tip \in Block /\ StoredTip \in Block
    BY <1>2, <2>1, Named DEF IsTree
  <2>3. chain' = Lineage[p] /\ Tip' = p
    <3>1. chain' = Lineage[p]
      BY <1>2, <2>1, <2>2, LineageEnds
    <3> QED BY <2>2, <3>1, LineageEnds DEF Tip
  <2>4. StoredTip' = StoredTip
    BY <2>1 DEF StoredTip
  <2>5. StoreTyped' /\ IndexInv(index')
    BY <2>1 DEF Inv, StoreTyped
  <2>6. ControlSound'
    <3>1. Queue(writes', index'.known)
      BY <1>2, <2>1 DEF Queue, Reverting
    <3>2. plan' \in [disconnect: Seq(Block), connect: Seq(Eligible(index))]
      <4>1. Tail(plan.disconnect) \in Seq(Block)
        BY <1>1, <1>2
      <4> QED BY <1>2, <2>1, <4>1, Zenon
    <3> QED BY <1>1, <2>1, <3>1, <3>2 DEF Inv, ControlSound, Up
  <2>7. PathsSound'
    BY <1>1, <1>2, <2>1, <2>2, <2>3, <2>4 DEF PathsSound, Up
  <2>8. OneBlockApart'
    <3> SUFFICES ASSUME ~faulted PROVE Reverting(writes', StoredTip) /\ Header[StoredTip].prev = p
      BY <2>1, <2>3, <2>4 DEF OneBlockApart
    <3>1. StoredTip = Tip
      BY <1>1, <1>2, NothingPending
    <3> QED BY <2>1, <3>1 DEF Reverting
  <2> QED BY <2>5, <2>6, <2>7, <2>8 DEF Inv
<1> QED BY <1>3, <1>4

\* The writes of a new tip, before the first is made.
LEMMA ApplyingStarts ==
    ASSUME NEW b, NEW undo, NEW q, q = ConnectWrites(b, undo)
    PROVE  Len(q) = 3 /\ Applying(q, b)
<1>1. q[1] = UndoWrite(b, undo) /\ Len(q) = 3
  BY DEF ConnectWrites
<1>2. q[1].undo = undo
  BY <1>1 DEF UndoWrite
<1> QED BY <1>1, <1>2 DEF Applying

\* The three ways ConnectTip can go, by what they do to the index.
Refuted(b) ==
    /\ ~faulted /\ plan' = NoPlan /\ writes' = <<HeaderWrite(b)>>
    /\ \E I \in {index, WithValidity(index, b, BodyValid)} :
          /\ index' = WithFailure(I, b)
          /\ I # index => index.validity[b] >= BodyValid \/ CheckBlock(b, Header[b].root)
    /\ UNCHANGED <<chain, coins, heard, faulted, phase, replay, held, db>>
Connected(b) ==
    /\ index.validity[b] >= BodyValid \/ CheckBlock(b, Header[b].root)
    /\ chain' = Append(chain, b)
    /\ index' = WithValidity(WithValidity(index, b, BodyValid), b, FullyValid)
    /\ plan' = [plan EXCEPT !.connect = Tail(@)]
    /\ Len(writes') = 3 /\ Applying(writes', b)
    /\ UNCHANGED <<heard, faulted, phase, replay, held, db>>

\* ConnectTip stops, rules its block out, or applies it over the tip.
LEMMA ConnectTipCases ==
    ASSUME Inv, ConnectTip
    PROVE  /\ phase = "switching" /\ writes = <<>> /\ plan.disconnect = <<>> /\ plan.connect # <<>>
           /\ \/ Stop
              \/ LET b == Head(plan.connect)
                 IN  Header[b].prev = Tip /\ b \in db.bodies /\ (Refuted(b) \/ Connected(b))
<1> DEFINE b == Head(plan.connect)
           body == Header[b].root
           sound == index.validity[b] >= BodyValid \/ CheckBlock(b, body)
           I == IF sound THEN WithValidity(index, b, BodyValid) ELSE index
           applied == ConnectBlock(body, Header[b].height, coins)
<1>1. phase = "switching" /\ writes = <<>> /\ plan.disconnect = <<>> /\ plan.connect # <<>>
  BY DEF ConnectTip
<1>2. PICK legible \in Answers(Header[b].prev = Tip /\ b \in db.bodies), valid \in Answers(sound /\ applied.ok) :
         \/ Stop
         \/ /\ legible /\ ~valid /\ ~faulted
            /\ index' = WithFailure(I, b)
            /\ plan' = NoPlan
            /\ writes' = <<HeaderWrite(b)>>
            /\ UNCHANGED <<chain, coins, heard, faulted, phase, replay, held, db>>
         \/ /\ legible /\ valid
            /\ chain' = Append(chain, b)
            /\ index' = WithValidity(I, b, FullyValid)
            /\ plan' = [plan EXCEPT !.connect = Tail(@)]
            /\ writes' = ConnectWrites(b, applied.undo)
            /\ UNCHANGED <<heard, faulted, phase, replay, held, db>>
  BY Zenon DEF ConnectTip, StorageFaulted
<1>3. legible => Header[b].prev = Tip /\ b \in db.bodies
  BY <1>2, AnswersMean, Zenon
<1>4. valid => sound
  <2>1. valid => sound /\ applied.ok
    <3> HIDE DEF sound, applied
    <3>1. (sound /\ applied.ok) \in BOOLEAN
      OBVIOUS
    <3> QED BY <1>2, <3>1, AnswersMean, Zenon
  <2> QED BY <2>1
<1>5. /\ I \in {index, WithValidity(index, b, BodyValid)} /\ (I # index => sound)
      /\ (sound => I = WithValidity(index, b, BodyValid))
  BY Zenon
<1>6. CASE Stop
  BY <1>1, <1>6
<1>7. CASE legible /\ ~valid /\ ~faulted /\ index' = WithFailure(I, b) /\ plan' = NoPlan
           /\ writes' = <<HeaderWrite(b)>> /\ UNCHANGED <<chain, coins, heard, faulted, phase, replay, held, db>>
  <2>1. Refuted(b)
    <3> HIDE DEF I, b
    <3> QED BY <1>5, <1>7, Zenon DEF Refuted, b
  <2> QED BY <1>1, <1>3, <1>7, <2>1, Zenon
<1>8. CASE legible /\ valid /\ chain' = Append(chain, b) /\ index' = WithValidity(I, b, FullyValid)
           /\ plan' = [plan EXCEPT !.connect = Tail(@)] /\ writes' = ConnectWrites(b, applied.undo)
           /\ UNCHANGED <<heard, faulted, phase, replay, held, db>>
  <2>1. Len(writes') = 3 /\ Applying(writes', b)
    <3> HIDE DEF applied, b
    <3> QED BY <1>8, ApplyingStarts
  <2>2. Connected(b)
    <3> HIDE DEF I, b, applied
    <3> QED BY <1>4, <1>5, <1>8, <2>1 DEF Connected, b
  <2> QED BY <1>1, <1>3, <1>8, <2>2
<1> QED BY <1>2, <1>6, <1>7, <1>8

\* What a failed block does to the index: it is ruled out, and no path without it is touched.
LEMMA RefutedIndex ==
    ASSUME Inv, NEW b \in index.known, Refuted(b)
    PROVE  /\ IndexInv(index') /\ index'.known = index.known /\ ~IsEligible(index', b)
           /\ index'.seq = index.seq /\ index'.work = index.work
           /\ \A c \in index.known : /\ c # b => index'.validity[c] = index.validity[c]
                                     /\ index'.validity[b] = index.validity[b]
                                        \/ (index'.validity[b] = BodyValid
                                            /\ (index.validity[b] >= BodyValid \/ CheckBlock(b, Header[b].root)))
           /\ \A t \in index.known : b \notin Range(Lineage[t]) =>
                 \A x \in Range(Lineage[t]) : index'.failure[x] = index.failure[x]
<1>0. IndexInv(index) /\ BodyValid \in Validity
  BY DEF Inv, BodyValid, Validity, HeaderValid, FullyValid
<1>1. PICK I \in {index, WithValidity(index, b, BodyValid)} :
         /\ index' = WithFailure(I, b)
         /\ I # index => index.validity[b] >= BodyValid \/ CheckBlock(b, Header[b].root)
  BY Zenon DEF Refuted
<1>2. /\ IndexInv(I) /\ I.known = index.known /\ I.failure = index.failure
      /\ I.seq = index.seq /\ I.work = index.work
      /\ \A c \in index.known : c # b => I.validity[c] = index.validity[c]
      /\ I.validity[b] \in {index.validity[b], BodyValid}
  <2>1. CASE I = index
    BY <1>0, <2>1
  <2>2. CASE I = WithValidity(index, b, BodyValid)
    <3>1. ValidityRaised(index, I, b, BodyValid)
      BY <1>0, <2>2, ValidityFrame, Zenon
    <3> QED BY <3>1 DEF ValidityRaised
  <2> QED BY <1>1, <2>1, <2>2, Zenon
<1>3. /\ IndexInv(index') /\ index'.known = I.known /\ index'.validity = I.validity
      /\ index'.seq = I.seq /\ index'.work = I.work /\ ~IsEligible(index', b)
  <2>1. FailureRecorded(I, index', b)
    BY <1>1, <1>2, FailureFrame, Zenon
  <2> QED BY <2>1, Zenon DEF FailureRecorded
<1>4. \A t \in index.known : b \notin Range(Lineage[t]) =>
         \A x \in Range(Lineage[t]) : index'.failure[x] = index.failure[x]
  <2> SUFFICES ASSUME NEW t \in index.known, b \notin Range(Lineage[t])
               PROVE  \A x \in Range(Lineage[t]) : index'.failure[x] = index.failure[x]
    OBVIOUS
  <2>1. t \in I.known /\ b \in I.known
    BY <1>2
  <2>2. \A x \in Range(Lineage[t]) : WithFailure(I, b).failure[x] = I.failure[x]
    BY <1>2, <2>1, FailureElsewhere, Zenon
  <2> QED BY <1>1, <1>2, <2>2
<1>5. I = index => I.validity[b] = index.validity[b]
  OBVIOUS
<1> QED BY <1>1, <1>2, <1>3, <1>4, <1>5, Zenon

\* What an applied block does to it: its level rises to the top.
LEMMA ConnectedIndex ==
    ASSUME Inv, NEW b \in index.known, Connected(b)
    PROVE  /\ IndexInv(index') /\ index'.known = index.known /\ index'.failure = index.failure
           /\ index'.seq = index.seq /\ index'.work = index.work
           /\ index'.validity[b] = FullyValid
           /\ \A c \in index.known : c # b => index'.validity[c] = index.validity[c]
<1> DEFINE I == WithValidity(index, b, BodyValid)
<1>0. IndexInv(index) /\ BodyValid \in Validity /\ FullyValid \in Validity
  BY DEF Inv, BodyValid, Validity, HeaderValid, FullyValid
<1>1. /\ IndexInv(I) /\ I.known = index.known /\ I.failure = index.failure
      /\ I.seq = index.seq /\ I.work = index.work
      /\ \A c \in index.known : c # b => I.validity[c] = index.validity[c]
  <2>1. ValidityRaised(index, I, b, BodyValid)
    BY <1>0, ValidityFrame, Zenon
  <2> QED BY <2>1, Zenon DEF ValidityRaised
<1>2. index' = WithValidity(I, b, FullyValid)
  BY DEF Connected
<1> HIDE DEF I
<1>3. /\ IndexInv(index') /\ index'.known = I.known /\ index'.failure = I.failure
      /\ index'.seq = I.seq /\ index'.work = I.work
      /\ \A c \in I.known : c # b => index'.validity[c] = I.validity[c]
      /\ index'.validity[b] = IF FullyValid > I.validity[b] THEN FullyValid ELSE I.validity[b]
  <2>1. b \in I.known
    BY <1>1
  <2>2. ValidityRaised(I, index', b, FullyValid)
    BY <1>0, <1>1, <1>2, <2>1, ValidityFrame, Zenon
  <2> QED BY <2>2, Zenon DEF ValidityRaised
<1>4. I.validity[b] \in Validity
  BY <1>1, Zenon DEF IndexInv, IsIndex
<1>5. index'.validity[b] = FullyValid
  BY <1>3, <1>4 DEF Validity, HeaderValid, FullyValid
<1> QED BY <1>1, <1>3, <1>5

\* ConnectTip, in each of these cases.
LEMMA ConnectTipInv == Inv /\ ConnectTip => Inv'
<1> SUFFICES ASSUME Inv, ConnectTip PROVE Inv'
  OBVIOUS
<1> DEFINE b == Head(plan.connect)
<1>1. phase = "switching" /\ writes = <<>> /\ plan.disconnect = <<>> /\ plan.connect # <<>>
  BY ConnectTipCases
<1>2. phase \in Up /\ chain = Lineage[Tip] /\ Tip \in index.known /\ heard = Lineage[StoredTip]
      /\ plan \in [disconnect: Seq(Block), connect: Seq(Eligible(index))]
  BY <1>1 DEF Up, Inv, PathsSound, ControlSound
<1>3. b \in index.known /\ b \in Block /\ Tip \in Block
  <2>1. b \in Eligible(index)
    BY <1>1, <1>2
  <2> QED BY <1>2, <2>1, Named, Zenon DEF Eligible
<1>4. CASE Stop
  BY <1>1, <1>2, <1>4, SteppedInv DEF Stop, Up, Between
<1>5. CASE Refuted(b)
  <2>1. IndexInv(index') /\ index'.known = index.known
    BY <1>3, <1>5, RefutedIndex
  <2>2. /\ ~faulted /\ plan' = NoPlan /\ writes' = <<HeaderWrite(b)>>
        /\ UNCHANGED <<chain, coins, heard, faulted, phase, replay, db>>
    BY <1>5, Zenon DEF Refuted
  <2>3. Tip' = Tip /\ StoredTip' = StoredTip
    BY <2>2 DEF Tip, StoredTip
  <2>4. Simple(writes', index'.known)
    BY <1>3, <2>1, <2>2 DEF Simple
  <2>5. StoreTyped'
    BY <2>2 DEF Inv, StoreTyped
  <2>6. ControlSound'
    <3>1. NoPlan \in [disconnect: Seq(Block), connect: Seq(Eligible(index'))]
      BY DEF NoPlan
    <3> QED BY <1>1, <2>2, <2>4, <3>1, Zenon DEF Inv, ControlSound, Queue, Up
  <2>7. PathsSound'
    BY <1>1, <1>2, <2>1, <2>2, <2>3 DEF PathsSound, Up
  <2>8. OneBlockApart'
    BY <1>1, <1>2, <2>2, <2>3, <2>4, NothingPending DEF OneBlockApart
  <2> QED BY <2>1, <2>5, <2>6, <2>7, <2>8 DEF Inv
<1>6. CASE Header[b].prev = Tip /\ Connected(b)
  <2>1. IndexInv(index') /\ index'.known = index.known /\ index'.failure = index.failure
    BY <1>3, <1>6, ConnectedIndex
  <2>2. /\ chain' = Append(chain, b) /\ plan' = [plan EXCEPT !.connect = Tail(@)]
        /\ Applying(writes', b) /\ UNCHANGED <<heard, faulted, phase, replay, db>>
    BY <1>6 DEF Connected
  <2>3. chain' = Lineage[b] /\ Tip' = b
    <3>1. chain' = Lineage[b]
      BY <1>2, <1>3, <1>6, <2>2, LineageEnds, Zenon
    <3> QED BY <1>3, <3>1, LineageEnds DEF Tip
  <2>4. StoredTip' = StoredTip
    BY <2>2 DEF StoredTip
  <2>5. StoreTyped'
    BY <2>2 DEF Inv, StoreTyped
  <2>6. ControlSound'
    <3>1. Queue(writes', index'.known)
      BY <1>3, <2>1, <2>2 DEF Queue
    <3>2. plan' \in [disconnect: Seq(Block), connect: Seq(Eligible(index'))]
      <4>1. Eligible(index') = Eligible(index)
        BY <2>1 DEF Eligible, IsEligible
      <4>2. Tail(plan.connect) \in Seq(Eligible(index))
        BY <1>1, <1>2
      <4> QED BY <1>2, <2>2, <4>1, <4>2, Zenon
    <3> QED BY <1>1, <2>2, <3>1, <3>2 DEF Inv, ControlSound, Up
  <2>7. PathsSound'
    BY <1>1, <1>2, <1>3, <2>1, <2>2, <2>3, <2>4 DEF PathsSound, Up
  <2>8. OneBlockApart'
    <3> SUFFICES ASSUME ~faulted PROVE Applying(writes', b) /\ Header[b].prev = StoredTip
      BY <2>2, <2>3, <2>4 DEF OneBlockApart
    <3> QED BY <1>1, <1>2, <1>6, <2>2, NothingPending
  <2> QED BY <2>1, <2>5, <2>6, <2>7, <2>8 DEF Inv
<1> QED BY <1>4, <1>5, <1>6, ConnectTipCases

-----------------------------------------------------------------------------
(* A crash, and LoadChain.                                                *)

\* A crash leaves the database and nothing else.
LEMMA CrashInv == Inv /\ Crash => Inv'
<1> SUFFICES ASSUME Inv, Crash PROVE Inv'
  OBVIOUS
<1>1. /\ phase' = "down" /\ index' = NewIndex /\ ~faulted' /\ faulted' \in BOOLEAN
      /\ plan' = NoPlan /\ writes' = <<>> /\ replay' = {} /\ db' = db
  BY Zenon DEF Crash
<1>2. StoreTyped' /\ IndexInv(index')
  BY <1>1, NewIndexInv DEF Inv, StoreTyped
<1>3. ControlSound'
  BY <1>1 DEF ControlSound, Queue, Simple, Phases, Up, Between
<1>4. PathsSound' /\ OneBlockApart'
  BY <1>1 DEF PathsSound, OneBlockApart, Up, Between
<1> QED BY <1>2, <1>3, <1>4 DEF Inv

\* A step of LoadChain before the chain is rebuilt.
LEMMA LoadedInv ==
    ASSUME Inv, phase \notin Up, phase' \in {"loading", "ruling", "refused"},
           IndexInv(index'), replay' \subseteq DOMAIN db.headers,
           UNCHANGED <<faulted, plan, writes, db>>
    PROVE  Inv'
<1>1. writes = <<>> /\ ~faulted /\ plan = NoPlan
  BY DEF Inv, ControlSound, Up
<1>2. StoreTyped'
  BY DEF Inv, StoreTyped
<1>3. ControlSound'
  BY <1>1, Zenon DEF Inv, ControlSound, Queue, Simple, Phases, Up, Between
<1>4. PathsSound' /\ OneBlockApart'
  BY Zenon DEF PathsSound, OneBlockApart, Up, Between
<1> QED BY <1>2, <1>3, <1>4 DEF Inv

\* The tip record is refused when it is unknown or ruled out; else the chain starts at it.
LEMMA LoadTipInv == Inv /\ LoadTip => Inv'
<1> SUFFICES ASSUME Inv, LoadTip PROVE Inv'
  OBVIOUS
<1>1. phase = "ruling" /\ UNCHANGED <<index, coins, heard, faulted, plan, writes, replay, db>>
  BY DEF LoadTip
<1>2. phase \notin Up /\ IndexInv(index) /\ replay \subseteq DOMAIN db.headers
  BY <1>1 DEF Up, Between, Inv, ControlSound
<1>3. CASE phase' = "refused"
  BY <1>1, <1>2, <1>3, LoadedInv
<1>4. CASE phase' # "refused"
  <2>1. /\ phase' = "resuming" /\ chain' = <<StoredTip>>
        /\ db.tip = NoBlock \/ db.tip \in index.known
    BY <1>4 DEF LoadTip
  <2>2. StoredTip \in index.known /\ StoredTip \in Block
    BY <2>1, Named DEF StoredTip
  <2>3. StoredTip' = StoredTip
    BY <1>1 DEF StoredTip
  <2>4. StoreTyped' /\ IndexInv(index')
    BY <1>1, <1>2 DEF Inv, StoreTyped
  <2>5. ControlSound'
    BY <1>1, <1>2, <2>1 DEF Inv, ControlSound, Phases, Up, Between
  <2>6. OneBlockApart'
    BY <2>1 DEF OneBlockApart, Up, Between
  <2>7. chain' \in Seq(Block) /\ chain' # <<>> /\ Head(chain') = StoredTip /\ Tail(chain') = <<>>
    BY <2>1, <2>2, Taken
  <2>8. Lineage[StoredTip] \o <<>> = Lineage[StoredTip]
    BY <2>2, LineageEnds
  <2>9. PathsSound'
    BY <1>1, <2>1, <2>2, <2>3, <2>7, <2>8 DEF PathsSound, Up, Between
  <2> QED BY <2>4, <2>5, <2>6, <2>9 DEF Inv
<1> QED BY <1>3, <1>4

\* The rebuilt chain is the path to the stored tip.
LEMMA ResumeAtInv == Inv /\ ResumeAt => Inv'
<1> SUFFICES ASSUME Inv, ResumeAt PROVE Inv'
  OBVIOUS
<1>1. phase = "resuming" /\ UNCHANGED <<index, faulted, plan, writes, replay, db>>
  BY DEF ResumeAt
<1>2. /\ StoredTip \in index.known /\ chain \in Seq(Block) /\ chain # <<>> /\ Head(chain) \in index.known
      /\ Lineage[Head(chain)] \o Tail(chain) = Lineage[StoredTip]
  BY <1>1 DEF Inv, PathsSound
<1>3. writes = <<>> /\ ~faulted /\ plan = NoPlan
  BY <1>1 DEF Inv, ControlSound, Up, Between
<1>4. StoredTip' = StoredTip /\ StoredTip \in Block /\ index.known \subseteq Block
  BY <1>1, Named DEF StoredTip
<1>5. StoreTyped' /\ IndexInv(index')
  BY <1>1 DEF Inv, StoreTyped
<1> DEFINE h == Head(chain)
<1>6. chain = <<h>> \o Tail(chain) /\ Tail(chain) \in Seq(Block) /\ h \in Block
  <2>1. Tail(chain) \in Seq(Block) /\ h \in Block
    BY <1>2, <1>4
  <2> QED BY <1>2, <1>4, <2>1, Fronted
<1>7. CASE h = Genesis
  <2>1. phase' = "idle" /\ coins' = db.coins /\ heard' = chain /\ chain' = chain
    BY <1>7 DEF ResumeAt, NoParent
  <2>2. chain = Lineage[StoredTip]
    BY <1>2, <1>6, <1>7, GenesisPath, Zenon
  <2>3. Tip' = StoredTip
    BY <1>4, <2>1, <2>2, LineageEnds DEF Tip
  <2>4. ControlSound'
    BY <1>1, <1>3, <2>1 DEF Inv, ControlSound, Phases, Up, Between
  <2>5. PathsSound'
    BY <1>1, <1>2, <1>4, <2>1, <2>2, <2>3 DEF PathsSound, Up, Between
  <2>6. OneBlockApart'
    BY <1>1, <1>3, <1>4, <2>1, <2>3 DEF OneBlockApart, Simple
  <2> QED BY <1>5, <2>4, <2>5, <2>6 DEF Inv
<1>8. CASE h # Genesis
  <2> DEFINE p == Header[h].prev
  <2>1. chain' = <<p>> \o chain /\ phase' = "resuming"
    BY <1>1, <1>8 DEF ResumeAt, NoParent
  <2>2. p \in index.known /\ p \in Block
    BY <1>2, <1>4, <1>8, Named DEF IsTree
  <2>3. chain' \in Seq(Block) /\ chain' # <<>> /\ Head(chain') = p /\ Tail(chain') = chain
    BY <1>2, <2>1, <2>2, Fronted
  <2>4. Lineage[p] \o chain = Lineage[StoredTip]
    <3>1. Lineage[h] = Append(Lineage[p], h) /\ Lineage[p] \in Seq(Block)
      BY <1>6, <2>2, LineageEnds
    <3>2. Append(Lineage[p], h) \o Tail(chain) = Lineage[p] \o (<<h>> \o Tail(chain))
      <4> DEFINE t == Tail(chain)
      <4>1. h \in Block /\ t \in Seq(Block)
        BY <1>6
      <4> HIDE DEF h, t
      <4>2. \A s \in Seq(Block) : Append(s, h) \o t = s \o (<<h>> \o t)
        BY <4>1, Fronted
      <4>3. Append(Lineage[p], h) \o t = Lineage[p] \o (<<h>> \o t)
        BY <3>1, <4>2, Zenon
      <4> QED BY <4>3, Zenon DEF t
    <3> QED BY <1>2, <1>6, <3>1, <3>2, Zenon
  <2>5. ControlSound'
    BY <1>1, <1>3, <2>1 DEF Inv, ControlSound, Phases, Up, Between
  <2>6. PathsSound'
    BY <1>1, <1>2, <1>4, <2>1, <2>2, <2>3, <2>4, Zenon DEF PathsSound, Up, Between
  <2>7. OneBlockApart'
    BY <2>1 DEF OneBlockApart, Up, Between
  <2> QED BY <1>5, <2>5, <2>6, <2>7 DEF Inv
<1> QED BY <1>7, <1>8

\* What LoadHeader leaves when it does not refuse.
LEMMA ReplayedIndex ==
    ASSUME Inv, NEW b \in DOMAIN db.headers, NEW now, AddsHeader(index, b, now)
    PROVE  LET J == WithValidity(WithHeader(index, b), b, db.headers[b].validity)
           IN  /\ IndexInv(J) /\ J.known = index.known \cup {b}
               /\ \A c \in index.known : J.failure[c] = index.failure[c]
               /\ \A c \in index.known : c # b => J.validity[c] = index.validity[c]
               /\ b \notin index.known => J.failure[b] = "None" /\ J.validity[b] = db.headers[b].validity
<1> DEFINE I == WithHeader(index, b)
           level == db.headers[b].validity
           J == WithValidity(I, b, level)
<1>1. IndexInv(index) /\ b \in Block /\ level \in Validity
  BY Zenon DEF Inv, StoreTyped
<1>2. /\ IndexInv(I) /\ b \in I.known /\ I.known = index.known \cup {b}
      /\ \A c \in index.known : I.validity[c] = index.validity[c] /\ I.failure[c] = index.failure[c]
      /\ b \notin index.known => I.validity[b] = HeaderValid /\ I.failure[b] = "None"
  <2>1. HeaderAdded(index, I, b)
    BY <1>1, HeaderFrame, Zenon
  <2> QED BY <2>1, Zenon DEF HeaderAdded
<1> HIDE DEF I, level
<1>3. /\ IndexInv(J) /\ J.known = I.known /\ J.failure = I.failure
      /\ \A c \in I.known : c # b => J.validity[c] = I.validity[c]
      /\ J.validity[b] = IF level > I.validity[b] THEN level ELSE I.validity[b]
  <2>1. ValidityRaised(I, J, b, level)
    BY <1>1, <1>2, ValidityFrame, Zenon
  <2> QED BY <2>1, Zenon DEF ValidityRaised
<1> HIDE DEF J
<1>4. b \notin index.known => J.validity[b] = level
  BY <1>1, <1>2, <1>3 DEF Validity, HeaderValid, FullyValid
<1>5. /\ IndexInv(J) /\ J.known = index.known \cup {b}
      /\ \A c \in index.known : J.failure[c] = index.failure[c]
      /\ \A c \in index.known : c # b => J.validity[c] = index.validity[c]
      /\ b \notin index.known => J.failure[b] = "None" /\ J.validity[b] = level
  BY <1>2, <1>3, <1>4
<1> QED BY <1>5, Zenon DEF I, J, level

\* Every step of LoadChain.
LEMMA LoadInv == Inv /\ Load => Inv'
<1> SUFFICES ASSUME Inv, Load PROVE Inv'
  OBVIOUS
<1>0. IndexInv(index) /\ StoreTyped /\ replay \subseteq DOMAIN db.headers
  BY DEF Inv, ControlSound
<1>1. CASE LoadHeaders
  BY <1>1, NewIndexInv, LoadedInv DEF LoadHeaders, Up, Between
<1>2. CASE LoadFailures
  BY <1>0, <1>2, LoadedInv DEF LoadFailures, Up, Between, memory
<1>3. ASSUME NEW b \in Block, LoadFailure(b) PROVE Inv'
  BY <1>0, <1>3, WithFailureInv, LoadedInv DEF LoadFailure, Up, Between
<1>4. ASSUME NEW b \in Block, NEW now \in Clock, LoadHeader(b, now) PROVE Inv'
  <2>1. /\ phase = "loading" /\ b \in replay /\ b \in DOMAIN db.headers
        /\ UNCHANGED <<faulted, plan, writes, db>>
    BY <1>0, <1>4 DEF LoadHeader, Earliest
  <2>2. CASE AddsHeader(index, b, ReplayClock(now))
    <3>1. /\ index' = WithValidity(WithHeader(index, b), b, db.headers[b].validity)
          /\ replay' = replay \ {b} /\ phase' = phase
      BY <1>4, <2>2 DEF LoadHeader
    <3>2. IndexInv(index')
      BY <2>1, <2>2, <3>1, ReplayedIndex, Zenon
    <3> QED BY <1>0, <2>1, <3>1, <3>2, LoadedInv DEF Up, Between
  <2>3. CASE ~AddsHeader(index, b, ReplayClock(now))
    <3>1. phase' = "refused" /\ index' = index /\ replay' = replay
      BY <1>4, <2>3 DEF LoadHeader
    <3> QED BY <1>0, <2>1, <3>1, LoadedInv DEF Up, Between
  <2> QED BY <2>2, <2>3
<1> QED BY <1>1, <1>2, <1>3, <1>4, LoadTipInv, ResumeAtInv DEF Load

\* The invariant is inductive.
LEMMA NextInv == Inv /\ [Next]_vars => Inv'
<1> SUFFICES ASSUME Inv, [Next]_vars PROVE Inv'
  OBVIOUS
<1>1. CASE ActivateBestChain
  BY <1>1, SteppedInv, Zenon DEF ActivateBestChain, Ready, Up, Between, Inv, ControlSound
<1>2. CASE PassDone
  BY <1>2, SteppedInv DEF PassDone, Up
<1>3. CASE UNCHANGED vars
  <2>1. UNCHANGED <<index, chain, coins, heard, faulted, phase, plan, writes, replay, db>>
    BY <1>3 DEF vars, memory, control
  <2>2. Tip' = Tip /\ StoredTip' = StoredTip
    BY <2>1 DEF Tip, StoredTip
  <2> QED BY <2>1, <2>2, Zenon DEF Inv, StoreTyped, ControlSound, PathsSound, OneBlockApart
<1> QED BY <1>1, <1>2, <1>3, ArriveInv, StoreInv, FailInv, PlanPassInv, DisconnectTipInv,
        ConnectTipInv, CrashInv, LoadInv DEF Next, Activate

\* The index stays a tree with inherited failures and a maximal best header, the
\* chain in memory is a path of it, and memory and disk are never more than one
\* block apart, through any number of crashes, refused writes and failed reads.
THEOREM ChainInvariant == Spec => []Inv
<1> QED BY InitInv, NextInv, PTL DEF Spec

\* Between two calls on a database that has not failed, the chain and the coins in
\* memory are the stored ones.
THEOREM MemoryAlwaysMatchesStore == Spec => []MemoryMatchesStore
<1>1. Inv => MemoryMatchesStore
  <2> SUFFICES ASSUME Inv, phase \in Up, ~faulted, writes = <<>>
               PROVE  chain = Lineage[StoredTip] /\ coins = db.coins
    BY DEF MemoryMatchesStore
  <2>1. StoredTip = Tip /\ coins = db.coins
    BY NothingPending
  <2>2. chain = Lineage[Tip]
    BY DEF Inv, PathsSound
  <2> QED BY <2>1, <2>2
<1> QED BY <1>1, ChainInvariant, PTL

\* The chain a TipObserver has been told of is always the stored one.
THEOREM ObserverAlwaysFollowsStore == Spec => []ObserverFollowsStore
<1>1. Inv => ObserverFollowsStore
  BY DEF Inv, PathsSound, ObserverFollowsStore
<1> QED BY <1>1, ChainInvariant, PTL

\* The header tree keeps its shape through crashes and replays.
THEOREM IndexIsAlwaysSound == Spec => []IndexIsSound
<1>1. Inv => IndexIsSound
  BY DEF Inv, IndexInv, IndexIsSound
<1> QED BY <1>1, ChainInvariant, PTL

-----------------------------------------------------------------------------
(* Where an activation ends.                                               *)

AllEligible == \A b \in index.known : IsEligible(index, b)

\* While no block has been ruled out, a switch leads to a tip better than the one the
\* activation started from, and what was reached is no worse.
HeadingUp ==
    /\ phase \in {"planning", "switching", "returned"} => held \in index.known
    /\ (AllEligible /\ phase \in {"planning", "returned"}) => ~IsBetterTip(index, held, Tip)
    /\ (AllEligible /\ phase = "switching") =>
          IF plan.connect = <<>> THEN plan.disconnect = <<>> /\ IsBetterTip(index, Tip, held)
          ELSE IsBetterTip(index, plan.connect[Len(plan.connect)], held)

\* No activation is running at first.
LEMMA HeadingUpInit == Init => HeadingUp
BY DEF Init, HeadingUp

\* A step that leaves index, chain and plan alone, or leaves the activation.
LEMMA HeadingUpKept ==
    ASSUME HeadingUp, \/ UNCHANGED <<index, chain, phase, plan, held>>
                      \/ phase' \notin {"planning", "switching", "returned"}
    PROVE  HeadingUp'
BY DEF HeadingUp, AllEligible, Tip

\* Starting an activation, planning a switch, and ending a pass.
LEMMA HeadingUpActivate ==
    ASSUME Inv, HeadingUp, ActivateBestChain \/ PlanPass \/ PassDone
    PROVE  HeadingUp'
<1>0. IndexInv(index)
  BY DEF Inv
<1>1. UNCHANGED <<index, chain>> /\ Tip' = Tip /\ phase \in Up
  BY Zenon DEF ActivateBestChain, PlanPass, PassDone, memory, Tip, Ready, Up
<1>2. Tip \in index.known
  BY <1>1 DEF Inv, PathsSound
<1>3. CASE ActivateBestChain
  <2>1. phase' = "planning" /\ held' = Tip
    BY <1>3 DEF ActivateBestChain
  <2>2. AllEligible => ~IsBetterTip(index, Tip, Tip)
    BY <1>0, <1>2, BetterOrder DEF AllEligible
  <2> QED BY <1>1, <1>2, <2>1, <2>2, Zenon DEF HeadingUp, AllEligible
<1>4. CASE PassDone
  <2>1. phase = "switching" /\ phase' = "planning" /\ held' = held /\ plan.connect = <<>>
    BY <1>4 DEF PassDone, NoPlan
  <2>2. held \in index.known /\ (AllEligible => IsBetterTip(index, Tip, held))
    BY <2>1 DEF HeadingUp
  <2>3. AllEligible => ~IsBetterTip(index, held, Tip)
    BY <1>0, <1>2, <2>2, BetterOrder DEF AllEligible
  <2> QED BY <1>1, <2>1, <2>2, <2>3, ZenonT(30) DEF HeadingUp, AllEligible
<1>5. CASE PlanPass
  <2>1. phase = "planning" /\ held' = held
    BY <1>5, Zenon DEF PlanPass
  <2>2. held \in index.known /\ (AllEligible => ~IsBetterTip(index, held, Tip))
    BY <2>1 DEF HeadingUp
  <2>3. CASE phase' = "returned"
    BY <1>1, <2>1, <2>2, <2>3 DEF HeadingUp, AllEligible
  <2>4. CASE phase' = "switching"
    <3> SUFFICES ASSUME AllEligible
                 PROVE  plan'.connect # <<>> /\ IsBetterTip(index, plan'.connect[Len(plan'.connect)], held)
      BY <1>1, <2>1, <2>2, <2>4, ZenonT(30) DEF HeadingUp, AllEligible
    <3> DEFINE c == plan'.connect
               t == c[Len(c)]
    <3>1. IF c = <<>> THEN \E f \in Range(Lineage[Tip]) : IsBetterTip(index, f, Tip)
          ELSE IsBetterTip(index, t, Tip)
      BY <1>5, <2>4, PlanPassInv
    <3>2. ~\E f \in Range(Lineage[Tip]) : IsBetterTip(index, f, Tip)
      <4> SUFFICES ASSUME NEW f \in Range(Lineage[Tip]), IsBetterTip(index, f, Tip) PROVE FALSE
        OBVIOUS
      <4>1. f \in index.known
        BY <1>0, <1>2, LineageInIndex
      <4>2. f # Tip
        BY <1>0, <1>2, BetterOrder DEF AllEligible
      <4>3. index.work[f] < index.work[Tip]
        BY <1>0, <1>2, <4>2, LineageWork
      <4>4. index.work[f] \in Nat /\ index.work[Tip] \in Nat /\ IsEligible(index, Tip)
        BY <1>0, <1>2, <4>1 DEF IndexInv, IsIndex, AllEligible
      <4> QED BY <4>3, <4>4 DEF IsBetterTip
    <3>3. Inv'
      BY <1>5, PlanPassInv
    <3>4. c \in Seq(Eligible(index))
      BY <1>1, <2>4, <3>3 DEF Inv, ControlSound
    <3>5. c # <<>> /\ IsBetterTip(index, t, Tip)
      BY <3>1, <3>2
    <3>6. t \in index.known
      BY <3>4, <3>5 DEF Eligible
    <3> HIDE DEF c, t
    <3>7. IsBetterTip(index, t, held)
      BY <1>0, <1>2, <2>2, <3>5, <3>6, BetterOrder DEF AllEligible
    <3> QED BY <3>5, <3>7 DEF c, t
  <2> QED BY <1>5, <2>3, <2>4, PlanPassInv
<1> QED BY <1>3, <1>4, <1>5

\* The steps of a switch.
LEMMA HeadingUpSwitch ==
    ASSUME Inv, HeadingUp, DisconnectTip \/ ConnectTip
    PROVE  HeadingUp'
<1>1. phase = "switching" /\ held \in index.known
      /\ plan \in [disconnect: Seq(Block), connect: Seq(Eligible(index))]
  BY Zenon DEF DisconnectTip, ConnectTip, HeadingUp, Inv, ControlSound
<1>2. CASE Stop
  BY <1>2, HeadingUpKept DEF Stop
<1>3. CASE DisconnectTip /\ ~Stop
  <2>1. plan.disconnect # <<>> /\ plan' = [plan EXCEPT !.disconnect = Tail(@)]
        /\ UNCHANGED <<index, phase, held>>
    BY <1>3 DEF DisconnectTip
  <2>2. plan'.connect = plan.connect
    BY <1>1, <2>1
  <2>3. AllEligible => plan.connect # <<>> /\ IsBetterTip(index, plan.connect[Len(plan.connect)], held)
    BY <1>1, <2>1 DEF HeadingUp
  <2> QED BY <1>1, <2>1, <2>2, <2>3 DEF HeadingUp, AllEligible
<1>4. CASE ConnectTip /\ ~Stop
  <2> DEFINE c == plan.connect
             b == Head(c)
  <2>1. c # <<>> /\ c \in Seq(Eligible(index)) /\ plan.disconnect = <<>> /\ (Refuted(b) \/ Connected(b))
    BY <1>1, <1>4, ConnectTipCases
  <2>2. b \in index.known
    BY <2>1 DEF Eligible
  <2>3. CASE Refuted(b)
    <3>1. index'.known = index.known /\ ~IsEligible(index', b) /\ held' = held /\ phase' = phase
      <4>1. index'.known = index.known /\ ~IsEligible(index', b)
        BY <2>2, <2>3, RefutedIndex, ZenonT(30)
      <4>2. held' = held /\ phase' = phase
        BY <2>3, ZenonT(30) DEF Refuted
      <4> QED BY <4>1, <4>2, Zenon
    <3>2. ~AllEligible'
      BY <2>2, <3>1, Zenon DEF AllEligible
    <3> QED BY <1>1, <3>1, <3>2 DEF HeadingUp
  <2>4. CASE Connected(b)
    <3>1. /\ index'.known = index.known /\ index'.failure = index.failure
          /\ index'.seq = index.seq /\ index'.work = index.work
      BY <2>2, <2>4, ConnectedIndex
    <3>2. /\ chain' = Append(chain, b) /\ plan' = [plan EXCEPT !.connect = Tail(@)]
          /\ held' = held /\ phase' = phase
      BY <2>4 DEF Connected
    <3>3. plan'.connect = Tail(c) /\ plan'.disconnect = <<>>
      BY <1>1, <2>1, <3>2
    <3>4. Tip' = b
      <4>1. Inv'
        BY <1>4, ConnectTipInv
      <4>2. chain \in Seq(Block) /\ b \in Block
        <5>1. chain = Lineage[Tip] /\ Tip \in Block
          BY <1>1, Named DEF Inv, PathsSound, Up
        <5> QED BY <2>2, <5>1, LineageEnds, Named
      <4> QED BY <3>2, <4>2 DEF Tip
    <3>5. AllEligible' = AllEligible
      BY <3>1 DEF AllEligible, IsEligible
    <3>6. \A x, y : IsBetterTip(index, x, y) => IsBetterTip(index', x, y)
      BY <3>1 DEF IsBetterTip, IsEligible
    <3> SUFFICES ASSUME AllEligible
                 PROVE  IF Tail(c) = <<>> THEN IsBetterTip(index, b, held)
                        ELSE IsBetterTip(index, Tail(c)[Len(Tail(c))], held)
      BY <1>1, <3>1, <3>2, <3>3, <3>4, <3>5, <3>6 DEF HeadingUp
    <3>7. IsBetterTip(index, c[Len(c)], held)
      BY <1>1, <2>1 DEF HeadingUp
    <3>8. Tail(c) = <<>> => c[Len(c)] = b
      <4>0. Len(<<>>) = 0
        OBVIOUS
      <4>1. Len(c) \in Nat /\ Len(Tail(c)) = Len(c) - 1
        BY <2>1
      <4>2. Tail(c) = <<>> => Len(Tail(c)) = 0
        BY <4>0, Zenon
      <4>3. Tail(c) = <<>> => Len(c) = 1
        BY <4>1, <4>2
      <4> QED BY <2>1, <4>3
    <3>9. Tail(c) # <<>> => Tail(c)[Len(Tail(c))] = c[Len(c)]
      BY <2>1
    <3> QED BY <3>7, <3>8, <3>9
  <2> QED BY <2>1, <2>3, <2>4
<1> QED BY <1>2, <1>3, <1>4

\* HeadingUp is inductive beside the invariant.
LEMMA HeadingUpNext == Inv /\ HeadingUp /\ [Next]_vars => HeadingUp'
<1> SUFFICES ASSUME Inv, HeadingUp, [Next]_vars PROVE HeadingUp'
  OBVIOUS
<1>1. CASE Arrive
  BY <1>1, HeadingUpKept, Zenon DEF Arrive, AcceptHeader, AcceptBlock
<1>2. CASE Store \/ Fail
  BY <1>2, HeadingUpKept DEF Store, Fail, PutBlock, PutUndo, CommitHeader, CommitTip,
         WriteRefused, CommitTipRefused, ReadFails, memory, control
<1>3. CASE Crash
  BY <1>3, HeadingUpKept DEF Crash
<1>4. CASE Load
  <2>1. phase' \notin {"planning", "switching", "returned"}
    BY <1>4, Zenon DEF Load, LoadHeaders, LoadFailures, LoadTip, ResumeAt, LoadFailure, LoadHeader
  <2> QED BY <2>1, HeadingUpKept
<1>5. CASE UNCHANGED vars
  BY <1>5, HeadingUpKept DEF vars, memory, control
<1> QED BY <1>1, <1>2, <1>3, <1>4, <1>5, HeadingUpActivate, HeadingUpSwitch DEF Next, Activate

\* An activation during which no block is ruled out returns on a tip that is no worse
\* than the one it started from, whatever bodies are withheld and however often it is
\* interrupted: "activation either improves the tip or leaves it alone".
THEOREM TipIsNeverWorse == Spec => []TipNeverWorse
<1>1. HeadingUp => TipNeverWorse
  BY Zenon DEF HeadingUp, TipNeverWorse, AllEligible
<1>2. Init => HeadingUp
  BY HeadingUpInit
<1>3. Inv /\ HeadingUp /\ [Next]_vars => HeadingUp'
  BY HeadingUpNext
<1> QED BY <1>1, <1>2, <1>3, ChainInvariant, PTL DEF Spec

=============================================================================

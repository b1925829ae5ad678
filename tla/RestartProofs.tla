--------------------------- MODULE RestartProofs ---------------------------
(***************************************************************************)
(* What a node finds on disk when it starts again, for every universe of   *)
(* headers, bodies and clocks, any number of crashes and any failure of    *)
(* the database: the path to the stored tip is whole, and a restart is     *)
(* refused for disorder among the stored headers only.                     *)
(***************************************************************************)
EXTENDS ChainStateProofs

-----------------------------------------------------------------------------
(* What a restart finds.                                                   *)

\* What can be offered with a header: nothing malformed for genesis, whose body is
\* never stored, and on a database that may fail only the block's own body, because
\* AcceptBlock rules a block out for any other (validation.cpp).
OwnBodies ==
    /\ \A body \in Bodies[Genesis] : CheckBlock(Genesis, body)
    /\ MayFault => \A b \in Block : \A body \in Bodies[b] : body = Header[b].root

\* A header that was accepted once passes its checks again by a late enough clock.
Admissible(b) ==
    /\ CheckBlockHeader(b) /\ Header[b].prev \in Block
    /\ \E now \in 0..MaxTime : ContextualCheckBlockHeader(b, Header[b].prev, now)

AllAdmissible ==
    \A b \in (index.known \cup DOMAIN db.headers) \ {Genesis} : Admissible(b)

\* The replay adds the stored headers one by one, as they were judged.
ReplaySound ==
    phase = "loading" =>
        /\ Genesis \notin replay
        /\ index.known = {Genesis} \cup (DOMAIN db.headers \ replay)
        /\ \A b \in index.known : IsEligible(index, b)
        /\ \A b \in index.known \ {Genesis} : index.validity[b] = db.headers[b].validity
        /\ index.validity[Genesis] = FullyValid

RulingSound ==
    phase = "ruling" => /\ DOMAIN db.headers \subseteq index.known
                        /\ \A b \in replay : db.headers[b].failure = "Itself"

\* A level above header validity is deserved, in memory and on disk.
LevelsDeserved ==
    MayFault =>
        /\ \A b \in index.known \ {Genesis} :
              index.validity[b] >= BodyValid => CheckBlock(b, Header[b].root)
        /\ \A b \in DOMAIN db.headers \ {Genesis} :
              db.headers[b].validity >= BodyValid => CheckBlock(b, Header[b].root)

\* The path to the stored tip is never ruled out.
PathStands ==
    /\ Genesis \in DOMAIN db.headers => db.headers[Genesis].failure = "None"
    /\ phase \in Up \cup {"ruling", "resuming"} =>
          \A b \in Range(Lineage[StoredTip]) :
              b \in index.known /\ index.validity[b] = FullyValid /\ index.failure[b] = "None"

\* What the pending commit of a new tip needs is stored, or still queued before it.
CommitPrepared ==
    (phase \in Up /\ ~faulted /\ Applying(writes, Tip)) =>
        /\ Tip \in db.bodies
        /\ index.validity[Tip] = FullyValid /\ index.failure[Tip] = "None"
        /\ Len(writes) <= 2 => Tip \in DOMAIN db.undo
        /\ Len(writes) = 1 => /\ Tip \in DOMAIN db.headers
                              /\ db.headers[Tip].validity = FullyValid
                              /\ db.headers[Tip].failure = "None"

Restartable ==
    /\ AllAdmissible /\ ReplaySound /\ RulingSound /\ LevelsDeserved
    /\ TipIsRecoverable /\ PathStands /\ CommitPrepared
    /\ RefusedOnlyForDisorder

RestartInv == OwnBodies /\ Inv /\ Restartable

\* A node that starts for the first time has nothing to find.
LEMMA InitRestartable == Init => Restartable
<1> SUFFICES ASSUME Init PROVE Restartable
  OBVIOUS
<1>1. /\ index.known = {Genesis} /\ index.validity[Genesis] = FullyValid /\ index.failure[Genesis] = "None"
      /\ StoredTip = Genesis /\ DOMAIN db.headers = {} /\ phase = "idle" /\ writes = <<>>
  BY HeaderAssumption, NullAssumption DEF Init, NewIndex, StoredTip
<1>2. Range(Lineage[StoredTip]) = {Genesis}
  BY <1>1, GenesisPath DEF Range
<1>3. ~Applying(writes, Tip)
  BY <1>1, QueueEnds, Zenon
<1>4. AllAdmissible /\ ReplaySound /\ RulingSound /\ RefusedOnlyForDisorder
  BY <1>1 DEF AllAdmissible, ReplaySound, RulingSound, RefusedOnlyForDisorder
<1>5. LevelsDeserved
  BY <1>1 DEF LevelsDeserved
<1>6. TipIsRecoverable /\ PathStands /\ CommitPrepared
  BY <1>1, <1>2, <1>3 DEF TipIsRecoverable, PathStands, CommitPrepared
<1> QED BY <1>4, <1>5, <1>6 DEF Restartable

\* A step that changes neither the tree nor the disk, of a node that has loaded both.
LEMMA StillRestartable ==
    ASSUME Restartable, phase \in Up \cup {"ruling", "resuming"}, phase' \in Up \cup {"resuming"},
           UNCHANGED <<index, db>>, CommitPrepared'
    PROVE  Restartable'
<1>1. StoredTip' = StoredTip
  BY DEF StoredTip
<1>2. phase' \notin {"loading", "ruling", "refused"}
  BY DEF Up, Between
<1>3. AllAdmissible'
  BY DEF Restartable, AllAdmissible
<1>4. LevelsDeserved'
  BY DEF Restartable, LevelsDeserved
<1>5. TipIsRecoverable'
  BY <1>1 DEF Restartable, TipIsRecoverable
<1>6. PathStands'
  BY <1>1 DEF Restartable, PathStands
<1>7. ReplaySound' /\ RulingSound' /\ RefusedOnlyForDisorder'
  BY <1>2 DEF ReplaySound, RulingSound, RefusedOnlyForDisorder
<1> QED BY <1>3, <1>4, <1>5, <1>6, <1>7 DEF Restartable

\* Without a block being applied, no commit has anything to prepare.
LEMMA NothingToPrepare ==
    ASSUME \/ faulted' \/ phase' \notin Up \/ writes' = <<>>
           \/ \E K : Simple(writes', K)
           \/ \E b : Reverting(writes', b)
    PROVE  CommitPrepared'
BY QueueOf, QueueEnds, Zenon DEF CommitPrepared

\* The path to the stored tip is known, starts at genesis and is made of blocks.
LEMMA StoredPath ==
    ASSUME Inv, PathStands, phase \in Up \cup {"ruling", "resuming"}
    PROVE  /\ StoredTip \in index.known /\ StoredTip \in Block
           /\ Range(Lineage[StoredTip]) \subseteq index.known
           /\ Genesis \in Range(Lineage[StoredTip]) /\ StoredTip \in Range(Lineage[StoredTip])
           /\ \A x \in Range(Lineage[StoredTip]) : Header[x].height <= Header[StoredTip].height
<1>1. StoredTip \in Block /\ IndexInv(index)
  BY Named DEF Inv
<1>2. StoredTip \in Range(Lineage[StoredTip]) /\ Lineage[StoredTip] # <<>> /\ Lineage[StoredTip] \in Seq(Block)
  BY <1>1, LineageEnds
<1>3. StoredTip \in index.known
  BY <1>2 DEF PathStands
<1>4. /\ Range(Lineage[StoredTip]) \subseteq index.known /\ Lineage[StoredTip][1] = Genesis
      /\ \A x \in Range(Lineage[StoredTip]) : Header[x].height <= Header[StoredTip].height
  BY <1>1, <1>3, LineageInIndex
<1>5. Genesis \in Range(Lineage[StoredTip])
  BY <1>2, <1>4 DEF Range
<1> QED BY <1>1, <1>2, <1>3, <1>4, <1>5

\* A change of one entry that leaves the stored path as it stands.
LEMMA TreeRestartable ==
    ASSUME RestartInv, phase \in Up, phase' \in Up, db' = db, CommitPrepared',
           NEW b \in Block, index'.known = index.known \cup {b},
           b \in index.known \/ Admissible(b),
           \A x \in Range(Lineage[StoredTip]) : index'.validity[x] = FullyValid /\ index'.failure[x] = "None",
           \A c \in index.known \ {b} : index'.validity[c] = index.validity[c],
           MayFault /\ b # Genesis /\ index'.validity[b] >= BodyValid => CheckBlock(b, Header[b].root)
    PROVE  Restartable'
<1>1. StoredTip' = StoredTip
  BY DEF StoredTip
<1>2. phase' \notin {"loading", "ruling", "refused"}
  BY DEF Up, Between
<1>3. AllAdmissible'
  BY DEF RestartInv, Restartable, AllAdmissible
<1>4. LevelsDeserved'
  BY DEF RestartInv, Restartable, LevelsDeserved
<1>5. TipIsRecoverable'
  BY <1>1 DEF RestartInv, Restartable, TipIsRecoverable
<1>6. PathStands'
  BY <1>1 DEF RestartInv, Restartable, PathStands
<1>7. ReplaySound' /\ RulingSound' /\ RefusedOnlyForDisorder'
  BY <1>2 DEF ReplaySound, RulingSound, RefusedOnlyForDisorder
<1> QED BY <1>3, <1>4, <1>5, <1>6, <1>7 DEF Restartable

\* The three ways a header or a block can be taken in, by what they do to the index.
LEMMA ArriveCases ==
    ASSUME Arrive
    PROVE  \E b \in Block, now \in Clock, body \in Seq(Tx) :
              /\ AddsHeader(index, b, now) /\ phase \in Between /\ writes = <<>>
              /\ phase' = "idle" /\ db' = db /\ Simple(writes', Block)
              /\ \/ index' = WithHeader(index, b)
                 \/ /\ index' = WithFailure(WithHeader(index, b), b)
                    /\ body \in Bodies[b] /\ ~CheckBlock(b, body) /\ (b \in db.bodies => faulted)
                 \/ /\ index' = WithValidity(WithHeader(index, b), b, BodyValid)
                    /\ body \in Bodies[b] /\ CheckBlock(b, body)
<1>1. PICK b \in Block, now \in Clock : \/ AcceptHeader(b, now)
                                        \/ \E body \in Bodies[b] : AcceptBlock(b, body, now)
  BY DEF Arrive
<1>2. CASE AcceptHeader(b, now)
  <2>1. Header[b].root \in Seq(Tx)
    BY RootAssumption
  <2> QED BY <1>2, <2>1 DEF AcceptHeader, Ready, Simple
<1>3. CASE \E body \in Bodies[b] : AcceptBlock(b, body, now)
  <2>1. PICK body \in Bodies[b] : AcceptBlock(b, body, now)
    BY <1>3
  <2>2. /\ AddsHeader(index, b, now) /\ phase \in Between /\ writes = <<>>
        /\ phase' = "idle" /\ db' = db /\ Simple(writes', Block)
    BY <2>1 DEF AcceptBlock, Ready, Simple
  <2>3. PICK haveBlock \in Answers(b \in db.bodies) :
           \/ haveBlock /\ index' = WithHeader(index, b)
           \/ ~haveBlock /\ ~CheckBlock(b, body) /\ index' = WithFailure(WithHeader(index, b), b)
           \/ ~haveBlock /\ CheckBlock(b, body) /\ index' = WithValidity(WithHeader(index, b), b, BodyValid)
    BY <2>1 DEF AcceptBlock
  <2>4. ~haveBlock => (b \in db.bodies => faulted)
    BY <2>3, Zenon DEF Answers
  <2>5. body \in Seq(Tx)
    BY RootAssumption
  <2> QED BY <2>1, <2>2, <2>3, <2>4, <2>5
<1> QED BY <1>1, <1>2, <1>3

\* What arrives is admissible, and never rules out a block of the stored path: its
\* body is not judged again, or is the one that passed before.
LEMMA ArriveRestartable == RestartInv /\ Arrive => Restartable'
<1> SUFFICES ASSUME RestartInv, Arrive PROVE Restartable'
  OBVIOUS
<1>1. PICK b \in Block, now \in Clock, body \in Seq(Tx) :
              /\ AddsHeader(index, b, now) /\ phase \in Between /\ writes = <<>>
              /\ phase' = "idle" /\ db' = db /\ Simple(writes', Block)
              /\ \/ index' = WithHeader(index, b)
                 \/ /\ index' = WithFailure(WithHeader(index, b), b)
                    /\ body \in Bodies[b] /\ ~CheckBlock(b, body) /\ (b \in db.bodies => faulted)
                 \/ /\ index' = WithValidity(WithHeader(index, b), b, BodyValid)
                    /\ body \in Bodies[b] /\ CheckBlock(b, body)
  BY ArriveCases
<1> DEFINE I == WithHeader(index, b)
           path == Range(Lineage[StoredTip])
<1>2. Inv /\ IndexInv(index) /\ phase \in Up /\ OwnBodies /\ Restartable /\ StoreTyped
  BY <1>1 DEF RestartInv, Inv, Up
<1>3. /\ StoredTip \in index.known /\ path \subseteq index.known /\ index.known \subseteq Block
      /\ Genesis \in path /\ (faulted => MayFault)
  BY <1>2, StoredPath, Named DEF Restartable, Inv, ControlSound
<1>4. \A x \in path : index.validity[x] = FullyValid /\ index.failure[x] = "None"
  BY <1>2 DEF Restartable, PathStands
<1>5. /\ IndexInv(I) /\ b \in I.known /\ I.known = index.known \cup {b}
      /\ \A c \in index.known : I.validity[c] = index.validity[c] /\ I.failure[c] = index.failure[c]
      /\ b \notin index.known => I.validity[b] = HeaderValid
  <2>1. HeaderAdded(index, I, b)
    BY <1>1, <1>2, HeaderFrame, Zenon
  <2> QED BY <2>1, Zenon DEF HeaderAdded
<1>6. BodyValid \in Validity /\ HeaderValid = 0 /\ BodyValid = 1 /\ FullyValid = 2
  BY DEF BodyValid, HeaderValid, FullyValid, Validity
<1> HIDE DEF I
<1>7. index'.known = index.known \cup {b}
  <2>1. WithFailure(I, b).known = I.known
    <3>1. FailureRecorded(I, WithFailure(I, b), b)
      BY <1>5, FailureFrame, Zenon
    <3> QED BY <3>1, Zenon DEF FailureRecorded
  <2>2. WithValidity(I, b, BodyValid).known = I.known
    <3>1. ValidityRaised(I, WithValidity(I, b, BodyValid), b, BodyValid)
      BY <1>5, <1>6, ValidityFrame, Zenon
    <3> QED BY <3>1, Zenon DEF ValidityRaised
  <2> QED BY <1>1, <1>5, <2>1, <2>2 DEF I
<1>8. /\ \A x \in path : index'.validity[x] = FullyValid /\ index'.failure[x] = "None"
      /\ \A c \in index.known \ {b} : index'.validity[c] = index.validity[c]
      /\ \/ index'.validity[b] = I.validity[b]
         \/ (index'.validity[b] = BodyValid /\ body \in Bodies[b] /\ CheckBlock(b, body))
  <2>1. CASE index' = I
    BY <1>3, <1>4, <1>5, <2>1
  <2>2. CASE index' = WithFailure(I, b) /\ body \in Bodies[b] /\ ~CheckBlock(b, body) /\ (b \in db.bodies => faulted)
    <3>1. b \notin path
      <4> SUFFICES ASSUME b \in path PROVE FALSE
        OBVIOUS
      <4>1. b # Genesis
        BY <1>2, <2>2 DEF OwnBodies
      <4>2. b \in db.bodies
        BY <1>2, <4>1 DEF Restartable, TipIsRecoverable
      <4>3. MayFault /\ body = Header[b].root
        BY <1>2, <1>3, <2>2, <4>2 DEF OwnBodies
      <4>4. CheckBlock(b, Header[b].root)
        BY <1>2, <1>3, <1>4, <1>6, <4>1, <4>3 DEF Restartable, LevelsDeserved
      <4> QED BY <2>2, <4>3, <4>4
    <3>2. \A x \in path : index'.failure[x] = I.failure[x]
      BY <1>3, <1>5, <2>2, <3>1, FailureElsewhere
    <3>3. index'.validity = I.validity
      <4>1. FailureRecorded(I, index', b)
        BY <1>5, <2>2, FailureFrame, Zenon
      <4> QED BY <4>1, Zenon DEF FailureRecorded
    <3> QED BY <1>3, <1>4, <1>5, <3>2, <3>3
  <2>3. CASE index' = WithValidity(I, b, BodyValid) /\ body \in Bodies[b] /\ CheckBlock(b, body)
    <3>1. /\ index'.failure = I.failure
          /\ \A c \in I.known : c # b => index'.validity[c] = I.validity[c]
          /\ index'.validity[b] = IF BodyValid > I.validity[b] THEN BodyValid ELSE I.validity[b]
      <4>1. ValidityRaised(I, index', b, BodyValid)
        BY <1>5, <1>6, <2>3, ValidityFrame, Zenon
      <4> QED BY <4>1, Zenon DEF ValidityRaised
    <3>2. index'.validity[b] = I.validity[b] \/ index'.validity[b] = BodyValid
      BY <3>1
    <3>3. b \in path => index'.validity[b] = FullyValid
      BY <1>3, <1>4, <1>5, <1>6, <3>1
    <3> QED BY <1>3, <1>4, <1>5, <2>3, <3>1, <3>2, <3>3
  <2> QED BY <1>1, <2>1, <2>2, <2>3 DEF I
<1>9. b \in index.known \/ Admissible(b)
  BY <1>1, <1>3, ClockAssumption DEF AddsHeader, Acceptable, Admissible
<1>10. MayFault /\ b # Genesis /\ index'.validity[b] >= BodyValid => CheckBlock(b, Header[b].root)
  <2> SUFFICES ASSUME MayFault, b # Genesis, index'.validity[b] >= BodyValid PROVE CheckBlock(b, Header[b].root)
    OBVIOUS
  <2>1. CASE body \in Bodies[b] /\ CheckBlock(b, body)
    BY <1>2, <2>1 DEF OwnBodies
  <2>2. CASE index'.validity[b] = I.validity[b]
    <3>1. b \in index.known /\ index.validity[b] >= BodyValid
      BY <1>5, <1>6, <2>2
    <3> QED BY <1>2, <3>1 DEF Restartable, LevelsDeserved
  <2> QED BY <1>8, <2>1, <2>2
<1>11. CommitPrepared'
  BY <1>1, NothingToPrepare
<1> QED BY <1>1, <1>2, <1>7, <1>8, <1>9, <1>10, <1>11, TreeRestartable DEF Up, Between, RestartInv

\* A record that lands is as sound as the entry it is taken from, and the commit that
\* waits behind it is one step nearer to being prepared.
LEMMA WriteRestartable == RestartInv /\ (PutBlock \/ PutUndo \/ CommitHeader) => Restartable'
<1> SUFFICES ASSUME RestartInv, PutBlock \/ PutUndo \/ CommitHeader PROVE Restartable'
  OBVIOUS
<1> DEFINE b == Head(writes).block
           path == Range(Lineage[StoredTip])
<1>1. writes # <<>> /\ writes' = Tail(writes) /\ UNCHANGED <<index, chain, faulted, phase>>
  BY DEF PutBlock, PutUndo, CommitHeader, memory
<1>2. Inv /\ Restartable /\ phase \in Up /\ Queue(writes, index.known)
  BY <1>1 DEF RestartInv, Inv, ControlSound
<1>3. /\ db'.tip = db.tip
      /\ db.bodies \subseteq db'.bodies /\ DOMAIN db.undo \subseteq DOMAIN db'.undo
      /\ b \in index.known /\ Head(writes).kind \in {"block", "undo", "header"}
      /\ Head(writes).kind = "undo" => b \in DOMAIN db'.undo
      /\ Head(writes).kind # "header" => db'.headers = db.headers
      /\ Head(writes).kind = "header" => db'.headers = Put(db.headers, b, Record(index, b))
  BY <1>1, <1>2, StoredWrite
<1>4. StoredTip' = StoredTip /\ Tip' = Tip
  BY <1>1, <1>3 DEF StoredTip, Tip
<1> HIDE DEF b
<1>5. /\ DOMAIN db.headers \subseteq DOMAIN db'.headers
      /\ DOMAIN db'.headers \subseteq DOMAIN db.headers \cup {b}
      /\ Head(writes).kind = "header" => b \in DOMAIN db'.headers
      /\ \A x \in DOMAIN db'.headers :
            \/ x \in DOMAIN db.headers /\ db'.headers[x] = db.headers[x]
            \/ /\ x = b /\ Head(writes).kind = "header"
               /\ db'.headers[x].validity = index.validity[x] /\ db'.headers[x].failure = index.failure[x]
      /\ Head(writes).kind = "header" =>
            db'.headers[b].validity = index.validity[b] /\ db'.headers[b].failure = index.failure[b]
  <2>1. CASE Head(writes).kind # "header"
    BY <1>3, <2>1
  <2>2. CASE Head(writes).kind = "header"
    BY <1>3, <2>2 DEF Put, Record
  <2> QED BY <2>1, <2>2
<1>6. \A x \in path : index.validity[x] = FullyValid /\ index.failure[x] = "None"
  BY <1>2 DEF Restartable, PathStands
<1>7. Genesis \in path
  BY <1>2, StoredPath DEF Restartable
<1>8. AllAdmissible'
  BY <1>1, <1>2, <1>3, <1>5 DEF Restartable, AllAdmissible
<1>9. LevelsDeserved'
  <2>1. \A x \in DOMAIN db'.headers \ {Genesis} :
           MayFault /\ db'.headers[x].validity >= BodyValid => CheckBlock(x, Header[x].root)
    BY <1>2, <1>3, <1>5 DEF Restartable, LevelsDeserved
  <2> QED BY <1>1, <1>2, <2>1 DEF Restartable, LevelsDeserved
<1>10. TipIsRecoverable'
  <2> SUFFICES ASSUME NEW x \in path \ {Genesis}
               PROVE  /\ x \in db'.bodies /\ x \in DOMAIN db'.undo /\ x \in DOMAIN db'.headers
                      /\ db'.headers[x].validity = FullyValid /\ db'.headers[x].failure = "None"
    BY <1>4 DEF TipIsRecoverable
  <2>1. /\ x \in db.bodies /\ x \in DOMAIN db.undo /\ x \in DOMAIN db.headers
        /\ db.headers[x].validity = FullyValid /\ db.headers[x].failure = "None"
    BY <1>2 DEF Restartable, TipIsRecoverable
  <2> QED BY <1>3, <1>5, <1>6, <2>1
<1>11. PathStands'
  <2>1. Genesis \in DOMAIN db'.headers => db'.headers[Genesis].failure = "None"
    BY <1>2, <1>5, <1>6, <1>7 DEF Restartable, PathStands
  <2> QED BY <1>1, <1>2, <1>4, <2>1 DEF Restartable, PathStands
<1>12. CommitPrepared'
  <2> SUFFICES ASSUME ~faulted, Applying(writes', Tip)
               PROVE  /\ Tip \in db'.bodies
                      /\ index.validity[Tip] = FullyValid /\ index.failure[Tip] = "None"
                      /\ Len(writes') <= 2 => Tip \in DOMAIN db'.undo
                      /\ Len(writes') = 1 => /\ Tip \in DOMAIN db'.headers
                                             /\ db'.headers[Tip].validity = FullyValid
                                             /\ db'.headers[Tip].failure = "None"
    BY <1>1, <1>4 DEF CommitPrepared
  <2>1. Applying(writes, Tip)
    BY <1>1, <1>2, <1>3, QueueRest, QueueOf, Zenon DEF Inv, OneBlockApart
  <2>2. /\ Tip \in db.bodies /\ index.validity[Tip] = FullyValid /\ index.failure[Tip] = "None"
        /\ Len(writes) <= 2 => Tip \in DOMAIN db.undo
    BY <1>2, <2>1 DEF Restartable, CommitPrepared
  <2>3. /\ Head(writes).block = Tip
        /\ \/ Head(writes).kind = "undo" /\ Len(writes') = 2
           \/ Head(writes).kind = "header" /\ Len(writes) = 2
    <3>1. PICK c \in index.known :
             /\ Head(writes).block = c
             /\ \/ Simple(writes, index.known)
                \/ Head(writes).kind = "undo" /\ Applying(writes, c)
                    /\ Tail(writes) = <<HeaderWrite(c), TipWrite(c, "connected")>>
                \/ Head(writes).kind = "header" /\ Applying(writes, c) /\ Len(writes) = 2
                \/ Head(writes).kind = "tip"
      BY <1>1, <1>2, QueueCases
    <3>2. Applying(writes, c) /\ c = Tip
      BY <1>3, <2>1, <3>1, QueueOf, Zenon
    <3>3. Len(<<HeaderWrite(c), TipWrite(c, "connected")>>) = 2
      BY Taken
    <3>4. ~Simple(writes, index.known)
      BY <2>1, QueueOf
    <3> QED BY <1>1, <1>3, <3>1, <3>2, <3>3, <3>4, Zenon
  <2>4. Tip = b
    BY <2>3 DEF b
  <2>5. CASE Head(writes).kind = "undo" /\ Len(writes') = 2
    BY <1>3, <2>2, <2>4, <2>5
  <2>6. CASE Head(writes).kind = "header" /\ Len(writes) = 2
    BY <1>3, <1>5, <2>2, <2>4, <2>6
  <2> QED BY <2>3, <2>5, <2>6
<1>13. ReplaySound' /\ RulingSound' /\ RefusedOnlyForDisorder'
  BY <1>1, <1>2 DEF ReplaySound, RulingSound, RefusedOnlyForDisorder, Up, Between
<1> QED BY <1>8, <1>9, <1>10, <1>11, <1>12, <1>13 DEF Restartable

\* The commit of a tip makes nothing part of the stored path that is not stored yet:
\* a block that was applied is prepared, and a reversal only shortens the path.
LEMMA CommitRestartable == RestartInv /\ CommitTip => Restartable'
<1> SUFFICES ASSUME RestartInv, CommitTip PROVE Restartable'
  OBVIOUS
<1>1. Inv /\ Restartable
  BY DEF RestartInv
<1>2. /\ ~faulted /\ phase \in Up /\ writes' = <<>>
      /\ db'.bodies = db.bodies /\ db'.undo = db.undo /\ db'.headers = db.headers
      /\ StoredTip' = Tip /\ index' = index /\ phase' = phase
      /\ \/ Applying(writes, Tip) /\ Len(writes) = 1 /\ Header[Tip].prev = StoredTip
         \/ Reverting(writes, StoredTip) /\ Header[StoredTip].prev = Tip
  BY <1>1, CommitTipCases
<1>3. Tip \in Block /\ StoredTip \in Block /\ Tip \in index.known
  BY <1>1, <1>2, Named, Zenon DEF Inv, PathsSound
<1>4. \A x \in Range(Lineage[Tip]) :
         /\ x \in index.known /\ index.validity[x] = FullyValid /\ index.failure[x] = "None"
         /\ x # Genesis => /\ x \in db.bodies /\ x \in DOMAIN db.undo /\ x \in DOMAIN db.headers
                           /\ db.headers[x].validity = FullyValid /\ db.headers[x].failure = "None"
  <2>1. \A x \in Range(Lineage[StoredTip]) :
           /\ x \in index.known /\ index.validity[x] = FullyValid /\ index.failure[x] = "None"
           /\ x # Genesis => /\ x \in db.bodies /\ x \in DOMAIN db.undo /\ x \in DOMAIN db.headers
                             /\ db.headers[x].validity = FullyValid /\ db.headers[x].failure = "None"
    BY <1>1, <1>2 DEF Restartable, PathStands, TipIsRecoverable
  <2>2. CASE Applying(writes, Tip) /\ Len(writes) = 1 /\ Header[Tip].prev = StoredTip
    <3>1. Range(Lineage[Tip]) = Range(Lineage[StoredTip]) \cup {Tip}
      BY <1>3, <2>2, LineageEnds, Zenon
    <3>2. /\ Tip \in db.bodies /\ index.validity[Tip] = FullyValid /\ index.failure[Tip] = "None"
          /\ Tip \in DOMAIN db.undo /\ Tip \in DOMAIN db.headers
          /\ db.headers[Tip].validity = FullyValid /\ db.headers[Tip].failure = "None"
      BY <1>1, <1>2, <2>2 DEF Restartable, CommitPrepared
    <3> QED BY <1>3, <2>1, <3>1, <3>2
  <2>3. CASE Header[StoredTip].prev = Tip
    <3>1. Range(Lineage[StoredTip]) = Range(Lineage[Tip]) \cup {StoredTip}
      BY <1>3, <2>3, LineageEnds, Zenon
    <3> QED BY <2>1, <3>1
  <2> QED BY <1>2, <2>2, <2>3
<1>5. CommitPrepared'
  BY <1>2, NothingToPrepare
<1>6. AllAdmissible' /\ LevelsDeserved'
  BY <1>1, <1>2 DEF Restartable, AllAdmissible, LevelsDeserved
<1>7. TipIsRecoverable'
  BY <1>2, <1>4 DEF TipIsRecoverable
<1>8. PathStands'
  BY <1>1, <1>2, <1>4 DEF Restartable, PathStands
<1>9. ReplaySound' /\ RulingSound' /\ RefusedOnlyForDisorder'
  BY <1>2 DEF ReplaySound, RulingSound, RefusedOnlyForDisorder, Up, Between
<1> QED BY <1>5, <1>6, <1>7, <1>8, <1>9 DEF Restartable

\* A failure of the database leaves the tree and the disk as they are, and no commit
\* follows it.
LEMMA FailRestartable == RestartInv /\ Fail => Restartable'
<1> SUFFICES ASSUME RestartInv, Fail PROVE Restartable'
  OBVIOUS
<1>1. faulted' /\ UNCHANGED <<index, db>> /\ Restartable
  BY DEF Fail, WriteRefused, CommitTipRefused, ReadFails, RestartInv
<1>2. phase \in Up /\ phase' \in Up
  <2>1. writes # <<>> => phase \in Up
    BY DEF RestartInv, Inv, ControlSound
  <2> QED BY <2>1 DEF Fail, WriteRefused, CommitTipRefused, ReadFails, control, Up, Between
<1>3. CommitPrepared'
  BY <1>1, NothingToPrepare
<1> QED BY <1>1, <1>2, <1>3, StillRestartable

\* Planning touches neither the tree nor the disk.
LEMMA PlanRestartable == RestartInv /\ (ActivateBestChain \/ PlanPass \/ PassDone) => Restartable'
<1> SUFFICES ASSUME RestartInv, ActivateBestChain \/ PlanPass \/ PassDone PROVE Restartable'
  OBVIOUS
<1>1. UNCHANGED <<index, db, writes>> /\ Restartable
  BY DEF ActivateBestChain, PlanPass, PassDone, memory, RestartInv
<1>2. phase \in Up /\ phase' \in Up
  BY DEF ActivateBestChain, PlanPass, PassDone, Ready, Up, Between
<1>3. writes = <<>>
  BY DEF ActivateBestChain, PlanPass, PassDone, Ready, RestartInv, Inv, ControlSound
<1>4. CommitPrepared'
  BY <1>1, <1>3, NothingToPrepare
<1> QED BY <1>1, <1>2, <1>4, StillRestartable

\* A reversal changes memory and leaves its commit to be made.
LEMMA DisconnectRestartable == RestartInv /\ DisconnectTip => Restartable'
<1> SUFFICES ASSUME RestartInv, DisconnectTip PROVE Restartable'
  OBVIOUS
<1>1. phase = "switching" /\ writes = <<>> /\ UNCHANGED <<index, db>>
  BY DEF DisconnectTip, Stop, memory
<1>2. phase' \in {"switching", "stopped"} /\ (writes' = <<>> \/ Reverting(writes', Tip))
  BY <1>1 DEF DisconnectTip, Stop, DisconnectWrites, Reverting
<1>3. CommitPrepared'
  BY <1>2, NothingToPrepare
<1> QED BY <1>1, <1>2, <1>3, StillRestartable DEF RestartInv, Up, Between

\* A block that fails to connect is above the stored path, and one that connects has
\* reached the level its commit asks for.
LEMMA ConnectRestartable == RestartInv /\ ConnectTip => Restartable'
<1> SUFFICES ASSUME RestartInv, ConnectTip PROVE Restartable'
  OBVIOUS
<1> DEFINE b == Head(plan.connect)
           path == Range(Lineage[StoredTip])
<1>1. Inv /\ Restartable /\ IndexInv(index) /\ IsTree(index)
  BY Named DEF RestartInv, Inv
<1>2. phase = "switching" /\ writes = <<>> /\ plan.connect # <<>>
  BY <1>1, ConnectTipCases
<1>3. /\ phase \in Up /\ chain = Lineage[Tip] /\ Tip \in index.known
      /\ plan \in [disconnect: Seq(Block), connect: Seq(Eligible(index))]
  BY <1>1, <1>2 DEF Up, Inv, PathsSound, ControlSound
<1>4. b \in index.known /\ b \in Block /\ Tip \in Block /\ IsEligible(index, b)
  <2>1. b \in Eligible(index)
    BY <1>2, <1>3
  <2> QED BY <1>1, <1>3, <2>1, Named DEF Eligible
<1>5. /\ path \subseteq index.known /\ \A x \in path : Header[x].height <= Header[StoredTip].height
      /\ StoredTip \in index.known
  BY <1>1, <1>3, StoredPath DEF Restartable
<1>6. \A x \in path : index.validity[x] = FullyValid /\ index.failure[x] = "None"
  BY <1>1, <1>3 DEF Restartable, PathStands
<1>7. MayFault /\ b # Genesis /\ index.validity[b] >= BodyValid => CheckBlock(b, Header[b].root)
  BY <1>1, <1>4 DEF Restartable, LevelsDeserved
<1>8. CASE Stop
  <2>1. UNCHANGED <<index, db, writes>> /\ phase' = "stopped"
    BY <1>8 DEF Stop, memory
  <2>2. CommitPrepared'
    BY <1>2, <2>1, NothingToPrepare
  <2> QED BY <1>1, <1>3, <2>1, <2>2, StillRestartable DEF Up, Between
<1> HIDE DEF b
<1>9. CASE Header[b].prev = Tip /\ Refuted(b)
  <2>1. /\ index'.known = index.known
        /\ \A c \in index.known : c # b => index'.validity[c] = index.validity[c]
        /\ index'.validity[b] = index.validity[b]
           \/ index.validity[b] >= BodyValid \/ CheckBlock(b, Header[b].root)
        /\ b \notin path => \A x \in path : index'.failure[x] = index.failure[x]
    BY <1>1, <1>4, <1>5, <1>9, RefutedIndex, Zenon
  <2>2. ~faulted /\ phase' = phase /\ db' = db /\ writes' = <<HeaderWrite(b)>>
    BY <1>9, Zenon DEF Refuted
  <2>3. StoredTip = Tip
    BY <1>1, <1>2, <1>3, <2>2, NothingPending
  <2>4. b \notin path
    <3>1. b # Genesis
      BY <1>4, <1>9, HeaderAssumption
    <3>2. Header[b].height = Header[Tip].height + 1
      BY <1>1, <1>4, <1>9, <3>1 DEF IsTree
    <3>3. Header[b].height \in Nat /\ Header[Tip].height \in Nat
      BY <1>4, HeaderAssumption
    <3> QED BY <1>5, <2>3, <3>2, <3>3
  <2>5. \A x \in path : index'.validity[x] = FullyValid /\ index'.failure[x] = "None"
    BY <1>5, <1>6, <2>1, <2>4
  <2>6. CommitPrepared'
    <3>1. Simple(writes', index.known)
      BY <1>4, <2>2 DEF Simple
    <3> QED BY <3>1, NothingToPrepare
  <2>7. MayFault /\ b # Genesis /\ index'.validity[b] >= BodyValid => CheckBlock(b, Header[b].root)
    BY <1>7, <2>1
  <2>8. index'.known = index.known \cup {b}
    BY <1>4, <2>1
  <2> QED BY <1>3, <1>4, <2>1, <2>2, <2>5, <2>6, <2>7, <2>8, TreeRestartable, Zenon
<1>10. CASE Header[b].prev = Tip /\ b \in db.bodies /\ Connected(b)
  <2>1. /\ index'.known = index.known /\ index'.failure = index.failure
        /\ index'.validity[b] = FullyValid
        /\ \A c \in index.known : c # b => index'.validity[c] = index.validity[c]
    BY <1>1, <1>4, <1>10, ConnectedIndex
  <2>2. /\ chain' = Append(chain, b) /\ Len(writes') = 3
        /\ phase' = phase /\ db' = db
        /\ index.validity[b] >= BodyValid \/ CheckBlock(b, Header[b].root)
    BY <1>10 DEF Connected
  <2>3. Tip' = b
    <3>1. chain' = Lineage[b]
      BY <1>3, <1>4, <1>10, <2>2, LineageEnds
    <3> QED BY <1>4, <3>1, LineageEnds DEF Tip
  <2>4. CommitPrepared'
    BY <1>4, <1>10, <2>1, <2>2, <2>3 DEF CommitPrepared, IsEligible
  <2>5. \A x \in path : index'.validity[x] = FullyValid /\ index'.failure[x] = "None"
    BY <1>5, <1>6, <2>1
  <2>6. MayFault /\ b # Genesis /\ index'.validity[b] >= BodyValid => CheckBlock(b, Header[b].root)
    BY <1>7, <2>2
  <2>7. index'.known = index.known \cup {b}
    BY <1>4, <2>1
  <2> QED BY <1>3, <1>4, <2>1, <2>2, <2>4, <2>5, <2>6, <2>7, TreeRestartable, Zenon
<1> QED BY <1>1, <1>8, <1>9, <1>10, ConnectTipCases DEF b

-----------------------------------------------------------------------------
(* LoadChain.                                                              *)

\* The clock of the replay is late enough for every stored header that was ever
\* accepted, and never so late that adding to it overflows.
LEMMA ReplayClockServes ==
    ASSUME DOMAIN db.headers \subseteq Block, NEW b \in DOMAIN db.headers, NEW now \in Clock, Admissible(b)
    PROVE  ContextualCheckBlockHeader(b, Header[b].prev, ReplayClock(now))
<1> DEFINE times == {now} \cup {Header[c].time : c \in DOMAIN db.headers}
           latest == Max(times)
           cap == MaxTime - MaxFuture
           clock == Min({latest, cap})
<1>1. PICK w \in 0..MaxTime : ContextualCheckBlockHeader(b, Header[b].prev, w)
  BY DEF Admissible
<1>2. MaxTime \in Nat /\ MaxFuture \in Nat /\ w + MaxFuture <= MaxTime /\ w \in Nat
  BY <1>1, HeaderAssumption, ParamAssumption DEF ContextualCheckBlockHeader, Follows
<1>3. cap \in Nat
  BY <1>2
<1>4. times \subseteq 0..MaxTime /\ Header[b].time \in times /\ times # {}
  BY HeaderAssumption, ClockAssumption
<1> HIDE DEF times
<1>5. latest \in Nat /\ Header[b].time <= latest
  <2>1. times \subseteq Nat /\ \A x \in times : x <= MaxTime
    BY <1>2, <1>4
  <2>2. Max(times) \in times /\ \A x \in times : x <= Max(times)
    BY <1>2, <1>4, <2>1, GreatestNatural, Zenon
  <2> QED BY <1>4, <2>1, <2>2, Zenon
<1> HIDE DEF latest, cap
<1>6. clock \in {latest, cap} /\ clock <= latest /\ clock <= cap
  <2>1. \E x \in {latest, cap} : \A y \in {latest, cap} : x <= y
    BY <1>3, <1>5
  <2>2. clock \in {latest, cap} /\ \A y \in {latest, cap} : clock <= y
    BY <2>1 DEF Min
  <2> QED BY <2>2
<1> HIDE DEF clock
<1>7. clock + MaxFuture <= MaxTime /\ Header[b].time <= clock + MaxFuture
  <2>1. Header[b].time \in Nat /\ Header[b].time <= MaxTime
    <3>1. Header[b].time \in 0..MaxTime
      BY <1>4, Zenon
    <3> QED BY <1>2, <3>1
  <2>2. CASE clock = latest
    <3>1. clock + MaxFuture <= MaxTime
      BY <1>2, <1>3, <1>5, <1>6 DEF cap
    <3> QED BY <1>2, <1>5, <2>1, <2>2, <3>1
  <2>3. CASE clock = cap
    <3>1. cap + MaxFuture = MaxTime
      BY <1>2 DEF cap
    <3>2. Header[b].time <= cap + MaxFuture
      BY <1>2, <2>1, <3>1
    <3> QED BY <1>2, <2>3, <3>1, <3>2
  <2> QED BY <1>6, <2>2, <2>3
<1>8. ReplayClock(now) = clock
  BY DEF ReplayClock, clock, latest, cap, times
<1> QED BY <1>1, <1>7, <1>8 DEF ContextualCheckBlockHeader, Follows

\* A step of a node that is not up yet.
LEMMA DownRestartable ==
    ASSUME Restartable, db' = db, phase' \in {"down", "loading", "ruling", "refused"},
           \A b \in index'.known \ {Genesis} :
              /\ Admissible(b)
              /\ MayFault /\ index'.validity[b] >= BodyValid => CheckBlock(b, Header[b].root),
           ReplaySound', RulingSound', RefusedOnlyForDisorder',
           phase' = "ruling" => \A b \in Range(Lineage[StoredTip]) :
              b \in index'.known /\ index'.validity[b] = FullyValid /\ index'.failure[b] = "None"
    PROVE  Restartable'
<1>1. StoredTip' = StoredTip
  BY DEF StoredTip
<1>2. phase' \notin Up \cup {"resuming"}
  BY DEF Up, Between
<1>3. AllAdmissible'
  BY DEF Restartable, AllAdmissible
<1>4. LevelsDeserved'
  BY DEF Restartable, LevelsDeserved
<1>5. TipIsRecoverable'
  BY <1>1 DEF Restartable, TipIsRecoverable
<1>6. PathStands'
  BY <1>1, <1>2 DEF Restartable, PathStands
<1>7. CommitPrepared'
  BY <1>2, NothingToPrepare
<1> QED BY <1>3, <1>4, <1>5, <1>6, <1>7 DEF Restartable

\* A new index holds genesis alone.
LEMMA NewIndexFacts ==
    /\ NewIndex.known = {Genesis} /\ NewIndex.validity[Genesis] = FullyValid
    /\ NewIndex.failure[Genesis] = "None"
BY HeaderAssumption DEF NewIndex

\* A crash forgets everything in memory, and a restart begins with genesis.
LEMMA FreshRestartable == RestartInv /\ (Crash \/ LoadHeaders) => Restartable'
<1> SUFFICES ASSUME RestartInv, Crash \/ LoadHeaders PROVE Restartable'
  OBVIOUS
<1>1. /\ index' = NewIndex /\ db' = db
      /\ phase' = "down" \/ (phase' = "loading" /\ replay' = DOMAIN db.headers \ {Genesis})
  BY DEF Crash, LoadHeaders
<1>2. /\ index'.known = {Genesis} /\ index'.validity[Genesis] = FullyValid
      /\ index'.failure[Genesis] = "None"
  BY <1>1, NewIndexFacts
<1>3. ReplaySound'
  BY <1>1, <1>2 DEF ReplaySound, IsEligible
<1>4. RulingSound' /\ RefusedOnlyForDisorder'
  BY <1>1 DEF RulingSound, RefusedOnlyForDisorder
<1> QED BY <1>1, <1>2, <1>3, <1>4, DownRestartable DEF RestartInv

\* A stored header is replayed as it was judged, or its parent has not been replayed
\* before it.
LEMMA LoadHeaderRestartable ==
    ASSUME RestartInv, NEW b \in Block, NEW now \in Clock, LoadHeader(b, now)
    PROVE  Restartable'
<1>1. /\ phase = "loading" /\ b \in replay /\ db' = db
      /\ \A c \in replay : db.headers[b].seq <= db.headers[c].seq
  BY DEF LoadHeader, Earliest
<1>2. Inv /\ Restartable /\ StoreTyped /\ replay \subseteq DOMAIN db.headers
  BY DEF RestartInv, Inv, ControlSound
<1>3. /\ Genesis \notin replay /\ index.known = {Genesis} \cup (DOMAIN db.headers \ replay)
      /\ \A c \in index.known : IsEligible(index, c)
      /\ \A c \in index.known \ {Genesis} : index.validity[c] = db.headers[c].validity
      /\ index.validity[Genesis] = FullyValid
  BY <1>1, <1>2 DEF Restartable, ReplaySound
<1>4. b \in DOMAIN db.headers /\ b # Genesis /\ b \notin index.known
  BY <1>1, <1>2, <1>3
<1>5. \A c \in DOMAIN db.headers \ {Genesis} :
         Admissible(c) /\ (MayFault /\ db.headers[c].validity >= BodyValid => CheckBlock(c, Header[c].root))
  BY <1>2 DEF Restartable, AllAdmissible, LevelsDeserved
<1>6. CASE AddsHeader(index, b, ReplayClock(now))
  <2>1. /\ index' = WithValidity(WithHeader(index, b), b, db.headers[b].validity)
        /\ replay' = replay \ {b} /\ phase' = phase
    BY <1>6 DEF LoadHeader
  <2>2. /\ index'.known = index.known \cup {b}
        /\ \A c \in index.known : index'.failure[c] = index.failure[c]
        /\ \A c \in index.known : c # b => index'.validity[c] = index.validity[c]
        /\ index'.failure[b] = "None" /\ index'.validity[b] = db.headers[b].validity
    BY <1>2, <1>4, <1>6, <2>1, ReplayedIndex, Zenon
  <2>3. ReplaySound'
    <3>1. index'.known = {Genesis} \cup (DOMAIN db.headers \ replay')
      BY <1>3, <1>4, <2>1, <2>2, Zenon
    <3>2. \A c \in index'.known : index'.failure[c] = "None"
      BY <1>3, <2>2 DEF IsEligible
    <3>3. \A c \in index'.known \ {Genesis} : index'.validity[c] = db.headers[c].validity
      BY <1>3, <1>4, <2>2
    <3>4. index'.validity[Genesis] = FullyValid /\ Genesis \notin replay'
      BY <1>3, <1>4, <2>1, <2>2, Zenon
    <3> QED BY <1>1, <3>1, <3>2, <3>3, <3>4 DEF ReplaySound, IsEligible
  <2>4. RulingSound' /\ RefusedOnlyForDisorder'
    BY <1>1, <2>1 DEF RulingSound, RefusedOnlyForDisorder
  <2>5. \A c \in index'.known \ {Genesis} :
           c \in DOMAIN db.headers \ {Genesis} /\ index'.validity[c] = db.headers[c].validity
    BY <1>3, <1>4, <2>2, Zenon
  <2> QED BY <1>1, <1>2, <1>5, <2>1, <2>3, <2>4, <2>5, DownRestartable, Zenon
<1>7. CASE ~AddsHeader(index, b, ReplayClock(now))
  <2>1. phase' = "refused" /\ UNCHANGED <<index, replay>>
    BY <1>7 DEF LoadHeader
  <2>2. Header[b].prev \notin index.known
    <3>1. CheckBlockHeader(b) /\ ContextualCheckBlockHeader(b, Header[b].prev, ReplayClock(now))
      <4>1. Admissible(b)
        BY <1>4, <1>5
      <4>2. DOMAIN db.headers \subseteq Block
        BY <1>2 DEF StoreTyped
      <4>3. ContextualCheckBlockHeader(b, Header[b].prev, ReplayClock(now))
        BY <1>4, <4>1, <4>2, ReplayClockServes
      <4> QED BY <4>1, <4>3 DEF Admissible
    <3> QED BY <1>3, <1>7, <3>1, Zenon DEF AddsHeader, Acceptable
  <2>3. RefusedOnlyForDisorder'
    <3>1. /\ Header[b].prev # Genesis
          /\ Header[b].prev \in DOMAIN db.headers => Header[b].prev \in replay
      BY <1>3, <2>2
    <3>2. Header[b].prev \in DOMAIN db.headers => db.headers[Header[b].prev].seq >= db.headers[b].seq
      BY <1>1, <1>2, <1>4, <3>1 DEF StoreTyped
    <3> QED BY <1>1, <1>4, <3>1, <3>2 DEF RefusedOnlyForDisorder
  <2>4. ReplaySound' /\ RulingSound'
    BY <2>1 DEF ReplaySound, RulingSound
  <2>5. \A c \in index'.known \ {Genesis} :
           c \in DOMAIN db.headers \ {Genesis} /\ index'.validity[c] = db.headers[c].validity
    BY <1>3, <2>1
  <2> QED BY <1>1, <1>2, <1>5, <2>1, <2>3, <2>4, <2>5, DownRestartable, Zenon
<1> QED BY <1>6, <1>7

\* Once every stored header is replayed, the path to the stored tip stands.
LEMMA LoadFailuresRestartable == RestartInv /\ LoadFailures => Restartable'
<1> SUFFICES ASSUME RestartInv, LoadFailures PROVE Restartable'
  OBVIOUS
<1>1. /\ phase = "loading" /\ replay = {} /\ phase' = "ruling" /\ index' = index /\ db' = db
      /\ replay' = {b \in DOMAIN db.headers : db.headers[b].failure = "Itself"}
  BY DEF LoadFailures, memory
<1>2. Restartable
  BY DEF RestartInv
<1>3. /\ index.known = {Genesis} \cup DOMAIN db.headers
      /\ \A c \in index.known : index.failure[c] = "None"
      /\ \A c \in index.known \ {Genesis} : index.validity[c] = db.headers[c].validity
      /\ index.validity[Genesis] = FullyValid
  BY <1>1, <1>2 DEF Restartable, ReplaySound, IsEligible
<1>4. \A b \in Range(Lineage[StoredTip]) :
         b \in index.known /\ index.validity[b] = FullyValid /\ index.failure[b] = "None"
  BY <1>2, <1>3 DEF Restartable, TipIsRecoverable
<1>5. \A b \in index.known \ {Genesis} :
         Admissible(b) /\ (MayFault /\ index.validity[b] >= BodyValid => CheckBlock(b, Header[b].root))
  BY <1>2 DEF Restartable, AllAdmissible, LevelsDeserved
<1>6. ReplaySound' /\ RulingSound' /\ RefusedOnlyForDisorder'
  BY <1>1, <1>3 DEF ReplaySound, RulingSound, RefusedOnlyForDisorder
<1> QED BY <1>1, <1>2, <1>4, <1>5, <1>6, DownRestartable

\* A stored failure is not on the stored path, so recording it again leaves the path.
LEMMA LoadFailureRestartable ==
    ASSUME RestartInv, NEW b \in Block, LoadFailure(b)
    PROVE  Restartable'
<1> DEFINE path == Range(Lineage[StoredTip])
<1>1. /\ phase = "ruling" /\ b \in replay /\ phase' = phase /\ db' = db
      /\ index' = WithFailure(index, b) /\ replay' = replay \ {b}
  BY DEF LoadFailure, Earliest
<1>2. Inv /\ Restartable /\ IndexInv(index) /\ replay \subseteq DOMAIN db.headers
  BY DEF RestartInv, Inv, ControlSound
<1>3. /\ DOMAIN db.headers \subseteq index.known
      /\ \A c \in replay : db.headers[c].failure = "Itself"
  BY <1>1, <1>2 DEF Restartable, RulingSound
<1>4. b \notin path
  BY <1>1, <1>2, <1>3, Zenon DEF Restartable, TipIsRecoverable, PathStands
<1>5. StoredTip \in index.known /\ path \subseteq index.known
  BY <1>1, <1>2, StoredPath DEF Restartable
<1>6. b \in index.known
  BY <1>1, <1>2, <1>3
<1>7. index'.known = index.known /\ index'.validity = index.validity
  <2>1. FailureRecorded(index, index', b)
    BY <1>1, <1>2, <1>6, FailureFrame, Zenon
  <2> QED BY <2>1, Zenon DEF FailureRecorded
<1>8. \A x \in path : index'.failure[x] = index.failure[x]
  BY <1>1, <1>2, <1>4, <1>5, <1>6, FailureElsewhere
<1>9. \A x \in path : x \in index.known /\ index.validity[x] = FullyValid /\ index.failure[x] = "None"
  BY <1>1, <1>2 DEF Restartable, PathStands
<1>10. \A x \in path : x \in index'.known /\ index'.validity[x] = FullyValid /\ index'.failure[x] = "None"
  BY <1>7, <1>8, <1>9
<1>11. \A c \in index.known \ {Genesis} :
         Admissible(c) /\ (MayFault /\ index.validity[c] >= BodyValid => CheckBlock(c, Header[c].root))
  BY <1>2 DEF Restartable, AllAdmissible, LevelsDeserved
<1>12. ReplaySound' /\ RulingSound' /\ RefusedOnlyForDisorder'
  BY <1>1, <1>3, <1>7 DEF ReplaySound, RulingSound, RefusedOnlyForDisorder
<1> QED BY <1>1, <1>2, <1>7, <1>10, <1>11, <1>12, DownRestartable, Zenon

\* The stored tip is found, and its chain is walked.
LEMMA ResumeRestartable == RestartInv /\ (LoadTip \/ ResumeAt) => Restartable'
<1> SUFFICES ASSUME RestartInv, LoadTip \/ ResumeAt PROVE Restartable'
  OBVIOUS
<1>1. phase \in {"ruling", "resuming"} /\ UNCHANGED <<index, db, writes>>
  BY Zenon DEF LoadTip, ResumeAt
<1>2. Inv /\ Restartable /\ phase \notin Up
  BY <1>1 DEF RestartInv, Up, Between
<1>3. phase' \in {"resuming", "idle"}
  <2>1. StoredTip \in index.known /\ index.failure[StoredTip] = "None"
    <3>1. StoredTip \in Range(Lineage[StoredTip])
      BY <1>1, <1>2, StoredPath DEF Restartable
    <3> QED BY <1>1, <1>2, <3>1 DEF Restartable, PathStands
  <2> QED BY <1>1, <2>1 DEF LoadTip, ResumeAt, StoredTip, IsEligible
<1>4. CommitPrepared'
  <2>1. writes' = <<>>
    BY <1>1, <1>2 DEF Inv, ControlSound
  <2> QED BY <2>1, NothingToPrepare
<1> QED BY <1>1, <1>2, <1>3, <1>4, StillRestartable DEF Up, Between

-----------------------------------------------------------------------------
\* Every step keeps a restart possible.
LEMMA RestartNext == RestartInv /\ [Next]_vars => RestartInv'
<1> SUFFICES ASSUME RestartInv, [Next]_vars PROVE RestartInv'
  OBVIOUS
<1>1. Inv' /\ OwnBodies'
  BY NextInv DEF RestartInv, OwnBodies
<1>2. Restartable'
  <2>1. CASE UNCHANGED vars
    <3>1. UNCHANGED <<index, chain, faulted, phase, writes, replay, db>>
      BY <2>1 DEF vars, memory, control
    <3>2. Tip' = Tip /\ StoredTip' = StoredTip
      BY <3>1 DEF Tip, StoredTip
    <3>3. AllAdmissible' /\ ReplaySound' /\ RulingSound' /\ LevelsDeserved'
      BY <3>1, Zenon DEF RestartInv, Restartable, AllAdmissible, ReplaySound, RulingSound, LevelsDeserved
    <3>4. TipIsRecoverable' /\ PathStands' /\ CommitPrepared' /\ RefusedOnlyForDisorder'
      BY <3>1, <3>2, Zenon DEF RestartInv, Restartable, TipIsRecoverable, PathStands,
                                  CommitPrepared, RefusedOnlyForDisorder
    <3> QED BY <3>3, <3>4 DEF Restartable
  <2>2. CASE Store
    BY <2>2, WriteRestartable, CommitRestartable DEF Store
  <2>3. CASE Load
    BY <2>3, FreshRestartable, LoadFailuresRestartable, ResumeRestartable,
       LoadFailureRestartable, LoadHeaderRestartable DEF Load
  <2>4. CASE Activate
    BY <2>4, PlanRestartable, DisconnectRestartable, ConnectRestartable DEF Activate
  <2> QED BY <2>1, <2>2, <2>3, <2>4, ArriveRestartable, PlanRestartable, FailRestartable,
          FreshRestartable DEF Next
<1> QED BY <1>1, <1>2 DEF RestartInv

\* What a crash may leave behind is enough to start from, at every moment.
THEOREM AlwaysRestartable == OwnBodies /\ Spec => []RestartInv
<1>1. OwnBodies /\ Init => RestartInv
  BY InitInv, InitRestartable DEF RestartInv
<1> QED BY <1>1, RestartNext, PTL DEF Spec

\* Every block up to the stored tip can be found again after a crash and can be
\* reverted: ConnectTip stores what the tip needs before CommitTip.
THEOREM TipIsAlwaysRecoverable == OwnBodies /\ Spec => []TipIsRecoverable
<1>1. RestartInv => TipIsRecoverable
  BY DEF RestartInv, Restartable
<1> QED BY <1>1, AlwaysRestartable, PTL

\* LoadChain refuses only when a header was stored without its parent, or under an
\* arrival number that does not come after its parent's; the clock, the stored
\* failures and the stored tip are never the reason.
THEOREM RefusalMeansDisorder == OwnBodies /\ Spec => []RefusedOnlyForDisorder
<1>1. RestartInv => RefusedOnlyForDisorder
  BY DEF RestartInv, Restartable
<1> QED BY <1>1, AlwaysRestartable, PTL
=============================================================================

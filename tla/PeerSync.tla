------------------------------ MODULE PeerSync ------------------------------
(***************************************************************************)
(* Synchronisation of headers and blocks and relay of transactions between *)
(* nodes: the message handlers of net/peer_manager.cpp and the relay at    *)
(* the end of Submit and SendRawTransaction in rpc/dispatch.cpp, over      *)
(* connections that deliver in order and can break.                        *)
(*                                                                         *)
(* Every block here is valid, so a node's chain state is its index, the    *)
(* bodies it stores and its tip; ChainState treats wrong blocks, storage   *)
(* and crashes, and the validity levels, which nothing here reads, stay at *)
(* what AddHeader gives.  A handler runs to its end on the event loop's thread, and *)
(* is one step.  The handshake is reduced to the HelloAck each end waits   *)
(* for: it is the first message on either wire, and reading it is what     *)
(* makes an end connected.  Clocks agree (Now).  A pool is a set of valid  *)
(* transactions, none of which conflict; Mempool treats the others.        *)
(***************************************************************************)
EXTENDS BlockTree, SequencesExt

CONSTANTS
    Node,
    Dials,      \* <<n, m>> when n was started with --connect m
    MaxCount,   \* HeadersPayload::MAX_COUNT
    MaxDials,   \* the connection Start makes, and the reconnects it allows
    MaxBreaks,  \* bound: connections the network breaks
    Now,
    Tx,
    Ancestors,  \* [Tx -> the unconfirmed transactions it spends from, at any remove]
    Scenes      \* bound: what is offered to which nodes, and whether they are connected at first

Pair == Dials \cup {<<d[2], d[1]>> : d \in Dials}

ASSUME PeerAssumption ==
    /\ Dials \subseteq {p \in Node \X Node : p[1] # p[2]}
    /\ \A d \in Dials : <<d[2], d[1]>> \notin Dials
    /\ MaxCount \in Nat \ {0} /\ MaxDials \in Nat /\ MaxBreaks \in Nat
    /\ Tx \cap Block = {} /\ Ancestors \in [Tx -> SUBSET Tx]
    /\ Scenes \subseteq [dials : SUBSET Dials, linked : BOOLEAN, blocks : SUBSET Block, txs : SUBSET Tx]

VARIABLES
    index,      \* [Node -> BlockIndex]
    stored,     \* [Node -> the bodies Store().HaveBlock finds]
    tip,        \* [Node -> ChainState::Tip]
    pool,       \* [Node -> the transactions in its pool]
    announced,  \* [Node -> announced_blocks and announced_transactions]
    end,        \* [Pair -> the state of the first node's end]
    wire,       \* [Pair -> what the first node sent and the second has not read]
    dials,      \* [Dials -> connections made so far]
    breaks,     \* connections broken so far
    aside,      \* history: some submitted block did not join the active chain
    dropped,    \* history: the transactions that some pool has evicted
    scene

chains == <<index, stored, tip>>
links == <<end, wire, dials, breaks>>
pools == <<pool, dropped, scene>>
vars == <<chains, announced, links, aside, pools>>

Back(p) == <<p[2], p[1]>>
Msg(type, items) == [type |-> type, items |-> items]

Init ==
    /\ index = [n \in Node |-> NewIndex]
    /\ stored = [n \in Node |-> {Genesis}]
    /\ tip = [n \in Node |-> Genesis]
    /\ announced = [n \in Node |-> {}]
    /\ pool = [n \in Node |-> {}]
    /\ scene \in Scenes
    /\ end = [p \in Pair |-> IF scene.linked /\ {p, Back(p)} \cap scene.dials # {} THEN "open" ELSE "closed"]
    /\ wire = [p \in Pair |-> <<>>]
    /\ dials = [d \in Dials |-> IF scene.linked THEN MaxDials ELSE 0]
    /\ breaks = 0 /\ aside = FALSE /\ dropped = {}

-----------------------------------------------------------------------------
(* The chain of one node. *)

Chain(n) == Lineage[tip[n]]

\* ActivateBestChain when every stored block connects: the highest block below
\* the best header that has no missing body under it, if it beats the tip.
ActivateBestChain(I, bodies, t) ==
    LET reachable == {b \in ToSet(Lineage[I.best]) : ToSet(Lineage[b]) \subseteq bodies}
        attainable == CHOOSE b \in reachable :
                          \A c \in reachable : Header[c].height <= Header[b].height
    IN  IF IsBetterTip(I, attainable, t) THEN attainable ELSE t

Accepts(I, b) == AddsHeader(I, b, Now) /\ IsEligible(WithHeader(I, b), b)

\* AcceptBlock and then ActivateBestChain at n.
TakesBlock(n, b) ==
    LET I == WithHeader(index[n], b)
        bodies == stored[n] \cup {b}
    IN  /\ index' = [index EXCEPT ![n] = I]
        /\ stored' = [stored EXCEPT ![n] = bodies]
        /\ tip' = [tip EXCEPT ![n] = ActivateBestChain(I, bodies, @)]

-----------------------------------------------------------------------------
(* Connections. *)

\* Mutant: the write queue is filled at its front.
ExchangedNewestFirst(p, count, out, all) ==
    [q \in Pair |->
        LET w == IF q = Back(p) THEN SubSeq(wire[q], count + 1, Len(wire[q]))
                 ELSE wire[q]
        IN  IF q[1] # p[1] \/ end[Back(q)] = "closed" THEN w
            ELSE (IF q = p THEN out ELSE <<>>)
                 \o (IF end[q] = "open" THEN all ELSE <<>>) \o w]
\* The wires once p[1] has read `count` messages from p[2] and then sent `out`
\* to it and `all` to every connected peer.  What is sent to an end that is
\* closed is lost.
Exchanged(p, count, out, all) ==
    [q \in Pair |->
        LET w == IF q = Back(p) THEN SubSeq(wire[q], count + 1, Len(wire[q]))
                 ELSE wire[q]
        IN  IF q[1] # p[1] \/ end[Back(q)] = "closed" THEN w
            ELSE w \o (IF end[q] = "open" THEN all ELSE <<>>)
                   \o (IF q = p THEN out ELSE <<>>)]

\* Start, and the reconnect timer of the first connection: both ends are up
\* and each HelloAck is under way.
Dial(d) ==
    /\ d \in scene.dials /\ dials[d] < MaxDials
    /\ end[d] = "closed" /\ end[Back(d)] = "closed"
    /\ dials' = [dials EXCEPT ![d] = @ + 1]
    /\ end' = [end EXCEPT ![d] = "hailed", ![Back(d)] = "hailed"]
    /\ wire' = [wire EXCEPT ![d] = <<Msg("ack", <<>>)>>, ![Back(d)] = <<Msg("ack", <<>>)>>]
    /\ UNCHANGED <<chains, announced, breaks, aside, pools>>

\* Close by p[1]: it reads no more; what it sent may still be read.
Closed(p) ==
    /\ end' = [end EXCEPT ![p] = "closed"]
    /\ wire' = [wire EXCEPT ![Back(p)] = <<>>]
    /\ UNCHANGED <<dials, breaks>>

\* A read error at p[1] because the other end closed, at once or after
\* whatever was still delivered.
HangUp(p) ==
    /\ end[p] # "closed" /\ end[Back(p)] = "closed"
    /\ Closed(p)
    /\ UNCHANGED <<chains, announced, aside, pools>>

Break(d) ==
    /\ breaks < MaxBreaks
    /\ end[d] # "closed" /\ end[Back(d)] # "closed"
    /\ breaks' = breaks + 1
    /\ end' = [end EXCEPT ![d] = "closed", ![Back(d)] = "closed"]
    /\ wire' = [wire EXCEPT ![d] = <<>>, ![Back(d)] = <<>>]
    /\ UNCHANGED <<chains, announced, dials, aside, pools>>
-----------------------------------------------------------------------------
(* The handlers.  p[1] reads the next message from p[2]. *)

Reads(p, type) ==
    /\ end[p] # "closed" /\ wire[Back(p)] # <<>>
    /\ wire[Back(p)][1].type = type

Items(p) == wire[Back(p)][1].items

Answers(p, out) == wire' = Exchanged(p, 1, out, <<>>) /\ UNCHANGED <<dials, breaks>>

\* StartSync: the tip, and genesis unless that is the tip.
StartSync(t) == Msg("getheaders", IF t = Genesis THEN <<t>> ELSE <<t, Genesis>>)

OnHelloAck(p) ==
    /\ Reads(p, "ack")
    /\ end' = [end EXCEPT ![p] = "open"]
    /\ Answers(p, <<StartSync(tip[p[1]])>>)
    /\ UNCHANGED <<chains, announced, aside, pools>>

\* Mutant: the batch begins one block too high.
BatchTooHigh(chain, locator) ==
    LET on == SelectSeq(locator, LAMBDA b : b \in ToSet(chain))
        start == IF on = <<>> THEN 0 ELSE Header[on[1]].height + 2
    IN  SubSeq(chain, start + 1, IF start + MaxCount < Len(chain)
                                 THEN start + MaxCount ELSE Len(chain))
\* The part of the chain above the first locator that is on it, or all of it,
\* as far as one message carries.
Batch(chain, locator) ==
    LET on == SelectSeq(locator, LAMBDA b : b \in ToSet(chain))
        start == IF on = <<>> THEN 0 ELSE Header[on[1]].height + 1
    IN  SubSeq(chain, start + 1, IF start + MaxCount < Len(chain)
                                 THEN start + MaxCount ELSE Len(chain))

OnGetHeaders(p) ==
    /\ Reads(p, "getheaders")
    /\ Answers(p, <<Msg("headers", Batch(Chain(p[1]), Items(p)))>>)
    /\ UNCHANGED <<chains, announced, end, aside, pools>>

\* HaveBlock, and get_transaction.
Has(n, item) == item \in stored[n] \cup pool[n]

\* GetData for the items that are missing, unless there are none.
Wanted(n, items) ==
    LET missing == SelectSeq(items, LAMBDA i : ~Has(n, i))
    IN  IF missing = <<>> THEN <<>> ELSE <<Msg("getdata", missing)>>

\* Mutant: after a batch more headers are asked for, also when it was empty.
OnHeadersAgain(p) ==
    LET n == p[1]
        Enter(I, b) == IF Accepts(I, b) THEN WithHeader(I, b) ELSE I
    IN  /\ Reads(p, "headers")
        /\ index' = [index EXCEPT ![n] = FoldLeft(Enter, index[n], Items(p))]
        /\ Answers(p, Wanted(n, Items(p)) \o <<StartSync(tip[n])>>)
        /\ UNCHANGED <<stored, tip, announced, end, aside, pools>>
\* Headers enter the index one by one; the first refusal closes the peer.
OnHeaders(p) ==
    LET n == p[1]
        Enter(r, b) == IF r.ok /\ Accepts(r.index, b)
                       THEN [r EXCEPT !.index = WithHeader(@, b)]
                       ELSE [r EXCEPT !.ok = FALSE]
        result == FoldLeft(Enter, [ok |-> TRUE, index |-> index[n]], Items(p))
    IN  /\ Reads(p, "headers")
        /\ index' = [index EXCEPT ![n] = result.index]
        /\ IF result.ok THEN Answers(p, Wanted(n, Items(p))) /\ UNCHANGED end
           ELSE Closed(p)
        /\ UNCHANGED <<stored, tip, announced, aside, pools>>

OnInv(p) ==
    /\ Reads(p, "inv")
    /\ Answers(p, Wanted(p[1], Items(p)))
    /\ UNCHANGED <<chains, announced, end, aside, pools>>

\* One Block or Tx message for each item it has, in the order asked for.
OnGetData(p) ==
    LET found == SelectSeq(Items(p), LAMBDA i : Has(p[1], i))
    IN  /\ Reads(p, "getdata")
        /\ Answers(p, [i \in DOMAIN found |-> Msg(IF found[i] \in Tx THEN "tx" ELSE "block", <<found[i]>>)])
        /\ UNCHANGED <<chains, announced, end, aside, pools>>

\* Mutant: a new block is kept to oneself.
AnnouncementForgotten(n, item) == IF item \in announced[n] \cup Block THEN <<>> ELSE <<Msg("inv", <<item>>)>>
\* AnnounceBlock and AnnounceTransaction: once for each, to the peers connected at
\* that moment.
Announcement(n, item) ==
    IF item \in announced[n] THEN <<>> ELSE <<Msg("inv", <<item>>)>>

OnBlock(p) ==
    LET n == p[1]
        b == Items(p)[1]
        isNew == b \notin stored[n]
    IN  /\ Reads(p, "block")
        /\ \/ /\ Accepts(index[n], b)
              /\ TakesBlock(n, b)
              /\ announced' = [announced EXCEPT ![n] = IF isNew THEN @ \cup {b} ELSE @]
              /\ wire' = Exchanged(p, 1, <<StartSync(tip'[n])>>,
                                   IF isNew THEN Announcement(n, b) ELSE <<>>)
              /\ UNCHANGED <<end, dials, breaks>>
           \/ /\ ~Accepts(index[n], b)
              /\ Closed(p)
              /\ UNCHANGED <<chains, announced>>
        /\ UNCHANGED <<aside, pools>>

\* Submit of a block found by a miner at n, relayed only if it is on the chain.
\* A block is found once.
Submit(n, b) ==
    /\ b \in scene.blocks /\ \E d \in scene.dials : n \in {d[1], d[2]}
    /\ \A m \in Node : b \notin stored[m]
    /\ Header[b].prev \in stored[n]
    /\ Accepts(index[n], b)
    /\ TakesBlock(n, b)
    /\ LET joined == b \in ToSet(Lineage[tip'[n]])
       IN  /\ announced' = [announced EXCEPT ![n] = IF joined THEN @ \cup {b} ELSE @]
           /\ wire' = Exchanged(<<n, n>>, 0, <<>>, IF joined THEN Announcement(n, b) ELSE <<>>)
           /\ aside' = (aside \/ ~joined)
    /\ UNCHANGED <<end, dials, breaks, pools>>
-----------------------------------------------------------------------------
(* Transactions. *)

\* accept_transaction: a pool keeps no orphans.
Admits(n, t) == t \notin pool[n] /\ Ancestors[t] \subseteq pool[n]
Enters(n, t) ==
    /\ pool' = [pool EXCEPT ![n] = @ \cup {t}]
    /\ announced' = [announced EXCEPT ![n] = @ \cup {t}]

\* Mutant: what a peer sent is not passed on.
OnTxKept(p) ==
    LET t == Items(p)[1]
    IN  /\ Reads(p, "tx")
        /\ pool' = [pool EXCEPT ![p[1]] = IF Admits(p[1], t) THEN @ \cup {t} ELSE @]
        /\ Answers(p, <<>>)
        /\ UNCHANGED <<chains, announced, end, aside, dropped, scene>>
\* What the pool refuses is forgotten, and the peer is not told.
OnTx(p) ==
    LET n == p[1]
        t == Items(p)[1]
    IN  /\ Reads(p, "tx")
        /\ IF Admits(n, t) THEN /\ Enters(n, t)
                                /\ wire' = Exchanged(p, 1, <<>>, Announcement(n, t))
           ELSE wire' = Exchanged(p, 1, <<>>, <<>>) /\ UNCHANGED <<pool, announced>>
        /\ UNCHANGED <<chains, end, dials, breaks, aside, dropped, scene>>

\* SendRawTransaction, and the end of SendToAddress.  Bound: each is sent once.
SendRawTransaction(n, t) ==
    /\ t \in scene.txs /\ \A m \in Node : t \notin announced[m]
    /\ \E d \in scene.dials : n \in {d[1], d[2]}
    /\ Admits(n, t) /\ Enters(n, t)
    /\ wire' = Exchanged(<<n, n>>, 0, <<>>, Announcement(n, t))
    /\ UNCHANGED <<chains, end, dials, breaks, aside, dropped, scene>>

\* Trim: a transaction leaves with what depends on it.  Bound: once.
Evict(n, t) ==
    LET gone == {u \in pool[n] : t \in {u} \cup Ancestors[u]}
    IN  /\ dropped = {} /\ t \in pool[n]
        /\ pool' = [pool EXCEPT ![n] = @ \ gone]
        /\ dropped' = gone
        /\ UNCHANGED <<chains, announced, links, aside, scene>>
-----------------------------------------------------------------------------
Receive(p) ==
    \/ OnHelloAck(p) \/ OnGetHeaders(p) \/ OnHeaders(p)
    \/ OnInv(p) \/ OnGetData(p) \/ OnBlock(p) \/ OnTx(p)

Next ==
    \/ \E n \in Node, b \in Block : Submit(n, b)
    \/ \E n \in Node, t \in Tx : SendRawTransaction(n, t) \/ Evict(n, t)
    \/ \E p \in Pair : Receive(p) \/ HangUp(p)
    \/ \E d \in Dials : Dial(d) \/ Break(d)

Silent == \A p \in Pair : wire[p] = <<>>

\* The event loops run: as long as there is something to read, steps are taken, and
\* all but finitely many of them are handlers.
Fairness == []<>Silent \/ []<><<TRUE>>_vars

Spec == Init /\ [][Next]_vars /\ Fairness
-----------------------------------------------------------------------------
Message == [type: {"ack", "getheaders", "headers", "inv", "getdata", "block", "tx"},
            items: Seq(Block \cup Tx)]

\* The state has its types, and a node stores the bodies of its active chain.
TypeOK ==
    /\ \A n \in Node : /\ IsIndex(index[n])
                       /\ tip[n] \in index[n].known
                       /\ ToSet(Chain(n)) \subseteq stored[n]
                       /\ stored[n] \subseteq index[n].known
                       /\ pool[n] \cup (announced[n] \ stored[n]) \subseteq Tx
    /\ end \in [Pair -> {"closed", "hailed", "open"}]
    /\ \A p \in Pair : \A i \in DOMAIN wire[p] : wire[p][i] \in Message
    /\ dials \in [Dials -> 0..MaxDials] /\ breaks \in 0..MaxBreaks /\ aside \in BOOLEAN

\* Every batch of headers on its way continues something its reader already
\* has, whatever either node did since the request: the handler of Headers,
\* which closes the peer at the first refusal, never closes an honest one.
HeadersConnect ==
    \A p \in Pair : \A i \in DOMAIN wire[p] :
        LET m == wire[p][i]
        IN  m.type = "headers" =>
            \A k \in DOMAIN m.items :
                IF k = 1 THEN m.items[1] = Genesis
                              \/ Header[m.items[1]].prev \in index[p[2]].known
                ELSE Header[m.items[k]].prev = m.items[k - 1]

\* A Block message whose parent is unknown closes the peer that sent it.  Two
\* honest nodes meet that case only if a miner's block was kept off the active
\* chain, and so was never announced, or if the sender is more than one batch
\* of headers ahead.
BlocksConnect ==
    \A p \in Pair :
        (end[p] # "closed" /\ Reads(p, "block") /\ ~Accepts(index[p[1]], Items(p)[1]))
            => aside \/ Header[Items(p)[1]].height > MaxCount + 1

\* An honest peer is not closed for what it sends, neither by the handler of
\* Headers nor by that of Block, outside the two cases BlocksConnect names.
HonestPeersStay == HeadersConnect /\ BlocksConnect

\* When nothing is left to be read, connected nodes agree on how much work the
\* best chain has, wherever the fork was and whatever was mined or cut off
\* during the exchange: no request is left unmade and no block untold.  A block
\* submitted to a node and kept off its active chain is never announced, so
\* histories with such a block are excepted.
SilenceIsAgreement ==
    ~aside /\ Silent =>
        \A d \in Dials : end[d] = "open" /\ end[Back(d)] = "open" =>
            index[d[1]].work[tip[d[1]]] = index[d[2]].work[tip[d[2]]]

\* When nothing is left to be read, two nodes that have been connected all along
\* hold the same transactions, whichever node each was sent to and over whichever
\* path it came.  A pool refuses a transaction whose parents it lacks, so this needs
\* every parent to arrive before its children.  An eviction anywhere excepts the
\* transaction and its descendants: it is announced once and not offered again.
SilenceIsOnePool ==
    Silent =>
        \A d \in Dials :
            end[d] = "open" /\ end[Back(d)] = "open" /\ scene.linked =>
                \A t \in Tx : ({t} \cup Ancestors[t]) \cap dropped = {} =>
                    (t \in pool[d[1]] <=> t \in pool[d[2]])

\* The exchange ends: every Block asks for headers again and every batch for
\* bodies, but once no more is mined, sent or broken the wires fall silent.
ExchangeEnds == <>[]Silent
=============================================================================

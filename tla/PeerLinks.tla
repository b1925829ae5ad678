----------------------------- MODULE PeerLinks -----------------------------
(***************************************************************************)
(* The connections of one PeerManager (net/peer_manager.cpp) and their     *)
(* handshakes (net/handshake.cpp), against peers that send anything, go    *)
(* away or fall silent: dialling, accepting, reading, writing, keepalive,  *)
(* reconnecting, scores and bans, the address book, Stop.                  *)
(*                                                                         *)
(* Every completion handler runs to its end on the event loop's thread and *)
(* is one step.  What the handlers do with headers, blocks and             *)
(* transactions is in PeerSync and Node; here such a message is "data",    *)
(* answered or not.  A write of a few bytes on a fresh socket completes at *)
(* once, so Hello and HelloAck are sent in the step that starts the write. *)
(***************************************************************************)
EXTENDS Integers, SequencesExt

CONSTANTS
    Host,        \* NetConfig::connect
    Caller,      \* endpoints that connect to this node
    Address,     \* network addresses that peers gossip
    MaxOutbound, MaxInbound,
    Penalty, BanThreshold,
    BookLimit,   \* the 1'000 of AddAddress
    AddrLimit,   \* the 1'000 the reader of an Addr message is given
    MaxConns,    \* bound: connections a manager ever makes
    MaxEvents    \* bound: announcements, messages and failures of peers

ASSUME LinksAssumption ==
    /\ MaxOutbound \in Nat /\ MaxInbound \in Nat /\ MaxConns \in Nat /\ MaxEvents \in Nat
    /\ Penalty \in Nat /\ BanThreshold \in Nat /\ Host \cap Caller = {}
    /\ BookLimit \in Nat \ {0} /\ AddrLimit \in Nat
    /\ IsFiniteSet(Host)

\* The two limits are written separately in the code, and have one value.
ASSUME BookAssumption == BookLimit <= AddrLimit

VARIABLES
    started,   \* "no", "yes", "stopped"
    conns,     \* connections, in the order they were made
    timers,    \* [Host -> reconnect timers that run]
    score,     \* misbehavior
    ban,       \* bans: "none", "active", or "expired" but not yet erased
    book,      \* addresses
    events     \* events so far

vars == <<started, conns, timers, score, ban, book, events>>
-----------------------------------------------------------------------------
(* One connection.  line is what its socket can do: "dialing", "up", "cut"   *)
(* (the other end is gone and the next read or write fails), "mute" (nothing *)
(* arrives and nothing fails) or "closed".                                   *)

Dialing(host, first) ==
    [peer |-> host, inbound |-> FALSE, first |-> first, line |-> "dialing",
     state |-> "AwaitingSendHello", reading |-> FALSE, queue |-> 0, writing |-> FALSE,
     connected |-> FALSE, pinged |-> FALSE, timer |-> "off", checked |-> FALSE, told |-> FALSE]
Accepted(endpoint) ==
    [Dialing(endpoint, TRUE) EXCEPT !.inbound = TRUE, !.line = "up", !.reading = TRUE]

Init ==
    /\ started = "no" /\ conns = <<>> /\ timers = [h \in Host |-> 0]
    /\ score = [e \in Host \cup Caller |-> 0]
    /\ ban = [e \in Host \cup Caller |-> "none"]
    /\ book = <<>> /\ events = 0

Live(i) == started = "yes" /\ i \in DOMAIN conns
Happens == events < MaxEvents /\ events' = events + 1

Closed(c) == [c EXCEPT !.line = "closed", !.connected = FALSE]
Told(c) == [c EXCEPT !.told = TRUE]
\* Send: a message joins the queue, and a write starts unless one is under way.
Sent(c) == [c EXCEPT !.queue = @ + 1, !.writing = TRUE]

\* Connection i becomes c, and on_disconnected_ is called `reports` times.  Only
\* the first connection to a configured host answers a report, with a timer.
Becomes(i, c, reports) ==
    /\ conns' = [conns EXCEPT ![i] = IF reports > 0 THEN Told(c) ELSE c]
    /\ timers' = IF ~c.inbound /\ c.first THEN [timers EXCEPT ![c.peer] = @ + reports] ELSE timers

-----------------------------------------------------------------------------
(* Dialling and accepting. *)

\* Start: one connection for each configured host, as far as the cap allows.
Start ==
    /\ started = "no" /\ started' = "yes"
    /\ \E hosts \in SetToSeqs(Host) :
          conns' = [i \in 1..(IF Len(hosts) < MaxOutbound THEN Len(hosts) ELSE MaxOutbound)
                        |-> Dialing(hosts[i], TRUE)]
    /\ UNCHANGED <<timers, score, ban, book, events>>

\* OnResolve and OnConnect fail, or SendHello does: reported, and nothing else
\* is pending.
DialFails(i) ==
    /\ Live(i) /\ conns[i].line = "dialing"
    /\ Happens
    /\ Becomes(i, [conns[i] EXCEPT !.line = "cut"], 1)
    /\ UNCHANGED <<started, score, ban, book>>

OnConnect(i) ==
    /\ Live(i) /\ conns[i].line = "dialing"
    /\ Becomes(i, [conns[i] EXCEPT !.line = "up", !.state = "AwaitingReceiveHello", !.reading = TRUE], 0)
    /\ UNCHANGED <<started, score, ban, book, events>>

\* The reconnect timer of a report: one more connection, beside the old one.
Reconnect(h) ==
    /\ started = "yes" /\ timers[h] > 0 /\ Len(conns) < MaxConns
    /\ timers' = [timers EXCEPT ![h] = @ - 1]
    /\ conns' = Append(conns, Dialing(h, FALSE))
    /\ UNCHANGED <<started, score, ban, book, events>>

\* IsBanned, which forgets a ban that has run out.
IsBanned(e) == ban[e] = "active"
Forgiven(e) ==
    /\ ban' = [ban EXCEPT ![e] = IF @ = "expired" THEN "none" ELSE @]
    /\ score' = [score EXCEPT ![e] = IF ban[e] = "expired" THEN 0 ELSE @]

\* Mutant: an endpoint is let in without a look at the bans.
AcceptUnchecked(e) ==
    /\ started = "yes" /\ Len(conns) < MaxConns
    /\ \A i \in DOMAIN conns : conns[i].peer = e => conns[i].line \in {"cut", "closed"}
    /\ conns' = IF Len(conns) >= MaxInbound + MaxOutbound THEN conns ELSE Append(conns, Accepted(e))
    /\ UNCHANGED <<started, timers, score, ban, book, events>>
\* The acceptor's handler.  An endpoint connects again once its earlier
\* connection is gone.
Accept(e) ==
    /\ started = "yes" /\ Len(conns) < MaxConns
    /\ \A i \in DOMAIN conns : conns[i].peer = e => conns[i].line \in {"cut", "closed"}
    /\ IF Len(conns) >= MaxInbound + MaxOutbound THEN UNCHANGED <<conns, ban, score>>
       ELSE /\ Forgiven(e)
            /\ conns' = IF IsBanned(e) THEN conns ELSE Append(conns, Accepted(e))
    /\ UNCHANGED <<started, timers, book, events>>

-----------------------------------------------------------------------------
(* What the network does. *)

Cut(i) ==
    /\ Live(i) /\ conns[i].line \in {"up", "mute"} /\ Happens
    /\ Becomes(i, [conns[i] EXCEPT !.line = "cut"], 0)
    /\ UNCHANGED <<started, score, ban, book>>

FallsMute(i) ==
    /\ Live(i) /\ conns[i].line = "up" /\ Happens
    /\ Becomes(i, [conns[i] EXCEPT !.line = "mute"], 0)
    /\ UNCHANGED <<started, score, ban, book>>

BanExpires(e) ==
    /\ ban[e] = "active" /\ ban' = [ban EXCEPT ![e] = "expired"]
    /\ UNCHANGED <<started, conns, timers, score, book, events>>

-----------------------------------------------------------------------------
(* Reading.  A message that arrives is handled and the next read is started, *)
(* on a socket that the handler may have closed.                             *)

Arrives(i) == Live(i) /\ conns[i].reading /\ conns[i].line = "up" /\ Happens

\* OnHeader or OnBody with an error.
ReadFails(i) ==
    /\ Live(i) /\ conns[i].reading /\ conns[i].line \in {"cut", "closed"}
    /\ Becomes(i, [conns[i] EXCEPT !.reading = FALSE], 1)
    /\ UNCHANGED <<started, score, ban, book, events>>

\* Bad magic, an oversized length or a framing error.
OnGarbage(i) ==
    /\ Arrives(i)
    /\ Becomes(i, Closed([conns[i] EXCEPT !.reading = FALSE]), 1)
    /\ UNCHANGED <<started, score, ban, book>>

\* Mutant: a Hello with this node's own nonce passes.
ReceiveHelloOfSelf(c, hello) ==
    IF hello.chain # "ours" \/ hello.version < 1 THEN [c EXCEPT !.state = "Failed"]
    ELSE [c EXCEPT !.state = "AwaitingReceiveHelloAck", !.checked = hello.nonce # "ours"]
\* Handshake::ReceiveHello, at any point of the conversation.  checked records
\* that the last Hello was of this network and not this node's own.
ReceiveHello(c, hello) ==
    IF hello.chain # "ours" \/ hello.nonce = "ours" \/ hello.version < 1
    THEN [c EXCEPT !.state = "Failed"]
    ELSE [c EXCEPT !.state = "AwaitingReceiveHelloAck", !.checked = TRUE]

OnHello(i) ==
    /\ Arrives(i)
    /\ \E hello \in [chain : {"ours", "other"}, nonce : {"ours", "other"}, version : {0, 1}] :
          LET c == ReceiveHello(conns[i], hello)
          IN  IF c.state = "Failed" THEN Becomes(i, Closed(c), 1) ELSE Becomes(i, c, 0)
    /\ UNCHANGED <<started, score, ban, book>>

\* StartKeepalive arms the one timer, cancelling its earlier wait.  on_connected_
\* sends GetHeaders, and GetAddr unless this is a reconnection.
OnHelloAck(i) ==
    LET c == conns[i]
        done == [c EXCEPT !.state = "Complete", !.connected = TRUE, !.timer = "idle"]
    IN  /\ Arrives(i)
        /\ IF c.state # "AwaitingReceiveHelloAck"
           THEN Becomes(i, Closed([c EXCEPT !.state = "Failed"]), 1)
           ELSE Becomes(i, IF c.first THEN Sent(Sent(done)) ELSE Sent(done), 0)
        /\ UNCHANGED <<started, score, ban, book>>

Heard(c) == [c EXCEPT !.pinged = FALSE]

\* Mutant: a handler that closes the peer ends the reading.
OnDataQuiet(i) ==
    /\ Arrives(i)
    /\ \/ Becomes(i, Heard(conns[i]), 0)
       \/ Becomes(i, Sent(Heard(conns[i])), 0)
       \/ Becomes(i, Closed([Heard(conns[i]) EXCEPT !.reading = FALSE]), 0)
    /\ UNCHANGED <<started, score, ban, book>>
\* Any other message: nothing to answer, an answer, or a refusal that closes the
\* peer without a report of its own.
OnData(i) ==
    /\ Arrives(i)
    /\ \/ Becomes(i, Heard(conns[i]), 0)
       \/ Becomes(i, Sent(Heard(conns[i])), 0)
       \/ Becomes(i, Closed(Heard(conns[i])), 0)
    /\ UNCHANGED <<started, score, ban, book>>

\* Score, for an Addr or GetAddr that does not parse, and Close.
OnBadAddr(i) ==
    LET e == conns[i].peer
    IN  /\ Arrives(i)
        /\ score' = [score EXCEPT ![e] = @ + Penalty]
        /\ ban' = [ban EXCEPT ![e] = IF score'[e] >= BanThreshold THEN "active" ELSE @]
        /\ Becomes(i, Closed(Heard(conns[i])), 0)
        /\ UNCHANGED <<started, book>>

\* AddAddress: new entries at the end, the oldest dropped at the limit.
AddAddress(known, a) ==
    IF a \in ToSet(known) THEN known
    ELSE Append(IF Len(known) >= BookLimit THEN Tail(known) ELSE known, a)

OnAddr(i) ==
    /\ Arrives(i)
    /\ \E a \in Address : book' = AddAddress(book, a)
    /\ Becomes(i, Heard(conns[i]), 0)
    /\ UNCHANGED <<started, score, ban>>

-----------------------------------------------------------------------------
(* Writing, keepalive, announcements, Stop. *)

\* The handler of WriteNext.  A failed message stays at the front of the queue.
OnWritten(i) ==
    LET c == conns[i]
    IN  /\ Live(i) /\ c.writing
        /\ IF c.line \in {"cut", "closed"} THEN Becomes(i, [c EXCEPT !.writing = FALSE], 1)
           ELSE Becomes(i, [c EXCEPT !.queue = @ - 1, !.writing = c.queue > 1], 0)
        /\ UNCHANGED <<started, score, ban, book, events>>

\* Mutant: a pong that is overdue starts the next round.
OnTimerPatient(i) ==
    LET c == conns[i]
    IN  /\ Live(i) /\ c.timer # "off"
        /\ IF ~c.connected THEN Becomes(i, [c EXCEPT !.timer = "off"], 0)
           ELSE IF c.timer = "idle"
           THEN Becomes(i, [(IF c.queue > 1 THEN c ELSE Sent(c)) EXCEPT !.pinged = TRUE, !.timer = "pong"], 0)
           ELSE Becomes(i, [c EXCEPT !.timer = "idle"], 0)
        /\ UNCHANGED <<started, score, ban, book, events>>
\* The two timers of StartKeepalive: 30 s to the next ping, 10 s for an answer.
\* Any message counts as the answer.
OnTimer(i) ==
    LET c == conns[i]
    IN  /\ Live(i) /\ c.timer # "off"
        /\ IF ~c.connected THEN Becomes(i, [c EXCEPT !.timer = "off"], 0)
           ELSE IF c.pinged THEN Becomes(i, Closed([c EXCEPT !.timer = "off"]), 1)
           ELSE IF c.timer = "idle"
           THEN Becomes(i, [Sent(c) EXCEPT !.pinged = TRUE, !.timer = "pong"], 0)
           ELSE Becomes(i, [c EXCEPT !.timer = "idle"], 0)
        /\ UNCHANGED <<started, score, ban, book, events>>

\* AnnounceBlock and AnnounceTransaction of something new.
Announce ==
    /\ started = "yes" /\ Happens
    /\ conns' = [i \in DOMAIN conns |-> IF conns[i].connected THEN Sent(conns[i]) ELSE conns[i]]
    /\ UNCHANGED <<started, timers, score, ban, book>>

\* Stop: the loop ends with every timer and every completion still to come.
Stop ==
    /\ started = "yes" /\ started' = "stopped"
    /\ conns' = <<>> /\ timers' = [h \in Host |-> 0]
    /\ UNCHANGED <<score, ban, book, events>>

-----------------------------------------------------------------------------
Handler(i) ==
    \/ DialFails(i) \/ OnConnect(i) \/ Cut(i) \/ FallsMute(i)
    \/ ReadFails(i) \/ OnGarbage(i) \/ OnHello(i) \/ OnHelloAck(i)
    \/ OnData(i) \/ OnBadAddr(i) \/ OnAddr(i) \/ OnWritten(i) \/ OnTimer(i)

Next ==
    \/ Start \/ Announce \/ Stop
    \/ \E i \in 1..MaxConns : Handler(i)
    \/ \E h \in Host : Reconnect(h)
    \/ \E e \in Caller : Accept(e)
    \/ \E e \in Host \cup Caller : BanExpires(e)

\* The event loop runs, so a completion that is due and a timer that has run
\* down are handled.
Fairness == \A i \in 1..MaxConns : WF_vars(OnTimer(i)) /\ WF_vars(OnWritten(i)) /\ WF_vars(ReadFails(i))
Spec == Init /\ [][Next]_vars /\ Fairness
-----------------------------------------------------------------------------
States == {"AwaitingSendHello", "AwaitingReceiveHello", "AwaitingReceiveHelloAck", "Complete", "Failed"}
Connection ==
    [peer : Host \cup Caller, inbound : BOOLEAN, first : BOOLEAN,
     line : {"dialing", "up", "cut", "mute", "closed"}, state : States,
     reading : BOOLEAN, queue : Nat, writing : BOOLEAN, connected : BOOLEAN, pinged : BOOLEAN,
     timer : {"off", "idle", "pong"}, checked : BOOLEAN, told : BOOLEAN]

\* The state has its types; what is being written is in the queue, and a
\* connection that counts as connected has its keepalive timer running.
TypeOK ==
    /\ started \in {"no", "yes", "stopped"}
    /\ \A i \in DOMAIN conns :
          /\ conns[i] \in Connection
          /\ conns[i].writing => conns[i].queue > 0
          /\ conns[i].connected => conns[i].timer # "off"
    /\ timers \in [Host -> Nat] /\ score \in [Host \cup Caller -> Nat]
    /\ ban \in [Host \cup Caller -> {"none", "active", "expired"}]
    /\ book \in Seq(Address) /\ events \in 0..MaxEvents

\* A connection counts as connected only after a Hello of this network that is
\* not this node's own, in whatever order Hello and HelloAck messages arrive and
\* however often: the last Hello read was a good one.
CheckedPeersOnly == \A i \in DOMAIN conns : conns[i].connected => conns[i].checked

\* The first connection to a configured host is never lost without a word: once
\* nothing more can happen on it, on_disconnected_ has been called and so a
\* reconnect timer was started, also when a handler closed it on its own.
NoSilentLoss ==
    \A i \in DOMAIN conns :
        /\ ~conns[i].inbound /\ conns[i].first
        /\ conns[i].line \in {"cut", "closed"} /\ ~conns[i].reading
        => conns[i].told

\* While a ban is in force the banned endpoint has no open inbound connection:
\* Score closes the one it misbehaved on and the acceptor lets no other in.
BannedStaysOut ==
    \A i \in DOMAIN conns :
        conns[i].inbound /\ IsBanned(conns[i].peer) => conns[i].line \in {"cut", "closed"}

\* Whoever this node talks to was let in by both gates: the handshake for a
\* connection that counts as connected, the ban list for one that came in.
OnlyAdmittedPeers == CheckedPeersOnly /\ BannedStaysOut

\* The answer to GetAddr, the whole book, is one its reader accepts: a longer one
\* would count as malformed and be scored against this node.
BookFitsMessage == Len(book) <= AddrLimit

\* A connected peer that goes away or falls silent is given up: the keepalive
\* timers close it whether or not a read or a write ever fails.
GoneIsGivenUp ==
    \A i \in 1..MaxConns :
        (i \in DOMAIN conns /\ conns[i].connected /\ conns[i].line \in {"cut", "mute"})
            ~> (i \in DOMAIN conns => ~conns[i].connected)
=============================================================================

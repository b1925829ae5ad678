-------------------------- MODULE PeerLinksProofs --------------------------
(***************************************************************************)
(* The invariants of PeerLinks hold for any number of hosts, callers and   *)
(* addresses, any limits, and any number of connections and events.        *)
(***************************************************************************)
EXTENDS PeerLinks, FiniteSetTheorems, TLAPS

Gone == {"cut", "closed"}

\* What holds of every connection by itself.  A handshake that has read a good
\* Hello is checked before it can complete.
Framed(c) ==
    /\ c \in Connection
    /\ c.writing => c.queue > 0
    /\ c.state = "AwaitingReceiveHelloAck" => c.checked
    /\ c.inbound => c.peer \in Caller /\ c.line # "dialing"
    /\ ~c.inbound => c.peer \in Host
Kept(c) ==
    /\ Framed(c)
    /\ c.connected => c.timer # "off" /\ c.checked
    /\ c.line \in {"up", "mute"} => c.reading

\* An open socket is being read, so its end is reported by the read that fails
\* unless a handler reported it.
Sound(c) == Kept(c) /\ (c.line \in Gone /\ ~c.reading => c.told)

Open(c) == c.inbound /\ c.line \notin Gone

\* An endpoint has one open inbound connection, and none while it is banned.
OneInbound(cs) ==
    \A i, j \in DOMAIN cs : Open(cs[i]) /\ Open(cs[j]) /\ cs[i].peer = cs[j].peer => i = j
Barred(cs, bans) == \A i \in DOMAIN cs : Open(cs[i]) => bans[cs[i].peer] # "active"

Links(cs, bans) ==
    /\ cs \in Seq(Connection) /\ \A i \in DOMAIN cs : Sound(cs[i])
    /\ OneInbound(cs) /\ Barred(cs, bans)

Ledger ==
    /\ started \in {"no", "yes", "stopped"} /\ events \in 0..MaxEvents
    /\ timers \in [Host -> Nat] /\ score \in [Host \cup Caller -> Nat]
    /\ ban \in [Host \cup Caller -> {"none", "active", "expired"}]
    /\ book \in Seq(Address) /\ Len(book) <= BookLimit

Inv == Links(conns, ban) /\ Ledger
-----------------------------------------------------------------------------
\* A connection just dialled.
LEMMA DialingSound ==
    ASSUME NEW h \in Host, NEW first \in BOOLEAN
    PROVE  Sound(Dialing(h, first)) /\ ~Open(Dialing(h, first))
BY DEF Sound, Kept, Framed, Dialing, Connection, States, Open, Gone

\* A connection just accepted.
LEMMA AcceptedSound == ASSUME NEW e \in Caller PROVE Sound(Accepted(e)) /\ Accepted(e).peer = e
<1> DEFINE d == Dialing(e, TRUE)
<1>1. /\ d \in Connection /\ d.peer = e /\ ~d.writing /\ ~d.connected
      /\ d.state = "AwaitingSendHello"
  BY DEF Dialing, Connection, States
<1> HIDE DEF d
<1>2. Accepted(e) = [d EXCEPT !.inbound = TRUE, !.line = "up", !.reading = TRUE]
  BY DEF Accepted, d
<1> QED BY <1>1, <1>2 DEF Sound, Kept, Framed, Connection, Gone

\* Replacing one connection by a sound one of the same peer that is open only if
\* the old one was.
LEMMA ReplaceKeeps ==
    ASSUME NEW cs, NEW bans, Links(cs, bans), NEW i \in DOMAIN cs, NEW c, Sound(c),
           c.peer = cs[i].peer, Open(c) => Open(cs[i])
    PROVE  Links([cs EXCEPT ![i] = c], bans)
<1> DEFINE ds == [cs EXCEPT ![i] = c]
<1>1. c \in Connection /\ cs \in Seq(Connection)
  BY DEF Sound, Kept, Framed, Links
<1>2. /\ ds \in Seq(Connection) /\ DOMAIN ds = DOMAIN cs
      /\ ds[i] = c /\ \A j \in DOMAIN cs : j # i => ds[j] = cs[j]
  BY <1>1
<1>3. \A j \in DOMAIN ds : Sound(ds[j]) /\ ds[j].peer = cs[j].peer /\ (Open(ds[j]) => Open(cs[j]))
  BY <1>2 DEF Links
<1> HIDE DEF ds
<1>4. OneInbound(ds) /\ Barred(ds, bans)
  BY <1>2, <1>3 DEF Links, OneInbound, Barred
<1> QED BY <1>2, <1>3, <1>4 DEF Links

\* A connection that joins the end, open only to an endpoint that is neither
\* banned nor connected.
LEMMA AppendKeeps ==
    ASSUME NEW cs, NEW bans, Links(cs, bans), NEW c, Sound(c),
           Open(c) => /\ bans[c.peer] # "active"
                      /\ \A i \in DOMAIN cs : cs[i].peer = c.peer => ~Open(cs[i])
    PROVE  Links(Append(cs, c), bans)
<1> DEFINE ds == Append(cs, c)
           n == Len(cs) + 1
<1>1. c \in Connection /\ cs \in Seq(Connection)
  BY DEF Sound, Kept, Framed, Links
<1>2. /\ ds \in Seq(Connection) /\ DOMAIN ds = 1..n /\ DOMAIN cs = 1..(n - 1) /\ n \in Nat
      /\ ds[n] = c /\ \A j \in DOMAIN cs : ds[j] = cs[j]
  BY <1>1
<1>3. \A j \in DOMAIN ds : j = n \/ j \in DOMAIN cs
  BY <1>2
<1> HIDE DEF ds, n
<1>4. \A j \in DOMAIN ds : Sound(ds[j])
  BY <1>2, <1>3 DEF Links
<1>5. OneInbound(ds) /\ Barred(ds, bans)
  BY <1>2, <1>3 DEF Links, OneInbound, Barred
<1> QED BY <1>2, <1>4, <1>5 DEF Links, ds

-----------------------------------------------------------------------------
\* The general shape of a completion handler: connection i becomes c.
LEMMA BecomesKeeps ==
    ASSUME Inv, NEW i \in DOMAIN conns, NEW c, NEW reports \in Nat, Becomes(i, c, reports),
           c \in Connection, Sound(IF reports > 0 THEN Told(c) ELSE c),
           c.peer = conns[i].peer, c.inbound = conns[i].inbound,
           c.inbound /\ c.line \notin Gone => conns[i].line \notin Gone
    PROVE  Links(conns', ban) /\ timers' \in [Host -> Nat]
<1> DEFINE d == IF reports > 0 THEN Told(c) ELSE c
<1>1. d.peer = c.peer /\ d.inbound = c.inbound /\ d.line = c.line
  BY DEF Told, Connection
<1>2. conns' = [conns EXCEPT ![i] = d]
  BY DEF Becomes
<1> HIDE DEF d
<1>3. Sound(d)
  BY DEF d
<1>4. Open(d) => Open(conns[i])
  BY <1>1 DEF Open
<1>5. Links(conns', ban)
  BY <1>1, <1>2, <1>3, <1>4, ReplaceKeeps DEF Inv
<1>6. ~c.inbound => c.peer \in Host
  BY <1>1, <1>3 DEF Sound, Kept, Framed
<1>7. timers' \in [Host -> Nat]
  BY <1>6 DEF Becomes, Inv, Ledger
<1> QED BY <1>5, <1>7

\* A report leaves nothing owing, and a closed connection owes only that.
LEMMA ToldSound == ASSUME NEW c, Kept(c) PROVE Sound(Told(c))
<1> DEFINE d == Told(c)
<1>1. /\ d \in Connection /\ d.told = TRUE /\ d.line = c.line /\ d.connected = c.connected /\ d.timer = c.timer
      /\ d.peer = c.peer /\ d.inbound = c.inbound /\ d.writing = c.writing /\ d.queue = c.queue
      /\ d.state = c.state /\ d.checked = c.checked /\ d.reading = c.reading
  BY ZenonT(60) DEF Kept, Framed, Told, Connection
<1> HIDE DEF d
<1>2. Sound(d)
  BY <1>1 DEF Sound, Kept, Framed
<1> QED BY <1>2 DEF d

\* Close ends the line, and the connection stays sound while its read is still pending.
LEMMA ClosedKept ==
    ASSUME NEW c, Framed(c)
    PROVE  /\ Kept(Closed(c)) /\ Closed(c).peer = c.peer /\ Closed(c).inbound = c.inbound
           /\ Closed(c).line \in Gone /\ (c.reading => Sound(Closed(c)))
<1> DEFINE d == Closed(c)
<1>1. /\ d \in Connection /\ d.line = "closed" /\ d.connected = FALSE
      /\ d.peer = c.peer /\ d.inbound = c.inbound /\ d.writing = c.writing /\ d.queue = c.queue
      /\ d.state = c.state /\ d.checked = c.checked /\ d.reading = c.reading
  BY ZenonT(60) DEF Framed, Closed, Connection
<1> HIDE DEF d
<1>2. Kept(d) /\ d.line \in Gone /\ (c.reading => Sound(d))
  BY <1>1 DEF Sound, Kept, Framed, Gone
<1> QED BY <1>1, <1>2 DEF d

\* Send queues a message and starts the writer.
LEMMA SentSound ==
    ASSUME NEW c, Sound(c)
    PROVE  /\ Sound(Sent(c)) /\ Sent(c).peer = c.peer /\ Sent(c).inbound = c.inbound /\ Sent(c).line = c.line
           /\ Sent(c).connected = c.connected /\ Sent(c).timer = c.timer
<1> DEFINE n == c.queue + 1
           d == [c EXCEPT !.queue = n, !.writing = TRUE]
<1>0. c \in Connection /\ n \in Nat /\ n > 0 /\ d = Sent(c)
  BY DEF Sound, Kept, Framed, Sent, Connection
<1> HIDE DEF n
<1>1. /\ d \in Connection /\ d.queue > 0 /\ d.line = c.line /\ d.connected = c.connected /\ d.timer = c.timer
      /\ d.peer = c.peer /\ d.inbound = c.inbound /\ d.told = c.told
      /\ d.state = c.state /\ d.checked = c.checked /\ d.reading = c.reading
  BY <1>0, ZenonT(60) DEF Connection
<1> HIDE DEF d
<1>2. Sound(d)
  BY <1>1 DEF Sound, Kept, Framed
<1> QED BY <1>0, <1>1, <1>2

\* Data from the peer answers the ping.
LEMMA HeardSound ==
    ASSUME NEW c, Sound(c)
    PROVE  /\ Sound(Heard(c)) /\ Heard(c).peer = c.peer /\ Heard(c).inbound = c.inbound
           /\ Heard(c).line = c.line /\ Heard(c).reading = c.reading
<1> DEFINE d == Heard(c)
<1>1. /\ d \in Connection /\ d.told = c.told /\ d.line = c.line /\ d.connected = c.connected /\ d.timer = c.timer
      /\ d.peer = c.peer /\ d.inbound = c.inbound /\ d.writing = c.writing /\ d.queue = c.queue
      /\ d.state = c.state /\ d.checked = c.checked /\ d.reading = c.reading
  BY ZenonT(60) DEF Sound, Kept, Framed, Heard, Connection
<1> HIDE DEF d
<1>2. Sound(d)
  BY <1>1 DEF Sound, Kept, Framed
<1> QED BY <1>1, <1>2 DEF d

\* Every completion handler, and every event of the network on a connection.
LEMMA HandlerKeeps == ASSUME Inv, NEW i \in 1..MaxConns, Handler(i) PROVE Inv'
<1> DEFINE c == conns[i]
           Rest == events' \in 0..MaxEvents /\ UNCHANGED <<started, score, ban, book>>
<1>0. Live(i) /\ i \in DOMAIN conns /\ Sound(c) /\ Framed(c) /\ c \in Connection
  BY DEF Inv, Links, Sound, Kept, Framed, Handler, DialFails, OnConnect, Cut, FallsMute, ReadFails, OnGarbage,
         OnHello, OnHelloAck, OnData, OnBadAddr, OnAddr, OnWritten, OnTimer, Arrives, Live
<1>e. Ledger /\ MaxEvents \in Nat /\ (Happens => events' \in 0..MaxEvents)
  BY LinksAssumption DEF Inv, Ledger, Happens
<1>q. ASSUME NEW d, Sound(d), Becomes(i, d, 0), d.peer = c.peer, d.inbound = c.inbound,
             d.line \in Gone \/ c.line \notin Gone, Rest
      PROVE  Inv'
  <2>1. d \in Connection
    BY <1>q DEF Sound, Kept, Framed
  <2>2. Links(conns', ban) /\ timers' \in [Host -> Nat]
    BY <1>0, <1>q, <2>1, BecomesKeeps
  <2> QED BY <2>2, <1>e, <1>q DEF Inv, Ledger
<1>r. ASSUME NEW d, Kept(d), Becomes(i, d, 1), d.peer = c.peer, d.inbound = c.inbound,
             d.line \in Gone \/ c.line \notin Gone, Rest
      PROVE  Inv'
  <2>1. d \in Connection /\ Sound(Told(d))
    BY <1>r, ToldSound DEF Kept, Framed
  <2>2. Links(conns', ban) /\ timers' \in [Host -> Nat]
    BY <1>0, <1>r, <2>1, BecomesKeeps
  <2> QED BY <2>2, <1>e, <1>r DEF Inv, Ledger
<1> HIDE DEF c
<1>1. CASE DialFails(i)
  <2> DEFINE d == [c EXCEPT !.line = "cut"]
  <2>1. Kept(d) /\ d.peer = c.peer /\ d.inbound = c.inbound /\ d.line \in Gone
    BY <1>0 DEF Sound, Kept, Framed, Connection, Gone
  <2>2. Becomes(i, d, 1) /\ Rest
    BY <1>1, <1>e DEF DialFails, c
  <2> HIDE DEF d
  <2> QED BY <2>1, <2>2, <1>r
<1>2. CASE OnConnect(i)
  <2> DEFINE d == [c EXCEPT !.line = "up", !.state = "AwaitingReceiveHello", !.reading = TRUE]
  <2>1. c.line = "dialing" /\ Becomes(i, d, 0) /\ Rest
    BY <1>2, <1>e DEF OnConnect, Ledger, c
  <2>2. Sound(d) /\ d.peer = c.peer /\ d.inbound = c.inbound /\ c.line \notin Gone
    BY <1>0, <2>1, ZenonT(60) DEF Sound, Kept, Framed, Connection, States, Gone
  <2> HIDE DEF d
  <2> QED BY <2>1, <2>2, <1>q
<1>3. CASE Cut(i)
  <2> DEFINE d == [c EXCEPT !.line = "cut"]
  <2>1. c.line \in {"up", "mute"} /\ Becomes(i, d, 0) /\ Rest
    BY <1>3, <1>e DEF Cut, c
  <2>2. Sound(d) /\ d.peer = c.peer /\ d.inbound = c.inbound /\ d.line \in Gone
    BY <1>0, <2>1 DEF Sound, Kept, Framed, Connection, Gone
  <2> HIDE DEF d
  <2> QED BY <2>1, <2>2, <1>q
<1>4. CASE FallsMute(i)
  <2> DEFINE d == [c EXCEPT !.line = "mute"]
  <2>1. c.line = "up" /\ Becomes(i, d, 0) /\ Rest
    BY <1>4, <1>e DEF FallsMute, c
  <2>2. Sound(d) /\ d.peer = c.peer /\ d.inbound = c.inbound /\ c.line \notin Gone
    BY <1>0, <2>1 DEF Sound, Kept, Framed, Connection, Gone
  <2> HIDE DEF d
  <2> QED BY <2>1, <2>2, <1>q
<1>5. CASE ReadFails(i)
  <2> DEFINE d == [c EXCEPT !.reading = FALSE]
  <2>1. c.line \in Gone /\ Becomes(i, d, 1) /\ Rest
    BY <1>5, <1>e DEF ReadFails, Ledger, Gone, c
  <2>2. Kept(d) /\ d.peer = c.peer /\ d.inbound = c.inbound /\ d.line \in Gone
    BY <1>0, <2>1, ZenonT(60) DEF Sound, Kept, Framed, Connection, Gone
  <2> HIDE DEF d
  <2> QED BY <2>1, <2>2, <1>r
<1>6. CASE OnGarbage(i)
  <2> DEFINE d == [c EXCEPT !.reading = FALSE]
  <2>1. Becomes(i, Closed(d), 1) /\ Rest
    BY <1>6, <1>e DEF OnGarbage, Arrives, c
  <2>2. Framed(d) /\ d.peer = c.peer /\ d.inbound = c.inbound
    BY <1>0, ZenonT(60) DEF Framed, Connection
  <2> HIDE DEF d
  <2> QED BY <2>1, <2>2, ClosedKept, <1>r
<1>7. CASE OnHello(i)
  <2> DEFINE bad == [c EXCEPT !.state = "Failed"]
             good == [c EXCEPT !.state = "AwaitingReceiveHelloAck", !.checked = TRUE]
  <2>1. c.line = "up" /\ c.line \notin Gone /\ Rest
    BY <1>7, <1>e DEF OnHello, Arrives, Gone, c
  <2>2. Framed(bad) /\ bad.peer = c.peer /\ bad.inbound = c.inbound /\ bad.state = "Failed"
    BY <1>0 DEF Framed, Connection, States
  <2>3. Sound(good) /\ good.peer = c.peer /\ good.inbound = c.inbound /\ good.line = c.line /\ good.state # "Failed"
    BY <1>0, <2>1, ZenonT(60) DEF Sound, Kept, Framed, Connection, States, Gone
  <2> HIDE DEF bad, good
  <2>4. \A hello : ReceiveHello(c, hello) \in {bad, good}
    BY DEF ReceiveHello, bad, good
  <2>5. Becomes(i, Closed(bad), 1) \/ Becomes(i, good, 0)
    BY <1>7, <2>2, <2>3, <2>4 DEF OnHello, c
  <2> QED BY <2>1, <2>2, <2>3, <2>5, ClosedKept, <1>q, <1>r
<1>8. CASE OnHelloAck(i)
  <2> DEFINE bad == [c EXCEPT !.state = "Failed"]
             done == [c EXCEPT !.state = "Complete", !.connected = TRUE, !.timer = "idle"]
  <2>1. c.line = "up" /\ c.line \notin Gone /\ Rest
    BY <1>8, <1>e DEF OnHelloAck, Arrives, Gone, c
  <2>2. Framed(bad) /\ bad.peer = c.peer /\ bad.inbound = c.inbound
    BY <1>0 DEF Framed, Connection, States
  <2>3. CASE c.state # "AwaitingReceiveHelloAck"
    <3>1. Becomes(i, Closed(bad), 1)
      BY <1>8, <2>3 DEF OnHelloAck, c
    <3> HIDE DEF bad
    <3> QED BY <2>1, <2>2, <3>1, ClosedKept, <1>r
  <2>4. CASE c.state = "AwaitingReceiveHelloAck"
    <3>1. Sound(done) /\ done.peer = c.peer /\ done.inbound = c.inbound /\ done.line = c.line
      BY <1>0, <2>4, ZenonT(60) DEF Sound, Kept, Framed, Connection, States
    <3>2. Becomes(i, Sent(Sent(done)), 0) \/ Becomes(i, Sent(done), 0)
      BY <1>8, <2>4 DEF OnHelloAck, c
    <3> HIDE DEF done
    <3> QED BY <2>1, <3>1, <3>2, SentSound, <1>q
  <2> QED BY <2>3, <2>4
<1>9. CASE OnData(i)
  <2> DEFINE d == Heard(c)
  <2>1. c.line \notin Gone /\ c.reading /\ Rest
    BY <1>9, <1>e DEF OnData, Arrives, Gone, c
  <2>2. Sound(d) /\ Framed(d) /\ d.peer = c.peer /\ d.inbound = c.inbound /\ d.line = c.line /\ d.reading
    BY <1>0, <2>1, HeardSound DEF Sound, Kept
  <2>3. Becomes(i, d, 0) \/ Becomes(i, Sent(d), 0) \/ Becomes(i, Closed(d), 0)
    BY <1>9 DEF OnData, c
  <2> HIDE DEF d
  <2> QED BY <2>1, <2>2, <2>3, SentSound, ClosedKept, <1>q
<1>10. CASE OnBadAddr(i)
  <2> DEFINE d == Closed(Heard(c))
             e == c.peer
  <2>1. /\ c.line = "up" /\ c.reading /\ Becomes(i, d, 0) /\ events' \in 0..MaxEvents
        /\ UNCHANGED <<started, book>>
        /\ score' = [score EXCEPT ![e] = @ + Penalty]
        /\ ban' = [ban EXCEPT ![e] = IF score'[e] >= BanThreshold THEN "active" ELSE @]
    BY <1>10, <1>e DEF OnBadAddr, Arrives, c
  <2>2. Sound(d) /\ d.peer = e /\ d.inbound = c.inbound /\ d.line \in Gone /\ d \in Connection
    BY <1>0, <2>1, HeardSound, ClosedKept DEF Sound, Kept, Framed
  <2> HIDE DEF d
  <2>3. Links(conns', ban) /\ timers' \in [Host -> Nat]
    BY <1>0, <2>1, <2>2, BecomesKeeps DEF c
  <2>4. e \in Host \cup Caller
    BY <1>0 DEF Framed
  <2>5. /\ score' \in [Host \cup Caller -> Nat] /\ ban' \in [Host \cup Caller -> {"none", "active", "expired"}]
        /\ \A f \in Host \cup Caller : f # e => ban'[f] = ban[f]
    BY <1>e, <2>1, <2>4, LinksAssumption DEF Ledger
  <2>6. conns' = [conns EXCEPT ![i] = d] /\ DOMAIN conns' = DOMAIN conns
    BY <2>1 DEF Becomes
  <2>7. ASSUME NEW j \in DOMAIN conns', Open(conns'[j]) PROVE conns'[j].peer # e /\ conns'[j].peer \in Host \cup Caller
    <3>1. j # i /\ conns'[j] = conns[j] /\ Open(conns[j]) /\ j \in DOMAIN conns /\ Sound(conns[j])
      BY <2>2, <2>6, <2>7, <1>0 DEF Open, Inv, Links
    <3>2. CASE c.inbound
      BY <3>1, <3>2, <2>1, <1>0 DEF Inv, Links, OneInbound, Open, Gone, c, Sound, Kept, Framed
    <3>3. CASE ~c.inbound
      BY <3>1, <3>3, <1>0, LinksAssumption DEF Sound, Kept, Framed, Open
    <3> QED BY <3>2, <3>3
  <2>8. Links(conns', ban')
    BY <2>3, <2>5, <2>7 DEF Links, Barred
  <2> QED BY <2>1, <2>3, <2>5, <2>8, <1>e DEF Inv, Ledger
<1>11. CASE OnAddr(i)
  <2>1. c.line \notin Gone /\ Becomes(i, Heard(c), 0) /\ events' \in 0..MaxEvents /\ UNCHANGED <<started, score, ban>>
    BY <1>11, <1>e DEF OnAddr, Arrives, Gone, c
  <2>2. Sound(Heard(c)) /\ Heard(c).peer = c.peer /\ Heard(c).inbound = c.inbound /\ Heard(c).line = c.line /\ Heard(c) \in Connection
    BY <1>0, HeardSound DEF Sound, Kept, Framed
  <2>3. Links(conns', ban) /\ timers' \in [Host -> Nat]
    BY <1>0, <2>1, <2>2, BecomesKeeps DEF c
  <2>4. PICK a \in Address : book' = AddAddress(book, a)
    BY <1>11 DEF OnAddr
  <2>5. book' \in Seq(Address) /\ Len(book') <= BookLimit
    BY <2>4, <1>e, LinksAssumption DEF Ledger, AddAddress
  <2> QED BY <2>1, <2>3, <2>5, <1>e DEF Inv, Ledger
<1>12. CASE OnWritten(i)
  <2> DEFINE lost == [c EXCEPT !.writing = FALSE]
             left == c.queue - 1
             more == c.queue > 1
             sent == [c EXCEPT !.queue = left, !.writing = more]
  <2>1. c.writing /\ Rest /\ IF c.line \in Gone THEN Becomes(i, lost, 1) ELSE Becomes(i, sent, 0)
    BY <1>12, <1>e DEF OnWritten, Ledger, Gone, c
  <2>2. Kept(lost) /\ lost.peer = c.peer /\ lost.inbound = c.inbound /\ lost.line = c.line
    BY <1>0, ZenonT(60) DEF Sound, Kept, Framed, Connection
  <2>3. left \in Nat /\ more \in BOOLEAN /\ (more => left > 0)
    BY <1>0, <2>1 DEF Framed, Connection
  <2> HIDE DEF left, more
  <2>4. /\ sent \in Connection /\ sent.queue = left /\ sent.writing = more
        /\ sent.peer = c.peer /\ sent.inbound = c.inbound /\ sent.line = c.line /\ sent.told = c.told
        /\ sent.state = c.state /\ sent.checked = c.checked /\ sent.reading = c.reading
        /\ sent.connected = c.connected /\ sent.timer = c.timer
    BY <1>0, <2>3, ZenonT(60) DEF Connection
  <2> HIDE DEF lost, sent
  <2>5. Sound(sent)
    BY <1>0, <2>3, <2>4 DEF Sound, Kept, Framed
  <2> QED BY <2>1, <2>2, <2>4, <2>5, <1>q, <1>r
<1>13. CASE OnTimer(i)
  <2> DEFINE off == [c EXCEPT !.timer = "off"]
             pinged == [Sent(c) EXCEPT !.pinged = TRUE, !.timer = "pong"]
             idle == [c EXCEPT !.timer = "idle"]
  <2>1. Rest
    BY <1>13, <1>e DEF OnTimer, Ledger
  <2>2. \/ ~c.connected /\ Becomes(i, off, 0)
        \/ Becomes(i, Closed(off), 1)
        \/ Becomes(i, pinged, 0)
        \/ Becomes(i, idle, 0)
    BY <1>13 DEF OnTimer, c
  <2>3. Framed(off) /\ off.peer = c.peer /\ off.inbound = c.inbound /\ off.line = c.line /\ (~c.connected => Sound(off))
    BY <1>0 DEF Sound, Kept, Framed, Connection
  <2>4. Sound(idle) /\ idle.peer = c.peer /\ idle.inbound = c.inbound /\ idle.line = c.line
    BY <1>0 DEF Sound, Kept, Framed, Connection
  <2>5. Sound(pinged) /\ pinged.peer = c.peer /\ pinged.inbound = c.inbound /\ pinged.line = c.line
    <3> DEFINE d == Sent(c)
    <3>1. Sound(d) /\ d.peer = c.peer /\ d.inbound = c.inbound /\ d.line = c.line
      BY <1>0, SentSound
    <3> HIDE DEF d
    <3>2. LET t == [d EXCEPT !.pinged = TRUE, !.timer = "pong"]
          IN  Sound(t) /\ t.peer = c.peer /\ t.inbound = c.inbound /\ t.line = c.line
      BY <3>1, ZenonT(60) DEF Sound, Kept, Framed, Connection
    <3> QED BY <3>2 DEF d
  <2> HIDE DEF off, pinged, idle
  <2>6. CASE ~c.connected /\ Becomes(i, off, 0)
    BY <2>1, <2>3, <2>6, <1>q
  <2>7. CASE Becomes(i, Closed(off), 1)
    BY <2>1, <2>3, <2>7, ClosedKept, <1>r
  <2> QED BY <2>1, <2>2, <2>4, <2>5, <2>6, <2>7, <1>q
<1> QED BY <1>1, <1>2, <1>3, <1>4, <1>5, <1>6, <1>7, <1>8, <1>9, <1>10, <1>11, <1>12, <1>13 DEF Handler
-----------------------------------------------------------------------------
\* A node that has not started.
LEMMA InitInv == Init => Inv
<1> SUFFICES ASSUME Init PROVE Inv
  OBVIOUS
<1>1. Links(conns, ban)
  BY DEF Init, Links, OneInbound, Barred
<1>2. Ledger
  BY LinksAssumption DEF Init, Ledger
<1> QED BY <1>1, <1>2 DEF Inv

\* Start dials the configured hosts as far as the cap allows.
LEMMA StartKeeps == Inv /\ Start => Inv'
<1> SUFFICES ASSUME Inv, Start PROVE Inv'
  OBVIOUS
<1>1. PICK hosts \in SetToSeqs(Host) :
        conns' = [i \in 1..(IF Len(hosts) < MaxOutbound THEN Len(hosts) ELSE MaxOutbound)
                      |-> Dialing(hosts[i], TRUE)]
  BY DEF Start
<1> DEFINE n == IF Len(hosts) < MaxOutbound THEN Len(hosts) ELSE MaxOutbound
<1>2. Cardinality(Host) \in Nat
  BY LinksAssumption, FS_CardinalityType
<1>3. hosts \in Seq(Host)
  BY <1>2 DEF SetToSeqs
<1>4. n \in Nat /\ \A i \in 1..n : hosts[i] \in Host
  BY <1>3, LinksAssumption
<1> HIDE DEF n
<1>5. DOMAIN conns' = 1..n /\ \A i \in 1..n : Sound(conns'[i]) /\ ~Open(conns'[i]) /\ conns'[i] \in Connection
  BY <1>1, <1>4, DialingSound DEF n, Sound, Kept, Framed
<1>6. conns' \in Seq(Connection)
  <2>1. conns' = [i \in 1..n |-> conns'[i]]
    BY <1>1 DEF n
  <2> QED BY <2>1, <1>4, <1>5
<1>7. Links(conns', ban)
  BY <1>5, <1>6 DEF Links, OneInbound, Barred
<1> QED BY <1>7 DEF Inv, Ledger, Start

\* Announcing sends to every connected peer.
LEMMA AnnounceKeeps == Inv /\ Announce => Inv'
<1> SUFFICES ASSUME Inv, Announce PROVE Inv'
  OBVIOUS
<1>1. /\ conns' = [i \in DOMAIN conns |-> IF conns[i].connected THEN Sent(conns[i]) ELSE conns[i]]
      /\ UNCHANGED <<started, timers, score, ban, book>> /\ events' \in 0..MaxEvents
  BY LinksAssumption DEF Announce, Happens, Inv, Ledger
<1>2. conns \in Seq(Connection) /\ \A i \in DOMAIN conns : Sound(conns[i])
  BY DEF Inv, Links
<1>3. /\ DOMAIN conns' = DOMAIN conns
      /\ \A i \in DOMAIN conns : /\ Sound(conns'[i]) /\ conns'[i].peer = conns[i].peer
                                 /\ conns'[i].inbound = conns[i].inbound /\ conns'[i].line = conns[i].line
  BY <1>1, <1>2, SentSound
<1>4. \A i \in DOMAIN conns : conns'[i] \in Connection /\ (Open(conns'[i]) <=> Open(conns[i]))
  BY <1>3 DEF Sound, Kept, Framed, Open
<1>5. conns' \in Seq(Connection)
  <2>1. conns' = [i \in 1..Len(conns) |-> conns'[i]] /\ Len(conns) \in Nat
    BY <1>1, <1>2
  <2> QED BY <2>1, <1>4, <1>2
<1>6. OneInbound(conns')
  BY <1>3, <1>4 DEF Inv, Links, OneInbound
<1>7. Barred(conns', ban)
  BY <1>3, <1>4 DEF Inv, Links, Barred
<1> QED BY <1>1, <1>3, <1>5, <1>6, <1>7 DEF Inv, Ledger, Links

\* Accept adds a connection or turns the caller away.
LEMMA AcceptKeeps == ASSUME Inv, NEW e \in Caller, Accept(e) PROVE Inv'
<1>1. CASE Len(conns) >= MaxInbound + MaxOutbound
  BY <1>1 DEF Accept, Inv, Ledger
<1>2. CASE ~(Len(conns) >= MaxInbound + MaxOutbound)
  <2>1. /\ Forgiven(e) /\ conns' = (IF IsBanned(e) THEN conns ELSE Append(conns, Accepted(e)))
        /\ UNCHANGED <<started, timers, book, events>>
        /\ \A i \in DOMAIN conns : conns[i].peer = e => conns[i].line \in Gone
    BY <1>2 DEF Accept, Gone
  <2>2. /\ ban' \in [Host \cup Caller -> {"none", "active", "expired"}] /\ score' \in [Host \cup Caller -> Nat]
        /\ \A f \in Host \cup Caller : ban'[f] = "active" => ban[f] = "active"
    BY <2>1 DEF Forgiven, Inv, Ledger
  <2>3. Links(conns, ban')
    BY <2>2 DEF Inv, Links, Barred, Sound, Kept, Framed, Connection
  <2>4. ~IsBanned(e) => Links(Append(conns, Accepted(e)), ban')
    BY <2>1, <2>2, <2>3, AcceptedSound, AppendKeeps DEF IsBanned, Open
  <2> QED BY <2>1, <2>2, <2>3, <2>4 DEF Inv, Ledger
<1> QED BY <1>1, <1>2

\* The invariant is inductive.
LEMMA NextInv == Inv /\ [Next]_vars => Inv'
<1> SUFFICES ASSUME Inv, [Next]_vars PROVE Inv'
  OBVIOUS
<1>1. CASE \E h \in Host : Reconnect(h)
  <2> PICK h \in Host : Reconnect(h)
    BY <1>1
  <2>1. Links(Append(conns, Dialing(h, FALSE)), ban)
    BY DialingSound, AppendKeeps DEF Inv
  <2>2. timers' \in [Host -> Nat]
    BY DEF Reconnect, Inv, Ledger
  <2> QED BY <2>1, <2>2 DEF Reconnect, Inv, Ledger
<1>2. CASE \E e \in Host \cup Caller : BanExpires(e)
  <2> PICK e \in Host \cup Caller : BanExpires(e)
    BY <1>2
  <2>1. \A f \in Host \cup Caller : ban'[f] = "active" => ban[f] = "active"
    BY DEF BanExpires, Inv, Ledger
  <2>2. Links(conns, ban')
    BY <2>1 DEF Inv, Links, Barred, Sound, Kept, Framed, Connection
  <2>3. ban' \in [Host \cup Caller -> {"none", "active", "expired"}]
    BY DEF BanExpires, Inv, Ledger
  <2> QED BY <2>2, <2>3 DEF BanExpires, Inv, Ledger
<1>3. CASE Stop
  BY <1>3 DEF Stop, Inv, Ledger, Links, OneInbound, Barred
<1>4. CASE UNCHANGED vars
  BY <1>4 DEF vars, Inv, Ledger
<1> QED BY <1>1, <1>2, <1>3, <1>4, StartKeeps, AnnounceKeeps, HandlerKeeps, AcceptKeeps DEF Next

\* The inductive invariant: every connection is sound by itself, an endpoint has
\* at most one open inbound connection and none while it is banned, and the book
\* is within its limit.
THEOREM LinksInvariant == Spec => []Inv
BY InitInv, NextInv, PTL DEF Spec

\* The handshake and the acceptor admit nobody they should not: a connected peer
\* was checked, and a ban keeps its endpoint out, for any number of hosts, callers,
\* connections and events.
THEOREM PeersAreAdmitted == Spec => []OnlyAdmittedPeers
<1>1. Inv => CheckedPeersOnly
  BY DEF Inv, Links, CheckedPeersOnly, Sound, Kept
<1>2. Inv => BannedStaysOut
  BY DEF Inv, Links, Barred, BannedStaysOut, IsBanned, Open, Gone
<1> QED BY <1>1, <1>2, LinksInvariant, PTL DEF OnlyAdmittedPeers

\* However a first connection ends (a failed read or write, a handler that closes
\* it, the keepalive timer), on_disconnected_ has been called by then.
THEOREM LossIsAlwaysTold == Spec => []NoSilentLoss
<1>1. Inv => NoSilentLoss
  BY DEF Inv, Links, NoSilentLoss, Sound, Kept, Gone
<1> QED BY <1>1, LinksInvariant, PTL

\* AddAddress keeps the book within what one Addr message may carry.
THEOREM BookAlwaysFits == Spec => []BookFitsMessage
<1>1. Inv => BookFitsMessage
  BY BookAssumption, LinksAssumption DEF Inv, Ledger, BookFitsMessage
<1> QED BY <1>1, LinksInvariant, PTL

\* Every variable of the connections keeps its type.
THEOREM LinksType == Spec => []TypeOK
<1>1. Inv => TypeOK
  BY DEF Inv, Links, Ledger, TypeOK, Sound, Kept, Framed
<1> QED BY <1>1, LinksInvariant, PTL
=============================================================================

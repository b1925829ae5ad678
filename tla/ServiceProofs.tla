--------------------------- MODULE ServiceProofs ---------------------------
(***************************************************************************)
(* The count of connections is exact for any number of them and any limit, *)
(* and addresses are handed out once for any number of seeds, addresses    *)
(* and runs, as long as the tool is not run beside the daemon.             *)
(***************************************************************************)
EXTENDS Service, FiniteSetTheorems, TLAPS

Record ==
    [op : {"none", "reading", "got", "failed", "busy", "writing", "wrote"},
     timer : {"none", "armed", "due", "aborted"}, sock : {"open", "closed"},
     buffer : {"empty", "part", "whole", "malformed"}, token : Nat,
     method : Methods \cup {"none", "query"}]

Up(cs) == {c \in Connections : Live(cs[c])}

\* The loop is inside one handler at a time, and only while it runs.
ServerInv ==
    /\ conn \in [Connections -> Record] /\ token \in Nat
    /\ open = Cardinality(Up(conn)) /\ open <= MaxConnections
    /\ phase \in {"binding", "serving"} => cookie = token
    /\ \A c \in Connections : conn[c].op = "busy" => phase = "serving"
    /\ \A c, d \in Connections : conn[c].op = "busy" /\ conn[d].op = "busy" => c = d
Serving == ServerInv /\ has_wallet \in BOOLEAN

\* No handler enters Dispatch.
NoNewCall ==
    \A d \in Connections : conn'[d].op = "busy" => conn[d].op = "busy" /\ conn'[d].method = conn[d].method

-----------------------------------------------------------------------------
(* The connections *)

\* What no operation refers to is a record, and does not exist.
LEMMA GoneRecord == Gone \in Record /\ ~Live(Gone) /\ Gone.op = "none"
BY DEF Gone, Record, Live, NoToken

\* There are finitely many connections.
LEMMA UpFinite == ASSUME NEW cs PROVE IsFiniteSet(Up(cs)) /\ Cardinality(Up(cs)) \in Nat
<1>1. Up(cs) \in SUBSET Connections
  BY DEF Up
<1> QED BY <1>1, LimitAssumption, FS_Subset, FS_CardinalityType

\* Closing a connection leaves it a record and starts no handler.
LEMMA ClosedRecord ==
    ASSUME NEW k \in Record
    PROVE  Closed(k) \in Record /\ (Closed(k).op = "busy" => k.op = "busy")
BY Zenon DEF Closed, Record

\* Answering one ends its handler.
LEMMA AnsweredRecord ==
    ASSUME NEW k \in Record
    PROVE  Answered(k) \in Record /\ Answered(k).op # "busy"
BY DEF Answered, Record

\* A handler that returns keeps the count right: the connection stays, or goes.
LEMMA LeaveInv ==
    ASSUME ServerInv, NEW c \in Connections, NEW k \in Record, k.op # "busy",
           Live(conn[c]), Leave(c, k), UNCHANGED <<phase, token, cookie>>
    PROVE  ServerInv' /\ NoNewCall /\ conn'[c].op # "busy"
<1> DEFINE new == IF Live(k) THEN k ELSE Gone
<1>1. new \in Record /\ new.op # "busy" /\ (Live(new) <=> Live(k))
  BY GoneRecord
<1>2. conn' = [conn EXCEPT ![c] = new] /\ open' = IF Live(k) THEN open ELSE open - 1
  BY DEF Leave
<1> HIDE DEF new
<1>3. conn' \in [Connections -> Record] /\ conn'[c] = new
      /\ \A d \in Connections : d # c => conn'[d] = conn[d]
  BY <1>1, <1>2 DEF ServerInv
<1>4. open' = Cardinality(Up(conn')) /\ open' <= MaxConnections
  <2>0. open = Cardinality(Up(conn)) /\ open \in Nat /\ open <= MaxConnections /\ MaxConnections \in Nat
    BY UpFinite, LimitAssumption DEF ServerInv
  <2>1. CASE Live(k)
    <3>1. Up(conn') = Up(conn)
      BY <1>1, <1>3, <2>1 DEF Up
    <3> QED BY <1>2, <2>0, <2>1, <3>1
  <2>2. CASE ~Live(k)
    <3>1. Up(conn') = Up(conn) \ {c} /\ c \in Up(conn)
      BY <1>1, <1>3, <2>2 DEF Up
    <3>2. Cardinality(Up(conn')) = Cardinality(Up(conn)) - 1
      BY <3>1, UpFinite, FS_RemoveElement, Zenon
    <3> QED BY <1>2, <2>0, <2>2, <3>2
  <2> QED BY <2>1, <2>2
<1>5. NoNewCall /\ conn'[c].op # "busy"
  BY <1>1, <1>3 DEF NoNewCall
<1> QED BY <1>3, <1>4, <1>5 DEF ServerInv, NoNewCall

\* So does the network or the clock, which completes an operation.
LEMMA CompletesInv ==
    ASSUME ServerInv, NEW c \in Connections, NEW k \in Record, Live(k), Live(conn[c]),
           k.op = "busy" => conn[c].op = "busy" /\ k.method = conn[c].method, Completes(c, k)
    PROVE  ServerInv' /\ NoNewCall
<1>1. conn' = [conn EXCEPT ![c] = k] /\ UNCHANGED <<phase, token, cookie, open>>
  BY DEF Completes
<1>2. conn' \in [Connections -> Record] /\ conn'[c] = k
      /\ \A d \in Connections : d # c => conn'[d] = conn[d]
  BY <1>1 DEF ServerInv
<1>3. Up(conn') = Up(conn)
  BY <1>2 DEF Up
<1>4. NoNewCall
  BY <1>2 DEF NoNewCall
<1> QED BY <1>1, <1>2, <1>3, <1>4 DEF ServerInv, NoNewCall

\* A new connection is counted.
LEMMA AcceptInv ==
    ASSUME ServerInv, NEW c \in Connections, NEW credential \in Nat, NEW method \in Methods \cup {"query"},
           Accept(c, credential, method)
    PROVE  ServerInv' /\ NoNewCall
<1> DEFINE new == [op |-> "reading", timer |-> "armed", sock |-> "open",
                   buffer |-> "empty", token |-> credential, method |-> method]
<1>1. new \in Record /\ new.op # "busy" /\ Live(new)
  BY DEF Record, Live
<1>2. conn' = [conn EXCEPT ![c] = new] /\ open' = open + 1 /\ UNCHANGED <<phase, token, cookie>>
      /\ ~Live(conn[c]) /\ open < MaxConnections
  BY DEF Accept
<1> HIDE DEF new
<1>3. conn' \in [Connections -> Record] /\ conn'[c] = new
      /\ \A d \in Connections : d # c => conn'[d] = conn[d]
  BY <1>1, <1>2 DEF ServerInv
<1>4. Up(conn') = Up(conn) \cup {c} /\ c \notin Up(conn)
  BY <1>1, <1>2, <1>3 DEF Up
<1>5. Cardinality(Up(conn')) = Cardinality(Up(conn)) + 1
  BY <1>4, UpFinite, FS_AddElement, Zenon
<1>6. open' = Cardinality(Up(conn')) /\ open' <= MaxConnections
  BY <1>2, <1>5, UpFinite, LimitAssumption DEF ServerInv
<1>7. NoNewCall
  BY <1>1, <1>3 DEF NoNewCall
<1> QED BY <1>2, <1>3, <1>6, <1>7 DEF ServerInv, NoNewCall

\* A handler enters Dispatch, alone.
LEMMA EnterInv ==
    ASSUME ServerInv, NEW c \in Connections, NEW method \in Methods \cup {"none", "query"},
           Enter(c, method)
    PROVE  /\ ServerInv' /\ conn'[c].method = method
           /\ \A d \in Connections : conn'[d].op = "busy" => d = c
<1> DEFINE new == [conn[c] EXCEPT !.op = "busy", !.method = method]
<1>1. conn[c] \in Record /\ conn[c].op = "got" /\ phase = "serving"
      /\ \A d \in Connections : conn[d].op # "busy"
  BY DEF Enter, Free, ServerInv
<1>2. new \in Record /\ new.op = "busy" /\ new.method = method /\ Live(new) /\ Live(conn[c])
  BY <1>1, Zenon DEF Record, Live
<1>3. conn' = [conn EXCEPT ![c] = new] /\ UNCHANGED <<phase, token, cookie, open>>
  BY Zenon DEF Enter
<1> HIDE DEF new
<1>4. conn' \in [Connections -> Record] /\ conn'[c] = new
      /\ \A d \in Connections : d # c => conn'[d] = conn[d]
  BY <1>2, <1>3 DEF ServerInv
<1>5. Up(conn') = Up(conn)
  BY <1>2, <1>4 DEF Up
<1> QED BY <1>1, <1>2, <1>3, <1>4, <1>5 DEF ServerInv

\* The handlers that do not reach a method.
LEMMA HandlerInv ==
    ASSUME ServerInv, NEW c \in Connections, OnDeadline(c) \/ OnAborted(c) \/ OnEnd(c) \/ OnRead(c)
    PROVE  ServerInv' /\ NoNewCall
<1> DEFINE k == conn[c]
<1>1. k \in Record /\ k.op # "busy" /\ UNCHANGED <<phase, token, cookie>>
  BY DEF ServerInv, OnDeadline, OnAborted, OnEnd, OnRead, Free
<1>2. CASE OnDeadline(c)
  <2> DEFINE idle == [k EXCEPT !.timer = "none"]
  <2>1. idle \in Record /\ idle.op # "busy"
    BY <1>1 DEF Record
  <2>2. Live(k) /\ Leave(c, Closed(idle))
    BY <1>2 DEF OnDeadline, Live
  <2> HIDE DEF idle
  <2>3. Closed(idle) \in Record /\ Closed(idle).op # "busy"
    BY <2>1, ClosedRecord
  <2> QED BY <1>1, <2>2, <2>3, LeaveInv
<1>3. CASE OnAborted(c)
  <2> DEFINE idle == [k EXCEPT !.timer = "none"]
  <2>1. idle \in Record /\ idle.op # "busy"
    BY <1>1 DEF Record
  <2>2. Live(k) /\ Leave(c, idle)
    BY <1>3 DEF OnAborted, Live
  <2> HIDE DEF idle
  <2> QED BY <1>1, <2>1, <2>2, LeaveInv
<1>4. CASE OnEnd(c)
  <2> DEFINE over == [k EXCEPT !.op = "none"]
  <2>1. over \in Record /\ over.op # "busy"
    BY <1>1 DEF Record
  <2>2. Live(k) /\ Leave(c, Closed(over))
    BY <1>4 DEF OnEnd, Live
  <2> HIDE DEF over
  <2>3. Closed(over) \in Record /\ Closed(over).op # "busy"
    BY <2>1, ClosedRecord
  <2> QED BY <1>1, <2>2, <2>3, LeaveInv
<1>5. CASE OnRead(c)
  <2> DEFINE more == [k EXCEPT !.op = Pending(k)]
  <2>1. more \in Record /\ more.op # "busy"
    BY <1>1 DEF Record, Pending
  <2>2. Live(k) /\ (Leave(c, more) \/ Leave(c, Answered(k)))
    BY <1>5 DEF OnRead, Live
  <2> HIDE DEF more
  <2>3. Answered(k) \in Record /\ Answered(k).op # "busy"
    BY <1>1, AnsweredRecord
  <2> QED BY <1>1, <2>1, <2>2, <2>3, LeaveInv
<1> QED BY <1>2, <1>3, <1>4, <1>5

\* The end of a call, by an answer or by an exception.
LEMMA CallEndsInv ==
    ASSUME ServerInv, NEW c \in Connections, Reply(c) \/ Throw(c)
    PROVE  /\ ServerInv' /\ NoNewCall /\ conn[c].op = "busy"
           /\ \A d \in Connections : conn'[d].op # "busy"
<1> DEFINE k == conn[c]
           dropped == [k EXCEPT !.op = "none"]
<1>1. k \in Record /\ k.op = "busy" /\ Live(k) /\ UNCHANGED <<phase, token, cookie>>
  BY DEF ServerInv, Reply, Throw, Live
<1>2. dropped \in Record /\ dropped.op # "busy"
  BY <1>1 DEF Record
<1>3. Leave(c, Answered(k)) \/ Leave(c, dropped)
  BY DEF Reply, Throw
<1> HIDE DEF dropped
<1>4. ServerInv' /\ NoNewCall /\ conn'[c].op # "busy"
  BY <1>1, <1>2, <1>3, AnsweredRecord, LeaveInv
<1> QED BY <1>1, <1>4 DEF ServerInv, NoNewCall

\* The network and the clock.
LEMMA NetworkInv ==
    ASSUME ServerInv, NEW c \in Connections,
           \/ \E buffer \in {"part", "whole", "malformed"} : Arrive(c, buffer)
           \/ Hangup(c) \/ Flushed(c) \/ Expire(c)
    PROVE  ServerInv' /\ NoNewCall
<1> DEFINE k == conn[c]
<1>1. k \in Record
  BY DEF ServerInv
<1>2. CASE \E buffer \in {"part", "whole", "malformed"} : Arrive(c, buffer)
  <2> PICK buffer \in {"part", "whole", "malformed"} : Arrive(c, buffer)
    BY <1>2
  <2> DEFINE new == [k EXCEPT !.op = "got", !.buffer = buffer]
  <2>1. new \in Record /\ new.op # "busy" /\ Live(new)
    BY <1>1, Zenon DEF Record, Live
  <2>2. Live(k) /\ Completes(c, new)
    BY DEF Arrive, Live
  <2> HIDE DEF new
  <2> QED BY <2>1, <2>2, CompletesInv
<1>3. CASE Hangup(c)
  <2> DEFINE new == [k EXCEPT !.op = IF @ = "reading" THEN "failed" ELSE "wrote"]
  <2>1. new \in Record /\ new.op # "busy" /\ Live(new)
    BY <1>1 DEF Record, Live
  <2>2. Live(k) /\ Completes(c, new)
    BY <1>3 DEF Hangup, Live
  <2> HIDE DEF new
  <2> QED BY <2>1, <2>2, CompletesInv
<1>4. CASE Flushed(c)
  <2> DEFINE new == [k EXCEPT !.op = "wrote"]
  <2>1. new \in Record /\ new.op # "busy" /\ Live(new)
    BY <1>1 DEF Record, Live
  <2>2. Live(k) /\ Completes(c, new)
    BY <1>4 DEF Flushed, Live
  <2> HIDE DEF new
  <2> QED BY <2>1, <2>2, CompletesInv
<1>5. CASE Expire(c)
  <2> DEFINE new == [k EXCEPT !.timer = "due"]
  <2>1. new \in Record /\ new.op = k.op /\ new.method = k.method /\ Live(new)
    BY <1>1 DEF Record, Live
  <2>2. Live(k) /\ Completes(c, new)
    BY <1>5 DEF Expire, Live
  <2> HIDE DEF new
  <2> QED BY <2>1, <2>2, CompletesInv
<1> QED BY <1>2, <1>3, <1>4, <1>5

\* The life of the daemon: no connection outlives the loop.
LEMMA LifeInv ==
    ASSUME ServerInv,
           \/ Generate \/ PlaceCookie \/ Bind \/ PlaceFails \/ BindFails \/ RemoveCookie
           \/ Stop \/ Die
    PROVE  ServerInv' /\ NoNewCall
<1>1. CASE Generate \/ PlaceCookie \/ Bind \/ PlaceFails \/ BindFails \/ RemoveCookie
  <2>1. phase # "serving" /\ UNCHANGED <<conn, open>> /\ token' \in Nat
        /\ (phase' \in {"binding", "serving"} => cookie' = token')
    BY <1>1 DEF ServerInv, Generate, PlaceCookie, Bind, PlaceFails, BindFails, RemoveCookie
  <2>2. \A c \in Connections : conn[c].op # "busy"
    BY <2>1 DEF ServerInv
  <2> QED BY <2>1, <2>2 DEF ServerInv, NoNewCall
<1>2. CASE Stop \/ Die
  <2>1. conn' = [c \in Connections |-> Gone] /\ open' = 0 /\ token' = token
        /\ phase' \in {"off", "stopping"}
    BY <1>2 DEF Stop, Die, NoConnections
  <2>2. conn' \in [Connections -> Record] /\ \A c \in Connections : conn'[c].op # "busy"
    BY <2>1, GoneRecord
  <2>3. Up(conn') = {}
    BY <2>1, GoneRecord DEF Up
  <2>4. open' = Cardinality(Up(conn')) /\ open' <= MaxConnections
    BY <2>1, <2>3, FS_EmptySet, LimitAssumption
  <2> QED BY <2>1, <2>2, <2>4 DEF ServerInv, NoNewCall
<1> QED BY <1>1, <1>2

\* Every step of the service.
LEMMA ServerNext == Serving /\ [Next]_vars => Serving'
<1> SUFFICES ASSUME ServerInv, has_wallet \in BOOLEAN, [Next]_vars
             PROVE  ServerInv' /\ has_wallet' \in BOOLEAN
  BY DEF Serving
<1>1. has_wallet' = has_wallet
  BY DEF Next, vars, OpenWallet, RescanWallet, Serve, DaemonEnds, StopServing, Crash, Dispatch,
         Answer, Handle, Client, System, Save, ToolOpens, ToolActs, ToolExits
<1>2. CASE UNCHANGED serverVars
  BY <1>1, <1>2 DEF serverVars, ServerInv
<1>3. CASE \E password \in Passwords : OpenWallet(password)
  <2>1. phase' = "opening" /\ UNCHANGED <<token, cookie, conn, open>> /\ phase = "off"
    BY <1>3 DEF OpenWallet
  <2> QED BY <1>1, <2>1 DEF ServerInv
<1>4. CASE Serve \/ DaemonEnds \/ StopServing \/ Crash
  BY <1>1, <1>4, LifeInv DEF Serve, DaemonEnds, StopServing, Crash
<1>5. CASE \E c \in Callers(has_wallet) : Dispatch(c) \/ Answer(c) \/ Handle(c) \/ Client(c) \/ System(c)
  <2> PICK c \in Callers(has_wallet) : Dispatch(c) \/ Answer(c) \/ Handle(c) \/ Client(c) \/ System(c)
    BY <1>5
  <2>0. c \in Connections
    BY CallersAssumption
  <2>1. CASE Dispatch(c)
    <3>1. conn[c].method \in Methods \cup {"none", "query"}
      BY <2>0 DEF ServerInv, Record
    <3>2. \E method \in Methods \cup {"none", "query"} : Enter(c, method)
      BY <2>1, <3>1 DEF Dispatch
    <3> QED BY <1>1, <2>0, <3>2, EnterInv
  <2>2. CASE Answer(c)
    BY <1>1, <2>0, <2>2, CallEndsInv DEF Answer
  <2>3. CASE Handle(c)
    BY <1>1, <2>0, <2>3, HandlerInv DEF Handle
  <2>4. CASE Client(c)
    <3>1. \/ \E credential \in {NoToken, token}, method \in Methods \cup {"query"} : Accept(c, credential, method)
          \/ \E buffer \in {"part", "whole", "malformed"} : Arrive(c, buffer)
          \/ Hangup(c)
      BY <2>4 DEF Client
    <3>2. {NoToken, token} \subseteq Nat
      BY DEF NoToken, ServerInv
    <3> QED BY <1>1, <2>0, <3>1, <3>2, AcceptInv, NetworkInv
  <2>5. CASE System(c)
    BY <1>1, <2>0, <2>5, NetworkInv DEF System
  <2> QED BY <2>1, <2>2, <2>3, <2>4, <2>5
<1>6. CASE RescanWallet \/ (\E p \in Processes : Save(p)) \/ ToolActs \/ ToolExits
           \/ \E command \in Commands, password \in Passwords : ToolOpens(command, password)
  BY <1>2, <1>6 DEF RescanWallet, Save, ToolActs, ToolExits, ToolOpens
<1>7. CASE UNCHANGED vars
  BY <1>2, <1>7 DEF vars
<1> QED BY <1>3, <1>4, <1>5, <1>6, <1>7 DEF Next

\* At the start there is nothing.
LEMMA ServerInitInv == Init => Serving
<1> SUFFICES ASSUME Init PROVE ServerInv /\ has_wallet \in BOOLEAN
  BY DEF Serving
<1>1. conn = [c \in Connections |-> Gone] /\ open = 0 /\ token = 0 /\ phase = "off" /\ has_wallet \in BOOLEAN
  BY DEF Init, ServerInit, NoToken
<1>2. conn \in [Connections -> Record] /\ \A c \in Connections : conn[c].op # "busy"
  BY <1>1, GoneRecord
<1>3. Up(conn) = {}
  BY <1>1, GoneRecord DEF Up
<1>4. open = Cardinality(Up(conn)) /\ open <= MaxConnections
  BY <1>1, <1>3, FS_EmptySet, LimitAssumption
<1> QED BY <1>1, <1>2, <1>4 DEF ServerInv

\* From the start and over any number of runs of the daemon.
THEOREM ServerInvariant == Spec => []ServerInv
<1>1. Serving => ServerInv
  BY DEF Serving
<1> QED BY <1>1, ServerInitInv, ServerNext, PTL DEF Spec

\* ServerState::open is always the number of connections that exist, and within
\* the cap, in whichever order the handlers of a connection run.
THEOREM OpenIsAlwaysExact == Spec => []OpenExact
<1>1. ServerInv => OpenExact
  BY DEF ServerInv, OpenExact, Up
<1> QED BY <1>1, ServerInvariant, PTL

\* While the node serves, the credential file holds the credential of this run.
THEOREM CookieAlwaysMatches == Spec => []CookieMatches
<1>1. ServerInv => CookieMatches
  BY DEF ServerInv, CookieMatches
<1> QED BY <1>1, ServerInvariant, PTL

-----------------------------------------------------------------------------
(* The wallet file *)

AnySeed == [number : Nat, mask : SUBSET (Passwords \cup {""})]
Account == [id : {0}, highest : Nat]
Wallets == [open : BOOLEAN, enc : AnySeed, accounts : Seq(Account), seed : AnySeed]
Images == [state : {"absent", "torn", "whole"}, enc : AnySeed, accounts : Seq(Account)]

\* An account list covers the addresses handed out from a seed, unless the seed is
\* one of the two exceptions.
Exempt(number) == refused \/ number \in restored
Covered(addresses, lost, renewed, number, accounts) ==
    \/ lost \/ number \in renewed
    \/ \A a \in addresses : a[1].number = number => accounts # <<>> /\ a[2] <= accounts[1].highest
Covers(number, accounts) == Covered(given, refused, restored, number, accounts)

\* The same of the next state, for a seed and a list of this one.
WillCover(number, accounts) == Covered(given', refused', restored', number, accounts)

\* A process that is not running.
Idle(p) == mem[p] = NoWallet /\ saves[p] = <<>> /\ ~cut[p]

\* The image in memory covers what was handed out, so does everything that is on
\* its way to the file, the last of it is that image, and a file that is whole when
\* nothing is on its way is that image too.
Sound(p) ==
    /\ mem[p].enc.number <= seeds /\ mem[p].enc.number = mem[p].seed.number
    /\ mem[p].open => Covers(mem[p].enc.number, mem[p].accounts)
    /\ \A i \in DOMAIN saves[p] : /\ saves[p][i].enc.number = mem[p].enc.number
                                  /\ Covers(mem[p].enc.number, saves[p][i].accounts)
    /\ saves[p] # <<>> => mem[p].open /\ saves[p][Len(saves[p])] = Image(mem[p])
    /\ mem[p].open /\ saves[p] = <<>> /\ file.state = "whole" /\ ~refused => file = Image(mem[p])
    /\ cut[p] => saves[p] # <<>> /\ file.state = "torn"

Typed ==
    /\ file \in Images /\ mem \in [Processes -> Wallets] /\ saves \in [Processes -> Seq(Images)]
    /\ cut \in [Processes -> BOOLEAN] /\ seeds \in Nat /\ given \subseteq AnySeed \X Nat
    /\ refused \in BOOLEAN

\* Seeds are drawn in order, and the file covers what was handed out.
Drawn == file.enc.number <= seeds /\ \A a \in given : a[1].number <= seeds
FileCovers == file.state = "whole" => Covers(file.enc.number, file.accounts)

WalletInv == Typed /\ Drawn /\ FileCovers /\ \A p \in Processes : Sound(p)

\* The next address of a process is one no address of its seed has reached.
Fresh(p) ==
    /\ mem[p].open /\ mem[p].accounts # <<>>
    /\ \/ Exempt(mem[p].seed.number)
       \/ \A a \in given : a[1].number = mem[p].seed.number => a[2] < mem[p].accounts[1].highest

\* The wallet of a process that is not running.
LEMMA NoWalletTyped == NoWallet \in Wallets /\ NoWallet.enc.number = 0 /\ NoWallet.seed.number = 0 /\ ~NoWallet.open
BY DEF NoWallet, NoSeed, Seed, Wallets, AnySeed

\* Masking keeps the seed's number.
LEMMA MaskedTyped ==
    ASSUME NEW s \in AnySeed, NEW password \in Passwords \cup {""}
    PROVE  Masked(s, password) \in AnySeed /\ Masked(s, password).number = s.number
BY Zenon DEF Masked, AnySeed

\* A seed as drawn.
LEMMA SeedTyped == ASSUME NEW n \in Nat PROVE Seed(n) \in AnySeed /\ Seed(n).number = n
BY DEF Seed, AnySeed

\* What an image holds.
LEMMA ImageTyped ==
    ASSUME NEW w \in Wallets
    PROVE  /\ Image(w) \in Images /\ Image(w).state = "whole" /\ Image(w).enc = w.enc
           /\ Image(w).accounts = w.accounts
BY DEF Image, Images, Wallets

\* As long as nothing is handed out, what is covered stays covered.
LEMMA CoversStays ==
    ASSUME given' = given, restored \subseteq restored', refused => refused',
           NEW number, NEW accounts, Covers(number, accounts)
    PROVE  WillCover(number, accounts)
BY DEF Covers, Covered, WillCover

\* And the next address stays a fresh one.
LEMMA FreshStays ==
    ASSUME NEW p \in Processes, Fresh(p), mem'[p] = mem[p], given' = given,
           restored \subseteq restored', refused => refused'
    PROVE  Fresh(p)'
BY DEF Fresh, Exempt

\* A process that is not running has nothing to be unsound.
LEMMA IdleSound == ASSUME NEW p \in Processes, Idle(p)', seeds' \in Nat PROVE Sound(p)'
<1>1. /\ mem'[p].enc.number = 0 /\ mem'[p].seed.number = 0 /\ ~mem'[p].open
      /\ saves'[p] = <<>> /\ ~cut'[p] /\ DOMAIN saves'[p] = {}
  BY NoWalletTyped DEF Idle
<1> QED BY <1>1 DEF Sound

\* With one process running, its own soundness is what counts.
LEMMA Together ==
    ASSUME NEW p \in Processes, NEW q \in Processes, p # q, Idle(q)', Typed', Drawn', FileCovers', Sound(p)'
    PROVE  WalletInv'
<1>1. Sound(q)'
  BY IdleSound DEF Typed
<1>2. \A r \in Processes : r = p \/ r = q
  BY DEF Processes
<1> QED BY <1>1, <1>2 DEF WalletInv

\* The process ends.
LEMMA ExitInv ==
    ASSUME WalletInv, NEW p \in Processes, NEW q \in Processes, p # q, Idle(q),
           Exit(p), UNCHANGED <<file, seeds, given, restored, refused>>
    PROVE  WalletInv' /\ Idle(p)' /\ Idle(q)'
<1>1. /\ mem' = [mem EXCEPT ![p] = NoWallet] /\ saves' = [saves EXCEPT ![p] = <<>>]
      /\ cut' = [cut EXCEPT ![p] = FALSE]
  BY DEF Exit, Saves
<1>2. Typed'
  BY <1>1, NoWalletTyped DEF WalletInv, Typed
<1>3. Idle(p)' /\ Idle(q)'
  BY <1>1 DEF Idle, WalletInv, Typed
<1>4. Drawn'
  BY DEF WalletInv, Drawn
<1>5. FileCovers'
  BY DEF WalletInv, FileCovers, Covers
<1>6. Sound(p)'
  BY <1>2, <1>3, IdleSound DEF Typed
<1> QED BY <1>2, <1>3, <1>4, <1>5, <1>6, Together

\* The constructor takes over what the file covers, or a seed nothing was handed
\* out from.
LEMMA ConstructInv ==
    ASSUME WalletInv, NEW p \in Processes, NEW q \in Processes, p # q, Idle(p), Idle(q),
           NEW password \in Passwords, Construct(p, password)
    PROVE  WalletInv' /\ Idle(q)'
<1> DEFINE drawn == Seed(seeds + 1)
           bare == [open |-> TRUE, enc |-> Masked(drawn, password), accounts |-> <<>>, seed |-> drawn]
           made == [bare EXCEPT !.accounts = <<[id |-> 0, highest |-> 0]>>]
<1>0. Typed /\ Drawn /\ FileCovers
  BY DEF WalletInv
<1>1. UNCHANGED <<file, cut, given, restored, refused>>
  BY DEF Construct
<1>2. CASE HasSeed
  <2> DEFINE w == Loaded(password)
  <2>1. mem' = [mem EXCEPT ![p] = w] /\ saves' = [saves EXCEPT ![p] = <<>>] /\ seeds' = seeds
    BY <1>2 DEF Construct, Saves
  <2>2. file.enc \in AnySeed /\ file.accounts \in Seq(Account) /\ file.state = "whole"
    BY <1>0, <1>2 DEF Typed, Images, HasSeed
  <2>3. /\ w \in Wallets /\ w.open /\ w.enc = file.enc /\ w.accounts = file.accounts
        /\ w.seed.number = file.enc.number
    BY <2>2, MaskedTyped, Zenon DEF Loaded, Wallets
  <2>4. file = Image(w)
    BY <1>0, <2>2, <2>3 DEF Typed, Images, Image
  <2> HIDE DEF w
  <2>5. Typed'
    BY <1>0, <1>1, <2>1, <2>3 DEF Typed
  <2>6. Drawn' /\ Idle(q)'
    BY <1>0, <1>1, <2>1 DEF Drawn, Idle, Typed
  <2>7. FileCovers'
    BY <1>0, <1>1 DEF FileCovers, Covers
  <2>8. mem'[p] = w /\ saves'[p] = <<>> /\ ~cut'[p]
    BY <1>0, <1>1, <2>1 DEF Typed, Idle
  <2>9. Sound(p)'
    <3>1. WillCover(w.enc.number, w.accounts)
      BY <1>0, <1>1, <2>2, <2>3, CoversStays DEF FileCovers
    <3>2. file.enc.number <= seeds' /\ DOMAIN saves'[p] = {}
      BY <1>0, <2>1, <2>8 DEF Drawn
    <3> QED BY <1>1, <2>3, <2>4, <2>8, <3>1, <3>2 DEF Sound, Covers, WillCover
  <2> QED BY <2>5, <2>6, <2>7, <2>9, Together
<1>3. CASE ~HasSeed
  <2> DEFINE images == <<Image(bare), Image(bare), Image(made)>>
  <2>1. mem' = [mem EXCEPT ![p] = made] /\ saves' = [saves EXCEPT ![p] = images] /\ seeds' = seeds + 1
    BY <1>3, Zenon DEF Construct, Saves
  <2>2. seeds \in Nat /\ drawn \in AnySeed /\ drawn.number = seeds + 1
    BY <1>0, SeedTyped DEF Typed
  <2> HIDE DEF drawn
  <2>3. Masked(drawn, password) \in AnySeed /\ Masked(drawn, password).number = seeds + 1
    BY <2>2, MaskedTyped, Zenon
  <2>4. <<>> \in Seq(Account) /\ <<[id |-> 0, highest |-> 0]>> \in Seq(Account)
    BY DEF Account
  <2>5. /\ bare \in Wallets /\ made \in Wallets /\ made.open
        /\ bare.enc.number = seeds + 1 /\ made.enc.number = seeds + 1 /\ made.seed.number = seeds + 1
    BY <2>2, <2>3, <2>4, Zenon DEF Wallets
  <2> HIDE DEF bare, made
  <2>6. Image(bare) \in Images /\ Image(made) \in Images
        /\ Image(bare).enc.number = seeds + 1 /\ Image(made).enc.number = seeds + 1
    BY <2>5, ImageTyped
  <2>7. /\ images \in Seq(Images) /\ images # <<>> /\ images[Len(images)] = Image(made)
        /\ \A i \in DOMAIN images : images[i].enc.number = seeds + 1
    BY <2>6
  <2> HIDE DEF images
  <2>8. Typed'
    BY <1>0, <1>1, <2>1, <2>2, <2>5, <2>7 DEF Typed
  <2>9. Drawn'
    <3>1. \A a \in given : a[1].number \in Nat
      BY <1>0, Zenon DEF Typed, AnySeed
    <3>2. file.enc.number \in Nat
      BY <1>0, Zenon DEF Typed, AnySeed, Images
    <3> QED BY <1>0, <1>1, <2>1, <2>2, <3>1, <3>2 DEF Drawn
  <2>10. Idle(q)'
    BY <1>0, <1>1, <2>1 DEF Idle, Typed
  <2>11. FileCovers'
    BY <1>0, <1>1 DEF FileCovers, Covers
  <2>12. mem'[p] = made /\ saves'[p] = images /\ ~cut'[p]
    BY <1>0, <1>1, <2>1 DEF Typed, Idle
  <2>13. \A accounts : WillCover(seeds + 1, accounts)
    <3>1. \A a \in given : a[1].number # seeds + 1
      <4>1. \A a \in given : a[1].number \in Nat /\ a[1].number <= seeds
        BY <1>0, Zenon DEF Typed, AnySeed, Drawn
      <4> QED BY <2>2, <4>1
    <3> QED BY <1>1, <3>1 DEF WillCover, Covered
  <2>14. Sound(p)'
    <3>1. seeds + 1 <= seeds'
      BY <2>1, <2>2
    <3> QED BY <2>5, <2>7, <2>12, <2>13, <3>1 DEF Sound, Covers, WillCover
  <2> QED BY <2>8, <2>9, <2>10, <2>11, <2>14, Together
<1> QED BY <1>2, <1>3

\* What is left of the images once the first is dealt with.
LEMMA TailImages ==
    ASSUME NEW s \in Seq(Images), s # <<>>
    PROVE  /\ Tail(s) \in Seq(Images) /\ Head(s) = s[1] /\ 1 \in DOMAIN s
           /\ \A i \in DOMAIN Tail(s) : i + 1 \in DOMAIN s /\ Tail(s)[i] = s[i + 1]
           /\ Tail(s) # <<>> => Tail(s)[Len(Tail(s))] = s[Len(s)]
           /\ Tail(s) = <<>> => s[1] = s[Len(s)]
<1>1. /\ Tail(s) \in Seq(Images) /\ Head(s) = s[1] /\ Len(s) \in Nat /\ Len(s) >= 1
      /\ Len(Tail(s)) = Len(s) - 1 /\ \A i \in 1..Len(s) - 1 : Tail(s)[i] = s[i + 1]
  OBVIOUS
<1>2. DOMAIN s = 1..Len(s) /\ DOMAIN Tail(s) = 1..Len(s) - 1
  BY <1>1
<1>3. Tail(s) # <<>> <=> Len(s) - 1 # 0
  <2>1. \A t \in Seq(Images) : t = <<>> <=> Len(t) = 0
    OBVIOUS
  <2> QED BY <1>1, <2>1, Zenon
<1> QED BY <1>1, <1>2, <1>3

\* It is still what the process has to write.
LEMMA TailSound ==
    ASSUME NEW p \in Processes, Typed, Sound(p), saves[p] # <<>>
    PROVE  /\ \A i \in DOMAIN Tail(saves[p]) : /\ Tail(saves[p])[i].enc.number = mem[p].enc.number
                                               /\ Covers(mem[p].enc.number, Tail(saves[p])[i].accounts)
           /\ Tail(saves[p]) # <<>> => Tail(saves[p])[Len(Tail(saves[p]))] = Image(mem[p])
           /\ Tail(saves[p]) = <<>> => saves[p][1] = Image(mem[p])
           /\ mem[p].open
<1> DEFINE s == saves[p]
<1>1. s \in Seq(Images)
  BY DEF Typed
<1>2. \A i \in DOMAIN s : s[i].enc.number = mem[p].enc.number /\ Covers(mem[p].enc.number, s[i].accounts)
  BY Zenon DEF Sound
<1>3. s[Len(s)] = Image(mem[p]) /\ mem[p].open
  BY Zenon DEF Sound
<1> HIDE DEF s
<1>4. /\ \A i \in DOMAIN Tail(s) : i + 1 \in DOMAIN s /\ Tail(s)[i] = s[i + 1]
      /\ Tail(s) # <<>> => Tail(s)[Len(Tail(s))] = s[Len(s)]
      /\ Tail(s) = <<>> => s[1] = s[Len(s)]
  BY <1>1, TailImages, Zenon DEF s
<1>5. \A i \in DOMAIN Tail(s) : /\ Tail(s)[i].enc.number = mem[p].enc.number
                                /\ Covers(mem[p].enc.number, Tail(s)[i].accounts)
  BY <1>2, <1>4, Zenon
<1> QED BY <1>3, <1>4, <1>5, Zenon DEF s

\* Save, its first half: the file is torn, or the image is passed over.
LEMMA TruncateInv ==
    ASSUME WalletInv, NEW p \in Processes, NEW q \in Processes, p # q, Idle(q), Truncate(p)
    PROVE  WalletInv' /\ Idle(q)'
<1>0. Typed /\ Drawn /\ FileCovers /\ Sound(p)
  BY DEF WalletInv
<1>1. saves[p] # <<>> /\ UNCHANGED <<mem, seeds, given, restored>>
  BY DEF Truncate, Quiet
<1>2. CASE refused' = TRUE /\ saves' = [saves EXCEPT ![p] = Tail(saves[p])] /\ UNCHANGED <<file, cut>>
  <2>0. saves[p] \in Seq(Images) /\ ~cut[p]
    BY <1>0 DEF Typed, Truncate
  <2>1. Tail(saves[p]) \in Seq(Images)
    BY <1>1, <2>0, TailImages
  <2>2. Typed'
    BY <1>0, <1>1, <1>2, <2>1 DEF Typed
  <2>3. saves'[p] = Tail(saves[p]) /\ ~cut'[p] /\ Idle(q)'
    BY <1>0, <1>1, <1>2, <2>0 DEF Typed, Idle
  <2>4. Drawn' /\ FileCovers' /\ \A number, accounts : WillCover(number, accounts)
    BY <1>0, <1>1, <1>2 DEF Drawn, FileCovers, Covers, Covered, WillCover
  <2>5. Sound(p)'
    <3>1. \A i \in DOMAIN Tail(saves[p]) : Tail(saves[p])[i].enc.number = mem[p].enc.number
      BY <1>0, <1>1, TailSound, Zenon
    <3>2. Tail(saves[p]) # <<>> => mem[p].open /\ Tail(saves[p])[Len(Tail(saves[p]))] = Image(mem[p])
      BY <1>0, <1>1, TailSound, Zenon
    <3> QED BY <1>0, <1>1, <1>2, <2>3, <2>4, <3>1, <3>2, Zenon DEF Sound, Covers, WillCover
  <2> QED BY <2>2, <2>3, <2>4, <2>5, Together
<1>3. CASE /\ file' = [state |-> "torn", enc |-> NoSeed, accounts |-> <<>>]
           /\ cut' = [cut EXCEPT ![p] = TRUE] /\ UNCHANGED <<saves, refused>>
  <2>1. file' \in Images /\ file'.state = "torn" /\ file'.enc.number = 0
    BY <1>3, SeedTyped DEF Images, NoSeed
  <2>2. Typed'
    BY <1>0, <1>1, <1>3, <2>1 DEF Typed
  <2>3. Drawn' /\ FileCovers'
    BY <1>0, <1>1, <2>1 DEF Drawn, FileCovers, Typed
  <2>4. Idle(q)'
    BY <1>0, <1>1, <1>3 DEF Idle, Typed
  <2>5. Sound(p)'
    BY <1>0, <1>1, <1>3, <2>1, Zenon DEF Sound, Covers
  <2> QED BY <2>2, <2>3, <2>4, <2>5, Together
<1> QED BY <1>2, <1>3, Zenon DEF Truncate, Saves

\* Its second half: the image is in the file, or lost.
LEMMA WriteOutInv ==
    ASSUME WalletInv, NEW p \in Processes, NEW q \in Processes, p # q, Idle(q), WriteOut(p)
    PROVE  WalletInv' /\ Idle(q)'
<1> DEFINE s == saves[p]
<1>0. Typed /\ Drawn /\ FileCovers /\ Sound(p)
  BY DEF WalletInv
<1>1. /\ cut[p] /\ cut' = [cut EXCEPT ![p] = FALSE] /\ saves' = [saves EXCEPT ![p] = Tail(s)]
      /\ file' \in {file, Head(s)} /\ UNCHANGED <<mem, seeds, given, restored, refused>>
  BY DEF WriteOut, Saves
<1>2. s \in Seq(Images) /\ s # <<>> /\ file.state = "torn" /\ mem[p].open
  BY <1>0, <1>1 DEF Typed, Sound
<1>3. Head(s) \in Images /\ Head(s) = s[1] /\ 1 \in DOMAIN s /\ Tail(s) \in Seq(Images)
  BY <1>2, TailImages
<1>4. Typed'
  BY <1>0, <1>1, <1>3 DEF Typed
<1>5. saves'[p] = Tail(s) /\ ~cut'[p] /\ Idle(q)'
  BY <1>0, <1>1 DEF Typed, Idle
<1>6. /\ s[1].enc.number = mem[p].enc.number /\ mem[p].enc.number <= seeds
      /\ Covers(mem[p].enc.number, s[1].accounts)
  BY <1>0, <1>3 DEF Sound
<1>7. Drawn'
  BY <1>0, <1>1, <1>3, <1>6 DEF Drawn
<1>8. FileCovers'
  <2>1. file'.state = "whole" => file' = s[1]
    BY <1>1, <1>2, <1>3
  <2> QED BY <1>1, <1>6, <2>1 DEF FileCovers, Covers
<1>9. Sound(p)'
  <2>1. \A i \in DOMAIN Tail(s) : /\ Tail(s)[i].enc.number = mem[p].enc.number
                                  /\ Covers(mem[p].enc.number, Tail(s)[i].accounts)
    BY <1>0, <1>2, TailSound, Zenon
  <2>2. Tail(s) # <<>> => Tail(s)[Len(Tail(s))] = Image(mem[p])
    BY <1>0, <1>2, TailSound, Zenon
  <2>3. Tail(s) = <<>> /\ file'.state = "whole" => file' = Image(mem[p])
    <3>1. Tail(s) = <<>> => s[1] = Image(mem[p])
      BY <1>0, <1>2, TailSound, Zenon
    <3>2. file'.state = "whole" => file' = s[1]
      BY <1>1, <1>2, <1>3
    <3> QED BY <3>1, <3>2
  <2>4. Covers(mem[p].enc.number, mem[p].accounts)
    BY <1>0, <1>2 DEF Sound
  <2> HIDE DEF s
  <2> QED BY <1>0, <1>1, <1>2, <1>5, <2>1, <2>2, <2>3, <2>4, Zenon DEF Sound, Covers
<1> QED BY <1>4, <1>5, <1>7, <1>8, <1>9, Together

\* A call that changes the image in memory and has it saved.
LEMMA StoreInv ==
    ASSUME WalletInv, NEW p \in Processes, NEW q \in Processes, p # q, Idle(q), saves[p] = <<>>,
           NEW w \in Wallets, w.open, w.enc.number = w.seed.number, w.enc.number <= seeds,
           WillCover(w.enc.number, w.accounts),
           NEW images \in Seq(Images), images # <<>>, \A i \in DOMAIN images : images[i] = Image(w),
           mem' = [mem EXCEPT ![p] = w], saves' = [saves EXCEPT ![p] = images],
           UNCHANGED <<file, cut, seeds, given, refused>>, restored \subseteq restored'
    PROVE  WalletInv' /\ Idle(q)' /\ mem'[p] = w
<1>0. Typed /\ Drawn /\ FileCovers /\ Sound(p)
  BY DEF WalletInv
<1>1. Typed'
  BY <1>0 DEF Typed
<1>2. Drawn'
  BY <1>0 DEF Drawn
<1>3. FileCovers'
  BY <1>0, CoversStays DEF FileCovers, Covers, WillCover
<1>4. mem'[p] = w /\ saves'[p] = images /\ ~cut'[p] /\ Idle(q)'
  BY <1>0 DEF Typed, Idle, Sound
<1>5. images[Len(images)] = Image(w)
  <2>1. Len(images) \in DOMAIN images
    OBVIOUS
  <2> QED BY <2>1
<1>6. \A i \in DOMAIN images : images[i].enc = w.enc /\ images[i].accounts = w.accounts
  BY ImageTyped
<1>7. Sound(p)'
  BY <1>4, <1>5, <1>6, Zenon DEF Sound, Covers, WillCover
<1> QED BY <1>1, <1>2, <1>3, <1>4, <1>7, Together, Zenon

\* StoreTx saves the image as it is.
LEMMA StoreTxInv ==
    ASSUME WalletInv, NEW p \in Processes, NEW q \in Processes, p # q, Idle(q), StoreTx(p)
    PROVE  WalletInv' /\ Idle(q)'
<1> DEFINE w == mem[p]
           images == <<Image(w)>>
<1>0. Typed /\ Sound(p)
  BY DEF WalletInv
<1>1. /\ w.open /\ saves[p] = <<>> /\ saves' = [saves EXCEPT ![p] = images]
      /\ UNCHANGED <<file, mem, cut, seeds, given, restored, refused>>
  BY DEF StoreTx, Quiet, Saves
<1>2. w \in Wallets /\ mem' = [mem EXCEPT ![p] = w]
  BY <1>0, <1>1 DEF Typed
<1>3. images \in Seq(Images) /\ images # <<>> /\ \A i \in DOMAIN images : images[i] = Image(w)
  BY <1>2, ImageTyped
<1>4. w.enc.number = w.seed.number /\ w.enc.number <= seeds /\ Covers(w.enc.number, w.accounts)
  BY <1>0, <1>1 DEF Sound
<1> HIDE DEF w, images
<1>5. WillCover(w.enc.number, w.accounts)
  BY <1>1, <1>4, CoversStays
<1> QED BY <1>1, <1>2, <1>3, <1>4, <1>5, StoreInv, Zenon

\* GetNewAddress takes an index past every one that was handed out.
LEMMA GetNewAddressInv ==
    ASSUME WalletInv, NEW p \in Processes, NEW q \in Processes, p # q, Idle(q), GetNewAddress(p)
    PROVE  WalletInv' /\ Idle(q)' /\ Fresh(p)'
<1> DEFINE old == mem[p]
           h == old.accounts[1].highest
           w == [old EXCEPT !.accounts[1].highest = h + 1]
           images == <<Image(w)>>
<1>0. Typed /\ Sound(p)
  BY DEF WalletInv
<1>1. /\ old.open /\ saves[p] = <<>> /\ 1 \in DOMAIN old.accounts
      /\ mem' = [mem EXCEPT ![p] = w] /\ saves' = [saves EXCEPT ![p] = images]
      /\ UNCHANGED <<file, cut, seeds, given, restored, refused>>
  BY DEF GetNewAddress, CanDerive, HasAccount, GetAccount, Quiet, Saves
<1>2. old \in Wallets /\ old.accounts \in Seq(Account) /\ old.accounts[1] \in Account /\ h \in Nat
  <2>1. old \in Wallets
    BY <1>0 DEF Typed
  <2>2. old.accounts \in Seq(Account)
    BY <2>1 DEF Wallets
  <2>3. old.accounts[1] \in Account
    BY <1>1, <2>2
  <2> QED BY <2>1, <2>2, <2>3 DEF Account
<1>3. /\ w \in Wallets /\ w.open /\ w.enc = old.enc /\ w.seed = old.seed
      /\ w.accounts # <<>> /\ w.accounts[1].highest = h + 1
  <2> DEFINE account == [old.accounts[1] EXCEPT !.highest = h + 1]
             accounts == [old.accounts EXCEPT ![1] = account]
  <2>1. account \in Account /\ account.highest = h + 1
    BY <1>2 DEF Account
  <2>2. w = [old EXCEPT !.accounts = accounts]
    OBVIOUS
  <2> HIDE DEF account, w
  <2>3. accounts \in Seq(Account) /\ accounts[1] = account /\ accounts # <<>>
    BY <1>1, <1>2, <2>1
  <2> HIDE DEF accounts
  <2> QED BY <1>1, <1>2, <2>1, <2>2, <2>3, Zenon DEF Wallets
<1>4. old.enc.number = old.seed.number /\ old.enc.number <= seeds /\ Covers(old.enc.number, old.accounts)
  BY <1>0, <1>1 DEF Sound
<1>5. \A a \in given : a[2] \in Nat
  BY <1>0 DEF Typed
<1> HIDE DEF w, old
<1>6. images \in Seq(Images) /\ images # <<>> /\ \A i \in DOMAIN images : images[i] = Image(w)
  BY <1>3, ImageTyped
<1> HIDE DEF images
<1>7. \/ Exempt(old.seed.number)
      \/ \A a \in given : a[1].number = old.seed.number => a[2] < w.accounts[1].highest
  <2> SUFFICES ASSUME ~Exempt(old.seed.number), NEW a \in given, a[1].number = old.seed.number
               PROVE  a[2] < w.accounts[1].highest
    OBVIOUS
  <2>1. a[2] <= h
    BY <1>4 DEF Covers, Covered, Exempt
  <2> QED BY <1>2, <1>3, <1>5, <2>1
<1>8. WillCover(w.enc.number, w.accounts)
  <2>1. Exempt(old.seed.number) => refused' \/ old.seed.number \in restored'
    BY <1>1 DEF Exempt
  <2>2. (\A a \in given : a[1].number = old.seed.number => a[2] < w.accounts[1].highest)
         => \A a \in given' : a[1].number = old.seed.number => a[2] <= w.accounts[1].highest
    BY <1>1, <1>2, <1>3, <1>5
  <2> QED BY <1>3, <1>4, <1>7, <2>1, <2>2 DEF WillCover, Covered, Exempt
<1>9. WalletInv' /\ Idle(q)' /\ mem'[p] = w
  BY <1>1, <1>3, <1>4, <1>6, <1>8, StoreInv, ZenonT(30)
<1>10. Fresh(p)'
  BY <1>1, <1>3, <1>7, <1>9 DEF Fresh, Exempt
<1> QED BY <1>9, <1>10

\* RestoreFromBackup makes its seed an exception.
LEMMA RestoreInv ==
    ASSUME WalletInv, NEW p \in Processes, NEW q \in Processes, p # q, Idle(q),
           NEW number \in 1..seeds, RestoreFromBackup(p, number)
    PROVE  WalletInv' /\ Idle(q)'
<1> DEFINE old == mem[p]
           w == [old EXCEPT !.seed = Seed(number), !.enc = Masked(Seed(number), "")]
           images == <<Image(w), Image(w)>>
<1>0. Typed
  BY DEF WalletInv
<1>1. /\ old.open /\ saves[p] = <<>> /\ restored' = restored \cup {number}
      /\ mem' = [mem EXCEPT ![p] = w] /\ saves' = [saves EXCEPT ![p] = images]
      /\ UNCHANGED <<file, cut, seeds, given, refused>>
  BY DEF RestoreFromBackup, Quiet, Saves
<1>2. old \in Wallets /\ number \in Nat /\ number <= seeds
  BY <1>0 DEF Typed
<1>3. Seed(number) \in AnySeed /\ Seed(number).number = number
  BY <1>2, SeedTyped
<1>4. Masked(Seed(number), "") \in AnySeed /\ Masked(Seed(number), "").number = number
  BY <1>3, MaskedTyped, Zenon
<1>5. w \in Wallets /\ w.open /\ w.enc.number = number /\ w.seed.number = number
  BY <1>1, <1>2, <1>3, <1>4, Zenon DEF Wallets
<1> HIDE DEF w, old
<1>6. images \in Seq(Images) /\ images # <<>> /\ \A i \in DOMAIN images : images[i] = Image(w)
  BY <1>5, ImageTyped
<1> HIDE DEF images
<1>7. WillCover(w.enc.number, w.accounts)
  BY <1>1, <1>5 DEF Covered, WillCover
<1>8. w.enc.number = w.seed.number /\ w.enc.number <= seeds /\ restored \subseteq restored'
  BY <1>1, <1>2, <1>5
<1> QED BY <1>1, <1>5, <1>6, <1>7, <1>8, StoreInv, Zenon

\* An address is handed out once the image that counts it is in the file.
LEMMA HandInv ==
    ASSUME WalletInv, NEW p \in Processes, NEW q \in Processes, p # q, Idle(q), saves[p] = <<>>,
           Fresh(p), Hand(p)
    PROVE  WalletInv' /\ Idle(q)'
<1> DEFINE w == mem[p]
           address == <<w.seed, w.accounts[1].highest>>
<1>0. Typed /\ Drawn /\ FileCovers /\ Sound(p)
  BY DEF WalletInv
<1>1. given' = given \cup {address} /\ UNCHANGED <<file, mem, saves, cut, seeds, restored, refused>>
  BY DEF Hand, NextAddress, GetAccount
<1>2. w \in Wallets /\ w.open /\ w.accounts # <<>> /\ w.accounts \in Seq(Account)
  BY <1>0 DEF Typed, Fresh, Wallets
<1>3. w.accounts[1].highest \in Nat /\ w.seed \in AnySeed /\ w.seed.number <= seeds
      /\ w.enc.number = w.seed.number
  <2>1. w.accounts[1] \in Account
    BY <1>2
  <2> QED BY <1>0, <1>2, <2>1 DEF Account, Wallets, Sound
<1>4. address \in AnySeed \X Nat /\ address[1] = w.seed /\ address[2] = w.accounts[1].highest
  BY <1>3
<1> HIDE DEF address
<1>5. Typed'
  BY <1>0, <1>1, <1>4 DEF Typed
<1>6. Drawn'
  BY <1>0, <1>1, <1>3, <1>4 DEF Drawn
<1>7. WillCover(w.enc.number, w.accounts)
  <2>1. Covers(w.enc.number, w.accounts)
    BY <1>0, <1>2 DEF Sound
  <2>2. address[2] <= w.accounts[1].highest
    BY <1>3, <1>4
  <2> QED BY <1>1, <1>2, <2>1, <2>2 DEF Covers, Covered, WillCover
<1>8. FileCovers'
  <2>1. CASE refused \/ file.state # "whole"
    BY <1>1, <2>1 DEF FileCovers, Covers, Covered
  <2>2. CASE ~refused /\ file.state = "whole"
    <3>1. file = Image(w)
      BY <1>0, <1>2, <2>2 DEF Sound
    <3>2. file.enc = w.enc /\ file.accounts = w.accounts
      BY <1>2, <3>1, ImageTyped
    <3> QED BY <1>1, <1>7, <3>2 DEF FileCovers, Covers, WillCover
  <2> QED BY <1>0, <2>1, <2>2 DEF Typed
<1>9. Sound(p)'
  <2>1. DOMAIN saves[p] = {}
    OBVIOUS
  <2> QED BY <1>0, <1>1, <1>7, <2>1, Zenon DEF Sound, Covers, WillCover
<1>10. Idle(q)'
  BY <1>1 DEF Idle
<1> QED BY <1>5, <1>6, <1>8, <1>9, <1>10, Together

-----------------------------------------------------------------------------
(* The daemon and the tool *)

\* One of the two runs at a time, and what it is about to hand out is fresh.
Control ==
    /\ phase = "off" => Idle("daemon")
    /\ tool = "idle" => Idle("tool")
    /\ phase = "off" \/ tool = "idle"
    /\ \A p \in Processes : Handing(p) => Fresh(p)

Inv == Serving /\ WalletInv /\ Control

\* Without a new call the daemon is not about to hand out anything new.
LEMMA NoNewHanding == ASSUME NoNewCall, Handing("daemon")' PROVE Handing("daemon")
BY DEF NoNewCall, Handing

\* A step of the server that is not a call to the wallet, and leaves it running.
LEMMA ServerOnly ==
    ASSUME Inv, NoNewCall, UNCHANGED <<walletVars, tool>>, phase' = "off" => phase = "off",
           phase = "off" => phase' = "off" \/ tool = "idle"
    PROVE  WalletInv' /\ Control'
<1>1. WalletInv' /\ UNCHANGED <<file, mem, saves, cut, seeds, given, restored, refused>>
  BY DEF Inv, WalletInv, Typed, Drawn, FileCovers, Sound, Covers, walletVars
<1>2. \A p \in Processes : Idle(p) => Idle(p)'
  BY <1>1 DEF Idle
<1>3. \A p \in Processes : Handing(p)' => Handing(p)
  BY NoNewHanding DEF Handing, Processes
<1>4. \A p \in Processes : Fresh(p) => Fresh(p)'
  BY <1>1 DEF Fresh, Exempt
<1> QED BY <1>1, <1>2, <1>3, <1>4 DEF Inv, Control, Processes

\* While one process runs, the other is idle.
LEMMA OneRuns ==
    ASSUME Inv
    PROVE  /\ phase # "off" => Idle("tool") /\ tool = "idle"
           /\ tool # "idle" => Idle("daemon") /\ phase = "off"
           /\ Handing("daemon") => phase = "serving"
           /\ Handing("tool") <=> tool = "told"
           /\ "daemon" \in Processes /\ "tool" \in Processes
BY DEF Inv, Serving, Control, ServerInv, Handing, Processes

\* A step on the wallet of the daemon that nothing is handed out in.
LEMMA DaemonControl ==
    ASSUME Inv, phase # "off", tool' = tool, Idle("tool")', phase' = "off" => Idle("daemon")',
           Handing("daemon")' => Fresh("daemon")'
    PROVE  Control'
<1>1. tool = "idle"
  BY OneRuns
<1>2. \A p \in Processes : Handing(p)' => Fresh(p)'
  BY <1>1 DEF Handing, Processes
<1> QED BY <1>1, <1>2 DEF Control

\* A step of the tool.
LEMMA ToolControl ==
    ASSUME Inv, phase = "off", UNCHANGED serverVars, Idle("daemon")', tool' = "idle" => Idle("tool")',
           tool' = "told" => Fresh("tool")'
    PROVE  Control'
<1>1. ~Handing("daemon")'
  BY OneRuns DEF serverVars, Handing
<1>2. \A p \in Processes : Handing(p)' => Fresh(p)'
  BY <1>1 DEF Handing, Processes
<1> QED BY <1>2 DEF Control, serverVars

\* Steps of the daemon outside a call.
LEMMA DaemonSteps ==
    ASSUME Inv, ~Overlap,
           \/ \E password \in Passwords : OpenWallet(password)
           \/ RescanWallet \/ Serve \/ DaemonEnds \/ StopServing \/ Crash
    PROVE  WalletInv' /\ Control'
<1>0. ServerInv /\ WalletInv /\ Control /\ "daemon" \in Processes /\ "tool" \in Processes
  BY DEF Inv, Serving, Processes
<1>1. CASE \E password \in Passwords : OpenWallet(password)
  <2> PICK password \in Passwords : OpenWallet(password)
    BY <1>1
  <2>1. /\ phase = "off" /\ tool = "idle" /\ phase' = "opening" /\ tool' = tool /\ conn' = conn
        /\ IF has_wallet THEN Construct("daemon", password) ELSE UNCHANGED walletVars
    BY DEF OpenWallet
  <2>2. Idle("daemon") /\ Idle("tool")
    BY <1>0, <2>1 DEF Control
  <2>3. ~Handing("daemon")
    BY <2>1, OneRuns
  <2>4. CASE has_wallet
    <3>1. WalletInv' /\ Idle("tool")'
      BY <1>0, <2>1, <2>2, <2>4, ConstructInv
    <3>2. \A p \in Processes : ~Handing(p)'
      BY <2>1, <2>3 DEF Handing, Processes
    <3> QED BY <2>1, <3>1, <3>2 DEF Control
  <2>5. CASE ~has_wallet
    BY <2>1, <2>5, ServerOnly DEF NoNewCall
  <2> QED BY <2>4, <2>5
<1>2. CASE RescanWallet
  <2>1. phase # "off" /\ UNCHANGED <<serverVars, tool>> /\ StoreTx("daemon")
    BY <1>2 DEF RescanWallet, Free
  <2>2. Idle("tool")
    BY <2>1, OneRuns
  <2>3. WalletInv' /\ Idle("tool")'
    BY <1>0, <2>1, <2>2, StoreTxInv
  <2>4. UNCHANGED <<mem, given, restored, refused>>
    BY <2>1 DEF StoreTx
  <2>5. Handing("daemon")' => Fresh("daemon")'
    <3>1. Handing("daemon")' => Handing("daemon")
      BY <2>1 DEF Handing, serverVars
    <3> QED BY <1>0, <2>4, <3>1, FreshStays DEF Control
  <2> QED BY <2>1, <2>3, <2>5, DaemonControl DEF serverVars
<1>3. CASE Serve \/ StopServing
  <2>1. /\ NoNewCall /\ UNCHANGED <<walletVars, tool>> /\ phase # "off" /\ phase' # "off"
    <3>1. NoNewCall
      BY <1>0, <1>3, LifeInv DEF Serve, StopServing
    <3> QED BY <1>3, <3>1 DEF Serve, StopServing, Stop, Free, Generate, PlaceCookie, Bind
  <2> QED BY <2>1, ServerOnly
<1>4. CASE DaemonEnds \/ Crash
  <2>1. /\ phase # "off" /\ phase' = "off" /\ Exit("daemon") /\ tool' = tool
        /\ UNCHANGED <<file, seeds, given, restored, refused>>
    BY <1>4 DEF DaemonEnds, Crash, PlaceFails, BindFails, RemoveCookie, Die
  <2>2. ServerInv'
    BY <1>0, <1>4, LifeInv DEF DaemonEnds, Crash
  <2>3. WalletInv' /\ Idle("daemon")' /\ Idle("tool")'
    BY <1>0, <2>1, OneRuns, ExitInv
  <2>4. ~Handing("daemon")'
    BY <2>1, <2>2 DEF ServerInv, Handing
  <2> QED BY <2>1, <2>3, <2>4, DaemonControl
<1> QED BY <1>1, <1>2, <1>3, <1>4

\* Steps of a connection: a call takes an address when no other is under way, and
\* hands it out when it ends.
LEMMA ConnectionSteps ==
    ASSUME Inv, NEW c \in Connections,
           Dispatch(c) \/ Answer(c) \/ Handle(c) \/ Client(c) \/ System(c)
    PROVE  WalletInv' /\ Control'
<1>0. ServerInv /\ WalletInv /\ Control /\ "daemon" \in Processes /\ "tool" \in Processes
  BY DEF Inv, Serving, Processes
<1>1. CASE Dispatch(c)
  <2>0. conn[c].method \in Methods \cup {"none", "query"}
    BY <1>0 DEF ServerInv, Record
  <2>1. PICK method \in Methods \cup {"none", "query"} :
            /\ Enter(c, method)
            /\ \/ method = "getnewaddress" /\ GetNewAddress("daemon")
               \/ method # "getnewaddress" /\ UNCHANGED walletVars
               \/ method # "getnewaddress" /\ StoreTx("daemon")
    BY <1>1, <2>0 DEF Dispatch
  <2>2. phase = "serving" /\ phase' = phase /\ tool' = tool
    BY <1>1, <2>1 DEF Dispatch, Enter, Free
  <2>3. /\ conn'[c].method = method
        /\ \A d \in Connections : conn'[d].op = "busy" => d = c
    BY <1>0, <2>1, EnterInv
  <2>4. method # "getnewaddress" => ~Handing("daemon")'
    BY <2>3 DEF Handing
  <2>5. Idle("tool")
    BY <2>2, OneRuns
  <2>6. CASE method = "getnewaddress" /\ GetNewAddress("daemon")
    <3>1. WalletInv' /\ Idle("tool")' /\ Fresh("daemon")'
      BY <1>0, <2>5, <2>6, GetNewAddressInv
    <3> QED BY <2>2, <3>1, DaemonControl
  <2>7. CASE method # "getnewaddress" /\ StoreTx("daemon")
    <3>1. WalletInv' /\ Idle("tool")'
      BY <1>0, <2>5, <2>7, StoreTxInv
    <3> QED BY <2>2, <2>4, <2>7, <3>1, DaemonControl
  <2>8. CASE method # "getnewaddress" /\ UNCHANGED walletVars
    <3>1. WalletInv' /\ Idle("tool")'
      BY <1>0, <2>5, <2>8, Zenon
         DEF WalletInv, Typed, Drawn, FileCovers, Sound, Covers, walletVars, Idle
    <3> QED BY <2>2, <2>4, <2>8, <3>1, DaemonControl
  <2> QED BY <2>1, <2>6, <2>7, <2>8
<1>2. CASE Answer(c)
  <2>1. /\ NoNewCall /\ conn[c].op = "busy" /\ \A d \in Connections : conn'[d].op # "busy"
    BY <1>0, <1>2, CallEndsInv DEF Answer
  <2>2. phase = "serving" /\ phase' = phase /\ tool' = tool /\ saves["daemon"] = <<>>
    BY <1>0, <1>2, <2>1 DEF Answer, Reply, Throw, ServerInv, Quiet
  <2>3. CASE UNCHANGED walletVars
    BY <2>1, <2>2, <2>3, ServerOnly
  <2>4. CASE conn[c].method = "getnewaddress" /\ Hand("daemon")
    <3>1. Fresh("daemon") /\ Idle("tool")
      BY <1>0, <2>1, <2>2, <2>4, OneRuns DEF Control, Handing
    <3>2. WalletInv' /\ Idle("tool")'
      BY <1>0, <2>2, <2>4, <3>1, HandInv, Zenon
    <3>3. ~Handing("daemon")'
      BY <2>1 DEF Handing
    <3> QED BY <2>2, <3>2, <3>3, DaemonControl
  <2> QED BY <1>2, <2>3, <2>4, Zenon DEF Answer
<1>3. CASE Handle(c)
  <2>1. NoNewCall
    BY <1>0, <1>3, HandlerInv DEF Handle
  <2>2. phase' = phase /\ UNCHANGED <<walletVars, tool>>
    BY <1>3 DEF Handle, OnDeadline, OnAborted, OnEnd, OnRead
  <2> QED BY <2>1, <2>2, ServerOnly
<1>4. CASE Client(c)
  <2>1. \/ \E credential \in {NoToken, token}, method \in Methods \cup {"query"} : Accept(c, credential, method)
        \/ \E buffer \in {"part", "whole", "malformed"} : Arrive(c, buffer)
        \/ Hangup(c)
    BY <1>4 DEF Client
  <2>2. {NoToken, token} \subseteq Nat
    BY <1>0 DEF NoToken, ServerInv
  <2>3. NoNewCall
    BY <1>0, <2>1, <2>2, AcceptInv, NetworkInv
  <2>4. phase' = phase /\ UNCHANGED <<walletVars, tool>>
    BY <1>4, <2>1, Zenon DEF Client, Accept, Arrive, Hangup, Completes
  <2> QED BY <2>3, <2>4, ServerOnly
<1>5. CASE System(c)
  <2>1. NoNewCall
    BY <1>0, <1>5, NetworkInv DEF System
  <2>2. phase' = phase /\ UNCHANGED <<walletVars, tool>>
    BY <1>5 DEF System, Flushed, Expire, Completes
  <2> QED BY <2>1, <2>2, ServerOnly
<1> QED BY <1>1, <1>2, <1>3, <1>4, <1>5

\* Either process saving.
LEMMA SaveSteps ==
    ASSUME Inv, NEW p \in Processes, Save(p)
    PROVE  WalletInv' /\ Control'
<1>0. ServerInv /\ WalletInv /\ Control
  BY DEF Inv, Serving
<1>1. /\ UNCHANGED <<serverVars, tool>> /\ UNCHANGED <<mem, given, restored>> /\ (refused => refused')
      /\ Truncate(p) \/ WriteOut(p)
  BY DEF Save, Truncate, WriteOut
<1>2. ~Idle(p)
  <2>1. cut[p] => saves[p] # <<>>
    BY <1>0 DEF WalletInv, Sound
  <2> QED BY <1>1, <2>1, Zenon DEF Idle, Truncate, WriteOut, Quiet
<1>3. PICK q \in Processes : p # q /\ (p = "daemon" => q = "tool") /\ (p = "tool" => q = "daemon")
  BY DEF Processes
<1>4. Idle(q)
  BY <1>0, <1>2, <1>3 DEF Control, Processes
<1>5. WalletInv' /\ Idle(q)'
  BY <1>0, <1>1, <1>3, <1>4, TruncateInv, WriteOutInv
<1>6. \A r \in Processes : Handing(r)' => Fresh(r)'
  <2>1. \A r \in Processes : Handing(r)' => Handing(r)
    BY <1>1 DEF Handing, serverVars
  <2> QED BY <1>0, <1>1, <2>1, FreshStays DEF Control
<1> QED BY <1>0, <1>1, <1>2, <1>3, <1>5, <1>6 DEF Control, serverVars, Processes

\* Steps of the tool.
LEMMA ToolSteps ==
    ASSUME Inv, ~Overlap,
           \/ \E command \in Commands, password \in Passwords : ToolOpens(command, password)
           \/ ToolActs \/ ToolExits
    PROVE  WalletInv' /\ Control'
<1>0. ServerInv /\ WalletInv /\ Control /\ "daemon" \in Processes /\ "tool" \in Processes
  BY DEF Inv, Serving, Processes
<1>1. CASE \E command \in Commands, password \in Passwords : ToolOpens(command, password)
  <2> PICK command \in Commands, password \in Passwords : ToolOpens(command, password)
    BY <1>1
  <2>1. /\ phase = "off" /\ tool = "idle" /\ UNCHANGED serverVars /\ tool' = command
        /\ Construct("tool", password) /\ command # "told" /\ command # "idle"
    BY DEF ToolOpens, Commands
  <2>2. Idle("tool") /\ Idle("daemon")
    BY <1>0, <2>1 DEF Control
  <2>3. WalletInv' /\ Idle("daemon")'
    BY <1>0, <2>1, <2>2, ConstructInv
  <2> QED BY <2>1, <2>3, ToolControl
<1>2. CASE ToolActs
  <2>1. tool # "idle" /\ UNCHANGED serverVars /\ saves["tool"] = <<>>
    BY <1>2 DEF ToolActs, Quiet
  <2>2. Idle("daemon") /\ phase = "off"
    BY <2>1, OneRuns
  <2>3. CASE tool = "getnewaddress" /\ tool' = "told" /\ GetNewAddress("tool")
    <3>1. WalletInv' /\ Idle("daemon")' /\ Fresh("tool")'
      BY <1>0, <2>2, <2>3, GetNewAddressInv
    <3> QED BY <2>1, <2>2, <2>3, <3>1, ToolControl
  <2>4. CASE /\ tool = "restore" /\ tool' = "done"
             /\ \E number \in 1..seeds : RestoreFromBackup("tool", number)
    <3>1. WalletInv' /\ Idle("daemon")'
      BY <1>0, <2>2, <2>4, RestoreInv
    <3> QED BY <2>1, <2>2, <2>4, <3>1, ToolControl
  <2>5. CASE tool = "told" /\ tool' = "done" /\ Hand("tool")
    <3>1. Fresh("tool")
      BY <1>0, <2>5, OneRuns DEF Control
    <3>2. WalletInv' /\ Idle("daemon")'
      BY <1>0, <2>1, <2>2, <2>5, <3>1, HandInv
    <3> QED BY <2>1, <2>2, <2>5, <3>2, ToolControl
  <2> QED BY <1>2, <2>3, <2>4, <2>5 DEF ToolActs
<1>3. CASE ToolExits
  <2>1. /\ tool # "idle" /\ tool' = "idle" /\ Exit("tool") /\ UNCHANGED serverVars
        /\ UNCHANGED <<file, seeds, given, restored, refused>>
    BY <1>3 DEF ToolExits
  <2>2. Idle("daemon") /\ phase = "off"
    BY <2>1, OneRuns
  <2>3. WalletInv' /\ Idle("daemon")' /\ Idle("tool")'
    BY <1>0, <2>1, <2>2, ExitInv
  <2> QED BY <2>1, <2>2, <2>3, ToolControl
<1> QED BY <1>1, <1>2, <1>3

\* The inductive invariant of the whole service.
THEOREM ServiceInvariant == ASSUME ~Overlap PROVE Spec => []Inv
<1>1. Init => Inv
  <2> SUFFICES ASSUME Init PROVE Inv
    OBVIOUS
  <2>1. Serving
    BY ServerInitInv
  <2>2. \A p \in Processes : mem[p] = NoWallet /\ saves[p] = <<>> /\ ~cut[p]
    BY DEF Init, WalletInit
  <2>3. /\ file = [state |-> "absent", enc |-> NoSeed, accounts |-> <<>>]
        /\ seeds = 0 /\ given = {} /\ restored = {} /\ refused = FALSE /\ phase = "off" /\ tool = "idle"
    BY DEF Init, WalletInit, ServerInit
  <2>4. file \in Images /\ file.enc.number = 0 /\ file.state = "absent"
    BY <2>3, SeedTyped DEF Images, NoSeed
  <2>5. Typed
    <3>1. mem \in [Processes -> Wallets]
      BY NoWalletTyped DEF Init, WalletInit
    <3>2. saves \in [Processes -> Seq(Images)] /\ cut \in [Processes -> BOOLEAN]
      <4>1. <<>> \in Seq(Images)
        OBVIOUS
      <4> QED BY <4>1 DEF Init, WalletInit
    <3> QED BY <2>3, <2>4, <3>1, <3>2, Zenon DEF Typed
  <2>6. Drawn /\ FileCovers
    BY <2>3, <2>4 DEF Drawn, FileCovers
  <2>7. \A p \in Processes : Sound(p)
    <3> SUFFICES ASSUME NEW p \in Processes PROVE Sound(p)
      OBVIOUS
    <3>1. /\ mem[p].enc.number = 0 /\ mem[p].seed.number = 0 /\ ~mem[p].open
          /\ saves[p] = <<>> /\ ~cut[p] /\ DOMAIN saves[p] = {}
      BY <2>2, NoWalletTyped
    <3> QED BY <2>3, <3>1 DEF Sound
  <2>8. Control
    <3>1. \A p \in Processes : Idle(p) /\ ~Handing(p)
      BY <2>1, <2>2, <2>3 DEF Idle, Handing, Serving, ServerInv
    <3> QED BY <2>3, <3>1 DEF Control, Processes
  <2> QED BY <2>1, <2>5, <2>6, <2>7, <2>8 DEF Inv, WalletInv
<1>2. Inv /\ [Next]_vars => Inv'
  <2> SUFFICES ASSUME Inv, [Next]_vars PROVE Inv'
    OBVIOUS
  <2>1. Serving'
    BY ServerNext DEF Inv
  <2>2. WalletInv' /\ Control'
    <3>1. CASE UNCHANGED vars
      <4>1. NoNewCall /\ phase' = phase /\ UNCHANGED <<walletVars, tool>>
        BY <3>1 DEF vars, serverVars, NoNewCall
      <4> QED BY <4>1, ServerOnly
    <3>2. CASE \E c \in Callers(has_wallet) : Dispatch(c) \/ Answer(c) \/ Handle(c) \/ Client(c) \/ System(c)
      BY <3>2, CallersAssumption, ConnectionSteps DEF Inv, Serving
    <3> QED BY <3>1, <3>2, DaemonSteps, SaveSteps, ToolSteps DEF Next
  <2> QED BY <2>1, <2>2 DEF Inv
<1> QED BY <1>1, <1>2, PTL DEF Spec

\* With the daemon and the tool run one after the other, over any number of crashes,
\* torn files and failed writes, no address is handed out twice and a readable file
\* tells the next scan of all of them, with the two exceptions the property names.
THEOREM AddressesAlwaysSound == ASSUME ~Overlap PROVE Spec => []AddressesSound
<1>1. Inv => AddressesSound
  <2> SUFFICES ASSUME Inv PROVE FreshAddresses /\ AddressesKept
    BY DEF AddressesSound
  <2>0. Typed /\ FileCovers /\ Control
    BY DEF Inv, WalletInv
  <2>1. FreshAddresses
    <3> SUFFICES ASSUME NEW p \in Processes, Handing(p), ~refused, mem[p].seed.number \notin restored,
                        <<mem[p].seed, mem[p].accounts[1].highest>> \in given
                 PROVE  FALSE
      BY DEF FreshAddresses, NextAddress, GetAccount
    <3>1. Fresh(p)
      BY <2>0 DEF Control
    <3>2. mem[p].accounts[1].highest < mem[p].accounts[1].highest
      BY <3>1 DEF Fresh, Exempt
    <3>3. mem[p].accounts[1].highest \in Nat
      BY <2>0 DEF Typed
    <3> QED BY <3>2, <3>3
  <2>2. AddressesKept
    BY <2>0 DEF AddressesKept, FileCovers, Covers, Covered, GetAccount
  <2> QED BY <2>1, <2>2
<1> QED BY <1>1, ServiceInvariant, PTL
=============================================================================

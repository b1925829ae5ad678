------------------------------ MODULE Service ------------------------------
(***************************************************************************)
(* The daemon with its wallet behind the RPC server, the clients that call *)
(* it, and the wallet tool run on the same file.  The daemon's one loop    *)
(* answers a request after every Save of the call has been made.           *)
(***************************************************************************)
EXTENDS RpcServer, WalletFile

CONSTANTS
    Overlap,         \* may the tool run while the daemon does?
    Callers(_),      \* bound: the connections used with and without a wallet
    MaxRuns          \* bound: times the daemon is started

ASSUME CallersAssumption == \A with_wallet \in BOOLEAN : Callers(with_wallet) \subseteq Connections

VARIABLES
    has_wallet,      \* --wallet was given
    tool             \* "idle", the command it runs, "told" or "done"

vars == <<serverVars, walletVars, has_wallet, tool>>

Commands == {"create", "getnewaddress", "restore"}

TypeOK == /\ ServerTypeOK /\ WalletTypeOK
          /\ has_wallet \in BOOLEAN /\ tool \in Commands \cup {"idle", "told", "done"}

Init == ServerInit /\ WalletInit /\ tool = "idle" /\ has_wallet \in BOOLEAN

-----------------------------------------------------------------------------
(* The daemon *)

\* Run: the wallet, if one is asked for, is opened or made before the interface.
OpenWallet(password) ==
    /\ phase = "off" /\ token < MaxRuns /\ (Overlap \/ tool = "idle")
    /\ phase' = "opening"
    /\ IF has_wallet THEN Construct("daemon", password) ELSE UNCHANGED walletVars
    /\ UNCHANGED <<token, cookie, conn, open, has_wallet, tool>>

\* RescanWallet, at the start and whenever the chain moved.
RescanWallet ==
    /\ phase = "opening" \/ Free
    /\ StoreTx("daemon")
    /\ UNCHANGED <<serverVars, has_wallet, tool>>

Serve ==
    /\ Quiet("daemon") /\ (Generate \/ PlaceCookie \/ Bind)
    /\ UNCHANGED <<walletVars, has_wallet, tool>>

DaemonEnds ==
    /\ PlaceFails \/ BindFails \/ RemoveCookie
    /\ Exit("daemon")
    /\ UNCHANGED <<file, seeds, given, restored, refused, has_wallet, tool>>

StopServing == Stop /\ Quiet("daemon") /\ UNCHANGED <<walletVars, has_wallet, tool>>

Crash == Die /\ Exit("daemon") /\ UNCHANGED <<file, seeds, given, restored, refused, has_wallet, tool>>

\* Dispatch.  A method that fails, that has no account to take an address from, or
\* no wallet, answers like one that only reads.
Dispatch(c) ==
    /\ Quiet("daemon")
    /\ \/ conn[c].method = "getnewaddress" /\ Enter(c, "getnewaddress") /\ GetNewAddress("daemon")
       \/ /\ conn[c].method = "getnewaddress" /\ ~CanDerive("daemon")
          /\ Enter(c, "query") /\ UNCHANGED walletVars
       \/ conn[c].method = "sendtoaddress" /\ Enter(c, "sendtoaddress") /\ StoreTx("daemon")
       \/ /\ conn[c].method # "getnewaddress"
          /\ Enter(c, "query") /\ UNCHANGED walletVars
    /\ UNCHANGED <<has_wallet, tool>>

Answer(c) ==
    /\ Quiet("daemon")
    /\ \/ Reply(c) /\ IF conn[c].method = "getnewaddress" THEN Hand("daemon") ELSE UNCHANGED walletVars
       \/ Throw(c) /\ UNCHANGED walletVars
    /\ UNCHANGED <<has_wallet, tool>>

Handle(c) ==
    /\ Quiet("daemon") /\ (OnDeadline(c) \/ OnAborted(c) \/ OnEnd(c) \/ OnRead(c))
    /\ UNCHANGED <<walletVars, has_wallet, tool>>

\* A client has the credential of this run, or one that is not: none, a wrong one
\* or that of an earlier run.  Bound: with a wallet, only requests for the wallet
\* are sent, whole and with the right credential.
Client(c) ==
    /\ \/ /\ Quiet("daemon")
          /\ \E credential \in IF has_wallet THEN {token} ELSE {NoToken, token},
                method \in IF has_wallet THEN Methods ELSE {"query"} : Accept(c, credential, method)
       \/ \E buffer \in IF has_wallet THEN {"whole"} ELSE {"part", "whole", "malformed"} : Arrive(c, buffer)
       \/ Hangup(c)
    /\ UNCHANGED <<walletVars, has_wallet, tool>>

System(c) == (Flushed(c) \/ Expire(c)) /\ UNCHANGED <<walletVars, has_wallet, tool>>

Save(p) == (Truncate(p) \/ WriteOut(p)) /\ UNCHANGED <<serverVars, has_wallet, tool>>

-----------------------------------------------------------------------------
(* The tool: one command, then it ends *)

ToolOpens(command, password) ==
    /\ has_wallet /\ tool = "idle" /\ (Overlap \/ phase = "off")
    /\ tool' = command /\ Construct("tool", password)
    /\ UNCHANGED <<serverVars, has_wallet>>

ToolActs ==
    /\ Quiet("tool")
    /\ \/ tool = "getnewaddress" /\ tool' = "told" /\ GetNewAddress("tool")
       \/ tool = "restore" /\ tool' = "done" /\ \E number \in 1..seeds : RestoreFromBackup("tool", number)
       \/ tool = "told" /\ tool' = "done" /\ Hand("tool")
    /\ UNCHANGED <<serverVars, has_wallet>>

ToolExits ==
    /\ tool # "idle" /\ tool' = "idle" /\ Exit("tool")
    /\ UNCHANGED <<serverVars, has_wallet, file, seeds, given, restored, refused>>

Next ==
    \/ \E password \in Passwords : OpenWallet(password)
    \/ RescanWallet \/ Serve \/ DaemonEnds \/ StopServing \/ Crash
    \/ \E c \in Callers(has_wallet) : Dispatch(c) \/ Answer(c) \/ Handle(c) \/ Client(c) \/ System(c)
    \/ \E p \in Processes : Save(p)
    \/ \E command \in Commands, password \in Passwords : ToolOpens(command, password)
    \/ ToolActs \/ ToolExits

\* The clock runs, and the event loop takes the handlers that are ready in their
\* order, so none of them waits for ever and none runs for ever.  Nothing is assumed
\* of the clients: a read or a write may stay pending.
Fairness ==
    \A c \in Connections :
        /\ \A waits \in {"armed", "due", "aborted"} : []<>(conn[c].timer # waits)
        /\ \A waits \in {"got", "busy", "failed", "wrote"} : []<>(conn[c].op # waits)

Spec == Init /\ [][Next]_vars /\ Fairness

-----------------------------------------------------------------------------
\* The count that the cap on connections is held against is the number of
\* connections that exist, whichever of their handlers came last.
OpenExact ==
    /\ open = Cardinality({c \in Connections : Live(conn[c])})
    /\ open <= MaxConnections

\* A client that reads the credential file while the node serves is let in, also
\* when an earlier run crashed and left its own file behind.
CookieMatches == phase \in {"binding", "serving"} => cookie = token

\* Whatever a client does or stops doing, and whatever a handler throws, its
\* connection ends.
ConnectionsEnd == \A c \in Connections : Live(conn[c]) ~> ~Live(conn[c])

Handing(p) == IF p = "tool" THEN tool = "told"
              ELSE \E c \in Connections : conn[c].op = "busy" /\ conn[c].method = "getnewaddress"

\* No address is handed out twice, over crashes and restarts of both programs,
\* unless its seed was restored from the phrase or a Save could not open the file.
FreshAddresses ==
    \A p \in Processes :
        Handing(p) /\ ~refused /\ NextAddress(p)[1].number \notin restored => NextAddress(p) \notin given

\* A file that can be read tells the next scan of every address handed out from
\* its seed, with the same two exceptions.
AddressesKept ==
    file.state = "whole" /\ ~refused /\ file.enc.number \notin restored =>
        \A address \in given :
            address[1].number = file.enc.number =>
                file.accounts # <<>> /\ address[2] <= GetAccount(file.accounts, 0).highest

\* GetNewAddress and Save together: an address is handed out once, and whoever
\* opens the file next looks for what was paid to it.
AddressesSound == FreshAddresses /\ AddressesKept
=============================================================================

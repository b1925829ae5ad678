----------------------------- MODULE RpcServer -----------------------------
(***************************************************************************)
(* The RPC side of the daemon: its credential file, its port, and the      *)
(* connections of rpc/server.cpp.  One event loop runs every handler, so   *)
(* what interleaves with them is the network, the clock and the operating  *)
(* system: they complete a pending operation, and its handler runs later.  *)
(*                                                                         *)
(* A connection exists as long as an operation refers to it.  Its op is    *)
(* pending ("reading", "writing"), complete and waiting for its handler    *)
(* ("got", "failed", "wrote"), or inside its handler ("busy"); its timer   *)
(* is "armed", and "due" or "aborted" while that handler waits.            *)
(***************************************************************************)
EXTENDS Integers, FiniteSets

CONSTANTS
    Connections,        \* names for connections, used again when one is gone
    MaxConnections,     \* max_connections of ServerConfig
    Methods             \* what clients ask of the wallet; anything else is a "query"

ASSUME LimitAssumption == IsFiniteSet(Connections) /\ MaxConnections \in Nat

VARIABLES
    phase,        \* "off", "opening", "cookie", "binding", "serving", "stopping"
    token,        \* the credential of this run: each run has one of its own
    cookie,       \* the credential in the file, NoToken if there is no file
    conn,         \* Connection objects
    open          \* ServerState::open

serverVars == <<phase, token, cookie, conn, open>>

NoToken == 0
Gone == [op |-> "none", timer |-> "none", sock |-> "closed", buffer |-> "empty",
         token |-> NoToken, method |-> "none"]
Live(k) == k.op # "none" \/ k.timer # "none"

ServerTypeOK ==
    /\ phase \in {"off", "opening", "cookie", "binding", "serving", "stopping"}
    /\ token \in Nat /\ cookie \in 0..token /\ open \in Int
    /\ conn \in [Connections ->
          [op : {"none", "reading", "got", "failed", "busy", "writing", "wrote"},
           timer : {"none", "armed", "due", "aborted"}, sock : {"open", "closed"},
           buffer : {"empty", "part", "whole", "malformed"}, token : 0..token, method : Methods \cup {"none", "query"}]]

ServerInit ==
    /\ phase = "off" /\ token = NoToken /\ cookie = NoToken
    /\ conn = [c \in Connections |-> Gone] /\ open = 0

-----------------------------------------------------------------------------
(* A connection *)

Pending(k) == IF k.sock = "open" THEN "reading" ELSE "failed"

\* Close: disarms the deadline and cancels what is pending; the handlers still run.
Closed(k) ==
    [k EXCEPT !.sock = "closed",
              !.timer = IF @ = "armed" THEN "aborted" ELSE @,
              !.op = IF @ = "reading" THEN "failed" ELSE IF @ = "writing" THEN "wrote" ELSE @]

\* Mutant: a connection that has its answer is in no hurry.
AnsweredUnhurried(k) ==
    [k EXCEPT !.op = IF k.sock = "open" THEN "writing" ELSE "wrote", !.timer = "none"]
\* Answer: writing to a socket the deadline has closed fails at once.
Answered(k) == [k EXCEPT !.op = IF k.sock = "open" THEN "writing" ELSE "wrote"]

\* Mutant: the count goes down where the socket is closed.
LeaveOnClose(c, k) ==
    /\ conn' = [conn EXCEPT ![c] = IF Live(k) THEN k ELSE Gone]
    /\ open' = IF k.sock = "closed" THEN open - 1 ELSE open
\* A handler returns: the connection is destroyed when nothing refers to it any more.
Leave(c, k) ==
    /\ conn' = [conn EXCEPT ![c] = IF Live(k) THEN k ELSE Gone]
    /\ open' = IF Live(k) THEN open ELSE open - 1

Free == phase = "serving" /\ \A c \in Connections : conn[c].op # "busy"

\* Accept, below the cap; above it the socket is closed unread.
Accept(c, credential, method) ==
    /\ Free /\ ~Live(conn[c]) /\ open < MaxConnections
    /\ conn' = [conn EXCEPT ![c] = [op |-> "reading", timer |-> "armed", sock |-> "open",
                                    buffer |-> "empty", token |-> credential, method |-> method]]
    /\ open' = open + 1
    /\ UNCHANGED <<phase, token, cookie>>

OnDeadline(c) ==
    /\ Free /\ conn[c].timer = "due"
    /\ Leave(c, Closed([conn[c] EXCEPT !.timer = "none"]))
    /\ UNCHANGED <<phase, token, cookie>>

OnAborted(c) ==
    /\ Free /\ conn[c].timer = "aborted"
    /\ Leave(c, [conn[c] EXCEPT !.timer = "none"])
    /\ UNCHANGED <<phase, token, cookie>>

\* The read or the write is over, one way or the other, and so is the connection.
OnEnd(c) ==
    /\ Free /\ conn[c].op \in {"failed", "wrote"}
    /\ Leave(c, Closed([conn[c] EXCEPT !.op = "none"]))
    /\ UNCHANGED <<phase, token, cookie>>

\* Advance, for what does not reach a method: more to read, or a refusal.  The
\* socket may have been closed since the bytes came.
OnRead(c) ==
    /\ Free /\ conn[c].op = "got"
    /\ \/ /\ conn[c].buffer = "part"
          /\ Leave(c, [conn[c] EXCEPT !.op = Pending(conn[c])])
       \/ /\ conn[c].buffer # "part"
          /\ conn[c].buffer = "malformed" \/ conn[c].token # token
          /\ Leave(c, Answered(conn[c]))
    /\ UNCHANGED <<phase, token, cookie>>

\* Advance, for a request that passed the screening: the handler is inside Dispatch,
\* and its answer will be that of the given method.
Enter(c, method) ==
    /\ Free /\ conn[c].op = "got" /\ conn[c].buffer = "whole" /\ conn[c].token = token
    /\ conn' = [conn EXCEPT ![c].op = "busy", ![c].method = method]
    /\ UNCHANGED <<phase, token, cookie, open>>

Reply(c) ==
    /\ conn[c].op = "busy"
    /\ Leave(c, Answered(conn[c]))
    /\ UNCHANGED <<phase, token, cookie>>

\* An exception leaves the handler: Serve runs the loop again, and only the
\* deadline still refers to the connection, whose socket stays open.
Throw(c) ==
    /\ conn[c].op = "busy"
    /\ Leave(c, [conn[c] EXCEPT !.op = "none"])
    /\ UNCHANGED <<phase, token, cookie>>

-----------------------------------------------------------------------------
(* The network and the clock, which also move while a handler runs *)

Completes(c, k) == conn' = [conn EXCEPT ![c] = k] /\ UNCHANGED <<phase, token, cookie, open>>

Arrive(c, buffer) ==
    /\ phase = "serving" /\ conn[c].op = "reading"
    /\ Completes(c, [conn[c] EXCEPT !.op = "got", !.buffer = buffer])

\* The client closes its end.
Hangup(c) ==
    /\ phase = "serving" /\ conn[c].op \in {"reading", "writing"}
    /\ Completes(c, [conn[c] EXCEPT !.op = IF @ = "reading" THEN "failed" ELSE "wrote"])

Flushed(c) ==
    /\ phase = "serving" /\ conn[c].op = "writing"
    /\ Completes(c, [conn[c] EXCEPT !.op = "wrote"])

Expire(c) ==
    /\ phase = "serving" /\ conn[c].timer = "armed"
    /\ Completes(c, [conn[c] EXCEPT !.timer = "due"])

-----------------------------------------------------------------------------
(* The life of the daemon (ServeRpc) *)

NoConnections == conn' = [c \in Connections |-> Gone] /\ open' = 0

\* Cookie::Generate: a new credential, first under a temporary name.
Generate == /\ phase = "opening" /\ phase' = "cookie" /\ token' = token + 1
            /\ UNCHANGED <<cookie, conn, open>>
\* The rename, which replaces a file that a crash left behind.
PlaceCookie == /\ phase = "cookie" /\ phase' = "binding" /\ cookie' = token
               /\ UNCHANGED <<token, conn, open>>
\* The file could not be written or renamed.
PlaceFails == /\ phase = "cookie" /\ phase' = "off"
              /\ UNCHANGED <<token, cookie, conn, open>>

Bind == phase = "binding" /\ phase' = "serving" /\ UNCHANGED <<token, cookie, conn, open>>

BindFails == phase = "binding" /\ phase' = "off" /\ cookie' = NoToken /\ UNCHANGED <<token, conn, open>>

\* A signal: the loop ends between two handlers and the connections go with it.
Stop == Free /\ phase' = "stopping" /\ NoConnections /\ UNCHANGED <<token, cookie>>
RemoveCookie == phase = "stopping" /\ phase' = "off" /\ cookie' = NoToken /\ UNCHANGED <<token, conn, open>>

Die == phase # "off" /\ phase' = "off" /\ NoConnections /\ UNCHANGED <<token, cookie>>
=============================================================================

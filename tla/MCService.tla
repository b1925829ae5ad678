----------------------------- MODULE MCService -----------------------------
(***************************************************************************)
(* A daemon that is started up to twice: without a wallet, three clients   *)
(* share two connections; with one, a client and the wallet tool use it.   *)
(***************************************************************************)
EXTENDS Service

CONSTANTS c1, c2, c3
MCConnections == {c1, c2, c3}
MCCallers(with_wallet) == IF with_wallet THEN {c1} ELSE MCConnections
MCMethods == {"getnewaddress", "sendtoaddress"}
MCPasswords == {"p"}
=============================================================================

------------------------------ MODULE Accounts ------------------------------
(***************************************************************************)
(* The list of accounts a wallet keeps, as wallet/wallet.cpp looks into    *)
(* it.                                                                     *)
(***************************************************************************)
EXTENDS Integers, Sequences

\* GetAccount takes a place in the list, not an id.
GetAccount(accounts, index) == accounts[index + 1]
HasAccount(accounts, index) == index + 1 \in DOMAIN accounts
=============================================================================

----------------------------- MODULE WalletFile -----------------------------
(***************************************************************************)
(* The wallet file and the processes that use it: the daemon and the       *)
(* command line tool, each with an image of the file in memory             *)
(* (wallet/wallet.cpp, wallet/wallet_api.cpp).                             *)
(*                                                                         *)
(* Every change of the image saves the whole of it: the file is truncated, *)
(* then written, and no failure is reported.  A seed is known by a number  *)
(* and by the passwords it is masked with: masking twice with the same one *)
(* gives it back, with another one a seed that is no less usable.          *)
(***************************************************************************)
EXTENDS Accounts

CONSTANTS
    Passwords,
    MaxSeeds,        \* bound: seeds drawn
    MaxIndex         \* bound: addresses handed out from one image

Processes == {"daemon", "tool"}

VARIABLES
    file,         \* [state, enc, accounts], state "absent", "torn" or "whole"
    mem,          \* the wallet each process has open
    saves,        \* the images a process has still to write in the call it is in
    cut,          \* has the process truncated the file for the first of them?
    seeds,        \* seeds drawn so far
    given,        \* addresses handed out, <<seed, index>>
    restored,     \* seeds that were restored from their phrase
    refused       \* has a Save ever found the file it could not open?

walletVars == <<file, mem, saves, cut, seeds, given, restored, refused>>

Seed(number) == [number |-> number, mask |-> {}]
NoSeed == Seed(0)
NoAddress == <<NoSeed, 0>>
NoWallet == [open |-> FALSE, enc |-> NoSeed, accounts |-> <<>>, seed |-> NoSeed]
Image(wallet) == [state |-> "whole", enc |-> wallet.enc, accounts |-> wallet.accounts]

\* SimpleEncrypt and SimpleDecrypt: exclusive or with the hash of the password.
Masked(seed, password) ==
    [seed EXCEPT !.mask = IF password \in @ THEN @ \ {password} ELSE @ \cup {password}]

SeedsOf == [number : 0..MaxSeeds, mask : SUBSET (Passwords \cup {""})]
WalletTypeOK ==
    /\ file.state \in {"absent", "torn", "whole"}
    /\ \A p \in Processes : mem[p].enc \in SeedsOf /\ mem[p].seed \in SeedsOf
    /\ \A p \in Processes : cut[p] => saves[p] # <<>> /\ file.state = "torn"
    /\ given \subseteq SeedsOf \X (1..MaxIndex) /\ restored \subseteq 1..seeds

WalletInit ==
    /\ file = [state |-> "absent", enc |-> NoSeed, accounts |-> <<>>]
    /\ mem = [p \in Processes |-> NoWallet] /\ saves = [p \in Processes |-> <<>>]
    /\ cut = [p \in Processes |-> FALSE] /\ seeds = 0
    /\ given = {} /\ restored = {} /\ refused = FALSE

-----------------------------------------------------------------------------
(* Save *)

Quiet(p) == saves[p] = <<>>
Saves(p, images) == saves' = [saves EXCEPT ![p] = images]

\* The stream is opened for truncation; one that does not open is passed over.
Truncate(p) ==
    /\ ~Quiet(p) /\ ~cut[p]
    /\ \/ /\ file' = [state |-> "torn", enc |-> NoSeed, accounts |-> <<>>]
          /\ cut' = [cut EXCEPT ![p] = TRUE] /\ UNCHANGED <<saves, refused>>
       \/ /\ Saves(p, Tail(saves[p])) /\ refused' = TRUE /\ UNCHANGED <<file, cut>>
    /\ UNCHANGED <<mem, seeds, given, restored>>

\* The text is written, or lost with the disk full.
WriteOut(p) ==
    /\ cut[p]
    /\ cut' = [cut EXCEPT ![p] = FALSE] /\ Saves(p, Tail(saves[p]))
    /\ file' \in {file, Head(saves[p])}
    /\ UNCHANGED <<mem, seeds, given, restored, refused>>

\* The process ends, in the middle of anything or not.
Exit(p) ==
    /\ mem' = [mem EXCEPT ![p] = NoWallet] /\ Saves(p, <<>>) /\ cut' = [cut EXCEPT ![p] = FALSE]

-----------------------------------------------------------------------------
(* Wallet *)

\* Load: a file that does not parse, or has no seed, is as good as none.
HasSeed == file.state = "whole"

\* Mutant: the highest index is not read back.
LoadedForgetful(password) ==
    [open |-> TRUE, enc |-> file.enc, accounts |-> [i \in DOMAIN file.accounts |-> [id |-> 0, highest |-> 0]],
     seed |-> Masked(file.enc, password)]
Loaded(password) ==
    [open |-> TRUE, enc |-> file.enc, accounts |-> file.accounts, seed |-> Masked(file.enc, password)]

\* The constructor, which Open goes through too: the seed that is there, or a new
\* one with the default account.
Construct(p, password) ==
    LET drawn == Seed(seeds + 1)
        bare == [open |-> TRUE, enc |-> Masked(drawn, password), accounts |-> <<>>, seed |-> drawn]
        made == [bare EXCEPT !.accounts = <<[id |-> 0, highest |-> 0]>>]
    IN  /\ \/ /\ HasSeed
              /\ mem' = [mem EXCEPT ![p] = Loaded(password)] /\ Saves(p, <<>>) /\ UNCHANGED seeds
           \/ /\ ~HasSeed /\ seeds < MaxSeeds /\ seeds' = seeds + 1
              /\ mem' = [mem EXCEPT ![p] = made]
              /\ Saves(p, <<Image(bare), Image(bare), Image(made)>>)
        /\ UNCHANGED <<file, cut, given, restored, refused>>

\* There is a default account, and the bound is not reached.
CanDerive(p) == /\ HasAccount(mem[p].accounts, 0)
                /\ GetAccount(mem[p].accounts, 0).highest < MaxIndex

\* Mutant: the image is left for a later Save to write.
GetNewAddressUnsaved(p) ==
    LET account == GetAccount(mem[p].accounts, 0)
    IN  /\ mem[p].open /\ Quiet(p) /\ CanDerive(p)
        /\ mem' = [mem EXCEPT ![p].accounts[1].highest = account.highest + 1]
        /\ UNCHANGED <<file, saves, cut, seeds, given, restored, refused>>
\* The next index is taken and saved; NextAddress is what the caller is then told.
\* Without the account there is no address and nothing changes.
GetNewAddress(p) ==
    LET account == GetAccount(mem[p].accounts, 0)
        wallet == [mem[p] EXCEPT !.accounts[1].highest = account.highest + 1]
    IN  /\ mem[p].open /\ Quiet(p) /\ CanDerive(p)
        /\ mem' = [mem EXCEPT ![p] = wallet] /\ Saves(p, <<Image(wallet)>>)
        /\ UNCHANGED <<file, cut, seeds, given, restored, refused>>
NextAddress(p) == <<mem[p].seed, GetAccount(mem[p].accounts, 0).highest>>

\* StoreTx, once for each transaction a scan finds or a payment adds: the
\* transactions are not in the file, but the image is saved.
StoreTx(p) ==
    /\ mem[p].open /\ Quiet(p)
    /\ Saves(p, <<Image(mem[p])>>)
    /\ UNCHANGED <<file, mem, cut, seeds, given, restored, refused>>

\* RestoreFromBackup with a phrase alone, as the tool calls it: the seed is stored
\* under the empty password and the accounts stay what they were.
RestoreFromBackup(p, number) ==
    LET wallet == [mem[p] EXCEPT !.seed = Seed(number), !.enc = Masked(Seed(number), "")]
    IN  /\ mem[p].open /\ Quiet(p)
        /\ mem' = [mem EXCEPT ![p] = wallet] /\ Saves(p, <<Image(wallet), Image(wallet)>>)
        /\ restored' = restored \cup {number}
        /\ UNCHANGED <<file, cut, seeds, given, refused>>

Hand(p) == given' = given \cup {NextAddress(p)} /\ UNCHANGED <<file, mem, saves, cut, seeds, restored, refused>>
=============================================================================

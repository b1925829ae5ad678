---------------------------- MODULE MCAlgorithms ----------------------------
(***************************************************************************)
(* The pure functions of the wallet, of the RPC transport and of the spend *)
(* rules, checked against what they are meant to compute, together with    *)
(* those of the consensus library (MCNumbers).  A state is one input of    *)
(* one of them.                                                            *)
(***************************************************************************)
EXTENDS MCNumbers, WalletText, WalletCoins, HttpClient, SpendRules, SchemeLifecycle, Args, Miner

\* The hash of a seed: any function of it will do.
MCHashOf(seed) ==
    LET n == FromBits(seed) IN [i \in 1..HashBits |-> ((n * 5 + n \div 7) \div 2^(i - 1)) % 2]

Program == {<<255, 255>>, <<90, 7>>}
Prefix == {<<97, 109, 114>>, <<116, 97, 109, 114>>}      \* "amr", "tamr"
AddressLength == 1 + 4 + 6

-----------------------------------------------------------------------------
\* Chains for the scan.  The wallet owns account 0 of seed 1.
Own(index) == <<1, 0, index>>
Foreign == <<9, 9, 9>>
To(lock, amount) == [lock |-> lock, amount |-> amount]
Mined(id, lock) == [id |-> id, ins |-> {}, outs |-> <<To(lock, 50)>>, coinbase |-> TRUE]
Paid(id, from, outs) == [id |-> id, ins |-> from, outs |-> outs, coinbase |-> FALSE]
Ledger ==
    LET k(n, lock) == Mined("k" \o n, lock)
        pay == Paid("pay", {<<"k1", 1>>}, <<To(Foreign, 30), To(Own(1), 19)>>)
        back == Paid("back", {<<"pay", 1>>}, <<To(Own(2), 29)>>)
        sweep == Paid("sweep", {<<"pay", 2>>, <<"back", 1>>}, <<To(Foreign, 40), To(Own(0), 7)>>)
        rival == Paid("rival", {<<"k1", 1>>}, <<To(Foreign, 48)>>)
        b(prev, id, lock, txs) == Append(prev, [height |-> Len(prev) + 1, txs |-> <<Mined(id, lock)>> \o txs])
        one == b(<<>>, "k1", Own(0), <<>>)
        alone == b(<<>>, "j1", Foreign, <<>>)
        two == {b(one, "k2", Own(1), t) : t \in {<<>>, <<pay>>, <<pay, back>>, <<rival>>, <<pay, back, sweep>>}}
    IN  {<<>>, one, alone} \cup two
        \cup {b(b(one, "k2", Own(1), <<pay>>), "k3", Own(0), t) : t \in {<<>>, <<back>>, <<back, sweep>>}}
        \cup {b(b(b(one, "j2", Foreign, <<>>), "j3", Own(2), <<rival>>), "j4", Own(0), <<>>)}
Opened(highest) == [seed |-> 1, accounts |-> <<[id |-> 0, highest |-> highest]>>,
                    utxos |-> <<>>, txs |-> <<>>, tip_height |-> 0]

\* Coins around the fee for one, two and three inputs, and the two dust limits.
Purse == {[i \in DOMAIN amounts |-> [outpoint |-> <<"c", i>>, amount |-> amounts[i], lock |-> Own(i)]] :
             amounts \in SeqOf({600, 2773, 3772, 6000, 40000}, 3)}
Rates == SeqOf({0, 1, 6, 9}, 3)

-----------------------------------------------------------------------------
\* Requests as they come over a socket.
RequestLine == {<<"POST", " ", "/", " ", "HTTP/1.1">>, <<"POST", " ", "x", " ", "HTTP/1.1">>,
                <<"POST", " ", "/">>, <<"POST", "/">>}
FieldLine == {Field("content-length", <<"2">>), Field("content-length", <<"1", "3">>),
              Field("content-length", <<"1", "2">>), Field("transfer-encoding", <<"x">>),
              Field("x", [i \in 1..29 |-> "y"]), <<" ", "x">>, <<"x">>}
Streams == {Message(<<line>> \o fields, body) : line \in RequestLine, fields \in SeqOf(FieldLine, 2),
                                         body \in {<<>>, <<"b", "b">>, <<"b", "b", "b">>}}
Hosts == {name \o rest : name \in LoopbackNames \cup {<<>>, <<"example">>, <<"[", ":", "1", "]">>, <<":", ":", "1">>},
                         rest \in SeqOf({":", "0", "1", "]", "localhost"}, 4)}

\* A caller who has the cookie, one who does not, and what a browser would add.
Cookie == <<"cookie">>
Policy == [expected_authorization |-> Cookie, port |-> 1]
HeaderSet == {[name |-> <<"authorization">>, value |-> v] : v \in {Cookie, <<"guess">>}}
             \cup {[name |-> <<"host">>, value |-> v] : v \in {<<"localhost">>, <<"example">>}}
             \cup {[name |-> <<"content-type">>, value |-> v] :
                      v \in {<<"application/json", ";", "x">>, <<"text/plain">>}}

-----------------------------------------------------------------------------
\* Keys of two schemes every build knows or not, and of one none knows; the third
\* key of the first scheme cannot be parsed.  Signatures over the right message
\* and over another one.
Key(scheme, id) == [scheme |-> scheme, id |-> id, sized |-> TRUE, usable |-> id # 3]
Sig(scheme, signer, over) == [scheme |-> scheme, signer |-> signer, over |-> over, sized |-> TRUE]
KeySet == {Key(1, 1), Key(1, 2), Key(1, 3), Key(2, 1), Key(9, 1), [Key(2, 2) EXCEPT !.sized = FALSE]}
SigSet(message) == {Sig(1, 1, message), Sig(1, 2, message), Sig(2, 1, message), Sig(9, 1, message),
                    Sig(1, 1, <<"other">>), [Sig(2, 1, message) EXCEPT !.sized = FALSE]}
Right == <<"right">>
Condition(threshold, keys) == [version |-> Threshold, threshold |-> threshold, keys |-> keys]

\* One key holds two coins of a transaction.  A signature is made for a network,
\* an input, an amount and outputs that need not be those it is shown with.
Single == Condition(1, <<Key(1, 1)>>)
PairTx(outputs) == [inputs |-> <<<<"a">>, <<"b">>>>, outputs |-> outputs, witnesses |-> <<>>,
                    coinbase_data |-> 0, weight |-> 1]
OutputLists == {<<[amount |-> n]>> : n \in {1, 2}}
MadeFor == [chain : {"main", "test"}, outputs : OutputLists, index : {1, 2}, amount : {3, 4}]

Regimes == [scheme_id : {1, 7}, activation_height : 0..2, deprecation_height : 0..2, retirement_height : 0..2]

Specs == <<[name |-> "mine", short |-> "m", kind |-> "Flag"], [name |-> "port", short |-> "p", kind |-> "Integer"],
           [name |-> "dir", short |-> "d", kind |-> "String"]>>
Long(name) == <<"-", "-", name>>
ArgSet == {Long("mine"), Long("mine") \o <<"=", "0">>, Long("mine") \o <<"=", "x">>, <<"-", "-", "no-", "mine">>,
           Long("port"), Long("port") \o <<"=", "5">>, Long("port") \o <<"=", "x">>, <<"-", "-", "no-", "port">>,
           Long("dir"), Long("dir") \o <<"=">>, <<"-", "d">>, <<"-", "-">>, <<"-">>, <<>>,
           <<"-", "5">>, <<"1", "2">>, <<"a", "=", "b">>}

WalletProbes ==
    \/ probe \in [kind : {"address"}, program : Program, hrp : Prefix, place : 1..AddressLength, value : 0..31]
    \/ probe \in [kind : {"seed"}, bits : TupleOf({0, 1}, SeedBits)]
    \/ probe \in [kind : {"phrase"}, words : SeqOf(0..WordlistSize - 1, PhraseLength)]
    \/ probe \in [kind : {"scan"}, before : Ledger, now : Ledger, highest : 0..2, maturity : 1..2]
    \/ probe \in [kind : {"payment"}, purse : Purse, amount : {0, 1, 1000, 3000, 30000}, rate : {1, 2}]
    \/ probe \in [kind : {"rates"}, blocks : SeqOf(Rates, 2)]
    \/ probe \in [kind : {"request"}, stream : Streams]
    \/ probe \in [kind : {"host"}, host : Hosts]
    \/ probe \in [kind : {"screen"}, headers : SeqOf(HeaderSet, 4), method : {<<"POST">>, <<"GET">>},
                  target : {<<"/">>, <<"/", "x">>}]
    \/ probe \in [kind : {"call"}, body : SeqOf({"b", "cr", "lf"}, 4) \cup {[i \in 1..12 |-> "b"]}]
    \/ probe \in [kind : {"reply"}, status : {200, 401}, body : SeqOf({"b", "cr", "lf"}, 4) \cup {[i \in 1..12 |-> "b"]}]

RuleProbes ==
    \/ probe \in [kind : {"witness"}, threshold : 0..3, keys : SeqOf(KeySet, 2), signatures : SeqOf(SigSet(Right), 3)]
    \/ probe \in [kind : {"witness"}, threshold : {2}, keys : TupleOf(KeySet, 3), signatures : TupleOf(SigSet(Right), 2)]
    \/ probe \in [kind : {"spend"}, worth : TupleOf({3, 4}, 2), outputs : OutputLists, made : TupleOf(MadeFor, 2)]
    \/ probe \in [kind : {"amounts"}, amounts : SeqOf({-18, -1, 0, 1, 8, 14, 15, 16, 17}, 3)]
    \/ probe \in [kind : {"lifecycle"}, registered : SeqOf(Regimes, 2)]
    \/ probe \in [kind : {"search"}, start : 0..4, first : 0..3, second : 0..4, solutions : SUBSET (0..4)]
    \/ probe \in [kind : {"command"}, argv : SeqOf(ArgSet, 3)]
    \/ probe \in [kind : {"mining"}, batch : 1..5, last : 3..5, solutions : SUBSET (0..4),
                  news : SeqOf({"same", "moved", "failed", "faulty"}, 3) \cup {[i \in 1..6 |-> "same"]}]

Init == Probes \/ WalletProbes \/ RuleProbes
Next == UNCHANGED probe
Spec == Init /\ [][Next]_probe
-----------------------------------------------------------------------------
\* An address leads back to the lock it was made from, on its own network only,
\* and neither one wrong character nor two neighbours swapped lead anywhere.
AddressBinds ==
    probe.kind = "address" =>
        LET lock == [version |-> 1, program |-> probe.program]
            address == LockToAddress(lock, probe.hrp)
            Typed(data) == AddressToLock([address EXCEPT !.data = data], probe.hrp)
            wrong == [address.data EXCEPT ![probe.place] = probe.value]
            swapped == IF probe.place = AddressLength THEN address.data
                       ELSE [address.data EXCEPT ![probe.place] = address.data[probe.place + 1],
                                                 ![probe.place + 1] = address.data[probe.place]]
        IN  /\ AddressToLock(address, probe.hrp) = lock
            /\ \A hrp \in Prefix \ {probe.hrp} : AddressToLock(address, hrp) = Refused
            /\ wrong # address.data => Typed(wrong) = Refused
            /\ swapped # address.data => Typed(swapped) = Refused

\* A phrase that is accepted is the phrase of the seed it gives, and a seed comes
\* back from its phrase unless a group of its bits is the one the list has no
\* word for.
PhraseIsSeed ==
    /\ probe.kind = "phrase" =>
           LET seed == SeedFromMnemonic(probe.words)
           IN  seed # Refused => GenerateMnemonic(seed) = probe.words
    /\ probe.kind = "seed" =>
           LET groups == ToSet(Grouped(probe.bits \o HashOf(probe.bits), WordBits))
           IN  WordlistSize - 1 \notin groups => SeedFromMnemonic(GenerateMnemonic(probe.bits)) = probe.bits

\* "Recovers a master seed from its BIP-39 mnemonic": every seed comes back from
\* the phrase that was exported for it.
PhraseRestores ==
    probe.kind = "seed" => SeedFromMnemonic(GenerateMnemonic(probe.bits)) = probe.bits

\* The coins of a set of locks on a chain, said without scanning it.
CoinsOf(chain, locks) ==
    LET placed == {<<i, j>> \in (DOMAIN chain) \X (1..4) : j \in DOMAIN chain[i].txs}
        At(p) == chain[p[1]].txs[p[2]]
        spent == UNION {At(p).ins : p \in placed}
    IN  {c \in UNION {{[outpoint |-> <<At(p).id, n>>, amount |-> At(p).outs[n].amount,
                        lock |-> At(p).outs[n].lock, height |-> chain[p[1]].height,
                        coinbase |-> At(p).coinbase] : n \in DOMAIN At(p).outs} : p \in placed} :
            c.lock \in locks /\ c.outpoint \notin spent}

\* After a rescan, also one that follows a reorganisation, the wallet's coins are
\* exactly the unspent outputs of the active chain that pay it, its balance is
\* their sum, none it would spend is one consensus still holds back, and every
\* confirmed transaction is listed at the height it has now.
ScanExact ==
    probe.kind = "scan" =>
        LET Sum(set) == MapThenSumSet(LAMBDA c : c.amount, set)
        IN  \A wallet \in {Rescan(Rescan(Opened(probe.highest), probe.before), probe.now)},
               coins \in {CoinsOf(probe.now, {Own(i) : i \in 0..probe.highest})} :
            LET held == {c \in coins : c.coinbase /\ wallet.tip_height < c.height + probe.maturity}
            IN
            /\ ToSet(wallet.utxos) = coins /\ Len(wallet.utxos) = Cardinality(coins)
            /\ Balance(wallet, probe.maturity) = [confirmed |-> Sum(coins \ held), pending |-> Sum(held)]
            /\ \A c \in coins \ held : c.coinbase => (wallet.tip_height + 1) - c.height >= probe.maturity
            /\ \A c \in coins : wallet.txs[c.outpoint[1]].height = c.height

\* What a signed payment really weighs: the fields of the transaction, and per
\* input a condition of one Schnorr key and one signature.
RealWeight(inputs, outputs) == 4 * (10 + 40 * inputs + 42 * outputs) + 1 + 106 * inputs

\* A payment pays the recipient in full out of the wallet's own coins, returns the
\* rest to one of its locks or leaves it to the fee when it is dust, and its fee is
\* at least the rate for what it weighs.  None is built only if no choice of coins
\* would cover the amount and the estimated fee.
PaymentSound ==
    probe.kind = "payment" =>
        LET coins == ToSet(probe.purse)
            Sum(set) == MapThenSumSet(LAMBDA c : c.amount, set)
            affordable == \E some \in SUBSET coins :
                              some # {} /\ Sum(some) >= probe.amount + EstimatedFee(Cardinality(some), probe.rate)
        IN  \A built \in {Build(probe.purse, Foreign, probe.amount, probe.rate)} :
            /\ built.built = (probe.amount > 0 /\ affordable)
            /\ built.built =>
                  /\ ToSet(built.spends) \subseteq coins /\ IsInjective(built.spends)
                  /\ built.outs[1] = To(Foreign, probe.amount)
                  /\ \A i \in DOMAIN built.outs \ {1} :
                        /\ built.outs[i].amount >= DustThreshold
                        /\ built.outs[i].lock \in {c.lock : c \in coins}
                  /\ FeeOf(built) >= probe.rate * RealWeight(Len(built.spends), Len(built.outs))
                  /\ FeeOf(built) < EstimatedFee(Len(built.spends), probe.rate)
                                    + Max({DustThreshold, DustForFeeRate(probe.rate)})

\* The three rates the estimator offers are at least the minimum and in order.
EstimatesOrdered ==
    probe.kind = "rates" =>
        LET estimate == Estimate(FoldLeft(RecordBlock, <<>>, probe.blocks))
        IN  /\ MinFeerate <= estimate.economy
            /\ estimate.economy <= estimate.normal /\ estimate.normal <= estimate.priority

\* A request is framed the same way however its bytes are split into reads, unless
\* its header section is the limit long or at most two bytes shorter.
RequestsSurviveCuts ==
    probe.kind = "request" /\ Find(probe.stream, HeaderEnd) - 1 \notin MaxHeaderBytes - 2..MaxHeaderBytes =>
        \A n \in 0..Len(probe.stream) :
            LET early == FrameRequest(SubSeq(probe.stream, 1, n))
            IN  early = NeedMore \/ early = FrameRequest(probe.stream)

\* The Host check accepts the three names of this machine, bare or with the number
\* of the port the server is bound to, and nothing else.
HostIsLoopback ==
    probe.kind = "host" =>
        LET ports == {digits \in SeqOf({"0", "1"}, 3) : digits # <<>> /\ ParseLength(digits, 999) = 1}
        IN  IsLoopbackHost(probe.host, 1) <=>
                probe.host \in LoopbackNames
                               \cup {name \o <<":">> \o port : name \in LoopbackNames, port \in ports}

\* "Authentication first, so that a caller who cannot authenticate learns nothing
\* about what this server would otherwise have said": without the one right
\* credential the answer is 401 whatever else the request is; and a request is let
\* through only if every credential and every host it names is the right one.
StrangersLearnNothing ==
    probe.kind = "screen" =>
        LET status == Screen(probe, Policy)
            Values(name) == {h.value : h \in ToSet(Named(probe.headers, name))}
        IN  /\ Values("authorization") # {Cookie} => status = 401
            /\ status = 200 => /\ Values("authorization") = {Cookie} /\ Values("host") = {<<"localhost">>}
                              /\ CountHeader(probe.headers, "host") = 1

\* A call the client writes is framed by the server as one whole request with the
\* same body and is let through, and the reply it renders is read back whole:
\* never before its last byte, and never at all if the connection closes earlier.
CallCompletes ==
    /\ probe.kind = "call" =>
           LET sent == RenderCall(Cookie, <<"127.0.0.1">>, Policy.port, probe.body)
               framed == FrameRequest(sent)
           IN  /\ framed.state = "Complete" /\ framed.body = probe.body /\ framed.consumed = Len(sent)
               /\ Screen(framed, Policy) = 200
    /\ probe.kind = "reply" =>
           LET reply == RenderResponse(probe.status, probe.body, <<"application/json">>)
               whole == [state |-> "Complete", status |-> probe.status, body |-> probe.body]
           IN  /\ Split(reply, FALSE) = whole /\ Split(reply, TRUE) = whole
               /\ \A n \in 0..Len(reply) - 1 :
                     LET part == SubSeq(reply, 1, n)
                     IN  Split(part, FALSE) = MoreReply /\ Split(part, TRUE) = FailedReply

-----------------------------------------------------------------------------
Shown == [condition |-> Condition(probe.threshold, probe.keys), signatures |-> probe.signatures]
Permits(witness, known) == CheckWitness(witness, known) /\ SatisfiesThreshold(witness, Right, known)

\* The forward walk over keys and signatures accepts exactly when the signatures
\* can be given to keys that made them, each to another key and in the order of
\* the keys: no key is counted twice, and an unusable key only loses its own turn.
ThresholdIsMatching ==
    probe.kind = "witness" =>
        LET Made(i, s) ==
                /\ probe.keys[i].scheme = probe.signatures[s].scheme /\ probe.keys[i].id = probe.signatures[s].signer
                /\ probe.keys[i].sized /\ probe.keys[i].usable
                /\ probe.signatures[s].sized /\ probe.signatures[s].over = Right
            matching == \E f \in [DOMAIN probe.signatures -> DOMAIN probe.keys] :
                            /\ \A s \in DOMAIN f : Made(f[s], s)
                            /\ \A s, t \in DOMAIN f : s < t => f[s] < f[t]
        IN  SatisfiesThreshold(Shown, Right, {1, 2, 9}) <=> matching

\* To a build that knows their schemes, the signatures of an accepted witness
\* cannot be put another way: no repetition, omission, addition or permutation of
\* them is accepted as well, so none of these changes a wtxid.
WitnessUnique ==
    probe.kind = "witness" /\ Permits(Shown, {1, 2, 9}) =>
        \A other \in SeqOf(ToSet(probe.signatures), 3) :
            Permits([Shown EXCEPT !.signatures = other], {1, 2, 9}) => other = probe.signatures

\* "A hashpower majority enforcing a rule old nodes cannot see is what a soft fork
\* is": whatever a build that knows more schemes accepts, one that knows fewer does.
SoftForkTightens ==
    probe.kind = "witness" =>
        \A older, newer \in {{}, {1}, {1, 2}, {1, 2, 9}} :
            older \subseteq newer /\ Permits(Shown, newer) => Permits(Shown, older)

\* Signatures authorise the spend they were made for and no other: not another
\* input of the same owner, another amount, other outputs or another network.
SignaturesBind ==
    probe.kind = "spend" =>
        LET tx(outputs) == PairTx(outputs)
            Answering(i) == LET made == probe.made[i]
                         IN  [condition |-> Single, signatures |-> <<Sig(1, 1,
                                 SignatureHash(made.chain, tx(made.outputs), made.index, made.amount, Single))>>]
            spent == [i \in 1..2 |-> [amount |-> probe.worth[i], lock |-> [version |-> Commitment, program |-> Single]]]
            offered == [tx(probe.outputs) EXCEPT !.witnesses = <<Answering(1), Answering(2)>>]
        IN  CheckTransaction(offered, {1}) /\ CheckSpendAuthorisation(offered, spent, "main", {1}) <=>
                \A i \in 1..2 : probe.made[i] = [chain |-> "main", outputs |-> probe.outputs,
                                                index |-> i, amount |-> probe.worth[i]]

\* The amounts of an accepted transaction are each possible and so is their sum,
\* whatever the width of the accumulator did on the way.
AmountsSound ==
    probe.kind = "amounts" =>
        LET outputs == [i \in DOMAIN probe.amounts |-> [amount |-> probe.amounts[i]]]
            Total(n) == FoldLeft(+, 0, SubSeq(probe.amounts, 1, n))
        IN  CheckTransaction([PairTx(outputs) EXCEPT !.inputs = <<NullOutPoint>>], {}) <=>
                /\ outputs # <<>>
                /\ \A i \in DOMAIN outputs : probe.amounts[i] \in 0..MaxMoney
                /\ Total(Len(outputs)) <= MaxMoney

\* The last registration of a scheme is the one in force, and with it the scheme
\* only moves on, from pending over active and deprecated to retired, while every
\* coin locked under it stays spendable.
LifecycleForward ==
    probe.kind = "lifecycle" =>
        LET entries == FoldLeft(Register, DefaultRegistry, probe.registered)
            rank == [Pending |-> 0, Active |-> 1, Deprecated |-> 2, Retired |-> 3]
            last == SelectLastInSeq(probe.registered, LAMBDA e : e.scheme_id = 1)
        IN  /\ entries[EntryOf(entries, 1)] = (IF last = 0 THEN DefaultEntry(1) ELSE probe.registered[last])
            /\ \A scheme \in {1, 2, 7, 8}, h \in 0..3 :
                  /\ rank[GetState(entries, scheme, h)] <= rank[GetState(entries, scheme, h + 1)]
                  /\ MayCreateOutput(entries, scheme, h) => IsSpendable(entries, scheme, h + 1)

\* "n calls of one attempt search exactly what one call of n attempts searches":
\* a search in two calls is the search in one, and it tries every nonce from where
\* it stands to the end of its budget or of the range.
SearchResumes ==
    probe.kind = "search" =>
        LET Solve(nonce, attempts) == SolveHeader(nonce, attempts, probe.solutions, 4)
            one == Solve(probe.start, probe.first + probe.second)
            part == Solve(probe.start, probe.first)
            range == probe.start..Min({4, probe.start + probe.first + probe.second - 1})
        IN  /\ one = (IF part.solved THEN part ELSE Solve(part.nonce, probe.second))
            /\ one.solved <=> range \cap probe.solutions # {}

\* A command line that is accepted means what it says in full: every option once,
\* as --name=value, and the rest after "--"; a value may hold dashes and equals
\* signs, given inline or as the next argument; and an integer is never replaced
\* by its default.
ArgsRestated ==
    probe.kind = "command" =>
        LET argv == probe.argv
            Spelt(option) == Long(option.name) \o <<"=">> \o option.value
            InFull(meant) == [i \in DOMAIN meant.parsed |-> Spelt(meant.parsed[i])]
                                \o <<<<"-", "-">>>> \o meant.positional
        IN  \A meant \in {Parse(Specs, argv)} :
            /\ meant.ok =>
                  /\ \A again \in {Parse(Specs, InFull(meant))} :
                        again.ok /\ again.parsed = meant.parsed /\ again.positional = meant.positional
                  /\ Cardinality({p.name : p \in ToSet(meant.parsed)}) = Len(meant.parsed)
                  /\ Given(meant.parsed, "port") # 0 => GetInt(meant.parsed, "port", 7) # 7
            /\ Len(argv) >= 2 /\ argv[1] \in {Long("port"), Long("dir"), <<"-", "d">>} =>
                  meant = Parse(Specs, <<argv[1] \o <<"=">> \o argv[2]>> \o SubSeq(argv, 3, Len(argv)))

\* The batches of a search follow each other from nonce 0 and stay within the
\* range, whatever their size; a template is solved in the first batch that holds
\* a solution, and a search that ends for want of nonces has tried them all.
MinerCoversNonces ==
    probe.kind = "mining" =>
        LET search == Search(probe.news, probe.batch, probe.solutions, probe.last)
            all == UNION ToSet(search.tried)
        IN  /\ all = 0..Cardinality(all) - 1 /\ all \subseteq 0..probe.last
            /\ MapThenSumSet(LAMBDA i : Cardinality(search.tried[i]), DOMAIN search.tried) = Cardinality(all)
            /\ search.outcome = "solved" => search.found # {} /\ search.found \subseteq Last(search.tried)
            /\ search.outcome = "exhausted" => all = 0..probe.last
            /\ search.outcome \in {"searching", "exhausted"} /\ "faulty" \notin ToSet(probe.news) =>
                  all \cap probe.solutions = {}
            /\ Len(probe.news) > probe.last => search.outcome # "searching"

-----------------------------------------------------------------------------
\* The chain of computations from a block's time to the next target and to the
\* work it stands for: the limbs are the number, the compact form errs only
\* towards harder, work is the quotient, and ASERT is the schedule and monotone.
TargetsExact == LimbsExact /\ CompactRoundsDown /\ WorkIsQuotient /\ AsertExact /\ AsertMonotone

\* No sum of money leaves its range: neither what the reward schedule issues over
\* all heights nor what the outputs of one transaction add up to.
MoneyBounded == SupplyCapped /\ AmountsSound

\* A value has one encoding, comes back from it, fits the limits of the decoder,
\* and a Merkle root stands for one list: a hash names one thing.
EncodingBinds == OneEncoding /\ RoundTrips /\ LimitsAdmitWeight /\ MerkleBinds

\* Where a stream is cut changes nothing: in the framing of peer messages, in the
\* RPC server's request and in the RPC client's reply.
CutsChangeNothing == FramesSurviveCuts /\ RequestsSurviveCuts /\ CallCompletes

\* A coin is spent by a sufficient set of its keys' signatures and by nothing
\* else: the one-pass matching finds a set if there is one, the witness has no
\* second form, and a signature is good for one input of one transaction.
AuthorisationBinds == ThresholdIsMatching /\ WitnessUnique /\ SignaturesBind

\* Rules change in one direction: what a newer node accepts an older one does, and
\* a scheme moves from pending to retired without stranding a coin.
RulesOnlyTighten == SoftForkTightens /\ LifecycleForward

\* The wallet's money: Rescan finds what the chain holds for it, a payment spends
\* what it selected and keeps the difference, and fee estimates are ordered.
FundsExact == ScanExact /\ PaymentSound /\ EstimatesOrdered

\* What a person types means what it was written from: addresses, phrases and
\* command lines.
TextRestated == AddressBinds /\ PhraseIsSeed /\ ArgsRestated

\* The RPC port answers its own host and the holder of the cookie; anyone else
\* sees the same refusal whatever they ask.
AccessScreened == StrangersLearnNothing /\ HostIsLoopback

\* Every nonce is tried once, in the node's own search and in the miner's batches.
NoncesCovered == SearchResumes /\ MinerCoversNonces
=============================================================================

------------------------------- MODULE Miner -------------------------------
(***************************************************************************)
(* miner/amarian_miner.cpp: the search for a nonce of one template, in     *)
(* batches that a device tries at once, until one is found, the template   *)
(* is stale or there are no nonces left.  `last` is the largest nonce.     *)
(***************************************************************************)
EXTENDS Integers, Sequences, SequencesExt

\* Mutant: the last batch ends before the last nonce.
BatchCountShort(batch, next, last) == IF batch <= last - next THEN batch ELSE last - next
BatchCount(batch, next, last) == IF batch <= last - next THEN batch ELSE last - next + 1

\* gpu::Mine: the nonces of the batch that meet the target, of which it gives one.
\* A device that fails says what one that finds nothing says.
Hits(next, count, solutions, news) ==
    IF news = "faulty" THEN {} ELSE solutions \cap next..next + count - 1

\* One turn of the loop.  news is what happens in the turn: the poll of the tip
\* fails, or says that the chain has "moved", or the template is "old", or the
\* device is "faulty", or nothing of these.
Turn(search, news, batch, solutions, last) ==
    LET count == BatchCount(batch, search.next, last)
        tried == [search EXCEPT !.tried = Append(@, search.next..search.next + count - 1)]
        hits == Hits(search.next, count, solutions, news)
    IN  IF search.outcome # "searching" THEN search
        ELSE IF news = "failed" THEN [search EXCEPT !.outcome = "given up"]
        ELSE IF news \in {"moved", "old"} THEN [search EXCEPT !.outcome = "stale"]
        ELSE IF hits # {} THEN [tried EXCEPT !.outcome = "solved", !.found = hits]
        ELSE IF count = last - search.next + 1 THEN [tried EXCEPT !.outcome = "exhausted"]
        ELSE [tried EXCEPT !.next = @ + count]

Search(news, batch, solutions, last) ==
    FoldLeft(LAMBDA search, n : Turn(search, n, batch, solutions, last),
             [next |-> 0, tried |-> <<>>, outcome |-> "searching", found |-> {}], news)
=============================================================================

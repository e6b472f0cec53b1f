----------------------------- MODULE PriceQuery -----------------------------
(***************************************************************************)
(* One request to /price, /prices or /check_bucket of src/server.py from   *)
(* its query string to its status.  The parameters are parsed and the      *)
(* block is resolved; a batch then decides which positions the cache       *)
(* answers, numbers those to fetch anew, splits them into those with and   *)
(* without an amount for two concurrent calls of the price source, and     *)
(* puts every answer back at the position, and under the cache key, it     *)
(* belongs to.  A single price is tried twice; what its price, or that     *)
(* there is none, does to the cache is in PriceCache.                      *)
(*                                                                         *)
(* A price is the pair of a token and the amount it is for, so that a      *)
(* price at the wrong place is seen.  The block is fixed and left out.     *)
(***************************************************************************)
EXTENDS Params, Responses

CONSTANT Queries   \* the queries that are tried

(* A query is its route and its texts; /check_bucket reads only a token. *)
Texts == [kind : {"absent", "empty", "garbage", "nan", "inf", "number", "iso"}, tenths : Int]

ASSUME QueriesAssumption ==
    \A q \in Queries :
        /\ q.route \in {"price", "batch", "bucket"} /\ q.tokens \in Seq(STRING)
        /\ q.block \in Texts /\ q.timestamp \in Texts
        /\ q.route = "batch" => q.amounts \in Seq(Texts)
        /\ q.route = "bucket" => {q.block, q.timestamp} \subseteq {Text("absent", 0)}

VARIABLES
    query,     \* the texts of the request
    pc,        \* parse; rejected, raised, accepted; resolved, again (the second
               \* attempt); lookup, asking, stopping, fill; done, failed
    fetch,     \* indices_to_fetch
    prices,    \* what _fetch_batch_prices returned
    results,   \* the response
    stored,    \* the tokens for which this request wrote a price to the cache
    calls,     \* the calls of get_prices for the spot prices and the quotes
    cause,     \* the exception that ended the request, or "cancelled"
    status     \* of its error response; 0: none

batch  == <<fetch, prices, results, stored>>
ending == <<cause, status>>
vars   == <<query, pc, batch, calls, ending>>

(* The parameters of an accepted query. *)
Block     == ParseBlock(query.block)
Timestamp == ParseTimestamp(query.timestamp)
Tokens    == NonEmpty(query.tokens)
Amounts   == ParseAmounts(query.amounts)
AmountAt(i) == IF query.amounts = <<>> THEN None ELSE Amounts[i]

Calls == {"spot", "quote"}

NoPrice     == <<>>
Placeholder == [price |-> NoPrice, cached |-> FALSE, filled |-> FALSE]

Init ==
    /\ query \in Queries
    /\ pc = "parse"
    /\ fetch = <<>> /\ prices = <<>> /\ results = <<>> /\ stored = {}
    /\ calls = [c \in Calls |-> "none"]
    /\ cause = "none" /\ status = 0

-----------------------------------------------------------------------------
Parse ==
    /\ pc = "parse"
    /\ pc' = Outcome(query)
    /\ UNCHANGED <<query, batch, calls, ending>>

(* An exception ends the request, and its handler answers with a status. *)
EndWith(e, code) == pc' = "failed" /\ cause' = e /\ status' = code

(* _resolve_price_block, _resolve_batch_block; the time or the head of the *)
(* chain has to be asked for if there is no block.                         *)
Resolve ==
    /\ pc = "accepted" /\ query.route # "bucket"
    /\ \/ pc' = "resolved" /\ UNCHANGED ending
       \/ /\ Block = None
          /\ \E e \in Errors \ {"overloaded", "invalid"} : EndWith(e, ResolveStatus(e, Timestamp # None))
    /\ UNCHANGED <<query, batch, calls>>

(* A single price is found or not found; a broken connection, but not a    *)
(* timeout, gets a second attempt, whose failure arrives as RetryError.    *)
Attempt ==
    /\ pc \in {"resolved", "again"} /\ query.route = "price"
    /\ \/ pc' = "done" /\ UNCHANGED ending
       \/ pc = "resolved" /\ pc' = "again" /\ UNCHANGED ending
       \/ pc = "resolved" /\ \E e \in {x \in Errors : ~Retried(x)} : EndWith(e, PriceStatus(e))
       \/ pc = "again" /\ \E e \in Errors \ {"overloaded"} : EndWith(e, PriceStatus(e))
    /\ UNCHANGED <<query, batch, calls>>

(* /check_bucket *)
Classify ==
    /\ pc = "accepted" /\ query.route = "bucket"
    /\ \/ pc' = "done" /\ UNCHANGED ending
       \/ \E e \in Errors \ {"invalid"} : EndWith(e, BucketStatus(e))
    /\ UNCHANGED <<query, batch, calls>>

AsksCache(i) == AmountAt(i) = None

(* _prepare_batch_cache_check, with whatever the cache holds at the time.  *)
Prepare ==
    /\ pc = "resolved" /\ query.route = "batch"
    /\ \E cached \in SUBSET ToSet(Tokens) :
          LET Hit(i) == AsksCache(i) /\ Tokens[i] \in cached
          IN  /\ fetch' = IndicesOf({i \in DOMAIN Tokens : ~Hit(i)})
              /\ results' = [i \in DOMAIN Tokens |->
                    IF Hit(i)
                    THEN [price |-> <<Tokens[i], None>>, cached |-> TRUE, filled |-> TRUE]
                    ELSE Placeholder]
    /\ pc' = IF fetch' = <<>> THEN "done" ELSE "lookup"
    /\ UNCHANGED <<query, prices, stored, calls, ending>>

-----------------------------------------------------------------------------
(* get_prices() of the price source: one answer for each token, in order,  *)
(* with all amounts or, as = <<>>, without any.                            *)
GetPrices(ts, as) == [j \in DOMAIN ts |-> <<ts[j], IF as = <<>> THEN None ELSE as[j]>>]

(* Where position j stands among some of the indices. *)
Place(indices, j) == CHOOSE p \in DOMAIN indices : indices[p] = j

(* Faulty: the answers are strung together instead of put back in place. *)
LookupConcatenated(ts, as) ==
    LET spot == IndicesOf({j \in DOMAIN as : as[j] = None})
        rest == IndicesOf({j \in DOMAIN as : as[j] # None})
    IN  IF as = <<>> THEN GetPrices(ts, <<>>)
        ELSE GetPrices(At(ts, spot), <<>>) \o GetPrices(At(ts, rest), At(as, rest))

(* _lookup_batch_prices *)
LookupBatchPrices(ts, as) ==
    LET spot == IndicesOf({j \in DOMAIN as : as[j] = None})
        rest == IndicesOf({j \in DOMAIN as : as[j] # None})
        spotResults == GetPrices(At(ts, spot), <<>>)
        restResults == GetPrices(At(ts, rest), At(as, rest))
    IN  IF rest = <<>> THEN GetPrices(ts, <<>>)
        ELSE IF spot = <<>> THEN GetPrices(ts, as)
        ELSE [j \in DOMAIN ts |-> IF as[j] = None THEN spotResults[Place(spot, j)]
                                                 ELSE restResults[Place(rest, j)]]

(* The amounts of the tokens to fetch, as prices() selects them. *)
FetchAmounts == IF query.amounts = <<>> THEN <<>> ELSE At(Amounts, fetch)

(* The lookup is refused, or begins: get_prices is called for the spot     *)
(* prices and for the quotes, if there are any.                            *)
Refuse ==
    /\ pc = "lookup"
    /\ EndWith("overloaded", BatchStatus("overloaded"))
    /\ UNCHANGED <<query, batch, calls>>

Ask ==
    LET Kind(j) == IF FetchAmounts = <<>> \/ FetchAmounts[j] = None THEN "spot" ELSE "quote"
    IN  /\ pc = "lookup" /\ pc' = "asking"
        /\ calls' = [c \in Calls |->
                       IF \E j \in DOMAIN fetch : Kind(j) = c THEN "running" ELSE "none"]
        /\ UNCHANGED <<query, batch, ending>>

InFlight == {c \in Calls : calls[c] \in {"running", "stopping"}}

(* A call returns, also one that does not heed its cancellation. *)
EndCall(c) ==
    /\ c \in InFlight
    /\ calls' = [calls EXCEPT ![c] = "over"]
    /\ pc' = IF pc = "stopping" /\ InFlight = {c} THEN "failed" ELSE pc
    /\ UNCHANGED <<query, batch, ending>>

(* A call raises: gather() and with it the lookup end, the other call goes  *)
(* on; after the end gather() only takes note of it.                        *)
FailCall(c) ==
    /\ c \in InFlight
    /\ calls' = [calls EXCEPT ![c] = "failed"]
    /\ IF pc = "asking"
       THEN \E e \in Errors \ {"overloaded", "invalid"} : EndWith(e, BatchStatus(e))
       ELSE pc' = "failed" /\ UNCHANGED ending
    /\ UNCHANGED <<query, batch>>

(* The request dies, and its lookup is cancelled: so are the calls in it.   *)
CancelLookup ==
    /\ pc = "asking"
    /\ pc' = "stopping" /\ cause' = "cancelled"
    /\ calls' = [c \in Calls |-> IF c \in InFlight THEN "stopping" ELSE calls[c]]
    /\ UNCHANGED <<query, batch, status>>

(* The first call that ends as cancelled ends gather(), too. *)
StopCall(c) ==
    /\ calls[c] = "stopping"
    /\ calls' = [calls EXCEPT ![c] = "stopped"]
    /\ pc' = "failed"
    /\ UNCHANGED <<query, batch, ending>>

(* _fetch_batch_prices; for some positions there is no price or no valid one. *)
Lookup ==
    /\ pc = "asking" /\ InFlight = {}
    /\ \E none \in SUBSET DOMAIN fetch :
          LET found == LookupBatchPrices(At(Tokens, fetch), FetchAmounts)
          IN  prices' = [j \in DOMAIN found |-> IF j \in none THEN NoPrice ELSE found[j]]
    /\ pc' = "fill"
    /\ UNCHANGED <<query, fetch, results, stored, calls, ending>>

(* The request dies while it waits for the block's timestamp, or for a lookup. *)
Cancelled ==
    /\ pc \in {"resolved", "again", "lookup", "fill"}
    /\ pc' = "failed" /\ cause' = "cancelled"
    /\ UNCHANGED <<query, batch, calls, status>>

-----------------------------------------------------------------------------
(* Faulty: the amount is taken at the position among those fetched. *)
StoresByRank(idx) == prices[idx] # NoPrice /\ AmountAt(idx) = None

(* Cache only if: price found AND no amount *)
Stores(idx) == prices[idx] # NoPrice /\ AmountAt(fetch[idx]) = None

(* _fill_batch_results *)
Fill ==
    /\ pc = "fill"
    /\ results' = [i \in DOMAIN results |->
                     IF \E idx \in DOMAIN fetch : fetch[idx] = i
                     THEN [price |-> prices[Place(fetch, i)], cached |-> FALSE, filled |-> TRUE]
                     ELSE results[i]]
    /\ stored' = {Tokens[fetch[idx]] : idx \in {j \in DOMAIN fetch : Stores(j)}}
    /\ pc' = "done"
    /\ UNCHANGED <<query, fetch, prices, calls, ending>>

Next ==
    \/ Parse \/ Resolve \/ Attempt \/ Classify
    \/ Prepare \/ Refuse \/ Ask \/ CancelLookup \/ Lookup \/ Cancelled \/ Fill
    \/ \E c \in Calls : EndCall(c) \/ FailCall(c) \/ StopCall(c)

Spec == Init /\ [][Next]_vars

-----------------------------------------------------------------------------
Parsed == pc \notin {"parse", "rejected", "raised"}

(***************************************************************************)
(* What the handlers see: a block within the chain's numbering, a time not *)
(* ahead of the clock and its tolerance, never both, however the texts     *)
(* were written; the positions to fetch counted upwards, a price for each. *)
(***************************************************************************)
TypeOK ==
    /\ Parsed =>
          /\ Block.is # "none" => Block.value \in 1..MaxBlock
          /\ Timestamp.is # "none" => Timestamp.value \in 0..Latest
          /\ Block = None \/ Timestamp = None
    /\ \A p, q \in DOMAIN fetch : p < q => fetch[p] < fetch[q]
    /\ pc = "fill" => DOMAIN prices = DOMAIN fetch

(***************************************************************************)
(* "positionally matched to tokens" (server.py:1143): every token of an    *)
(* accepted batch has an amount or none, and when the client wrote as many *)
(* segments of tokens as of amounts, the one that was written beside it,   *)
(* although one list drops empty segments and the other does not.          *)
(***************************************************************************)
AmountsKeepPlace ==
    Parsed /\ query.route = "batch" /\ query.amounts # <<>> =>
        /\ DOMAIN Amounts = DOMAIN Tokens
        /\ Len(query.amounts) = Len(query.tokens) =>
              \A j \in DOMAIN Tokens : \E i \in DOMAIN query.tokens :
                  /\ Len(NonEmpty(SubSeq(query.tokens, 1, i))) = j
                  /\ query.tokens[i] = Tokens[j]
                  /\ Amounts[j] = IF query.amounts[i] \in Missing THEN None
                                  ELSE Positive(query.amounts[i])

(***************************************************************************)
(* A finished batch answers every position, in the order of the request,   *)
(* with a price for the token and the amount of that very position, or     *)
(* with none: nothing slips to a neighbour, hits and misses, spots and     *)
(* quotes, repeated tokens mixed as they may.                              *)
(***************************************************************************)
EveryPositionItsOwn ==
    pc = "done" /\ query.route = "batch" =>
        /\ DOMAIN results = DOMAIN Tokens
        /\ \A i \in DOMAIN Tokens :
              /\ results[i].filled
              /\ results[i].price \in {NoPrice, <<Tokens[i], AmountAt(i)>>}

(***************************************************************************)
(* A batch writes to the cache the prices without an amount that its own   *)
(* response reports as fetched, all of them; a failed batch writes none.   *)
(***************************************************************************)
StoresWhatItReports ==
    stored = IF pc # "done" THEN {} ELSE
             {Tokens[i] : i \in {j \in DOMAIN results :
                 AmountAt(j) = None /\ ~results[j].cached /\ results[j].price # NoPrice}}

(***************************************************************************)
(* Whatever was being waited for, a timeout is told as 504 and a broken    *)
(* connection as 502 ("now preserves 504/502 statuses", docs/validation/   *)
(* 2026-10-01-pricing-repair.md:19), although every TimeoutError is an     *)
(* OSError and a retried failure comes wrapped; overload is told as 503.   *)
(***************************************************************************)
StatusTellsCause ==
    LET Told == [timeout |-> 504, connection |-> 502, os |-> 502, overloaded |-> 503]
    IN  cause \in DOMAIN Told => status = Told[cause]

(***************************************************************************)
(* "Lookup work retains its active slot until cleanup completes" (ibid.:   *)
(* 39-40; runtime.py:69): the slot is that of the task that runs the       *)
(* lookup, so no call of the price source goes on after the lookup's end,  *)
(* whether a call fails or the request dies.                               *)
(***************************************************************************)
SlotCoversCalls == InFlight # {} => pc \in {"asking", "stopping"}
=============================================================================

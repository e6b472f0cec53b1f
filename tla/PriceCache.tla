----------------------------- MODULE PriceCache -----------------------------
(***************************************************************************)
(* The persistent price cache of src/cache.py and the requests that read   *)
(* and write it: /price (src/server.py, _handle_price_request) with and    *)
(* without amount, ignore_pools and force, /prices, and the clean-up tool  *)
(* scripts/retry_failed_prices.py.  Between its look into the cache and    *)
(* its write, a request waits for the price source, and then for a block   *)
(* timestamp; requests for the same key overlap and are not merged.        *)
(*                                                                         *)
(* A key is a token and a block (make_key folds the case of the token).    *)
(* A price is represented by the kind of question it answers: "spot" is    *)
(* the price without amount and pools, "quote" the price of an amount.     *)
(***************************************************************************)
EXTENDS FiniteSets, Naturals

CONSTANTS Requests, Keys

ASSUME SetsFinite == IsFiniteSet(Requests) /\ IsFiniteSet(Keys)

VARIABLES
    cache,    \* the entry of each key
    pc,       \* idle, fetching, stamping (awaits the timestamp), missed
    route,    \* price, forced (force=true), batch, or retry: the tool's request
    want,     \* per key: "no", or the kind of price asked for
    got,      \* per key: what the price source returned, "none" if nothing
    answer,   \* per key: what the last response said
    todo      \* error entries the tool has listed and not yet retried

vars == <<cache, pc, route, want, got, answer, todo>>

(***************************************************************************)
(* An entry is absent, a price of one of the kinds, noPrice (an error with *)
(* the outcome "no_price") or legacy (an error without the outcome,        *)
(* written by an earlier release).                                         *)
(***************************************************************************)
Kinds  == {"spot", "quote"}
Prices == Kinds

Asked(r)      == {k \in Keys : want[r][k] # "no"}
Nothing       == [k \in Keys |-> "none"]
Single        == {w \in [Keys -> {"no"} \cup Kinds] : Cardinality({k \in Keys : w[k] # "no"}) = 1}
Batch         == {w \in [Keys -> {"no"} \cup Kinds] : \E k \in Keys : w[k] # "no"}
Wants(rt)     == IF rt = "batch" THEN Batch ELSE Single

Init ==
    /\ cache \in [Keys -> {"absent", "legacy"}]
    /\ pc = [r \in Requests |-> "idle"]
    /\ route = [r \in Requests |-> "price"]
    /\ want = [r \in Requests |-> [k \in Keys |-> "no"]]
    /\ got = [r \in Requests |-> Nothing]
    /\ answer = [r \in Requests |-> Nothing]
    /\ todo = {}

-----------------------------------------------------------------------------
(* Reading the cache. *)

(* get_cached_price and get_cached_error. *)
CachedPrice(k) == cache[k] \in Prices
CachedError(k) == cache[k] = "noPrice"

(* Faulty: the amount is not looked at. *)
HitsAny(rt, w) ==
    {k \in Keys : /\ w[k] # "no"
                  /\ CachedPrice(k) \/ (rt = "price" /\ CachedError(k))}

(* Which keys are answered from the cache: prices for questions without an *)
(* amount, and, on /price without force, definite failures.                *)
Hits(rt, w) ==
    {k \in Keys : /\ w[k] = "spot"
                  /\ CachedPrice(k) \/ (rt = "price" /\ CachedError(k))}

(***************************************************************************)
(* A request arrives and looks into the cache; what is found is answered   *)
(* at once, the rest is fetched.                                           *)
(***************************************************************************)
Arrive(r, rt, w) ==
    LET hits == Hits(rt, w)
        rest == {k \in Keys : w[k] # "no"} \ hits
    IN  /\ pc[r] = "idle"
        /\ pc' = [pc EXCEPT ![r] = IF rest = {} THEN "idle" ELSE "fetching"]
        /\ route' = [route EXCEPT ![r] = rt]
        /\ want' = [want EXCEPT ![r] = w]
        /\ got' = [got EXCEPT ![r] = Nothing]
        /\ answer' = [answer EXCEPT ![r] = [k \in Keys |-> IF k \in hits THEN cache[k] ELSE "none"]]
        /\ UNCHANGED cache

Request(r) ==
    /\ \E rt \in {"price", "forced", "batch"} : \E w \in Wants(rt) : Arrive(r, rt, w)
    /\ UNCHANGED todo

(* get_cached_errors: every entry with an error, read outside the server. *)
ToolLists ==
    /\ todo = {}
    /\ todo' = {k \in Keys : cache[k] \in {"noPrice", "legacy"}}
    /\ UNCHANGED <<cache, pc, route, want, got, answer>>

ToolRetries(r) ==
    \E k \in todo :
        /\ Arrive(r, "retry", [q \in Keys |-> IF q = k THEN "spot" ELSE "no"])
        /\ todo' = todo \ {k}

-----------------------------------------------------------------------------
(* The price source answers.                                               *)

Missing(r) == {k \in Asked(r) : answer[r][k] = "none"}

(* Prices for some of the keys; none (or an invalid one, in a batch) for    *)
(* the others.  A single question without a price is a definite failure.    *)
Fetched(r) ==
    /\ pc[r] = "fetching"
    /\ \E found \in SUBSET Missing(r) :
          /\ got' = [got EXCEPT ![r] = [k \in Keys |-> IF k \in found THEN want[r][k] ELSE "none"]]
          /\ pc' = [pc EXCEPT ![r] =
                       IF found = {} /\ route[r] # "batch" THEN "missed" ELSE "stamping"]
    /\ UNCHANGED <<cache, route, want, answer, todo>>

(* Faulty: a failure is stored like a definite result. *)
FailsForGood(r) ==
    /\ pc[r] # "idle"
    /\ pc' = [pc EXCEPT ![r] = "idle"]
    /\ cache' = [k \in Keys |-> IF want[r][k] = "spot" THEN "noPrice" ELSE cache[k]]
    /\ UNCHANGED <<route, want, got, answer, todo>>

(* The source, the queue or the deadline fails: an error response; or the   *)
(* request is cancelled in any of its awaits.                               *)
Fails(r) ==
    /\ pc[r] # "idle"
    /\ pc' = [pc EXCEPT ![r] = "idle"]
    /\ UNCHANGED <<cache, route, want, got, answer, todo>>

(* Faulty: every price is stored. *)
CacheableAny(r, k) == got[r][k] # "none"

(* set_cached_price after the timestamp arrived, for prices without amount. *)
Cacheable(r, k) == got[r][k] # "none" /\ want[r][k] = "spot"

Respond(r) ==
    answer' = [answer EXCEPT ![r] =
                 [k \in Keys |-> IF k \in Missing(r) THEN got[r][k] ELSE answer[r][k]]]

(* For a single price this happens inside the lookup task, so the request  *)
(* may be cancelled after the write and before its answer.                 *)
Stamped(r) ==
    /\ pc[r] = "stamping"
    /\ cache' = [k \in Keys |-> IF k \in Missing(r) /\ Cacheable(r, k) THEN got[r][k] ELSE cache[k]]
    /\ Respond(r) \/ (route[r] # "batch" /\ UNCHANGED answer)
    /\ pc' = [pc EXCEPT ![r] = "idle"]
    /\ UNCHANGED <<route, want, got, todo>>

(* The request resumes after a lookup that found nothing: set_cached_error  *)
(* puts its entry whatever stands there by now.                             *)
Missed(r) ==
    /\ pc[r] = "missed"
    /\ cache' = [k \in Keys |-> IF want[r][k] = "spot" THEN "noPrice" ELSE cache[k]]
    /\ Respond(r)
    /\ pc' = [pc EXCEPT ![r] = "idle"]
    /\ UNCHANGED <<route, want, got, todo>>

-----------------------------------------------------------------------------
(* diskcache: the TTL of error entries, and culling at its size limit. *)

Expire(k) ==
    /\ cache[k] = "noPrice"
    /\ cache' = [cache EXCEPT ![k] = "absent"]
    /\ UNCHANGED <<pc, route, want, got, answer, todo>>

Cull(k) ==
    /\ cache[k] # "absent"
    /\ cache' = [cache EXCEPT ![k] = "absent"]
    /\ UNCHANGED <<pc, route, want, got, answer, todo>>

(* The process dies and is restarted; only the cache survives. *)
Restart ==
    /\ pc' = [r \in Requests |-> "idle"]
    /\ UNCHANGED <<cache, route, want, got, answer, todo>>

Next ==
    \/ \E r \in Requests :
          \/ Request(r) \/ ToolRetries(r)
          \/ Fetched(r) \/ Fails(r) \/ Stamped(r) \/ Missed(r)
    \/ \E k \in Keys : Expire(k) \/ Cull(k)
    \/ ToolLists \/ Restart

Spec == Init /\ [][Next]_vars

-----------------------------------------------------------------------------
(***************************************************************************)
(* The cache answers later questions without an amount, so it never holds  *)
(* the price of an amount, whatever mixture a batch asked for.             *)
(***************************************************************************)
OnlySpotPrices == \A k \in Keys : cache[k] # "quote"

(***************************************************************************)
(* Every price in a response answers the question that was asked: an       *)
(* amount is never answered with a spot price from the cache nor the other *)
(* way round, and a batch never passes on a cached failure.                *)
(***************************************************************************)
AnswersMatch ==
    \A r \in Requests : \A k \in Keys :
        /\ answer[r][k] \in Prices => answer[r][k] = want[r][k]
        /\ answer[r][k] = "noPrice" => want[r][k] = "spot" /\ route[r] = "price"

(***************************************************************************)
(* An entry changes only by a lookup that came to a definite result for    *)
(* exactly this key, or by expiry and culling: "Transient errors must      *)
(* never call this function" (set_cached_error), and neither may           *)
(* cancelled requests.                                                     *)
(***************************************************************************)
DefiniteResultsOnly ==
    [][\A k \in Keys : cache'[k] \notin {cache[k], "absent"} =>
          \E r \in Requests :
              /\ want[r][k] = "spot"
              /\ pc[r] \in {"stamping", "missed"} /\ pc'[r] = "idle"
              /\ cache'[k] = IF got[r][k] = "none" THEN "noPrice" ELSE got[r][k]]_vars
=============================================================================

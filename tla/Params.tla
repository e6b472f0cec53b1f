------------------------------- MODULE Params -------------------------------
(***************************************************************************)
(* src/params.py: how the query strings of /price and /prices become the   *)
(* parameters the rest of the backend trusts.  A text is represented by    *)
(* what the parsers tell apart: absent, empty, garbage, the words "nan"    *)
(* and "inf" that float() and Decimal() accept, a number, and an ISO 8601  *)
(* date.  Numbers are counted in tenths, since float() and Decimal() read  *)
(* fractions and int() does not.                                           *)
(***************************************************************************)
EXTENDS Integers, SequencesExt

CONSTANTS
    MaxBlock,    \* MAX_BLOCK
    MaxBatch,    \* MAX_BATCH_TOKENS
    Latest       \* now plus TIMESTAMP_FUTURE_BUFFER_SECONDS

ASSUME BoundsAssumption == {MaxBlock, MaxBatch, Latest} \subseteq Nat

(* Texts and the outcomes of parsing one: None, a value, ParseError, or an *)
(* exception that nobody catches.                                          *)
Text(kind, n) == [kind |-> kind, tenths |-> n]
Missing       == {Text("absent", 0), Text("empty", 0)}

None     == [is |-> "none", value |-> 0]
Error    == [is |-> "error", value |-> 0]
Raises   == [is |-> "raises", value |-> 0]
Value(n) == [is |-> "value", value |-> n]

-----------------------------------------------------------------------------
(* Faulty: the lower bound is forgotten. *)
BlockUpTo(n) == n <= MaxBlock

BlockInRange(n) == n > 0 /\ n <= MaxBlock

(* _parse_block; int() reads neither an empty text nor a fraction. *)
ParseBlock(t) ==
    IF t.kind = "absent" THEN None
    ELSE IF t.kind = "number" /\ t.tenths % 10 = 0 /\ BlockInRange(t.tenths \div 10)
         THEN Value(t.tenths \div 10)
         ELSE Error

(* _parse_amount and a segment of _parse_amounts, in tenths. *)
Positive(t) == IF t.kind = "number" /\ t.tenths > 0 THEN Value(t.tenths) ELSE Error

ParseAmount(t) == IF t.kind = "absent" THEN None ELSE Positive(t)

(***************************************************************************)
(* parse_timestamp.  Every comparison with NaN is false and infinity is    *)
(* not negative, so both get as far as int(), which raises.                *)
(***************************************************************************)
ParseUnix(t) ==
    IF t.kind \in {"nan", "inf"} THEN Raises
    ELSE IF t.tenths <= 0 \/ t.tenths \div 10 > Latest THEN Error
    ELSE Value(t.tenths \div 10)

ParseIso(t) ==
    IF t.kind # "iso" \/ t.tenths > 10 * Latest \/ t.tenths \div 10 <= 0
    THEN Error ELSE Value(t.tenths \div 10)

ParseTimestamp(t) ==
    CASE t \in Missing                        -> None
      [] t.kind \in {"number", "nan", "inf"}  -> ParseUnix(t)
      [] OTHER                                -> ParseIso(t)

-----------------------------------------------------------------------------
(* Comma-separated lists; <<>> is a missing or empty parameter, "" an empty *)
(* segment, "bad" a segment that is no address.                             *)

(* What a list comprehension with a condition keeps: the positions counted *)
(* upwards, and what is at them.                                           *)
IndicesOf(positions) ==
    [k \in 1..Cardinality(positions) |->
        CHOOSE i \in positions : Cardinality({j \in positions : j < i}) = k - 1]

At(s, indices) == [k \in DOMAIN indices |-> s[indices[k]]]

NonEmpty(segments) == At(segments, IndicesOf({i \in DOMAIN segments : segments[i] # ""}))

(* _parse_tokens and parse_ignore_pools drop empty segments. *)
Malformed(segments) == \E i \in DOMAIN segments : segments[i] = "bad"

(* Faulty: empty segments of the amounts are dropped as well. *)
ParseAmountsDropping(texts) ==
    LET kept == SelectSeq(texts, LAMBDA t : t \notin Missing)
    IN  [j \in DOMAIN kept |-> Positive(kept[j])]

(* _parse_amounts keeps them, each stands for "no amount". *)
ParseAmounts(texts) ==
    [j \in DOMAIN texts |-> IF texts[j] \in Missing THEN None ELSE Positive(texts[j])]

CountsMatch(q) == q.amounts = <<>> \/ Len(ParseAmounts(q.amounts)) = Len(NonEmpty(q.tokens))

-----------------------------------------------------------------------------
(* What each endpoint checks before it comes to the timestamp.  A query q   *)
(* is its route, "price", "batch" or "bucket", with its parameters' texts.  *)

TokenOk(q) == Len(q.tokens) = 1 /\ q.tokens[1] \notin {"", "bad"}

TokensOk(q) ==
    /\ ~Malformed(q.tokens)
    /\ Len(NonEmpty(q.tokens)) \in 1..MaxBatch

PriceOk(q) ==
    /\ TokenOk(q)
    /\ ParseBlock(q.block) # Error
    /\ ParseAmount(q.amount) # Error
    /\ ~Malformed(q.pools)

BatchOk(q) ==
    /\ TokensOk(q)
    /\ ParseBlock(q.block) # Error
    /\ \A j \in DOMAIN ParseAmounts(q.amounts) : ParseAmounts(q.amounts)[j] # Error
    /\ CountsMatch(q)

(* Mutual exclusivity check. *)
NotBoth(q) == None \in {ParseTimestamp(q.timestamp), ParseBlock(q.block)}

(* check_bucket has a token and nothing else. *)
RouteOk(q) ==
    CASE q.route = "price"  -> PriceOk(q)
      [] q.route = "batch"  -> BatchOk(q)
      [] q.route = "bucket" -> TokenOk(q)

(* parse_price_params and parse_batch_params: the query is answered with   *)
(* 400, makes the server fail with 500, or goes on as accepted.            *)
Outcome(q) ==
    IF ~RouteOk(q) THEN "rejected"
    ELSE IF ParseTimestamp(q.timestamp) = Raises THEN "raised"
    ELSE IF ParseTimestamp(q.timestamp) # Error /\ NotBoth(q) THEN "accepted" ELSE "rejected"
=============================================================================

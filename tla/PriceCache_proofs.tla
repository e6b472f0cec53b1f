--------------------------- MODULE PriceCache_proofs ---------------------------
(***************************************************************************)
(* Safety of the price cache for every number of requests and keys.  An    *)
(* entry is written long after the look into the cache, so what a request  *)
(* carries across its awaits has to be in the invariant: what it got is    *)
(* what it asked for (GotWanted), and who is about to write a failure got  *)
(* nothing (MissedNothing).                                                *)
(***************************************************************************)
EXTENDS PriceCache, TLAPS

Entries == {"absent", "legacy", "noPrice"} \cup Prices

Typed ==
    /\ cache \in [Keys -> Entries]
    /\ pc \in [Requests -> {"idle", "fetching", "stamping", "missed"}]
    /\ route \in [Requests -> {"price", "forced", "batch", "retry"}]
    /\ want \in [Requests -> [Keys -> {"no"} \cup Kinds]]
    /\ got \in [Requests -> [Keys -> {"none"} \cup Prices]]
    /\ answer \in [Requests -> [Keys -> {"none"} \cup Entries]]
    /\ todo \subseteq Keys

GotWanted ==
    \A r \in Requests : \A k \in Keys : got[r][k] # "none" => got[r][k] = want[r][k]

MissedNothing ==
    \A r \in Requests : pc[r] = "missed" => \A k \in Keys : got[r][k] = "none"

IInv == Typed /\ OnlySpotPrices /\ AnswersMatch /\ GotWanted /\ MissedNothing

-----------------------------------------------------------------------------
(* The invariant holds initially: nothing is stored but old errors. *)
LEMMA InitIInv == Init => IInv
  BY DEF Init, IInv, Typed, OnlySpotPrices, AnswersMatch, GotWanted, MissedNothing,
         Entries, Prices, Kinds, Nothing

(* What a request finds in the cache answers what it asks. *)
LEMMA ArriveIInv ==
    ASSUME IInv, NEW r \in Requests, NEW rt \in {"price", "forced", "batch", "retry"},
           NEW w \in [Keys -> {"no"} \cup Kinds], Arrive(r, rt, w), todo' \subseteq Keys
    PROVE  IInv'
  <1> USE DEF IInv, Entries, Prices, Kinds
  <1> DEFINE hits == Hits(rt, w)
  <1>1. /\ \A k \in hits : k \in Keys /\ w[k] = "spot"
        /\ \A k \in hits : cache[k] \in Prices \/ (rt = "price" /\ cache[k] = "noPrice")
    BY DEF Hits, CachedPrice, CachedError
  <1>2. /\ pc' \in [Requests -> {"idle", "fetching", "stamping", "missed"}]
        /\ pc'[r] # "missed" /\ \A q \in Requests \ {r} : pc'[q] = pc[q]
        /\ route' = [route EXCEPT ![r] = rt] /\ want' = [want EXCEPT ![r] = w]
        /\ got' = [got EXCEPT ![r] = Nothing] /\ cache' = cache
        /\ answer' = [answer EXCEPT ![r] = [k \in Keys |-> IF k \in hits THEN cache[k] ELSE "none"]]
    BY DEF Arrive, Typed
  <1> HIDE DEF hits
  <1>3. Typed'
    BY <1>1, <1>2 DEF Typed, Nothing
  <1>4. OnlySpotPrices'
    BY <1>2 DEF OnlySpotPrices
  <1>5. AnswersMatch'
    <2> SUFFICES ASSUME NEW q \in Requests, NEW k \in Keys
                 PROVE  /\ answer'[q][k] \in Prices => answer'[q][k] = want'[q][k]
                        /\ answer'[q][k] = "noPrice" => want'[q][k] = "spot" /\ route'[q] = "price"
      BY DEF AnswersMatch
    <2>1. CASE q = r
      BY <1>1, <1>2, <2>1 DEF Typed, OnlySpotPrices
    <2>2. CASE q # r
      BY <1>2, <2>2 DEF Typed, AnswersMatch
    <2> QED
      BY <2>1, <2>2
  <1>6. GotWanted'
    BY <1>2 DEF Typed, GotWanted, Nothing
  <1>7. MissedNothing'
    BY <1>2 DEF Typed, MissedNothing
  <1> QED
    BY <1>3, <1>4, <1>5, <1>6, <1>7

(* The price source answers the question it was asked. *)
LEMMA FetchedIInv == ASSUME IInv, NEW r \in Requests, Fetched(r) PROVE IInv'
  <1> USE DEF IInv, Entries, Prices, Kinds
  <1>1. PICK found \in SUBSET Missing(r) :
           /\ got' = [got EXCEPT ![r] = [k \in Keys |-> IF k \in found THEN want[r][k] ELSE "none"]]
           /\ pc' = [pc EXCEPT ![r] =
                        IF found = {} /\ route[r] # "batch" THEN "missed" ELSE "stamping"]
    BY DEF Fetched
  <1>2. UNCHANGED <<cache, route, want, answer, todo>>
    BY DEF Fetched
  <1>3. \A k \in found : k \in Keys /\ want[r][k] \in Kinds
    BY DEF Missing, Asked, Typed
  <1>4. Typed'
    BY <1>1, <1>2, <1>3 DEF Typed
  <1>5. OnlySpotPrices' /\ AnswersMatch'
    BY <1>2 DEF OnlySpotPrices, AnswersMatch
  <1>6. GotWanted'
    BY <1>1, <1>2, <1>3 DEF Typed, GotWanted
  <1>7. MissedNothing'
    BY <1>1 DEF Typed, MissedNothing
  <1> QED
    BY <1>4, <1>5, <1>6, <1>7

(* A response passes on what was got. *)
LEMMA RespondMatches ==
    ASSUME IInv, NEW r \in Requests, Respond(r) \/ UNCHANGED answer, UNCHANGED <<want, route>>
    PROVE  AnswersMatch' /\ answer' \in [Requests -> [Keys -> {"none"} \cup Entries]]
  <1> USE DEF IInv, Entries, Prices, Kinds
  <1>1. CASE Respond(r)
    <2>1. answer' = [answer EXCEPT ![r] =
                       [k \in Keys |-> IF k \in Missing(r) THEN got[r][k] ELSE answer[r][k]]]
      BY <1>1 DEF Respond
    <2>2. answer' \in [Requests -> [Keys -> {"none"} \cup Entries]]
      BY <2>1 DEF Typed
    <2>3. \A q \in Requests : \A k \in Keys :
             answer'[q][k] = answer[q][k] \/ (q = r /\ answer'[q][k] = got[r][k])
      BY <2>1 DEF Typed
    <2>4. \A k \in Keys : got[r][k] = "none" \/ (got[r][k] \in Prices /\ got[r][k] = want[r][k])
      BY DEF Typed, GotWanted
    <2>5. AnswersMatch'
      BY <2>3, <2>4 DEF AnswersMatch
    <2> QED
      BY <2>2, <2>5
  <1>2. CASE UNCHANGED answer
    BY <1>2 DEF Typed, AnswersMatch
  <1> QED
    BY <1>1, <1>2

(* A price is stored, if it is the spot price. *)
LEMMA StampedIInv == ASSUME IInv, NEW r \in Requests, Stamped(r) PROVE IInv'
  <1>1. AnswersMatch' /\ answer' \in [Requests -> [Keys -> {"none"} \cup Entries]]
    BY RespondMatches DEF Stamped
  <1> USE DEF IInv, Entries, Prices, Kinds
  <1>2. /\ cache' = [k \in Keys |-> IF k \in Missing(r) /\ Cacheable(r, k) THEN got[r][k] ELSE cache[k]]
        /\ pc' = [pc EXCEPT ![r] = "idle"] /\ UNCHANGED <<route, want, got, todo>>
    BY DEF Stamped
  <1>3. OnlySpotPrices' /\ cache' \in [Keys -> Entries]
    BY <1>2 DEF Typed, Cacheable, OnlySpotPrices, GotWanted
  <1>4. Typed'
    BY <1>1, <1>2, <1>3 DEF Typed
  <1>5. GotWanted' /\ MissedNothing'
    BY <1>2 DEF Typed, GotWanted, MissedNothing
  <1> QED
    BY <1>1, <1>3, <1>4, <1>5

(* A failure is stored and answered. *)
LEMMA MissedIInv == ASSUME IInv, NEW r \in Requests, Missed(r) PROVE IInv'
  <1>1. AnswersMatch' /\ answer' \in [Requests -> [Keys -> {"none"} \cup Entries]]
    BY RespondMatches DEF Missed
  <1> USE DEF IInv, Entries, Prices, Kinds
  <1>2. /\ cache' = [k \in Keys |-> IF want[r][k] = "spot" THEN "noPrice" ELSE cache[k]]
        /\ pc' = [pc EXCEPT ![r] = "idle"] /\ UNCHANGED <<route, want, got, todo>>
    BY DEF Missed
  <1>3. OnlySpotPrices' /\ Typed'
    BY <1>1, <1>2 DEF Typed, OnlySpotPrices
  <1>4. GotWanted' /\ MissedNothing'
    BY <1>2 DEF Typed, GotWanted, MissedNothing
  <1> QED
    BY <1>1, <1>3, <1>4

(* Every step preserves the invariant. *)
LEMMA NextIInv == IInv /\ [Next]_vars => IInv'
  <1> SUFFICES ASSUME IInv, [Next]_vars PROVE IInv'
    OBVIOUS
  <1>1. ASSUME NEW r \in Requests, Request(r) PROVE IInv'
    <2>1. PICK rt \in {"price", "forced", "batch"} : \E w \in Wants(rt) : Arrive(r, rt, w)
      BY <1>1 DEF Request
    <2>2. PICK w \in Wants(rt) : Arrive(r, rt, w)
      BY <2>1
    <2>3. w \in [Keys -> {"no"} \cup Kinds] /\ todo' \subseteq Keys
      BY <1>1 DEF Request, Wants, Batch, Single, IInv, Typed
    <2> QED
      BY <2>2, <2>3, ArriveIInv
  <1>2. ASSUME NEW r \in Requests, ToolRetries(r) PROVE IInv'
    <2>1. PICK k \in todo :
             /\ Arrive(r, "retry", [q \in Keys |-> IF q = k THEN "spot" ELSE "no"])
             /\ todo' = todo \ {k}
      BY <1>2 DEF ToolRetries
    <2>2. [q \in Keys |-> IF q = k THEN "spot" ELSE "no"] \in [Keys -> {"no"} \cup Kinds]
      BY DEF Kinds
    <2>3. todo' \subseteq Keys
      BY <2>1 DEF IInv, Typed
    <2> QED
      BY <2>1, <2>2, <2>3, ArriveIInv
  <1> USE DEF IInv, Typed, OnlySpotPrices, AnswersMatch, GotWanted, MissedNothing
  <1>3. ASSUME NEW r \in Requests, Fails(r) PROVE IInv'
    BY <1>3 DEF Fails
  <1>4. ASSUME NEW k \in Keys, Expire(k) \/ Cull(k) PROVE IInv'
    BY <1>4 DEF Expire, Cull, Entries
  <1>5. CASE ToolLists \/ Restart
    BY <1>5 DEF ToolLists, Restart
  <1>6. CASE UNCHANGED vars
    BY <1>6 DEF vars
  <1> QED
    BY <1>1, <1>2, <1>3, <1>4, <1>5, <1>6, FetchedIInv, StampedIInv, MissedIInv DEF Next

(* IInv is an invariant of the specification. *)
THEOREM Invariance == Spec => []IInv
  BY InitIInv, NextIInv, PTL DEF Spec

-----------------------------------------------------------------------------
(* The price of an amount never gets into the cache.                       *)
THEOREM SpotPricesOnly == Spec => []OnlySpotPrices
  <1>1. IInv => OnlySpotPrices
    BY DEF IInv
  <1> QED
    BY <1>1, Invariance, PTL

(* A response answers the question that was asked.                         *)
THEOREM ResponsesMatch == Spec => []AnswersMatch
  <1>1. IInv => AnswersMatch
    BY DEF IInv
  <1> QED
    BY <1>1, Invariance, PTL

(* Only a definite result for a key changes its entry, expiry and culling   *)
(* aside: what failed, was cancelled or answered another key leaves it.     *)
THEOREM OnlyDefiniteResults == Spec => DefiniteResultsOnly
  <1> DEFINE
      Definite ==
        \A k \in Keys : cache'[k] \notin {cache[k], "absent"} =>
          \E r \in Requests :
              /\ want[r][k] = "spot"
              /\ pc[r] \in {"stamping", "missed"} /\ pc'[r] = "idle"
              /\ cache'[k] = IF got[r][k] = "none" THEN "noPrice" ELSE got[r][k]
  <1>1. IInv /\ Next => Definite
    <2> SUFFICES ASSUME IInv, Next PROVE Definite
      OBVIOUS
    <2>1. ASSUME NEW r \in Requests, Stamped(r) PROVE Definite
      BY <2>1 DEF Stamped, Cacheable, IInv, Typed
    <2>2. ASSUME NEW r \in Requests, Missed(r) PROVE Definite
      BY <2>2 DEF Missed, IInv, Typed, MissedNothing
    <2>3. ASSUME NEW r \in Requests, Request(r) \/ ToolRetries(r) \/ Fetched(r) \/ Fails(r)
          PROVE  Definite
      BY <2>3 DEF Request, ToolRetries, Arrive, Fetched, Fails
    <2>4. ASSUME NEW k \in Keys, Expire(k) \/ Cull(k) PROVE Definite
      BY <2>4 DEF Expire, Cull, IInv, Typed
    <2>5. CASE ToolLists \/ Restart
      BY <2>5 DEF ToolLists, Restart
    <2> QED
      BY <2>1, <2>2, <2>3, <2>4, <2>5 DEF Next
  <1> HIDE DEF Definite
  <1>2. IInv /\ [Next]_vars => [Definite]_vars
    BY <1>1
  <1>3. Spec => [][Definite]_vars
    BY <1>2, Invariance, PTL DEF Spec
  <1> QED
    BY <1>3 DEF DefiniteResultsOnly, Definite
=============================================================================

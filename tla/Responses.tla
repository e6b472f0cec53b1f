----------------------------- MODULE Responses -----------------------------
(***************************************************************************)
(* src/server.py: the status of the response to an exception, per handler. *)
(* The handlers test with isinstance, in order, and the classes overlap:   *)
(* TimeoutError and ConnectionError are both OSErrors.                     *)
(***************************************************************************)

(* What a lookup or a read of the node may raise, with its classes; invalid *)
(* is the ValueError of _fetch_price, other any other exception.            *)
Classes ==
    [timeout    |-> {"TimeoutError", "OSError"},
     connection |-> {"ConnectionError", "OSError"},
     os         |-> {"OSError"},
     overloaded |-> {"OverloadedError"},
     invalid    |-> {},
     other      |-> {}]

Errors == DOMAIN Classes

IsTimeout(e)    == "TimeoutError" \in Classes[e]
IsConnection(e) == Classes[e] \cap {"ConnectionError", "OSError"} # {}
IsOverload(e)   == "OverloadedError" \in Classes[e]

(* The condition of the @retry of _fetch_price. *)
Retried(e) == IsConnection(e) /\ ~IsTimeout(e)

(* Faulty: the broader class is tested first. *)
PriceStatusReordered(e) ==
    IF e = "invalid" \/ IsConnection(e) THEN 502
    ELSE IF IsOverload(e) THEN 503
    ELSE IF IsTimeout(e) THEN 504 ELSE 500

(* _handle_price_error, which looks through a RetryError at the exception  *)
(* of the last attempt.                                                    *)
PriceStatus(e) ==
    IF e = "invalid" THEN 502
    ELSE IF IsOverload(e) THEN 503
    ELSE IF IsTimeout(e) THEN 504
    ELSE IF IsConnection(e) THEN 502 ELSE 500

(* prices() *)
BatchStatus(e) ==
    IF IsOverload(e) THEN 503
    ELSE IF IsConnection(e) THEN (IF IsTimeout(e) THEN 504 ELSE 502)
    ELSE 500

(* check_bucket() and _classify_token *)
BucketStatus(e) ==
    IF IsOverload(e) THEN 503
    ELSE IF IsTimeout(e) THEN 504
    ELSE IF IsConnection(e) THEN 502 ELSE 500

(* A timestamp is resolved with any failure handled; the head block is read *)
(* with only those of the connection handled, any other is raised.          *)
ResolveStatus(e, byTimestamp) ==
    IF IsTimeout(e) THEN 504
    ELSE IF byTimestamp \/ IsConnection(e) THEN 502 ELSE 500
=============================================================================

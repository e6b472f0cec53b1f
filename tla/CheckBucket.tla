---------------------------- MODULE CheckBucket ----------------------------
(***************************************************************************)
(* /check_bucket of src/server.py inside its lookup slot: _classify_token  *)
(* takes the asyncio.Lock that _get_token_lock keeps for the token as it   *)
(* was spelled in the request, classifies, reads the token's metadata, and *)
(* releases the lock.  The guard of _get_token_lock is never contended,    *)
(* its body awaits nothing, so creating a lock is part of the arrival.     *)
(*                                                                         *)
(* asyncio.Lock wakes only the first future of its deque, and whoever      *)
(* leaves the deque without the lock passes the wake-up on.  As in         *)
(* LookupSupervisor, ahead[r] are the requests that stand before r, and a  *)
(* request is leaving if it was cancelled while its future was pending,    *)
(* returning if its future had the wake-up already.                        *)
(***************************************************************************)
EXTENDS FiniteSets

CONSTANTS
    Requests,
    Spellings,    \* the spellings of addresses that occur
    Address(_)    \* the address a spelling stands for

ASSUME RequestsFinite == IsFiniteSet(Requests)

VARIABLES
    pc,       \* idle, or one of Queued and Inside
    token,    \* the spelling each request came with
    ahead,    \* order of the deques
    locked    \* the locks that are held, by spelling

vars == <<pc, token, ahead, locked>>

Queued  == {"waiting", "woken", "leaving", "returning"}
Granted == {"woken", "returning"}
Inside  == {"classifying", "metadata"}

Deque(s) == {r \in Requests : pc[r] \in Queued /\ token[r] = s}

Init ==
    /\ pc = [r \in Requests |-> "idle"]
    /\ token \in [Requests -> Spellings]
    /\ ahead = [r \in Requests |-> {}]
    /\ locked = {}

-----------------------------------------------------------------------------
(* The lock. *)

(* Faulty: a free lock is taken though it was promised to a waiter. *)
MustWaitIfHeld(s) == s \in locked

(* acquire() suspends: the lock is held, or someone not cancelled waits. *)
MustWait(s) == s \in locked \/ \E r \in Deque(s) : pc[r] # "leaving"

(* _wake_up_first() when r leaves the deque or the critical section.        *)
WakeFirst(s, r, pcs) ==
    pc' = [q \in Requests |->
             IF /\ pc[q] = "waiting" /\ token[q] = s /\ q # r
                /\ ahead[q] \ {r} = {}
             THEN "woken" ELSE pcs[q]]

Unlink(r) == ahead' = [q \in Requests |-> IF q = r THEN {} ELSE ahead[q] \ {r}]

-----------------------------------------------------------------------------
(* The key of the lock is the token as the client spelled it. *)
LockKey(s) == s

Arrive(r, s) ==
    /\ pc[r] = "idle"
    /\ token' = [token EXCEPT ![r] = LockKey(s)]
    /\ IF MustWait(LockKey(s))
       THEN /\ pc' = [pc EXCEPT ![r] = "waiting"]
            /\ ahead' = [ahead EXCEPT ![r] = Deque(LockKey(s))]
            /\ UNCHANGED locked
       ELSE /\ pc' = [pc EXCEPT ![r] = "classifying"]
            /\ locked' = locked \cup {LockKey(s)}
            /\ UNCHANGED ahead

(* acquire() returns. *)
Enter(r) ==
    /\ pc[r] = "woken"
    /\ pc' = [pc EXCEPT ![r] = "classifying"]
    /\ locked' = locked \cup {token[r]}
    /\ Unlink(r)
    /\ UNCHANGED token

(* y_check_bucket has answered; the metadata follow. *)
Classified(r) ==
    /\ pc[r] = "classifying"
    /\ pc' = [pc EXCEPT ![r] = "metadata"]
    /\ UNCHANGED <<token, ahead, locked>>

(* Done, failed, or cancelled inside: the lock is released on every way out. *)
Leave(r) ==
    /\ pc[r] \in Inside
    /\ locked' = locked \ {token[r]}
    /\ WakeFirst(token[r], r, [pc EXCEPT ![r] = "idle"])
    /\ UNCHANGED <<token, ahead>>

(* Lookups are cancelled; those that wait for the lock will learn of it.  *)
CancelledAt == [waiting |-> "leaving", woken |-> "returning"]

Cancel(R) ==
    /\ pc' = [r \in Requests |->
                IF r \in R /\ pc[r] \in DOMAIN CancelledAt THEN CancelledAt[pc[r]] ELSE pc[r]]
    /\ UNCHANGED <<token, ahead, locked>>

(* Faulty: the wake-up is lost with the request that got it. *)
GiveUpSilently(r) ==
    /\ pc[r] \in {"leaving", "returning"}
    /\ Unlink(r)
    /\ pc' = [pc EXCEPT ![r] = "idle"]
    /\ UNCHANGED <<token, locked>>

(* CancelledError out of acquire(): pass the wake-up on if the lock is free. *)
GiveUp(r) ==
    /\ pc[r] \in {"leaving", "returning"}
    /\ Unlink(r)
    /\ IF token[r] \in locked
       THEN pc' = [pc EXCEPT ![r] = "idle"]
       ELSE WakeFirst(token[r], r, [pc EXCEPT ![r] = "idle"])
    /\ UNCHANGED <<token, locked>>

Next ==
    \/ \E r \in Requests :
        \/ \E s \in Spellings : Arrive(r, s)
        \/ Enter(r) \/ Classified(r) \/ Leave(r) \/ GiveUp(r)
    \/ \E R \in SUBSET Requests : Cancel(R)

Spec == Init /\ [][Next]_vars

-----------------------------------------------------------------------------
(***************************************************************************)
(* The lock of a spelling is held exactly by the one request that is       *)
(* classifying or reading metadata under it, cancellations notwithstanding.*)
(***************************************************************************)
LockMatchesHolder ==
    /\ locked = {token[r] : r \in {q \in Requests : pc[q] \in Inside}}
    /\ \A p, q \in Requests : pc[p] \in Inside /\ pc[q] \in Inside /\ token[p] = token[q] => p = q

(* Whoever waits for the lock gets it or gives up.                         *)
WaitEnds == \A r \in Requests : pc[r] \in Queued ~> pc[r] \notin Queued

(***************************************************************************)
(* server.py:118-119 "deduplicates concurrent check_bucket calls for the   *)
(* same token address so ypricemagic only classifies once": no two calls   *)
(* classify one address at the same time.                                  *)
(***************************************************************************)
OneClassificationPerAddress ==
    \A p, q \in Requests :
        p # q /\ pc[p] = "classifying" /\ pc[q] = "classifying"
            => Address(token[p]) # Address(token[q])
=============================================================================

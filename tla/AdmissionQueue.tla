--------------------------- MODULE AdmissionQueue ---------------------------
(***************************************************************************)
(* What LookupSupervisor promises its callers, without semaphores, futures *)
(* and callbacks: at most `Active' lookups own resources at any moment, at *)
(* most `MaxQueued' requests stand in a line for them, the line is served  *)
(* first come first served, anybody may step out of it at any time, and    *)
(* once draining nothing is admitted any more.                             *)
(***************************************************************************)
EXTENDS Integers, FiniteSets

CONSTANTS Requests, Active, MaxQueued

VARIABLES
    line,    \* the requests that wait and still want a lookup
    ahead,   \* who stands before whom in the line
    busy,    \* the requests whose lookup owns resources
    open     \* not draining

vars == <<line, ahead, busy, open>>

Init == line = {} /\ ahead = [r \in Requests |-> {}] /\ busy = {} /\ open = TRUE

(* r stands no longer in anybody's way. *)
StepOut(r) ==
    /\ line' = line \ {r}
    /\ ahead' = [q \in Requests |-> IF q = r THEN {} ELSE ahead[q] \ {r}]

Enter(r) ==
    /\ open /\ r \notin line \cup busy /\ Cardinality(line) < MaxQueued
    /\ line' = line \cup {r}
    /\ ahead' = [ahead EXCEPT ![r] = line]
    /\ UNCHANGED <<busy, open>>

(* The first of the line, or a newcomer when there is no line. *)
Begin(r) ==
    /\ open /\ r \notin busy /\ Cardinality(busy) < Active
    /\ (r \in line /\ ahead[r] = {}) \/ line = {}
    /\ busy' = busy \cup {r}
    /\ StepOut(r)
    /\ UNCHANGED open

Withdraw(r) == r \in line /\ StepOut(r) /\ UNCHANGED <<busy, open>>

Finish(r) == r \in busy /\ busy' = busy \ {r} /\ UNCHANGED <<line, ahead, open>>

Drain == open' = FALSE /\ UNCHANGED <<line, ahead, busy>>

Next ==
    \/ \E r \in Requests : Enter(r) \/ Begin(r) \/ Withdraw(r) \/ Finish(r)
    \/ Drain

Spec == Init /\ [][Next]_vars
=============================================================================

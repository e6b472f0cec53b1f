-------------------------- MODULE LookupSupervisor --------------------------
(***************************************************************************)
(* The admission control of every price, batch and classification lookup:  *)
(* class LookupSupervisor of src/runtime.py.  A request calls run(), waits *)
(* for one of `Active' semaphore permits in a line of at most `MaxQueued', *)
(* then starts a task that keeps the permit until the task has really      *)
(* ended, even when the request itself is long gone.                       *)
(*                                                                         *)
(* Everything happens on one event loop, so an action is what the loop     *)
(* runs between two suspension points: the call of run() up to its first   *)
(* await, one wake-up of a waiting request, one step of a lookup task, one *)
(* done-callback.  The loop may interleave them in any order, except that  *)
(* permits handed over wake their receivers in the order of the hand-overs *)
(* (call_soon is FIFO).                                                    *)
(*                                                                         *)
(* asyncio.Semaphore is modelled with its deque of futures (Python 3.12):  *)
(* the order of the deque is the relation ahead, ahead[r] being the        *)
(* requests whose futures stand before the one of r.                       *)
(***************************************************************************)
EXTENDS Integers, FiniteSets

CONSTANTS
    Requests,   \* names of concurrent requests; a name is reused once free
    Active,     \* LookupSupervisor(active=...): number of permits
    MaxQueued   \* LookupSupervisor(queued=...): bound of the line

ASSUME RequestsFinite == IsFiniteSet(Requests)
ASSUME CapacityAssumption == Active \in Nat \ {0} /\ MaxQueued \in Nat

VARIABLES
    pc,       \* where the coroutine run() of each request is
    ahead,    \* order of the semaphore's deque of waiting futures
    value,    \* Semaphore._value, the permits nobody holds
    queued,   \* self.queued
    work,     \* the lookup task of each request; self.tasks are those # "none"
    closing   \* self.closing

vars == <<pc, ahead, value, queued, work, closing>>

(***************************************************************************)
(* pc[r]:  idle       not inside run()                                     *)
(*         waiting    its future is pending in the deque                   *)
(*         leaving    cancelled while pending, still to be resumed         *)
(*         woken      its future got a permit, still to be resumed         *)
(*         returning  cancelled after it got the permit, to be resumed     *)
(*         running    awaiting shield(task)                                *)
(*         aborting   cancelled there, still to be resumed                 *)
(* work[r]: active, cancelling (cancel() was requested, the task cleans    *)
(*         up), ended (done, its callbacks still queued on the loop).      *)
(***************************************************************************)
InDeque == {"waiting", "leaving", "woken", "returning"}
Granted == {"woken", "returning"}

Line    == {r \in Requests : pc[r] \in InDeque}
Waiting == {r \in Requests : pc[r] = "waiting"}
Tasks   == {r \in Requests : work[r] # "none"}
Holders == {r \in Requests : pc[r] \in Granted \/ work[r] # "none"}

(* Faulty: the counter alone decides, as before Python 3.11. *)
LockedByCount == value = 0

(* Semaphore.locked(): no permit, or someone not cancelled is ahead. *)
Locked == value = 0 \/ \E r \in Line : pc[r] # "leaving"

(* Faulty: one too many in the line. *)
RefusesLate == closing \/ (Locked /\ queued > MaxQueued)

(* run() refuses: draining, or no permit and the line is full. *)
Refuses == closing \/ (Locked /\ queued >= MaxQueued)

(* The condition of _resume_when_idle, on_idle aside. *)
Idle == ~closing /\ Tasks = {} /\ queued = 0

Init ==
    /\ pc = [r \in Requests |-> "idle"]
    /\ ahead = [r \in Requests |-> {}]
    /\ value = Active
    /\ queued = 0
    /\ work = [r \in Requests |-> "none"]
    /\ closing = FALSE

-----------------------------------------------------------------------------
(* The deque. *)

Append(r) == ahead' = [ahead EXCEPT ![r] = Line]

Unlink(r) == ahead' = [q \in Requests |-> IF q = r THEN {} ELSE ahead[q] \ {r}]

FirstOf(S) == {r \in S : ahead[r] \cap S = {}}

(***************************************************************************)
(* Semaphore.release() when a task is collected: the permit goes to the    *)
(* first pending future, or back to the pool when there is none.           *)
(***************************************************************************)
Release(pcs) ==
    \/ Waiting = {} /\ value' = value + 1 /\ pc' = pcs
    \/ \E w \in FirstOf(Waiting) :
          value' = value /\ pc' = [pcs EXCEPT ![w] = "woken"]

(* Faulty: the permits go back to the pool, nobody is told. *)
WakeNobody(pcs, v) == value' = v /\ pc' = pcs

(***************************************************************************)
(* Every way out of a suspended acquire() ends with a loop that hands the  *)
(* free permits, v of them, to the pending futures at the front: requests  *)
(* that found a permit free but another one woken before them had to wait. *)
(***************************************************************************)
WakeUp(pcs, v) ==
    \E G \in SUBSET Waiting :
        /\ \A g \in G : ahead[g] \cap Waiting \subseteq G
        /\ Cardinality(G) <= v
        /\ Cardinality(G) = v \/ G = Waiting
        /\ value' = v - Cardinality(G)
        /\ pc' = [q \in Requests |-> IF q \in G THEN "woken" ELSE pcs[q]]

(* acquire() is over for r, which stands at `at' afterwards. *)
LeaveLine(r, at, v) ==
    /\ queued' = queued - 1
    /\ Unlink(r)
    /\ WakeUp([pc EXCEPT ![r] = at], v)

(* Wake-ups run in the order of the hand-overs. *)
MyTurn(r) == r \in FirstOf({q \in Requests : pc[q] \in Granted})

-----------------------------------------------------------------------------
(* Actions of the requests. *)

(* run() with a permit at hand: acquire() does not suspend, the task starts. *)
StartAtOnce(r) ==
    /\ pc[r] = "idle" /\ work[r] = "none"
    /\ ~Refuses /\ ~Locked
    /\ value' = value - 1
    /\ pc' = [pc EXCEPT ![r] = "running"]
    /\ work' = [work EXCEPT ![r] = "active"]
    /\ UNCHANGED <<ahead, queued, closing>>

(* run() without one: count the request in and wait in the deque. *)
Enqueue(r) ==
    /\ pc[r] = "idle" /\ work[r] = "none"
    /\ ~Refuses /\ Locked
    /\ queued' = queued + 1
    /\ pc' = [pc EXCEPT ![r] = "waiting"]
    /\ Append(r)
    /\ UNCHANGED <<value, work, closing>>

(* Faulty: closing is not looked at again after acquire(). *)
StartUnchecked(r) ==
    /\ pc[r] = "woken" /\ MyTurn(r)
    /\ LeaveLine(r, "running", value)
    /\ work' = [work EXCEPT ![r] = "active"]
    /\ UNCHANGED closing

(* acquire() returns: the request starts its task. *)
StartWoken(r) ==
    /\ pc[r] = "woken" /\ MyTurn(r) /\ ~closing
    /\ LeaveLine(r, "running", value)
    /\ work' = [work EXCEPT ![r] = "active"]
    /\ UNCHANGED closing

(* Faulty: the permit is kept. *)
DeclineKeeping(r) ==
    /\ pc[r] = "woken" /\ MyTurn(r) /\ closing
    /\ LeaveLine(r, "idle", value)
    /\ UNCHANGED <<work, closing>>

(* acquire() returns during the drain: the permit is passed on. *)
Decline(r) ==
    /\ pc[r] = "woken" /\ MyTurn(r) /\ closing
    /\ LeaveLine(r, "idle", value + 1)
    /\ UNCHANGED <<work, closing>>

(***************************************************************************)
(* The request is cancelled from outside (deadline, disconnect, shutdown   *)
(* of the server).  Only its own coroutine is marked; the state of the     *)
(* supervisor changes when the loop resumes it.                            *)
(***************************************************************************)
CancelledAt == [waiting |-> "leaving", woken |-> "returning", running |-> "aborting"]

Cancel(r) ==
    /\ pc[r] \in DOMAIN CancelledAt
    /\ pc' = [pc EXCEPT ![r] = CancelledAt[pc[r]]]
    /\ UNCHANGED <<ahead, value, queued, work, closing>>

(* Faulty: a cancelled request is not counted out. *)
LeaveUncounted(r) ==
    /\ pc[r] = "leaving"
    /\ Unlink(r)
    /\ WakeUp([pc EXCEPT ![r] = "idle"], value)
    /\ UNCHANGED <<queued, work, closing>>

(* CancelledError out of acquire(), the future itself was cancelled. *)
Leave(r) ==
    /\ pc[r] = "leaving"
    /\ LeaveLine(r, "idle", value)
    /\ UNCHANGED <<work, closing>>

(* CancelledError out of acquire() after the hand-over: the permit goes on. *)
GiveBack(r) ==
    /\ pc[r] = "returning" /\ MyTurn(r)
    /\ LeaveLine(r, "idle", value + 1)
    /\ UNCHANGED <<work, closing>>

(* Faulty: the shielded task is left alone. *)
AbortSparing(r) ==
    /\ pc[r] = "aborting"
    /\ pc' = [pc EXCEPT ![r] = "idle"]
    /\ UNCHANGED <<ahead, value, queued, work, closing>>

(* CancelledError out of shield(): cancel the task, do not wait for it. *)
Abort(r) ==
    /\ pc[r] = "aborting"
    /\ pc' = [pc EXCEPT ![r] = "idle"]
    /\ work' = [work EXCEPT ![r] = IF @ = "active" THEN "cancelling" ELSE @]
    /\ UNCHANGED <<ahead, value, queued, closing>>

-----------------------------------------------------------------------------
(* Actions of the lookup tasks and of shutdown. *)

(* The task returns, raises, or has finished its cancellation. *)
EndWork(r) ==
    /\ work[r] \in {"active", "cancelling"}
    /\ work' = [work EXCEPT ![r] = "ended"]
    /\ UNCHANGED <<pc, ahead, value, queued, closing>>

(* _finished, then the callback of shield() that answers the request. *)
Collect(r) ==
    /\ work[r] = "ended"
    /\ work' = [work EXCEPT ![r] = "none"]
    /\ Release([pc EXCEPT ![r] = IF @ = "running" THEN "idle" ELSE @])
    /\ UNCHANGED <<ahead, queued, closing>>

(* cancel(), which close() calls before its bounded wait. *)
Close ==
    /\ ~closing
    /\ closing' = TRUE
    /\ work' = [r \in Requests |->
                  IF work[r] = "active" THEN "cancelling" ELSE work[r]]
    /\ UNCHANGED <<pc, ahead, value, queued>>

(* A loop step that request r takes without anything else happening. *)
Resume(r) == StartWoken(r) \/ Decline(r) \/ Leave(r) \/ GiveBack(r) \/ Abort(r)

Next ==
    \/ \E r \in Requests :
          \/ StartAtOnce(r) \/ Enqueue(r) \/ Cancel(r)
          \/ StartWoken(r) \/ Decline(r) \/ Leave(r) \/ GiveBack(r) \/ Abort(r)
          \/ EndWork(r) \/ Collect(r)
    \/ Close

(***************************************************************************)
(* Fairness: the loop runs what is ready (Resume, Collect), the deadline   *)
(* of the middleware cancels a request whose lookup runs for ever, and a   *)
(* task whose cancellation was requested ends (its cleanup is bounded).  A *)
(* task nobody cancels may run for ever, a waiting request need not be     *)
(* cancelled, and nothing obliges anyone to call run() or close().         *)
(***************************************************************************)
Fairness ==
    \A r \in Requests :
        /\ WF_vars(Resume(r))
        /\ WF_vars(pc[r] = "running" /\ Cancel(r))
        /\ WF_vars(work[r] = "cancelling" /\ EndWork(r))
        /\ WF_vars(Collect(r))

Spec     == Init /\ [][Next]_vars
FairSpec == Spec /\ Fairness

-----------------------------------------------------------------------------
(* Properties. *)

(* Types of the variables, with the two bounds the capacity promises. *)
TypeOK ==
    /\ pc \in [Requests -> InDeque \cup {"idle", "running", "aborting"}]
    /\ ahead \in [Requests -> SUBSET Requests]
    /\ value \in 0..Active
    /\ queued \in 0..MaxQueued
    /\ work \in [Requests -> {"none", "active", "cancelling", "ended"}]
    /\ closing \in BOOLEAN

(***************************************************************************)
(* "retain their slot until cleanup actually finishes" (runtime.py:69):    *)
(* whatever the order of cancellations, hand-overs, callbacks and closing, *)
(* every permit is either in the pool or with exactly one request that was *)
(* handed it or whose task still exists.  None leaks, none is duplicated.  *)
(***************************************************************************)
PermitConservation == value + Cardinality(Holders) = Active

(***************************************************************************)
(* self.queued, which decides refusals and idleness, counts exactly the    *)
(* requests that are inside acquire(), those already cancelled included.   *)
(***************************************************************************)
QueueAccounting == queued = Cardinality(Line)

(***************************************************************************)
(* No lost wake-up: a permit lies in the pool beside a pending request     *)
(* only while some other request that was handed one has yet to leave the  *)
(* deque, and that one will hand the permit on.                            *)
(***************************************************************************)
NoLostWakeup ==
    value > 0 /\ Waiting # {} => \E r \in Line : pc[r] \in Granted

(* Futures leave the deque in one order: ahead is a strict total order on  *)
(* the line, and the permits handed over went to its front, behind which   *)
(* only cancelled futures and pending ones stand.                          *)
DequeOrder ==
    /\ \A r \in Requests : ahead[r] \subseteq Line \ {r}
    /\ \A r \in Requests \ Line : ahead[r] = {}
    /\ \A p, q \in Line : p # q => (p \in ahead[q] <=> q \notin ahead[p])
    /\ \A p, q, r \in Line : p \in ahead[q] /\ q \in ahead[r] => p \in ahead[r]
    /\ \A p \in Waiting : \A q \in Line : pc[q] \in Granted => p \notin ahead[q]

(***************************************************************************)
(* After closing every task there is has been told to stop, and so has     *)
(* every task a late wake-up could still have started: close() waits for   *)
(* tasks that end.                                                         *)
(***************************************************************************)
ClosingCancelsAll == closing => \A r \in Requests : work[r] # "active"

(***************************************************************************)
(* A cancelled request leaves no lookup running on its behalf: once the    *)
(* request has left run(), its task has been told to stop.                 *)
(***************************************************************************)
NoOrphanWork == \A r \in Requests : work[r] = "active" => pc[r] \in {"running", "aborting"}

(***************************************************************************)
(* Every request in the line gets out of it, though nothing cancels it: it *)
(* is enough that the lookups before it meet their deadlines.              *)
(***************************************************************************)
LineMoves == \A r \in Requests : r \in Line ~> r \notin Line

(***************************************************************************)
(* The supervisor implements the abstract admission queue: the line is     *)
(* what is pending or woken, busy is self.tasks.                           *)
(***************************************************************************)
Interested == {r \in Requests : pc[r] \in {"waiting", "woken"}}

AQ == INSTANCE AdmissionQueue WITH
        line  <- Interested,
        ahead <- [r \in Requests |->
                    IF r \in Interested THEN ahead[r] \cap Interested ELSE {}],
        busy  <- Tasks,
        open  <- ~closing

ImplementsAdmissionQueue == AQ!Spec
=============================================================================

---------------------------- MODULE Classification ----------------------------
(***************************************************************************)
(* /check_bucket as a whole: _classify_token of module CheckBucket is the  *)
(* work of a lookup that LookupSupervisor has admitted.  A lookup that     *)
(* waits for the lock of its token keeps its permit, so lookups of one     *)
(* token can occupy all permits while one of them works.  Cancelling the   *)
(* lookup, at a deadline or on closing, is what cancels the wait for the   *)
(* lock, and the permit comes back when the lock has been dealt with.      *)
(***************************************************************************)
EXTENDS CheckBucket, Integers

CONSTANTS Active, MaxQueued

ASSUME SlotAssumption == Active \in Nat \ {0} /\ MaxQueued \in Nat

VARIABLES at, before, value, queued, work, closing   \* app.state.lookups

slots    == <<at, before, value, queued, work, closing>>
slotVars == <<vars, slots>>

L == INSTANCE LookupSupervisor WITH pc <- at, ahead <- before

SlotInit == Init /\ L!Init

-----------------------------------------------------------------------------
(* Steps of the supervisor that do not reach the task. *)
Admission(r) ==
    /\ \/ L!StartAtOnce(r) \/ L!Enqueue(r) \/ L!StartWoken(r) \/ L!Decline(r)
       \/ L!Cancel(r) \/ L!Leave(r) \/ L!GiveBack(r) \/ L!Collect(r)
    /\ UNCHANGED vars

(* The first step of the task. *)
Begin(r) ==
    /\ work[r] = "active" /\ pc[r] = "idle"
    /\ \E s \in Spellings : Arrive(r, s)
    /\ UNCHANGED slots

(* Cancelled before its first step, the task never runs. *)
EndUnbegun(r) ==
    /\ work[r] = "cancelling" /\ pc[r] = "idle"
    /\ L!EndWork(r)
    /\ UNCHANGED vars

Classify(r) ==
    /\ Enter(r) \/ Classified(r)
    /\ UNCHANGED slots

(* The lock is released, or given up, in the last step of the task. *)
Finish(r) == (Leave(r) \/ GiveUp(r)) /\ L!EndWork(r)

(* The request is cancelled and cancels its task. *)
Abort(r) == L!Abort(r) /\ Cancel({r})

Close == L!Close /\ Cancel({r \in Requests : work[r] = "active"})

SlotNext ==
    \/ \E r \in Requests :
          Admission(r) \/ Begin(r) \/ EndUnbegun(r) \/ Classify(r) \/ Finish(r) \/ Abort(r)
    \/ Close

(***************************************************************************)
(* Fairness: the loop runs what is ready, a classification that does not   *)
(* end is cancelled at the deadline of its request, and a cancelled task   *)
(* ends.  That the others have deadlines, too, is not made use of: neither *)
(* a request in the line nor a lookup that waits for a lock needs one.     *)
(***************************************************************************)
SlotFairness ==
    \A r \in Requests :
        /\ WF_slotVars((L!StartWoken(r) \/ L!Decline(r) \/ L!Leave(r) \/ L!GiveBack(r)) /\ Admission(r))
        /\ WF_slotVars(L!Collect(r) /\ Admission(r))
        /\ WF_slotVars(pc[r] \in Inside /\ at[r] = "running" /\ L!Cancel(r) /\ Admission(r))
        /\ WF_slotVars(Abort(r))
        /\ WF_slotVars(Begin(r))
        /\ WF_slotVars(Enter(r) /\ Classify(r))
        /\ WF_slotVars(work[r] = "cancelling" /\ (EndUnbegun(r) \/ Finish(r)))

SlotSpec == SlotInit /\ [][SlotNext]_slotVars /\ SlotFairness

-----------------------------------------------------------------------------
(***************************************************************************)
(* The slots turn over though lookups inside them wait for one another:    *)
(* every request in the line gets out of it, at the latest when the        *)
(* lookups that hold a lock have met their deadlines, also when all        *)
(* permits are with lookups of one token.                                  *)
(***************************************************************************)
SlotsTurnOver == \A r \in Requests : r \in L!Line ~> r \notin L!Line
=============================================================================

-------------------------- MODULE CheckBucket_proofs --------------------------
(***************************************************************************)
(* Mutual exclusion by the locks of /check_bucket, for every number of     *)
(* requests and spellings, and for the lock inside the lookup permits.     *)
(*                                                                         *)
(* asyncio.Lock hands over through a promise: release() clears the lock    *)
(* and wakes one waiter, which takes the lock only when it runs.  So the   *)
(* invariant must say that the promise is given to one request at a time,  *)
(* which follows from its place: it stands first in its deque (Promised),  *)
(* and of two requests in a deque one stands before the other (InOrder).   *)
(*                                                                         *)
(* In Classification the locks meet the permits of LookupSupervisor.  Each *)
(* half only takes its own steps, so what is proved of it holds there, and *)
(* what ties them together is that a request at a lock is a lookup which   *)
(* nobody has cancelled without its wait (LookupsAtLocks).                 *)
(***************************************************************************)
EXTENDS Classification, FiniteSetTheorems, TLAPS

LP == INSTANCE LookupSupervisor_proofs WITH pc <- at, ahead <- before

Typed ==
    /\ pc \in [Requests -> {"idle"} \cup Queued \cup Inside]
    /\ token \in [Requests -> Spellings]
    /\ ahead \in [Requests -> SUBSET Requests]

(* Who is woken stands first in its deque, and its lock is free. *)
Promised == \A r \in Requests : pc[r] \in Granted => ahead[r] = {} /\ token[r] \notin locked

(* The deques are lines, and only requests of one deque stand in line. *)
InOrder ==
    /\ \A q \in Requests : \A p \in ahead[q] :
          p # q /\ pc[p] \in Queued /\ pc[q] \in Queued /\ token[p] = token[q]
    /\ \A p, q \in Requests :
          p # q /\ pc[p] \in Queued /\ pc[q] \in Queued /\ token[p] = token[q]
              => p \in ahead[q] \/ q \in ahead[p]

IInv == Typed /\ LockMatchesHolder /\ Promised /\ InOrder

-----------------------------------------------------------------------------
(* The invariant holds initially: all deques are empty. *)
LEMMA InitIInv == Init => IInv
  BY DEF Init, IInv, Typed, LockMatchesHolder, Promised, InOrder, Queued, Granted, Inside

(* A request takes a free lock or stands last in its deque. *)
LEMMA ArriveIInv ==
    ASSUME IInv, NEW r \in Requests, NEW s \in Spellings, Arrive(r, s)
    PROVE  IInv'
  <1> USE DEF IInv, Queued, Granted, Inside
  <1>1. CASE MustWait(s)
    <2>1. /\ pc[r] = "idle" /\ token' = [token EXCEPT ![r] = s]
          /\ pc' = [pc EXCEPT ![r] = "waiting"]
          /\ ahead' = [ahead EXCEPT ![r] = Deque(s)] /\ locked' = locked
      BY <1>1 DEF Arrive, LockKey
    <2>2. Typed'
      BY <2>1 DEF Typed, Deque
    <2>3. LockMatchesHolder'
      BY <2>1 DEF Typed, LockMatchesHolder
    <2>4. Promised'
      BY <2>1 DEF Typed, Promised
    <2>5. InOrder'
      BY <2>1 DEF Typed, InOrder, Deque
    <2> QED
      BY <2>2, <2>3, <2>4, <2>5
  <1>2. CASE ~MustWait(s)
    <2>1. /\ pc[r] = "idle" /\ token' = [token EXCEPT ![r] = s]
          /\ pc' = [pc EXCEPT ![r] = "classifying"]
          /\ ahead' = ahead /\ locked' = locked \cup {s}
          /\ s \notin locked /\ \A q \in Requests : pc[q] \in Granted => token[q] # s
      BY <1>2 DEF Arrive, LockKey, MustWait, Deque
    <2>2. Typed'
      BY <2>1 DEF Typed
    <2>3. LockMatchesHolder'
      BY <2>1 DEF Typed, LockMatchesHolder
    <2>4. Promised'
      BY <2>1 DEF Typed, Promised
    <2>5. InOrder'
      BY <2>1 DEF Typed, InOrder
    <2> QED
      BY <2>2, <2>3, <2>4, <2>5
  <1> QED
    BY <1>1, <1>2

(* The promise is redeemed, by the only one who has it. *)
LEMMA EnterIInv == ASSUME IInv, NEW r \in Requests, Enter(r) PROVE IInv'
  <1> USE DEF IInv, Queued, Granted, Inside
  <1>1. /\ pc[r] = "woken" /\ pc' = [pc EXCEPT ![r] = "classifying"]
        /\ locked' = locked \cup {token[r]} /\ token' = token
        /\ ahead' = [q \in Requests |-> IF q = r THEN {} ELSE ahead[q] \ {r}]
    BY DEF Enter, Unlink
  <1>2. \A q \in Requests : q # r /\ pc[q] \in Granted => token[q] # token[r]
    BY <1>1 DEF Promised, InOrder
  <1>3. Typed'
    BY <1>1 DEF Typed
  <1>4. LockMatchesHolder'
    BY <1>1 DEF Typed, LockMatchesHolder, Promised
  <1>5. Promised'
    BY <1>1, <1>2 DEF Typed, Promised
  <1>6. InOrder'
    BY <1>1 DEF Typed, InOrder
  <1> QED
    BY <1>3, <1>4, <1>5, <1>6

(* The lock is released and promised to the first in its deque. *)
LEMMA LeaveIInv == ASSUME IInv, NEW r \in Requests, Leave(r) PROVE IInv'
  <1> USE DEF IInv, Queued, Granted, Inside
  <1>1. /\ pc[r] \in Inside /\ locked' = locked \ {token[r]}
        /\ token' = token /\ ahead' = ahead
        /\ pc' = [q \in Requests |->
                    IF pc[q] = "waiting" /\ token[q] = token[r] /\ q # r /\ ahead[q] \ {r} = {}
                    THEN "woken" ELSE [pc EXCEPT ![r] = "idle"][q]]
    BY DEF Leave, WakeFirst
  <1>2. \A q \in Requests : r \notin ahead[q]
    BY <1>1 DEF InOrder
  <1>3. Typed'
    BY <1>1 DEF Typed
  <1>4. LockMatchesHolder'
    BY <1>1 DEF Typed, LockMatchesHolder
  <1>5. Promised'
    BY <1>1, <1>2 DEF Typed, Promised
  <1>6. InOrder'
    BY <1>1, <1>2 DEF Typed, InOrder
  <1> QED
    BY <1>3, <1>4, <1>5, <1>6

(* Cancelled requests keep their places, and their promise until they run. *)
LEMMA CancelIInv == ASSUME IInv, NEW R \in SUBSET Requests, Cancel(R) PROVE IInv'
  <1>1. /\ \A r \in Requests :
             \/ pc'[r] = pc[r]
             \/ pc[r] = "waiting" /\ pc'[r] = "leaving"
             \/ pc[r] = "woken" /\ pc'[r] = "returning"
        /\ pc' \in [Requests -> {"idle"} \cup Queued \cup Inside]
        /\ UNCHANGED <<token, ahead, locked>>
    BY DEF IInv, Typed, Cancel, CancelledAt, Queued
  <1> USE DEF Queued, Granted, Inside
  <1>2. LockMatchesHolder'
    BY <1>1 DEF IInv, LockMatchesHolder
  <1>3. Promised' /\ InOrder'
    BY <1>1 DEF IInv, Typed, Promised, InOrder
  <1> QED
    BY <1>1, <1>2, <1>3 DEF IInv, Typed

(* Who leaves the deque without the lock passes a promise on. *)
LEMMA GiveUpIInv == ASSUME IInv, NEW r \in Requests, GiveUp(r) PROVE IInv'
  <1> USE DEF IInv, Queued, Granted, Inside
  <1>1. /\ pc[r] \in {"leaving", "returning"} /\ token' = token /\ locked' = locked
        /\ ahead' = [q \in Requests |-> IF q = r THEN {} ELSE ahead[q] \ {r}]
    BY DEF GiveUp, Unlink
  <1>2. /\ pc' \in [Requests -> {"idle"} \cup Queued \cup Inside]
        /\ pc'[r] = "idle"
        /\ \A q \in Requests \ {r} :
              \/ pc'[q] = pc[q]
              \/ /\ pc[q] = "waiting" /\ pc'[q] = "woken"
                 /\ token[q] \notin locked /\ ahead[q] \ {r} = {}
    BY <1>1 DEF GiveUp, WakeFirst, Typed
  <1>3. Typed'
    BY <1>1, <1>2 DEF Typed
  <1>4. LockMatchesHolder'
    BY <1>1, <1>2 DEF Typed, LockMatchesHolder
  <1>5. Promised'
    BY <1>1, <1>2 DEF Typed, Promised
  <1>6. InOrder'
    BY <1>1, <1>2 DEF Typed, InOrder
  <1> QED
    BY <1>3, <1>4, <1>5, <1>6

(* Every step preserves the invariant. *)
LEMMA NextIInv == IInv /\ [Next]_vars => IInv'
  <1> SUFFICES ASSUME IInv, [Next]_vars PROVE IInv'
    OBVIOUS
  <1>1. ASSUME NEW r \in Requests, Classified(r) PROVE IInv'
    BY <1>1 DEF Classified, IInv, Typed, LockMatchesHolder, Promised, InOrder,
                Queued, Granted, Inside
  <1>2. CASE UNCHANGED vars
    BY <1>2 DEF vars, IInv, Typed, LockMatchesHolder, Promised, InOrder
  <1> QED
    BY <1>1, <1>2, ArriveIInv, EnterIInv, LeaveIInv, CancelIInv, GiveUpIInv DEF Next

-----------------------------------------------------------------------------
(* The lock of a spelling excludes: it is held by the one that works.       *)
THEOREM LockExcludes == Spec => []LockMatchesHolder
  <1>1. IInv => LockMatchesHolder
    BY DEF IInv
  <1> QED
    BY <1>1, InitIInv, NextIInv, PTL DEF Spec

(***************************************************************************)
(* Whoever stands first at a lock that nobody holds has been told so, or   *)
(* is about to leave and to tell the next one: this, and that the loop     *)
(* runs what is ready, is why waiting for the lock ends (WaitEnds).        *)
(***************************************************************************)
FirstIsTold == \A r \in Requests : pc[r] = "waiting" /\ ahead[r] = {} => token[r] \in locked

(* The news are passed on by everyone who leaves the deque or the lock.     *)
LEMMA ToldStep == IInv /\ FirstIsTold /\ [Next]_vars => FirstIsTold'
  <1> SUFFICES ASSUME IInv, FirstIsTold, [Next]_vars PROVE FirstIsTold'
    OBVIOUS
  <1>1. /\ pc \in [Requests -> {"idle"} \cup Queued \cup Inside]
        /\ token \in [Requests -> Spellings] /\ ahead \in [Requests -> SUBSET Requests]
    BY DEF IInv, Typed
  <1>2. \A q \in Requests : \A p \in ahead[q] :
           pc[p] \in Queued /\ pc[q] \in Queued /\ token[p] = token[q]
    BY DEF IInv, InOrder
  <1>3. ASSUME NEW r \in Requests, NEW s \in Spellings, Arrive(r, s) PROVE FirstIsTold'
    <2>1. CASE MustWait(s)
      <3>1. s \in locked \/ Deque(s) # {}
        BY <2>1 DEF MustWait
      <3>2. /\ pc' = [pc EXCEPT ![r] = "waiting"] /\ token' = [token EXCEPT ![r] = s]
            /\ ahead' = [ahead EXCEPT ![r] = Deque(s)] /\ locked' = locked
        BY <1>3, <2>1 DEF Arrive, LockKey
      <3> QED
        BY <1>1, <3>1, <3>2 DEF FirstIsTold
    <2>2. CASE ~MustWait(s)
      BY <1>1, <1>3, <2>2 DEF Arrive, LockKey, FirstIsTold
    <2> QED
      BY <2>1, <2>2
  <1>4. ASSUME NEW r \in Requests, Enter(r) PROVE FirstIsTold'
    BY <1>1, <1>2, <1>4 DEF Enter, Unlink, FirstIsTold
  <1>5. ASSUME NEW r \in Requests, Classified(r) PROVE FirstIsTold'
    BY <1>1, <1>5 DEF Classified, FirstIsTold
  <1>6. ASSUME NEW r \in Requests, Leave(r) PROVE FirstIsTold'
    BY <1>1, <1>6 DEF Leave, WakeFirst, FirstIsTold
  <1>7. ASSUME NEW r \in Requests, GiveUp(r) PROVE FirstIsTold'
    <2>1. CASE token[r] \in locked
      BY <1>1, <1>2, <1>7, <2>1 DEF GiveUp, Unlink, FirstIsTold
    <2>2. CASE token[r] \notin locked
      BY <1>1, <1>2, <1>7, <2>2 DEF GiveUp, Unlink, WakeFirst, FirstIsTold
    <2> QED
      BY <2>1, <2>2
  <1>8. ASSUME NEW R \in SUBSET Requests, Cancel(R) PROVE FirstIsTold'
    BY <1>1, <1>8 DEF Cancel, CancelledAt, FirstIsTold
  <1>9. CASE UNCHANGED vars
    BY <1>9 DEF vars, FirstIsTold
  <1> QED
    BY <1>3, <1>4, <1>5, <1>6, <1>7, <1>8, <1>9 DEF Next

(* A lock that is free is never kept from those who wait for it.            *)
THEOREM LockHandedOn == Spec => []FirstIsTold
  <1>1. Init => FirstIsTold
    BY DEF Init, FirstIsTold
  <1> QED
    BY <1>1, InitIInv, NextIInv, ToldStep, PTL DEF Spec

(* Inside the lookup permits the lock does the same steps: a task enters,   *)
(* leaves and is cancelled as the supervisor lets it.                       *)
LEMMA SlotStep == [SlotNext]_slotVars => [Next]_vars
  <1> SUFFICES ASSUME [SlotNext]_slotVars PROVE Next \/ UNCHANGED vars
    OBVIOUS
  <1>1. ASSUME NEW r \in Requests, Admission(r) \/ EndUnbegun(r) PROVE UNCHANGED vars
    BY <1>1 DEF Admission, EndUnbegun
  <1>2. ASSUME NEW r \in Requests, Begin(r) \/ Classify(r) \/ Finish(r) PROVE Next
    BY <1>2 DEF Begin, Classify, Finish, Next
  <1>3. ASSUME NEW r \in Requests, Abort(r) PROVE Next
    BY <1>3 DEF Abort, Next
  <1>4. CASE Close
    BY <1>4 DEF Close, Next
  <1>5. CASE UNCHANGED slotVars
    BY <1>5 DEF slotVars
  <1> QED
    BY <1>1, <1>2, <1>3, <1>4, <1>5 DEF SlotNext

(* /check_bucket as a whole: the lock excludes, too, when lookups that wait *)
(* for it occupy the permits and are cancelled there.                       *)
THEOREM LockExcludesInSlots == SlotSpec => []LockMatchesHolder
  <1>1. SlotInit => Init
    BY DEF SlotInit
  <1>2. IInv => LockMatchesHolder
    BY DEF IInv
  <1> QED
    BY <1>1, <1>2, InitIInv, NextIInv, SlotStep, PTL DEF SlotSpec

(* And there, too, a free lock is never kept from those who wait for it,    *)
(* also when the lookup that was told is cancelled at its deadline.         *)
THEOREM LockHandedOnInSlots == SlotSpec => []FirstIsTold
  <1>1. SlotInit => Init
    BY DEF SlotInit
  <1>2. Init => FirstIsTold
    BY DEF Init, FirstIsTold
  <1> QED
    BY <1>1, <1>2, InitIInv, NextIInv, ToldStep, SlotStep, PTL DEF SlotSpec

-----------------------------------------------------------------------------
(* The other half of Classification: its steps are those of the supervisor. *)

(* The assumptions of LookupSupervisor hold. *)
LEMMA Capacities == LP!IsFiniteSet(Requests) /\ Active \in Nat \ {0} /\ MaxQueued \in Nat
  BY RequestsFinite, SlotAssumption DEF LP!IsFiniteSet, IsFiniteSet

(* L and LP are instances of one module. *)
LEMMA SameInit == L!Init => LP!Init
  BY DEF L!Init, LP!Init

(* Instantiation renames what LookupSupervisor extends. *)
LEMMA SameCardinality == \A E : L!Cardinality(E) = LP!Cardinality(E)
  BY DEF L!Cardinality, LP!Cardinality

(* The state functions of both instances agree, *)
LEMMA SameSets ==
    /\ L!Line = LP!Line /\ L!Waiting = LP!Waiting /\ L!Refuses = LP!Refuses /\ L!Locked = LP!Locked
    /\ L!InDeque = LP!InDeque /\ L!Granted = LP!Granted
  BY DEF L!Line, LP!Line, L!Waiting, LP!Waiting, L!InDeque, LP!InDeque, L!Granted, LP!Granted,
         L!Refuses, LP!Refuses, L!Locked, LP!Locked

(* so does the end of a suspended acquire(), *)
LEMMA SameLeaveLine ==
    ASSUME NEW r \in Requests, NEW next, NEW v, L!LeaveLine(r, next, v)
    PROVE  LP!LeaveLine(r, next, v)
  BY SameCardinality, SameSets DEF L!LeaveLine, LP!LeaveLine, L!WakeUp, LP!WakeUp, L!Unlink, LP!Unlink

(* and whose turn it is. *)
LEMMA SameTurn == ASSUME NEW r \in Requests PROVE L!MyTurn(r) <=> LP!MyTurn(r)
  BY SameSets DEF L!MyTurn, LP!MyTurn, L!FirstOf, LP!FirstOf

(* A step of one is a step of the other. *)
LEMMA SameNext == [L!Next]_(L!vars) => [LP!Next]_(LP!vars)
  <1> SUFFICES ASSUME [L!Next]_(L!vars) PROVE [LP!Next]_(LP!vars)
    OBVIOUS
  <1>1. ASSUME NEW r \in Requests, L!StartAtOnce(r) PROVE LP!StartAtOnce(r)
    BY <1>1, SameSets DEF L!StartAtOnce, LP!StartAtOnce
  <1>2. ASSUME NEW r \in Requests, L!Enqueue(r) PROVE LP!Enqueue(r)
    BY <1>2, SameSets DEF L!Enqueue, LP!Enqueue, L!Append, LP!Append
  <1>3. ASSUME NEW r \in Requests, L!Cancel(r) PROVE LP!Cancel(r)
    BY <1>3 DEF L!Cancel, LP!Cancel, L!CancelledAt, LP!CancelledAt
  <1>4. ASSUME NEW r \in Requests, L!StartWoken(r) PROVE LP!StartWoken(r)
    BY <1>4, SameLeaveLine, SameTurn DEF L!StartWoken, LP!StartWoken
  <1>5. ASSUME NEW r \in Requests, L!Decline(r) PROVE LP!Decline(r)
    BY <1>5, SameLeaveLine, SameTurn DEF L!Decline, LP!Decline
  <1>6. ASSUME NEW r \in Requests, L!Leave(r) PROVE LP!Leave(r)
    BY <1>6, SameLeaveLine DEF L!Leave, LP!Leave
  <1>7. ASSUME NEW r \in Requests, L!GiveBack(r) PROVE LP!GiveBack(r)
    BY <1>7, SameLeaveLine, SameTurn DEF L!GiveBack, LP!GiveBack
  <1>8. ASSUME NEW r \in Requests, L!Abort(r) PROVE LP!Abort(r)
    BY <1>8 DEF L!Abort, LP!Abort
  <1>9. ASSUME NEW r \in Requests, L!EndWork(r) PROVE LP!EndWork(r)
    BY <1>9 DEF L!EndWork, LP!EndWork
  <1>10. ASSUME NEW r \in Requests, L!Collect(r) PROVE LP!Collect(r)
    BY <1>10, SameSets DEF L!Collect, LP!Collect, L!Release, LP!Release, L!FirstOf, LP!FirstOf
  <1>11. L!Close => LP!Close
    BY DEF L!Close, LP!Close
  <1>12. UNCHANGED L!vars => UNCHANGED LP!vars
    BY DEF L!vars, LP!vars
  <1> QED
    BY <1>1, <1>2, <1>3, <1>4, <1>5, <1>6, <1>7, <1>8, <1>9, <1>10, <1>11, <1>12
       DEF L!Next, LP!Next

(* A step of /check_bucket is a step of the supervisor or leaves it alone. *)
LEMMA SlotLookupStep == [SlotNext]_slotVars => [L!Next]_(L!vars)
  <1> SUFFICES ASSUME [SlotNext]_slotVars PROVE L!Next \/ UNCHANGED L!vars
    OBVIOUS
  <1>1. ASSUME NEW r \in Requests, Admission(r) \/ EndUnbegun(r) \/ Finish(r) \/ Abort(r)
        PROVE  L!Next
    BY <1>1 DEF Admission, EndUnbegun, Finish, Abort, L!Next
  <1>2. ASSUME NEW r \in Requests, Begin(r) \/ Classify(r) PROVE UNCHANGED L!vars
    BY <1>2 DEF Begin, Classify, slots, L!vars
  <1>3. CASE Close
    BY <1>3 DEF Close, L!Next
  <1>4. CASE UNCHANGED slotVars
    BY <1>4 DEF slotVars, slots, L!vars
  <1> QED
    BY <1>1, <1>2, <1>3, <1>4 DEF SlotNext

(* The invariant of the supervisor is one of /check_bucket. *)
LEMMA SlotLookups == SlotSpec => []LP!IInv
  <1>1. SlotInit => LP!IInv
    BY SameInit, LP!InitIInv, Capacities DEF SlotInit
  <1>2. LP!IInv /\ [SlotNext]_slotVars => LP!IInv'
    BY SlotLookupStep, SameNext, LP!NextIInv, Capacities
  <1> QED
    BY <1>1, <1>2, PTL DEF SlotSpec

(***************************************************************************)
(* A request at the lock is a lookup that has not ended; it waits there    *)
(* undisturbed only as long as nobody has cancelled the lookup.            *)
(***************************************************************************)
LookupsAtLocks ==
    \A r \in Requests :
        /\ pc[r] \in Inside => work[r] \in {"active", "cancelling"}
        /\ pc[r] \in {"waiting", "woken"} => work[r] = "active"
        /\ pc[r] \in {"leaving", "returning"} => work[r] = "cancelling"

(* So no more requests hold a lock, or wait for one, than there are permits. *)
LocksWithinPermits == Cardinality({r \in Requests : pc[r] # "idle"}) <= Active

(* What a step of the lock may do to those that are not its own. *)
LEMMA OthersAtLocks ==
    ASSUME IInv, NEW r \in Requests, Leave(r) \/ GiveUp(r)
    PROVE  /\ pc'[r] = "idle"
           /\ \A q \in Requests \ {r} : pc'[q] = pc[q] \/ (pc[q] = "waiting" /\ pc'[q] = "woken")
  <1>1. pc \in [Requests -> {"idle"} \cup Queued \cup Inside]
    BY DEF IInv, Typed
  <1>2. CASE Leave(r)
    BY <1>1, <1>2 DEF Leave, WakeFirst, Inside
  <1>3. CASE GiveUp(r)
    BY <1>1, <1>3 DEF GiveUp, WakeFirst
  <1> QED
    BY <1>2, <1>3

(* Lookups are cancelled together with their waits. *)
LEMMA CancelledAtLocks ==
    ASSUME IInv, LookupsAtLocks, NEW R \in SUBSET Requests, Cancel(R),
           work \in [Requests -> {"none", "active", "cancelling", "ended"}],
           work' = [r \in Requests |->
                      IF r \in R /\ work[r] = "active" THEN "cancelling" ELSE work[r]]
    PROVE  LookupsAtLocks'
  <1>1. \A r \in Requests \ R : pc'[r] = pc[r] /\ work'[r] = work[r]
    BY DEF Cancel, IInv, Typed
  <1>2. \A r \in R :
           /\ pc[r] \in {"waiting", "leaving"} => pc'[r] = "leaving"
           /\ pc[r] \in {"woken", "returning"} => pc'[r] = "returning"
           /\ pc[r] \in {"idle"} \cup Inside => pc'[r] = pc[r]
           /\ work'[r] = IF work[r] = "active" THEN "cancelling" ELSE work[r]
    BY DEF Cancel, CancelledAt, Inside
  <1>3. \A r \in Requests : pc[r] \in {"idle"} \cup Queued \cup Inside
    BY DEF IInv, Typed
  <1> QED
    BY <1>1, <1>2, <1>3 DEF LookupsAtLocks, Inside, Queued

(* Every step of /check_bucket keeps lookups and locks together. *)
LEMMA AtLocksStep == LP!IInv /\ IInv /\ LookupsAtLocks /\ [SlotNext]_slotVars => LookupsAtLocks'
  <1> SUFFICES ASSUME LP!IInv, IInv, LookupsAtLocks, [SlotNext]_slotVars PROVE LookupsAtLocks'
    OBVIOUS
  <1>1. work \in [Requests -> {"none", "active", "cancelling", "ended"}]
    BY DEF LP!IInv, LP!Typed
  <1>2. pc \in [Requests -> {"idle"} \cup Queued \cup Inside]
    BY DEF IInv, Typed
  <1>3. ASSUME NEW r \in Requests, Admission(r) PROVE LookupsAtLocks'
    <2>1. at[r] = "woken" => work[r] = "none"
      BY DEF LP!IInv, LP!LineHasNoTask, LP!Line, LP!InDeque
    <2>2. pc' = pc
      BY <1>3 DEF Admission, vars
    <2>3. \A q \in Requests : work'[q] = work[q] \/ work[q] \notin {"active", "cancelling"}
      BY <1>1, <1>3, <2>1 DEF Admission, L!StartAtOnce, L!Enqueue, L!StartWoken, L!Decline,
                              L!Cancel, L!Leave, L!GiveBack, L!Collect
    <2> QED
      BY <1>2, <2>2, <2>3 DEF LookupsAtLocks, Inside, Queued
  <1>4. ASSUME NEW r \in Requests, Begin(r) PROVE LookupsAtLocks'
    <2>1. work' = work /\ work[r] = "active" /\ pc'[r] \in {"waiting", "classifying"}
          /\ \A q \in Requests \ {r} : pc'[q] = pc[q]
      BY <1>2, <1>4 DEF Begin, Arrive, slots
    <2> QED
      BY <2>1 DEF LookupsAtLocks, Inside
  <1>5. ASSUME NEW r \in Requests, EndUnbegun(r) PROVE LookupsAtLocks'
    BY <1>1, <1>5 DEF EndUnbegun, L!EndWork, vars, LookupsAtLocks, Inside
  <1>6. ASSUME NEW r \in Requests, Classify(r) PROVE LookupsAtLocks'
    BY <1>2, <1>6 DEF Classify, Enter, Classified, slots, LookupsAtLocks, Inside
  <1>7. ASSUME NEW r \in Requests, Finish(r) PROVE LookupsAtLocks'
    <2>1. \A q \in Requests \ {r} : work'[q] = work[q]
      BY <1>1, <1>7 DEF Finish, L!EndWork
    <2>2. /\ pc'[r] = "idle"
          /\ \A q \in Requests \ {r} : pc'[q] = pc[q] \/ (pc[q] = "waiting" /\ pc'[q] = "woken")
      BY <1>7, OthersAtLocks DEF Finish
    <2> QED
      BY <2>1, <2>2 DEF LookupsAtLocks, Inside
  <1>8. ASSUME NEW r \in Requests, Abort(r) PROVE LookupsAtLocks'
    <2>1. Cancel({r}) /\ {r} \in SUBSET Requests
      BY <1>8 DEF Abort
    <2>2. work' = [q \in Requests |->
                     IF q \in {r} /\ work[q] = "active" THEN "cancelling" ELSE work[q]]
      BY <1>1, <1>8 DEF Abort, L!Abort
    <2> QED
      BY <1>1, <2>1, <2>2, CancelledAtLocks
  <1>9. CASE Close
    <2>1. PICK R \in SUBSET Requests : R = {r \in Requests : work[r] = "active"} /\ Cancel(R)
      BY <1>9 DEF Close
    <2>2. work' = [q \in Requests |->
                     IF q \in R /\ work[q] = "active" THEN "cancelling" ELSE work[q]]
      BY <1>1, <1>9, <2>1 DEF Close, L!Close
    <2> QED
      BY <1>1, <2>1, <2>2, CancelledAtLocks
  <1>10. CASE UNCHANGED slotVars
    BY <1>10 DEF slotVars, vars, slots, LookupsAtLocks
  <1> QED
    BY <1>3, <1>4, <1>5, <1>6, <1>7, <1>8, <1>9, <1>10 DEF SlotNext

(* Who is at a lock has a permit, so there are never more than permits.     *)
LEMMA PermitsBoundLocks ==
    ASSUME LP!IInv, IInv, LookupsAtLocks
    PROVE  LocksWithinPermits
  <1> DEFINE atLocks == {r \in Requests : pc[r] # "idle"}
  <1>1. atLocks \in SUBSET LP!Holders
    <2>1. \A r \in Requests : pc[r] \in {"idle"} \cup Queued \cup Inside
      BY DEF IInv, Typed
    <2>2. \A r \in atLocks : work[r] # "none"
      BY <2>1 DEF LookupsAtLocks, Queued, Inside
    <2> QED
      BY <2>2 DEF LP!Holders
  <1>2. LP!Holders \in SUBSET Requests
    BY DEF LP!Holders
  <1>3. IsFiniteSet(LP!Holders) /\ Cardinality(LP!Holders) \in Nat
    BY <1>2, RequestsFinite, FS_Subset, FS_CardinalityType
  <1>4. value \in Nat /\ value + LP!Cardinality(LP!Holders) = Active
    BY DEF LP!IInv, LP!Typed, LP!PermitConservation
  <1>5. LP!Cardinality(LP!Holders) = Cardinality(LP!Holders)
    BY DEF LP!Cardinality, Cardinality
  <1> HIDE DEF atLocks
  <1>6. Cardinality(atLocks) \in Nat /\ Cardinality(atLocks) <= Cardinality(LP!Holders)
    BY <1>1, <1>3, FS_Subset, FS_CardinalityType
  <1>7. Cardinality(atLocks) <= Active
    BY <1>3, <1>4, <1>5, <1>6, SlotAssumption
  <1> QED
    BY <1>7 DEF LocksWithinPermits, atLocks

(* The permits survive the locks, and the locks the permits: none leaks, no *)
(* wake-up of the line is lost, and who is at a lock, within the permits,   *)
(* is a lookup that still runs and waits only if nobody has cancelled it.   *)
THEOREM SlotsStaySound ==
    SlotSpec => [](LookupsAtLocks /\ LocksWithinPermits /\ L!PermitConservation /\ L!NoLostWakeup)
  <1>1. SlotInit => IInv /\ LookupsAtLocks
    BY InitIInv DEF SlotInit, Init, LookupsAtLocks, Inside
  <1>2. LP!IInv /\ IInv /\ LookupsAtLocks /\ [SlotNext]_slotVars => IInv' /\ LookupsAtLocks'
    BY AtLocksStep, SlotStep, NextIInv
  <1>3. LP!IInv => L!PermitConservation
    <2>1. L!Holders = LP!Holders
      BY DEF L!Holders, LP!Holders, L!Granted, LP!Granted
    <2> QED
      BY <2>1, SameCardinality DEF LP!IInv, LP!PermitConservation, L!PermitConservation
  <1>4. LP!IInv => L!NoLostWakeup
    BY SameSets DEF LP!IInv, LP!NoLostWakeup, L!NoLostWakeup
  <1> QED
    BY <1>1, <1>2, <1>3, <1>4, PermitsBoundLocks, SlotLookups, PTL DEF SlotSpec

(* Every behaviour of /check_bucket is one of the abstract admission queue: *)
(* the waits for locks do not disturb who is admitted in which order.       *)
THEOREM AdmitsClassifications == SlotSpec => LP!ImplementsAdmissionQueue
  <1>1. SlotInit => LP!Init
    BY SameInit DEF SlotInit
  <1>2. [SlotNext]_slotVars => [LP!Next]_(LP!vars)
    BY SlotLookupStep, SameNext
  <1>3. SlotSpec => LP!Spec
    BY <1>1, <1>2, PTL DEF SlotSpec, LP!Spec
  <1>4. LP!Spec => LP!ImplementsAdmissionQueue
    BY LP!Implements, Capacities
  <1> QED
    BY <1>3, <1>4
=============================================================================

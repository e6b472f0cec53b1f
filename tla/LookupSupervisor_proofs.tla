----------------------- MODULE LookupSupervisor_proofs -----------------------
(***************************************************************************)
(* Safety of LookupSupervisor for every finite set of requests and every   *)
(* capacity.  The invariant IInv says where the permits and the counted    *)
(* requests are; it is inductive without the order of the deque, because   *)
(* conservation does not depend on who is woken first.                     *)
(***************************************************************************)
EXTENDS LookupSupervisor, FiniteSetTheorems, TLAPS

(* Types, without the bound of value, which follows from conservation. *)
Typed ==
    /\ pc \in [Requests -> InDeque \cup {"idle", "running", "aborting"}]
    /\ ahead \in [Requests -> SUBSET Requests]
    /\ value \in Nat
    /\ queued \in 0..MaxQueued
    /\ work \in [Requests -> {"none", "active", "cancelling", "ended"}]
    /\ closing \in BOOLEAN

(* A request in the line has no task yet. *)
LineHasNoTask == \A r \in Line : work[r] = "none"

IInv ==
    /\ Typed
    /\ LineHasNoTask
    /\ PermitConservation
    /\ QueueAccounting
    /\ NoLostWakeup
    /\ NoOrphanWork
    /\ ClosingCancelsAll

-----------------------------------------------------------------------------
(* Cardinalities of sets of requests. *)

(* The cardinality of a set of requests is a natural number. *)
LEMMA CardNat ==
    ASSUME NEW S \in SUBSET Requests
    PROVE  IsFiniteSet(S) /\ Cardinality(S) \in Nat
  BY RequestsFinite, FS_Subset, FS_CardinalityType

(* Adding a request that is not in the set adds one. *)
LEMMA CardAdd ==
    ASSUME NEW S \in SUBSET Requests, NEW r \in Requests, r \notin S
    PROVE  Cardinality(S \cup {r}) = Cardinality(S) + 1
  BY CardNat, FS_AddElement

(* Removing a request that is in the set takes one away. *)
LEMMA CardRemove ==
    ASSUME NEW S \in SUBSET Requests, NEW r \in S
    PROVE  Cardinality(S \ {r}) = Cardinality(S) - 1
  BY CardNat, FS_RemoveElement

(* Disjoint sets of requests add up. *)
LEMMA CardUnion ==
    ASSUME NEW S \in SUBSET Requests, NEW T \in SUBSET Requests, S \cap T = {}
    PROVE  Cardinality(S \cup T) = Cardinality(S) + Cardinality(T)
  <1>1. Cardinality(S \cup T) =
          Cardinality(S) + Cardinality(T) - Cardinality(S \cap T)
    BY CardNat, FS_Union
  <1>2. Cardinality(S \cap T) = 0
    BY FS_EmptySet
  <1> QED
    BY <1>1, <1>2, CardNat

-----------------------------------------------------------------------------
(* The invariant implies the type invariant: no pool above its size. *)
LEMMA IInvTypeOK == IInv => TypeOK
  <1> SUFFICES ASSUME IInv PROVE TypeOK
    OBVIOUS
  <1>1. Holders \in SUBSET Requests
    BY DEF Holders
  <1>2. Cardinality(Holders) \in Nat
    BY <1>1, CardNat
  <1>3. value \in 0..Active
    BY <1>2, CapacityAssumption DEF IInv, Typed, PermitConservation
  <1> QED
    BY <1>3 DEF IInv, Typed, TypeOK

(* The invariant holds initially. *)
LEMMA InitIInv == Init => IInv
  <1> SUFFICES ASSUME Init PROVE IInv
    OBVIOUS
  <1>1. Typed
    <2>1. queued \in 0..MaxQueued /\ value \in Nat
      BY CapacityAssumption DEF Init
    <2>2. closing \in BOOLEAN
      BY DEF Init
    <2>3. ahead \in [Requests -> SUBSET Requests]
      BY DEF Init
    <2> QED
      BY <2>1, <2>2, <2>3 DEF Init, Typed, InDeque
  <1>2. Line = {} /\ Holders = {} /\ Waiting = {}
    BY DEF Init, Line, Holders, Waiting, InDeque, Granted
  <1>3. Cardinality({}) = 0
    BY FS_EmptySet
  <1>4. PermitConservation /\ QueueAccounting
    BY <1>2, <1>3, CapacityAssumption DEF Init, PermitConservation, QueueAccounting
  <1>5. LineHasNoTask /\ NoLostWakeup /\ NoOrphanWork /\ ClosingCancelsAll
    BY <1>2 DEF Init, LineHasNoTask, NoLostWakeup, NoOrphanWork, ClosingCancelsAll
  <1> QED
    BY <1>1, <1>4, <1>5 DEF IInv

(***************************************************************************)
(* What the end of a suspended acquire() does: r leaves the line, a set G  *)
(* of pending requests gets the free permits, and no permit is left beside *)
(* a pending request.                                                      *)
(***************************************************************************)
LEMMA LeaveLineEffect ==
    ASSUME IInv, NEW r \in Line, pc[r] # "waiting",
           NEW at \in {"idle", "running"}, NEW v \in Nat, LeaveLine(r, at, v)
    PROVE  /\ pc' \in [Requests -> InDeque \cup {"idle", "running", "aborting"}]
           /\ ahead' \in [Requests -> SUBSET Requests]
           /\ value' \in Nat
           /\ queued' \in 0..MaxQueued
           /\ Line' = Line \ {r}
           /\ QueueAccounting'
           /\ NoLostWakeup'
           /\ \E G \in SUBSET Waiting :
                 /\ value' = v - Cardinality(G)
                 /\ pc' = [q \in Requests |->
                             IF q \in G THEN "woken" ELSE IF q = r THEN at ELSE pc[q]]
  <1> DEFINE pcs == [pc EXCEPT ![r] = at]
  <1>1. PICK G \in SUBSET Waiting :
          /\ Cardinality(G) <= v
          /\ Cardinality(G) = v \/ G = Waiting
          /\ value' = v - Cardinality(G)
          /\ pc' = [q \in Requests |-> IF q \in G THEN "woken" ELSE pcs[q]]
    BY DEF LeaveLine, WakeUp
  <1>2. r \in Requests /\ G \in SUBSET Requests /\ Waiting \in SUBSET Requests /\ Line \in SUBSET Requests
    BY DEF Line, Waiting
  <1>3. Cardinality(G) \in Nat
    BY <1>2, CardNat
  <1>4. pc' = [q \in Requests |-> IF q \in G THEN "woken" ELSE IF q = r THEN at ELSE pc[q]]
    BY <1>1, <1>2 DEF IInv, Typed
  <1>5. pc' \in [Requests -> InDeque \cup {"idle", "running", "aborting"}]
    BY <1>2, <1>4 DEF IInv, Typed, InDeque
  <1>6. ahead' \in [Requests -> SUBSET Requests]
    BY DEF LeaveLine, Unlink, IInv, Typed
  <1>7. value' \in Nat
    BY <1>1, <1>3
  <1>8. Line' = Line \ {r}
    BY <1>2, <1>4 DEF Line, Waiting, InDeque
  <1>9. queued' = Cardinality(Line')
    <2>1. Cardinality(Line \ {r}) = Cardinality(Line) - 1
      BY <1>2, CardRemove
    <2> QED
      BY <2>1, <1>8 DEF LeaveLine, IInv, QueueAccounting
  <1>10. queued' \in 0..MaxQueued
    <2>1. Cardinality(Line') \in Nat
      BY <1>2, <1>8, CardNat
    <2>2. queued' = queued - 1 /\ queued \in 0..MaxQueued
      BY DEF LeaveLine, IInv, Typed
    <2> QED
      BY <2>1, <2>2, <1>9, CapacityAssumption
  <1>11. NoLostWakeup'
    <2>1. CASE Cardinality(G) = v
      BY <2>1, <1>1, <1>3 DEF NoLostWakeup
    <2>2. CASE G = Waiting
      BY <2>2, <1>2, <1>4 DEF NoLostWakeup, Waiting
    <2> QED
      BY <2>1, <2>2, <1>1
  <1> QED
    BY <1>1, <1>4, <1>5, <1>6, <1>7, <1>8, <1>9, <1>10, <1>11 DEF QueueAccounting

-----------------------------------------------------------------------------
(* One lemma per action: it preserves the invariant. *)

(* A request that starts at once takes a permit from the pool. *)
LEMMA StartAtOnceIInv == ASSUME IInv, NEW r \in Requests, StartAtOnce(r) PROVE IInv'
  <1> USE DEF StartAtOnce
  <1>1. Typed'
    <2>1. value \in Nat \ {0}
      BY DEF Locked, IInv, Typed
    <2> QED
      BY <2>1 DEF IInv, Typed
  <1>2. Line' = Line
    BY DEF Line, InDeque, IInv, Typed
  <1>3. Holders' = Holders \cup {r} /\ r \notin Holders
    BY DEF Holders, Granted, IInv, Typed
  <1>4. PermitConservation'
    <2>1. Cardinality(Holders') = Cardinality(Holders) + 1 /\ Cardinality(Holders) \in Nat
      BY <1>3, CardAdd, CardNat DEF Holders
    <2> QED
      BY <2>1 DEF PermitConservation, IInv, Typed
  <1>5. LineHasNoTask'
    BY <1>2 DEF LineHasNoTask, Line, InDeque, IInv, Typed
  <1>6. QueueAccounting'
    BY <1>2 DEF QueueAccounting, IInv
  <1>7. NoLostWakeup'
    <2>1. Waiting' = {}
      BY DEF Locked, Waiting, Line, InDeque, IInv, Typed
    <2> QED
      BY <2>1 DEF NoLostWakeup
  <1>8. NoOrphanWork'
    BY DEF NoOrphanWork, IInv, Typed
  <1>9. ClosingCancelsAll'
    BY DEF Refuses, ClosingCancelsAll
  <1> QED
    BY <1>1, <1>4, <1>5, <1>6, <1>7, <1>8, <1>9 DEF IInv

(* A request that is counted in joins the line; one that finds a permit     *)
(* free has someone woken before it.                                        *)
LEMMA EnqueueIInv == ASSUME IInv, NEW r \in Requests, Enqueue(r) PROVE IInv'
  <1> USE DEF Enqueue
  <1>1. Typed'
    <2>1. queued' \in 0..MaxQueued
      BY CapacityAssumption DEF Refuses, IInv, Typed
    <2>2. ahead' \in [Requests -> SUBSET Requests]
      BY DEF Append, Line, IInv, Typed
    <2> QED
      BY <2>1, <2>2 DEF IInv, Typed, InDeque
  <1>2. Line' = Line \cup {r} /\ r \notin Line
    BY DEF Line, InDeque, IInv, Typed
  <1>3. Holders' = Holders
    BY DEF Holders, Granted, IInv, Typed
  <1>4. PermitConservation'
    BY <1>3 DEF PermitConservation, IInv
  <1>5. LineHasNoTask'
    BY <1>2 DEF LineHasNoTask, IInv
  <1>6. QueueAccounting'
    <2>1. Cardinality(Line') = Cardinality(Line) + 1
      BY <1>2, CardAdd DEF Line
    <2> QED
      BY <2>1 DEF QueueAccounting, IInv
  <1>7. NoLostWakeup'
    <2>1. ASSUME value > 0 PROVE \E q \in Line : pc[q] \in Granted
      BY <2>1 DEF Locked, Line, Waiting, InDeque, Granted, NoLostWakeup, IInv, Typed
    <2>2. \A q \in Line : q \in Line' /\ pc'[q] = pc[q]
      BY <1>2 DEF Line, IInv, Typed
    <2> QED
      BY <2>1, <2>2 DEF NoLostWakeup
  <1>8. NoOrphanWork'
    BY DEF NoOrphanWork, IInv, Typed
  <1>9. ClosingCancelsAll'
    BY DEF ClosingCancelsAll, IInv
  <1> QED
    BY <1>1, <1>4, <1>5, <1>6, <1>7, <1>8, <1>9 DEF IInv

(* Cancelling moves nobody into or out of the line, and takes no permit.    *)
LEMMA CancelIInv == ASSUME IInv, NEW r \in Requests, Cancel(r) PROVE IInv'
  <1>1. /\ \/ pc[r] = "waiting" /\ pc' = [pc EXCEPT ![r] = "leaving"]
           \/ pc[r] = "woken" /\ pc' = [pc EXCEPT ![r] = "returning"]
           \/ pc[r] = "running" /\ pc' = [pc EXCEPT ![r] = "aborting"]
        /\ UNCHANGED <<ahead, value, queued, work, closing>>
    <2>1. /\ DOMAIN CancelledAt = {"waiting", "woken", "running"}
          /\ CancelledAt["waiting"] = "leaving"
          /\ CancelledAt["woken"] = "returning"
          /\ CancelledAt["running"] = "aborting"
      BY DEF CancelledAt
    <2>2. pc[r] \in {"waiting", "woken", "running"}
      BY <2>1 DEF Cancel
    <2> QED
      BY <2>1, <2>2 DEF Cancel
  <1>2. Typed'
    BY <1>1 DEF IInv, Typed, InDeque
  <1>3. Line' = Line /\ Holders' = Holders
    BY <1>1 DEF Line, Holders, InDeque, Granted, IInv, Typed
  <1>4. PermitConservation' /\ QueueAccounting' /\ LineHasNoTask'
    BY <1>1, <1>3 DEF PermitConservation, QueueAccounting, LineHasNoTask, IInv
  <1>5. NoLostWakeup'
    <2>1. Waiting' \subseteq Waiting
      BY <1>1 DEF Waiting, IInv, Typed
    <2>2. \A q \in Line : pc[q] \in Granted => pc'[q] \in Granted
      BY <1>1 DEF Line, Granted, IInv, Typed
    <2> QED
      BY <1>1, <1>3, <2>1, <2>2 DEF NoLostWakeup, IInv
  <1>6. NoOrphanWork' /\ ClosingCancelsAll'
    BY <1>1 DEF NoOrphanWork, ClosingCancelsAll, IInv, Typed
  <1> QED
    BY <1>2, <1>4, <1>5, <1>6 DEF IInv

(* A woken request turns its permit into that of its task. *)
LEMMA StartWokenIInv == ASSUME IInv, NEW r \in Requests, StartWoken(r) PROVE IInv'
  <1>1. r \in Line /\ pc[r] = "woken" /\ ~closing /\ LeaveLine(r, "running", value)
    BY DEF StartWoken, Line, InDeque
  <1>2. work' = [work EXCEPT ![r] = "active"] /\ closing' = closing
    BY DEF StartWoken
  <1>3. value \in Nat
    BY DEF IInv, Typed
  <1>4. PICK G \in SUBSET Waiting :
          /\ value' = value - Cardinality(G)
          /\ pc' = [q \in Requests |->
                      IF q \in G THEN "woken" ELSE IF q = r THEN "running" ELSE pc[q]]
    BY <1>1, <1>3, LeaveLineEffect
  <1>5. Typed' /\ QueueAccounting' /\ NoLostWakeup' /\ Line' = Line \ {r}
    BY <1>1, <1>2, <1>3, LeaveLineEffect DEF IInv, Typed
  <1>6. PermitConservation'
    <2>1. /\ Holders' = Holders \cup G /\ Holders \cap G = {}
          /\ Holders \in SUBSET Requests /\ G \in SUBSET Requests
      BY <1>1, <1>2, <1>4 DEF Holders, Granted, Waiting, Line, InDeque, LineHasNoTask, IInv, Typed
    <2>2. Cardinality(Holders') = Cardinality(Holders) + Cardinality(G)
      BY <2>1, CardUnion
    <2>3. Cardinality(Holders) \in Nat /\ Cardinality(G) \in Nat
      BY <2>1, CardNat
    <2> QED
      BY <1>3, <1>4, <2>2, <2>3 DEF PermitConservation, IInv
  <1>7. LineHasNoTask'
    BY <1>2, <1>5 DEF LineHasNoTask, Line, IInv, Typed
  <1>8. NoOrphanWork'
    BY <1>1, <1>2, <1>4 DEF NoOrphanWork, Waiting, Line, IInv, Typed
  <1>9. ClosingCancelsAll'
    BY <1>1, <1>2 DEF ClosingCancelsAll
  <1> QED
    BY <1>5, <1>6, <1>7, <1>8, <1>9 DEF IInv

(* A request that leaves with a permit passes it on or back to the pool:    *)
(* refused by the drain, or cancelled after the hand-over.                  *)
LEMMA PassOnIInv ==
    ASSUME IInv, NEW r \in Line, pc[r] \in Granted,
           LeaveLine(r, "idle", value + 1), UNCHANGED <<work, closing>>
    PROVE  IInv'
  <1> DEFINE v == value + 1
  <1>1. /\ v \in Nat /\ value \in Nat /\ v = value + 1 /\ LeaveLine(r, "idle", v)
        /\ pc[r] # "waiting" /\ r \in Requests
    BY DEF IInv, Typed, Granted, Line
  <1> HIDE DEF v
  <1>2. PICK G \in SUBSET Waiting :
          /\ value' = v - Cardinality(G)
          /\ pc' = [q \in Requests |->
                      IF q \in G THEN "woken" ELSE IF q = r THEN "idle" ELSE pc[q]]
    BY <1>1, LeaveLineEffect
  <1>3. Typed' /\ QueueAccounting' /\ NoLostWakeup' /\ Line' = Line \ {r}
    BY <1>1, LeaveLineEffect DEF IInv, Typed
  <1>4. PermitConservation'
    <2>1. /\ Holders' = (Holders \ {r}) \cup G /\ (Holders \ {r}) \cap G = {} /\ r \in Holders
          /\ Holders \in SUBSET Requests /\ G \in SUBSET Requests
      BY <1>1, <1>2 DEF Holders, Granted, Waiting, Line, InDeque, LineHasNoTask, IInv, Typed
    <2>2. Cardinality(Holders') = Cardinality(Holders \ {r}) + Cardinality(G)
      BY <2>1, CardUnion
    <2>3. Cardinality(Holders \ {r}) = Cardinality(Holders) - 1
      BY <2>1, CardRemove
    <2>4. Cardinality(Holders) \in Nat /\ Cardinality(G) \in Nat
      BY <2>1, CardNat
    <2> QED
      BY <1>1, <1>2, <2>2, <2>3, <2>4 DEF PermitConservation, IInv
  <1>5. LineHasNoTask'
    BY <1>3 DEF LineHasNoTask, IInv
  <1>6. NoOrphanWork'
    BY <1>1, <1>2 DEF NoOrphanWork, LineHasNoTask, Waiting, Line, Granted, InDeque, IInv, Typed
  <1>7. ClosingCancelsAll'
    BY DEF ClosingCancelsAll, IInv
  <1> QED
    BY <1>3, <1>4, <1>5, <1>6, <1>7 DEF IInv

(* A request cancelled while pending leaves without a permit. *)
LEMMA LeaveIInv == ASSUME IInv, NEW r \in Requests, Leave(r) PROVE IInv'
  <1>1. r \in Line /\ pc[r] = "leaving" /\ LeaveLine(r, "idle", value)
    BY DEF Leave, Line, InDeque
  <1>2. UNCHANGED <<work, closing>> /\ value \in Nat
    BY DEF Leave, IInv, Typed
  <1>3. PICK G \in SUBSET Waiting :
          /\ value' = value - Cardinality(G)
          /\ pc' = [q \in Requests |->
                      IF q \in G THEN "woken" ELSE IF q = r THEN "idle" ELSE pc[q]]
    BY <1>1, <1>2, LeaveLineEffect
  <1>4. Typed' /\ QueueAccounting' /\ NoLostWakeup' /\ Line' = Line \ {r}
    BY <1>1, <1>2, LeaveLineEffect DEF IInv, Typed
  <1>5. PermitConservation'
    <2>1. /\ Holders' = Holders \cup G /\ Holders \cap G = {}
          /\ Holders \in SUBSET Requests /\ G \in SUBSET Requests
      BY <1>1, <1>2, <1>3 DEF Holders, Granted, Waiting, Line, InDeque, LineHasNoTask, IInv, Typed
    <2>2. Cardinality(Holders') = Cardinality(Holders) + Cardinality(G)
      BY <2>1, CardUnion
    <2>3. Cardinality(Holders) \in Nat /\ Cardinality(G) \in Nat
      BY <2>1, CardNat
    <2> QED
      BY <1>2, <1>3, <2>2, <2>3 DEF PermitConservation, IInv
  <1>6. LineHasNoTask' /\ ClosingCancelsAll'
    BY <1>2, <1>4 DEF LineHasNoTask, ClosingCancelsAll, IInv
  <1>7. NoOrphanWork'
    BY <1>1, <1>2, <1>3 DEF NoOrphanWork, Waiting, IInv, Typed
  <1> QED
    BY <1>4, <1>5, <1>6, <1>7 DEF IInv

(* Leaving run() during its await of the task only marks the task. *)
LEMMA AbortIInv == ASSUME IInv, NEW r \in Requests, Abort(r) PROVE IInv'
  <1> USE DEF Abort
  <1>1. Typed'
    BY DEF IInv, Typed, InDeque
  <1>2. Line' = Line /\ Holders' = Holders
    BY DEF Line, Holders, InDeque, Granted, IInv, Typed
  <1>3. PermitConservation' /\ QueueAccounting'
    BY <1>2 DEF PermitConservation, QueueAccounting, IInv
  <1>4. LineHasNoTask' /\ NoOrphanWork' /\ ClosingCancelsAll'
    BY <1>2 DEF LineHasNoTask, NoOrphanWork, ClosingCancelsAll, Line, IInv, Typed
  <1>5. NoLostWakeup'
    <2>1. Waiting' = Waiting /\ \A q \in Line : pc'[q] = pc[q]
      BY DEF Waiting, Line, InDeque, IInv, Typed
    <2> QED
      BY <1>2, <2>1 DEF NoLostWakeup, IInv
  <1> QED
    BY <1>1, <1>3, <1>4, <1>5 DEF IInv

(* The end of a task keeps its permit for the callback. *)
LEMMA EndWorkIInv == ASSUME IInv, NEW r \in Requests, EndWork(r) PROVE IInv'
  <1> USE DEF EndWork
  <1>1. Typed'
    BY DEF IInv, Typed
  <1>2. Line' = Line /\ Holders' = Holders /\ Waiting' = Waiting
    BY DEF Line, Holders, Waiting, IInv, Typed
  <1>3. PermitConservation' /\ QueueAccounting' /\ NoLostWakeup'
    BY <1>2 DEF PermitConservation, QueueAccounting, NoLostWakeup, IInv
  <1>4. LineHasNoTask' /\ NoOrphanWork' /\ ClosingCancelsAll'
    BY <1>2 DEF LineHasNoTask, NoOrphanWork, ClosingCancelsAll, Line, IInv, Typed
  <1> QED
    BY <1>1, <1>3, <1>4 DEF IInv

(* The callback of an ended task releases exactly the permit of the task,   *)
(* to one pending request if there is one.                                  *)
LEMMA CollectIInv == ASSUME IInv, NEW r \in Requests, Collect(r) PROVE IInv'
  <1> DEFINE pcs == [pc EXCEPT ![r] = IF @ = "running" THEN "idle" ELSE @]
  <1>1. /\ work[r] = "ended" /\ work' = [work EXCEPT ![r] = "none"]
        /\ UNCHANGED <<ahead, queued, closing>>
        /\ r \notin Line /\ Line \in SUBSET Requests
        /\ Holders \in SUBSET Requests /\ r \in Holders /\ value \in Nat
    BY DEF Collect, Holders, Line, LineHasNoTask, IInv, Typed
  <1>2. Cardinality(Holders \ {r}) = Cardinality(Holders) - 1 /\ Cardinality(Holders) \in Nat
    BY <1>1, CardRemove, CardNat
  <1>3. LineHasNoTask' /\ NoOrphanWork' /\ ClosingCancelsAll' /\ Line' = Line
    <2>1. CASE pc' = pcs
      BY <1>1, <2>1 DEF LineHasNoTask, NoOrphanWork, ClosingCancelsAll, Line, InDeque, IInv, Typed
    <2>2. ASSUME NEW w \in Waiting, pc' = [pcs EXCEPT ![w] = "woken"]
          PROVE  LineHasNoTask' /\ NoOrphanWork' /\ ClosingCancelsAll' /\ Line' = Line
      <3>1. w \in Line /\ pc[w] = "waiting" /\ w # r /\ w \in Requests
        BY <1>1 DEF Waiting, Line, InDeque
      <3> QED
        BY <1>1, <2>2, <3>1 DEF LineHasNoTask, NoOrphanWork, ClosingCancelsAll, Line, InDeque, IInv, Typed
    <2> QED
      BY <2>1, <2>2 DEF Collect, Release, FirstOf
  <1>4. CASE Waiting = {} /\ value' = value + 1 /\ pc' = pcs
    <2>1. Typed'
      BY <1>1, <1>4 DEF IInv, Typed, InDeque
    <2>2. Holders' = Holders \ {r}
      BY <1>1, <1>4 DEF Holders, Granted, Line, InDeque, IInv, Typed
    <2>3. PermitConservation'
      BY <1>1, <1>2, <1>4, <2>2 DEF PermitConservation, IInv
    <2>4. NoLostWakeup'
      BY <1>1, <1>4 DEF NoLostWakeup, Waiting, IInv, Typed
    <2> QED
      BY <1>1, <1>3, <2>1, <2>3, <2>4 DEF QueueAccounting, IInv
  <1>5. ASSUME NEW w \in Waiting, value' = value, pc' = [pcs EXCEPT ![w] = "woken"]
        PROVE  IInv'
    <2>1. w \in Line /\ pc[w] = "waiting" /\ w # r /\ w \in Requests
      BY <1>1 DEF Waiting, Line, InDeque
    <2>2. Typed'
      BY <1>1, <1>5, <2>1 DEF IInv, Typed, InDeque
    <2>3. Holders' = (Holders \ {r}) \cup {w} /\ w \notin Holders
      BY <1>1, <1>5, <2>1 DEF Holders, Granted, Line, InDeque, LineHasNoTask, IInv, Typed
    <2>4. PermitConservation'
      <3>1. Cardinality(Holders') = Cardinality(Holders \ {r}) + 1
        BY <1>1, <2>1, <2>3, CardAdd
      <3> QED
        BY <1>2, <1>5, <3>1 DEF PermitConservation, IInv
    <2>5. NoLostWakeup'
      <3>1. pc'[w] = "woken" /\ w \in Line'
        BY <1>3, <1>5, <2>1 DEF IInv, Typed
      <3> QED
        BY <3>1 DEF NoLostWakeup, Granted
    <2> QED
      BY <1>1, <1>3, <2>2, <2>4, <2>5 DEF QueueAccounting, IInv
  <1> QED
    BY <1>4, <1>5 DEF Collect, Release, FirstOf

(* Closing marks every task that has not been told to stop. *)
LEMMA CloseIInv == ASSUME IInv, Close PROVE IInv'
  <1> USE DEF Close
  <1>1. Typed'
    BY DEF IInv, Typed
  <1>2. Line' = Line /\ Holders' = Holders /\ Waiting' = Waiting
    BY DEF Line, Holders, Waiting, IInv, Typed
  <1>3. PermitConservation' /\ QueueAccounting' /\ NoLostWakeup'
    BY <1>2 DEF PermitConservation, QueueAccounting, NoLostWakeup, IInv
  <1>4. LineHasNoTask' /\ NoOrphanWork' /\ ClosingCancelsAll'
    BY <1>2 DEF LineHasNoTask, NoOrphanWork, ClosingCancelsAll, Line, IInv, Typed
  <1> QED
    BY <1>1, <1>3, <1>4 DEF IInv

-----------------------------------------------------------------------------
(* Every step preserves the invariant. *)
LEMMA NextIInv == IInv /\ [Next]_vars => IInv'
  <1> SUFFICES ASSUME IInv, [Next]_vars PROVE IInv'
    OBVIOUS
  <1>1. ASSUME NEW r \in Requests, StartAtOnce(r) PROVE IInv'
    BY <1>1, StartAtOnceIInv
  <1>2. ASSUME NEW r \in Requests, Enqueue(r) PROVE IInv'
    BY <1>2, EnqueueIInv
  <1>3. ASSUME NEW r \in Requests, Cancel(r) PROVE IInv'
    BY <1>3, CancelIInv
  <1>4. ASSUME NEW r \in Requests, StartWoken(r) PROVE IInv'
    BY <1>4, StartWokenIInv
  <1>5. ASSUME NEW r \in Requests, Decline(r) \/ GiveBack(r) PROVE IInv'
    <2>1. /\ r \in Line /\ pc[r] \in Granted
          /\ LeaveLine(r, "idle", value + 1) /\ UNCHANGED <<work, closing>>
      BY <1>5 DEF Decline, GiveBack, Line, InDeque, Granted
    <2> QED
      BY <2>1, PassOnIInv
  <1>6. ASSUME NEW r \in Requests, Leave(r) PROVE IInv'
    BY <1>6, LeaveIInv
  <1>7. ASSUME NEW r \in Requests, Abort(r) PROVE IInv'
    BY <1>7, AbortIInv
  <1>8. ASSUME NEW r \in Requests, EndWork(r) PROVE IInv'
    BY <1>8, EndWorkIInv
  <1>9. ASSUME NEW r \in Requests, Collect(r) PROVE IInv'
    BY <1>9, CollectIInv
  <1>10. CASE Close
    BY <1>10, CloseIInv
  <1>11. CASE UNCHANGED vars
    BY <1>11 DEF vars, IInv, Typed, LineHasNoTask, PermitConservation, QueueAccounting,
                 NoLostWakeup, NoOrphanWork, ClosingCancelsAll, Line, Waiting, Holders
  <1> QED
    BY <1>1, <1>2, <1>3, <1>4, <1>5, <1>6, <1>7, <1>8, <1>9, <1>10, <1>11 DEF Next

(* IInv is an invariant of the specification. *)
THEOREM Invariance == Spec => []IInv
  BY InitIInv, NextIInv, PTL DEF Spec

(* Type correctness: neither the pool nor the line exceeds its capacity.    *)
THEOREM TypeCorrect == Spec => []TypeOK
  BY Invariance, IInvTypeOK, PTL

(* runtime.py:69: no permit of the supervisor leaks or is duplicated.       *)
THEOREM PermitsConserved == Spec => []PermitConservation
  <1>1. IInv => PermitConservation
    BY DEF IInv
  <1> QED
    BY <1>1, Invariance, PTL

(* self.queued, on which refusals and idleness depend, counts the line.     *)
THEOREM QueueAccounted == Spec => []QueueAccounting
  <1>1. IInv => QueueAccounting
    BY DEF IInv
  <1> QED
    BY <1>1, Invariance, PTL

(* A free permit beside a pending request always has someone to pass it on. *)
THEOREM WakeupsNotLost == Spec => []NoLostWakeup
  <1>1. IInv => NoLostWakeup
    BY DEF IInv
  <1> QED
    BY <1>1, Invariance, PTL

(* No lookup runs undisturbed for a request that is gone.                   *)
THEOREM NothingRunsUnowned == Spec => []NoOrphanWork
  <1>1. IInv => NoOrphanWork
    BY DEF IInv
  <1> QED
    BY <1>1, Invariance, PTL

(* After cancel() of the supervisor no task is left without its own.        *)
THEOREM ClosingStopsAll == Spec => []ClosingCancelsAll
  <1>1. IInv => ClosingCancelsAll
    BY DEF IInv
  <1> QED
    BY <1>1, Invariance, PTL

-----------------------------------------------------------------------------
(***************************************************************************)
(* LookupSupervisor implements AdmissionQueue for every finite set of      *)
(* requests and every capacity: who is admitted, and in which order, is    *)
(* that of an abstract first-come-first-served line.  The conservation     *)
(* laws bound the line and the lookups; that the first request woken is    *)
(* the first of all that still wait needs the order of the deque.          *)
(***************************************************************************)

(* The deque keeps its order initially: it is empty. *)
LEMMA InitOrder == Init => DequeOrder
  BY DEF Init, DequeOrder, Line, Waiting, InDeque

(***************************************************************************)
(* What the end of a suspended acquire() does to the order: r is gone, and *)
(* the requests that are handed permits are a front part of those waiting. *)
(***************************************************************************)
LEMMA LeaveLineOrder ==
    ASSUME IInv, DequeOrder, NEW r \in Line, pc[r] # "waiting",
           NEW at \in {"idle", "running"}, NEW v \in Nat, LeaveLine(r, at, v)
    PROVE  DequeOrder'
  <1> DEFINE pcs == [pc EXCEPT ![r] = at]
  <1>1. PICK G \in SUBSET Waiting :
          /\ \A g \in G : ahead[g] \cap Waiting \subseteq G
          /\ pc' = [q \in Requests |-> IF q \in G THEN "woken" ELSE pcs[q]]
    BY DEF LeaveLine, WakeUp
  <1>2. /\ r \in Requests /\ pc \in [Requests -> InDeque \cup {"idle", "running", "aborting"}]
        /\ ahead \in [Requests -> SUBSET Requests] /\ Waiting \subseteq Line /\ Line \subseteq Requests
    BY DEF Line, Waiting, InDeque, IInv, Typed
  <1>3. pc' = [q \in Requests |-> IF q \in G THEN "woken" ELSE IF q = r THEN at ELSE pc[q]]
    BY <1>1, <1>2
  <1>4. Line' = Line \ {r} /\ Waiting' = Waiting \ G
    BY <1>2, <1>3 DEF Line, Waiting, InDeque
  <1>5. ahead' = [q \in Requests |-> IF q = r THEN {} ELSE ahead[q] \ {r}]
    BY DEF LeaveLine, Unlink
  <1>6. \A q \in Line' : q \in Requests /\ q # r /\ ahead'[q] = ahead[q] \ {r}
    BY <1>2, <1>4, <1>5
  <1>7. \A q \in Requests : ahead'[q] \subseteq Line' \ {q}
    BY <1>2, <1>4, <1>5 DEF DequeOrder
  <1>8. \A q \in Requests \ Line' : ahead'[q] = {}
    BY <1>2, <1>4, <1>5 DEF DequeOrder
  <1>9. \A p, q \in Line' : p # q => (p \in ahead'[q] <=> q \notin ahead'[p])
    BY <1>4, <1>6 DEF DequeOrder
  <1>10. \A p, q, s \in Line' : p \in ahead'[q] /\ q \in ahead'[s] => p \in ahead'[s]
    BY <1>4, <1>6 DEF DequeOrder
  <1>11. ASSUME NEW p \in Waiting', NEW q \in Line', pc'[q] \in Granted PROVE p \notin ahead'[q]
    <2>1. CASE q \in G
      BY <2>1, <1>1, <1>4, <1>6, <1>11
    <2>2. CASE q \notin G
      <3>1. pc[q] \in Granted /\ q \in Line /\ p \in Waiting
        BY <2>2, <1>3, <1>4, <1>6, <1>11
      <3> QED
        BY <3>1, <1>6 DEF DequeOrder
    <2> QED
      BY <2>1, <2>2
  <1> QED
    BY <1>7, <1>8, <1>9, <1>10, <1>11 DEF DequeOrder

(* A step that moves nobody in the deque, and makes no other pending        *)
(* request granted than the first, keeps the order.                        *)
LEMMA SameDequeOrder ==
    ASSUME DequeOrder, Line' = Line, ahead' = ahead, Waiting' \subseteq Waiting,
           \A q \in Line : pc'[q] \in Granted => pc[q] \in Granted \/ q \in FirstOf(Waiting)
    PROVE  DequeOrder'
  <1>1. ASSUME NEW p \in Waiting', NEW q \in Line', pc'[q] \in Granted PROVE p \notin ahead'[q]
    BY <1>1 DEF DequeOrder, FirstOf
  <1> QED
    BY <1>1 DEF DequeOrder

(* Every step keeps the order of the deque. *)
LEMMA NextOrder == IInv /\ DequeOrder /\ [Next]_vars => DequeOrder'
  <1> SUFFICES ASSUME IInv, DequeOrder, [Next]_vars PROVE DequeOrder'
    OBVIOUS
  <1>0. /\ pc \in [Requests -> InDeque \cup {"idle", "running", "aborting"}]
        /\ ahead \in [Requests -> SUBSET Requests]
        /\ work \in [Requests -> {"none", "active", "cancelling", "ended"}]
    BY DEF IInv, Typed
  <1>1. ASSUME NEW r \in Requests, StartAtOnce(r) PROVE DequeOrder'
    BY <1>1, <1>0, SameDequeOrder DEF StartAtOnce, Line, Waiting, InDeque, Granted
  <1>2. ASSUME NEW r \in Requests, Enqueue(r) PROVE DequeOrder'
    <2>1. /\ pc' = [pc EXCEPT ![r] = "waiting"] /\ ahead' = [ahead EXCEPT ![r] = Line]
          /\ r \notin Line /\ Line' = Line \cup {r} /\ Waiting' = Waiting \cup {r}
      BY <1>0, <1>2 DEF Enqueue, Append, Line, Waiting, InDeque
    <2>2. ahead'[r] = Line /\ \A q \in Requests : q # r => ahead'[q] = ahead[q] /\ pc'[q] = pc[q]
      BY <1>0, <2>1
    <2>3. \A q \in Requests : r \notin ahead[q]
      BY <2>1 DEF DequeOrder
    <2>4. /\ \A q \in Requests : ahead'[q] \subseteq Line' \ {q}
          /\ \A q \in Requests \ Line' : ahead'[q] = {}
      BY <2>1, <2>2 DEF DequeOrder
    <2>5. \A p, q \in Line' : p # q => (p \in ahead'[q] <=> q \notin ahead'[p])
      BY <2>1, <2>2, <2>3 DEF DequeOrder, Line
    <2>6. \A p, q, s \in Line' : p \in ahead'[q] /\ q \in ahead'[s] => p \in ahead'[s]
      BY <2>1, <2>2, <2>3 DEF DequeOrder, Line
    <2>7. \A p \in Waiting' : \A q \in Line' : pc'[q] \in Granted => p \notin ahead'[q]
      BY <1>0, <2>1, <2>2, <2>3 DEF DequeOrder, Granted, Line
    <2> QED
      BY <2>4, <2>5, <2>6, <2>7 DEF DequeOrder
  <1>3. ASSUME NEW r \in Requests, Cancel(r) PROVE DequeOrder'
    <2>1. /\ DOMAIN CancelledAt = {"waiting", "woken", "running"}
          /\ CancelledAt["waiting"] = "leaving"
          /\ CancelledAt["woken"] = "returning"
          /\ CancelledAt["running"] = "aborting"
      BY DEF CancelledAt
    <2>2. /\ \/ pc[r] = "waiting" /\ pc' = [pc EXCEPT ![r] = "leaving"]
             \/ pc[r] = "woken" /\ pc' = [pc EXCEPT ![r] = "returning"]
             \/ pc[r] = "running" /\ pc' = [pc EXCEPT ![r] = "aborting"]
          /\ ahead' = ahead
      BY <1>3, <2>1 DEF Cancel
    <2> QED
      BY <1>0, <2>2, SameDequeOrder DEF Line, Waiting, InDeque, Granted
  <1>4. ASSUME NEW r \in Requests,
               StartWoken(r) \/ Decline(r) \/ Leave(r) \/ GiveBack(r)
        PROVE  DequeOrder'
    <2>1. r \in Line /\ pc[r] # "waiting"
      BY <1>4 DEF StartWoken, Decline, Leave, GiveBack, Line, InDeque
    <2>2. value \in Nat /\ value + 1 \in Nat
      BY DEF IInv, Typed
    <2>3. CASE StartWoken(r)
      BY <2>1, <2>2, <2>3, LeaveLineOrder DEF StartWoken
    <2>4. CASE Leave(r)
      BY <2>1, <2>2, <2>4, LeaveLineOrder DEF Leave
    <2>5. CASE Decline(r) \/ GiveBack(r)
      <3> DEFINE v == value + 1
      <3>1. v \in Nat /\ LeaveLine(r, "idle", v)
        BY <2>2, <2>5 DEF Decline, GiveBack
      <3> HIDE DEF v
      <3> QED
        BY <2>1, <3>1, LeaveLineOrder
    <2> QED
      BY <1>4, <2>3, <2>4, <2>5
  <1>5. ASSUME NEW r \in Requests, Abort(r) \/ EndWork(r) PROVE DequeOrder'
    BY <1>0, <1>5, SameDequeOrder DEF Abort, EndWork, Line, Waiting, InDeque, Granted
  <1>6. ASSUME NEW r \in Requests, Collect(r) PROVE DequeOrder'
    <2> DEFINE pcs == [pc EXCEPT ![r] = IF @ = "running" THEN "idle" ELSE @]
    <2>1. ahead' = ahead
      BY <1>6 DEF Collect
    <2>2. CASE pc' = pcs
      BY <1>0, <2>1, <2>2, SameDequeOrder DEF Line, Waiting, InDeque, Granted
    <2>3. ASSUME NEW w \in FirstOf(Waiting), pc' = [pcs EXCEPT ![w] = "woken"] PROVE DequeOrder'
      <3>1. w \in Requests /\ pc[w] = "waiting"
        BY DEF FirstOf, Waiting
      <3>2. Line' = Line /\ Waiting' \subseteq Waiting
        BY <1>0, <2>3, <3>1 DEF Line, Waiting, InDeque
      <3>3. \A q \in Line : pc'[q] \in Granted => pc[q] \in Granted \/ q \in FirstOf(Waiting)
        BY <1>0, <2>3, <3>1 DEF Line, Granted
      <3> QED
        BY <2>1, <3>2, <3>3, SameDequeOrder
    <2> QED
      BY <1>6, <2>2, <2>3 DEF Collect, Release
  <1>7. CASE Close
    BY <1>7, SameDequeOrder DEF Close, Line, Waiting
  <1>8. CASE UNCHANGED vars
    BY <1>8, SameDequeOrder DEF vars, Line, Waiting
  <1> QED
    BY <1>1, <1>2, <1>3, <1>4, <1>5, <1>6, <1>7, <1>8 DEF Next

(* Permits are handed over in the order of the line, always. *)
THEOREM OrderKept == Spec => []DequeOrder
  BY Invariance, InitOrder, NextOrder, PTL DEF Spec

-----------------------------------------------------------------------------
(* The step simulation. *)

(* Instantiation renames what AdmissionQueue extends. *)
LEMMA SameCardinality == \A S : AQ!Cardinality(S) = Cardinality(S)
  BY DEF AQ!Cardinality, Cardinality

(* The order of the abstract line. *)
AheadInLine == [r \in Requests |-> IF r \in Interested THEN ahead[r] \cap Interested ELSE {}]

(* There are never more tasks than permits, and fewer while one is free, or *)
(* with a request that has not yet turned it into a task.                   *)
LEMMA TasksBounded ==
    ASSUME IInv
    PROVE  /\ value > 0 => Cardinality(Tasks) < Active
           /\ \A r \in Line : pc[r] \in Granted => Cardinality(Tasks) < Active
  <1>1. Tasks \in SUBSET Requests /\ Holders \in SUBSET Requests /\ Tasks \subseteq Holders
    BY DEF Tasks, Holders
  <1>2. /\ IsFiniteSet(Holders) /\ Cardinality(Holders) \in Nat /\ Cardinality(Tasks) \in Nat
        /\ Cardinality(Tasks) <= Cardinality(Holders)
    BY <1>1, CardNat, FS_Subset
  <1>3. value \in Nat /\ value + Cardinality(Holders) = Active
    BY DEF IInv, Typed, PermitConservation
  <1>4. value > 0 => Cardinality(Tasks) < Active
    BY <1>2, <1>3, CapacityAssumption
  <1>5. ASSUME NEW r \in Line, pc[r] \in Granted PROVE Cardinality(Tasks) < Active
    <2>1. r \in Requests /\ r \in Holders /\ r \notin Tasks
      BY <1>5 DEF Line, Holders, Tasks, LineHasNoTask, IInv
    <2>2. Cardinality(Tasks \cup {r}) = Cardinality(Tasks) + 1
      BY <1>1, <2>1, CardAdd
    <2>3. Tasks \cup {r} \subseteq Holders
      BY <1>1, <2>1
    <2>4. Cardinality(Tasks \cup {r}) <= Cardinality(Holders)
      BY <1>2, <2>3, FS_Subset
    <2> QED
      BY <1>2, <1>3, <2>2, <2>4, CapacityAssumption
  <1> QED
    BY <1>4, <1>5

(* Who leaves the deque leaves the abstract line, and who is handed a       *)
(* permit stays in it.                                                      *)
LEMMA LeaveLineStepsOut ==
    ASSUME IInv, NEW r \in Line, pc[r] # "waiting",
           NEW at \in {"idle", "running"}, NEW v \in Nat, LeaveLine(r, at, v)
    PROVE  /\ Interested' = Interested \ {r}
           /\ AheadInLine' = [q \in Requests |-> IF q = r THEN {} ELSE AheadInLine[q] \ {r}]
  <1>1. PICK G \in SUBSET Waiting :
          pc' = [q \in Requests |-> IF q \in G THEN "woken" ELSE IF q = r THEN at ELSE pc[q]]
    BY LeaveLineEffect
  <1>2. Interested' = Interested \ {r}
    BY <1>1 DEF Interested, Waiting, Line
  <1>3. ahead' = [q \in Requests |-> IF q = r THEN {} ELSE ahead[q] \ {r}]
    BY DEF LeaveLine, Unlink
  <1>4. r \in Requests
    BY DEF Line
  <1>5. ASSUME NEW q \in Requests
        PROVE  AheadInLine'[q] = IF q = r THEN {} ELSE AheadInLine[q] \ {r}
    BY <1>2, <1>3, <1>4, <1>5 DEF AheadInLine
  <1> QED
    BY <1>2, <1>5 DEF AheadInLine

(* A step that leaves the abstract line alone. *)
LEMMA LineUnchanged ==
    ASSUME Interested' = Interested,
           \A q \in Interested : ahead'[q] \cap Interested = ahead[q] \cap Interested
    PROVE  AheadInLine' = AheadInLine
  <1>1. ASSUME NEW q \in Requests PROVE AheadInLine'[q] = AheadInLine[q]
    BY <1>1 DEF AheadInLine
  <1> QED
    BY <1>1 DEF AheadInLine

(* Each initial state is one of the abstract queue. *)
LEMMA InitRefines == Init => AQ!Init
  <1> SUFFICES ASSUME Init PROVE AQ!Init
    OBVIOUS
  <1>1. Interested = {} /\ Tasks = {} /\ ~closing
    BY DEF Init, Interested, Tasks
  <1> QED
    BY <1>1 DEF AQ!Init

(* Each step is a step of the abstract queue or leaves it as it is. *)
LEMMA NextRefines == IInv /\ DequeOrder /\ [Next]_vars => [AQ!Next]_(AQ!vars)
  <1> SUFFICES ASSUME IInv, DequeOrder, [Next]_vars PROVE [AQ!Next]_(AQ!vars)
    OBVIOUS
  <1>0. /\ pc \in [Requests -> InDeque \cup {"idle", "running", "aborting"}]
        /\ ahead \in [Requests -> SUBSET Requests]
        /\ work \in [Requests -> {"none", "active", "cancelling", "ended"}]
        /\ value \in Nat /\ queued \in 0..MaxQueued /\ closing \in BOOLEAN
    BY DEF IInv, Typed
  <1>1. ASSUME NEW r \in Requests, StartAtOnce(r) PROVE AQ!Begin(r)
    <2>1. ~closing /\ closing' = closing /\ r \notin Tasks /\ Tasks' = Tasks \cup {r}
      BY <1>0, <1>1 DEF StartAtOnce, Refuses, Tasks
    <2>2. Cardinality(Tasks) < Active
      BY <1>0, <1>1, TasksBounded DEF StartAtOnce, Locked
    <2>3. Interested = {} /\ Interested' = {}
      BY <1>0, <1>1 DEF StartAtOnce, Locked, Line, InDeque, Interested
    <2> QED
      BY <2>1, <2>2, <2>3, SameCardinality DEF AQ!Begin, AQ!StepOut
  <1>2. ASSUME NEW r \in Requests, Enqueue(r) PROVE AQ!Enter(r)
    <2>1. /\ ~closing /\ closing' = closing /\ r \notin Tasks /\ Tasks' = Tasks
          /\ pc' = [pc EXCEPT ![r] = "waiting"] /\ ahead' = [ahead EXCEPT ![r] = Line]
          /\ r \notin Line /\ r \notin Interested /\ queued < MaxQueued
      BY <1>0, <1>2, CapacityAssumption
      DEF Enqueue, Refuses, Append, Tasks, Line, InDeque, Interested
    <2>2. Interested' = Interested \cup {r}
      BY <1>0, <2>1 DEF Interested
    <2>3. Cardinality(Interested) < MaxQueued
      <3>1. Interested \subseteq Line /\ Line \in SUBSET Requests /\ Interested \in SUBSET Requests
        BY DEF Interested, Line, InDeque
      <3>2. /\ IsFiniteSet(Line) /\ Cardinality(Interested) \in Nat
            /\ Cardinality(Interested) <= Cardinality(Line)
        BY <3>1, CardNat, FS_Subset
      <3>3. Cardinality(Line) = queued
        BY DEF IInv, QueueAccounting
      <3> QED
        BY <1>0, <2>1, <3>2, <3>3, CapacityAssumption
    <2>4. AheadInLine' = [AheadInLine EXCEPT ![r] = Interested]
      <3>1. \A q \in Requests : r \notin ahead[q]
        BY <2>1 DEF DequeOrder
      <3>2. Interested \subseteq Line
        BY DEF Interested, Line, InDeque
      <3>3. ASSUME NEW q \in Requests
            PROVE  AheadInLine'[q] = IF q = r THEN Interested ELSE AheadInLine[q]
        <4>1. CASE q = r
          BY <1>0, <2>1, <2>2, <3>2, <4>1 DEF AheadInLine
        <4>2. CASE q # r
          BY <1>0, <2>1, <2>2, <3>1, <4>2 DEF AheadInLine
        <4> QED
          BY <4>1, <4>2
      <3> QED
        BY <3>3 DEF AheadInLine
    <2> QED
      BY <2>1, <2>2, <2>3, <2>4, SameCardinality DEF AQ!Enter, AheadInLine
  <1>3. ASSUME NEW r \in Requests, Cancel(r) PROVE AQ!Withdraw(r) \/ UNCHANGED AQ!vars
    <2>1. /\ DOMAIN CancelledAt = {"waiting", "woken", "running"}
          /\ CancelledAt["waiting"] = "leaving"
          /\ CancelledAt["woken"] = "returning"
          /\ CancelledAt["running"] = "aborting"
      BY DEF CancelledAt
    <2>2. pc' = [pc EXCEPT ![r] = CancelledAt[pc[r]]] /\ ahead' = ahead /\ closing' = closing /\ Tasks' = Tasks
      BY <1>3 DEF Cancel, Tasks
    <2>3. CASE r \in Interested
      <3>1. Interested' = Interested \ {r}
        BY <1>0, <2>1, <2>2, <2>3 DEF Interested
      <3>2. AheadInLine' = [q \in Requests |-> IF q = r THEN {} ELSE AheadInLine[q] \ {r}]
        BY <2>2, <3>1 DEF AheadInLine
      <3> QED
        BY <2>2, <2>3, <3>1, <3>2 DEF AQ!Withdraw, AQ!StepOut, AheadInLine
    <2>4. CASE r \notin Interested
      <3>1. Interested' = Interested
        BY <1>0, <1>3, <2>1, <2>2, <2>4 DEF Cancel, Interested
      <3> QED
        BY <2>2, <3>1, LineUnchanged DEF AQ!vars, AheadInLine
    <2> QED
      BY <2>3, <2>4
  <1>4. ASSUME NEW r \in Requests, StartWoken(r) PROVE AQ!Begin(r)
    <2>1. /\ r \in Line /\ r \in Interested /\ pc[r] = "woken" /\ pc[r] \in Granted
          /\ ~closing /\ closing' = closing /\ MyTurn(r) /\ LeaveLine(r, "running", value)
          /\ r \notin Tasks /\ Tasks' = Tasks \cup {r}
      BY <1>0, <1>4 DEF StartWoken, Line, InDeque, Interested, Granted, Tasks, LineHasNoTask, IInv
    <2>2. Cardinality(Tasks) < Active
      BY <2>1, TasksBounded
    <2>3. ahead[r] \cap Interested = {}
      BY <2>1 DEF MyTurn, FirstOf, DequeOrder, Interested, Waiting, Granted
    <2>4. /\ Interested' = Interested \ {r}
          /\ AheadInLine' = [q \in Requests |-> IF q = r THEN {} ELSE AheadInLine[q] \ {r}]
      BY <1>0, <2>1, LeaveLineStepsOut
    <2> QED
      BY <2>1, <2>2, <2>3, <2>4, SameCardinality DEF AQ!Begin, AQ!StepOut, AheadInLine
  <1>5. ASSUME NEW r \in Requests, Decline(r) PROVE AQ!Withdraw(r)
    <2> DEFINE v == value + 1
    <2>1. /\ r \in Line /\ r \in Interested /\ pc[r] # "waiting" /\ v \in Nat
          /\ closing' = closing /\ LeaveLine(r, "idle", v) /\ Tasks' = Tasks
      BY <1>0, <1>5 DEF Decline, Line, InDeque, Interested, Tasks
    <2> HIDE DEF v
    <2>2. /\ Interested' = Interested \ {r}
          /\ AheadInLine' = [q \in Requests |-> IF q = r THEN {} ELSE AheadInLine[q] \ {r}]
      BY <2>1, LeaveLineStepsOut
    <2> QED
      BY <2>1, <2>2 DEF AQ!Withdraw, AQ!StepOut, AheadInLine
  <1>6. ASSUME NEW r \in Requests, Leave(r) \/ GiveBack(r) PROVE UNCHANGED AQ!vars
    <2>1. PICK v \in Nat : LeaveLine(r, "idle", v)
      BY <1>0, <1>6 DEF Leave, GiveBack
    <2>2. /\ r \in Line /\ r \notin Interested /\ pc[r] # "waiting"
          /\ closing' = closing /\ Tasks' = Tasks
      BY <1>6 DEF Leave, GiveBack, Line, InDeque, Interested, Tasks
    <2>3. Interested' = Interested
      BY <2>1, <2>2, LeaveLineStepsOut
    <2>4. \A q \in Interested : ahead'[q] \cap Interested = ahead[q] \cap Interested
      BY <2>1, <2>2 DEF LeaveLine, Unlink, Interested
    <2>5. AheadInLine' = AheadInLine
      BY <2>3, <2>4, LineUnchanged
    <2> QED
      BY <2>2, <2>3, <2>5 DEF AQ!vars, AheadInLine
  <1>7. ASSUME NEW r \in Requests, Abort(r) \/ EndWork(r) PROVE UNCHANGED AQ!vars
    <2>1. Interested' = Interested /\ Tasks' = Tasks /\ ahead' = ahead /\ closing' = closing
      BY <1>0, <1>7 DEF Abort, EndWork, Interested, Tasks
    <2> QED
      BY <2>1, LineUnchanged DEF AQ!vars, AheadInLine
  <1>8. ASSUME NEW r \in Requests, Collect(r) PROVE AQ!Finish(r)
    <2> DEFINE pcs == [pc EXCEPT ![r] = IF @ = "running" THEN "idle" ELSE @]
    <2>1. /\ r \in Tasks /\ Tasks' = Tasks \ {r} /\ ahead' = ahead /\ closing' = closing
      BY <1>0, <1>8 DEF Collect, Tasks
    <2>2. Interested' = Interested
      <3>1. CASE pc' = pcs
        BY <1>0, <3>1 DEF Interested
      <3>2. ASSUME NEW w \in Waiting, pc' = [pcs EXCEPT ![w] = "woken"]
            PROVE  Interested' = Interested
        BY <1>0, <3>2 DEF Interested, Waiting
      <3> QED
        BY <1>8, <3>1, <3>2 DEF Collect, Release, FirstOf
    <2> QED
      BY <2>1, <2>2, LineUnchanged DEF AQ!Finish, AheadInLine
  <1>9. CASE Close
    <2>1. Interested' = Interested /\ Tasks' = Tasks /\ ahead' = ahead /\ closing' = TRUE
      BY <1>0, <1>9 DEF Close, Interested, Tasks
    <2> QED
      BY <2>1, LineUnchanged DEF AQ!Next, AQ!Drain, AheadInLine
  <1>10. CASE UNCHANGED vars
    <2>1. Interested' = Interested /\ Tasks' = Tasks /\ ahead' = ahead /\ closing' = closing
      BY <1>10 DEF vars, Interested, Tasks
    <2> QED
      BY <2>1, LineUnchanged DEF AQ!vars, AheadInLine
  <1> QED
    BY <1>1, <1>2, <1>3, <1>4, <1>5, <1>6, <1>7, <1>8, <1>9, <1>10 DEF Next, AQ!Next

(* The supervisor implements the abstract admission queue.                  *)
THEOREM Implements == Spec => ImplementsAdmissionQueue
  <1>1. Init => AQ!Init
    BY InitRefines
  <1>2. IInv /\ DequeOrder /\ [Next]_vars => [AQ!Next]_(AQ!vars)
    BY NextRefines
  <1> QED
    BY <1>1, <1>2, Invariance, OrderKept, PTL DEF Spec, AQ!Spec, ImplementsAdmissionQueue
=============================================================================

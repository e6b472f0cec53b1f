---------------------------- MODULE Deadline_proofs ----------------------------
(***************************************************************************)
(* Safety of one request inside DeadlineMiddleware, for every number of    *)
(* inbound messages.  What a client gets depends on where __call__ is and  *)
(* on the exception it is about to raise, so the invariant says for each   *)
(* place by whom, and how much, has been sent when __call__ is there.      *)
(***************************************************************************)
EXTENDS Deadline, SequenceTheorems, TLAPS

Places  == {"waiting", "relaying", "refusing", "erring", "joining", "over"}
Authors == {"app", "timeout", "error"}

Typed ==
    /\ disconnected \in BOOLEAN
    /\ app \in {"running", "cancelling"} \cup AppDone
    /\ mw \in Places
    /\ error \in {"none", "raised", "cancelled"}
    /\ wire \in Seq(Authors)

(* All that was sent is by one author. *)
By(a) == \A i \in 1..Len(wire) : wire[i] = a

(* A response is begun by the author whose turn it is, and not yet whole.  *)
Begun(a) == By(a) /\ Len(wire) < Whole

Sent ==
    /\ mw = "waiting"  => wire = <<>> /\ error = "none"
    /\ mw = "relaying" => Begun("app") /\ error = "none"
    /\ mw = "refusing" => Begun("timeout") /\ error = "none"
    /\ mw = "erring"   => Begun("error") /\ error = "raised"
    /\ mw = "joining"  => (error = "raised" => wire = <<>>)
    /\ mw \in {"joining", "over"} =>
          /\ \E a \in Authors : By(a)
          /\ Len(wire) <= Whole
          /\ error = "none" => Len(wire) = Whole \/ (Len(wire) = 0 /\ disconnected)
    /\ mw = "over" => (error = "raised" => Len(wire) = Whole)

IInv == Typed /\ Sent /\ NoOrphanApp

-----------------------------------------------------------------------------
(* The invariant holds initially: nothing has been sent. *)
LEMMA InitIInv == Init => IInv
  <1> SUFFICES ASSUME Init PROVE IInv
    OBVIOUS
  <1>1. wire \in Seq(Authors)
    BY EmptySeq DEF Init
  <1>2. Typed
    BY <1>1 DEF Init, Typed, Places, AppDone
  <1>3. Sent
    BY DEF Init, Sent
  <1> QED
    BY <1>2, <1>3 DEF Init, IInv, NoOrphanApp

(* The next part of a response begun by a is by a, too. *)
LEMMA OnePartMore ==
    ASSUME wire \in Seq(Authors), NEW a \in Authors, Begun(a), wire' = Append(wire, a)
    PROVE  /\ wire' \in Seq(Authors) /\ By(a)' /\ Len(wire') = Len(wire) + 1
           /\ Len(wire) \in Nat /\ Len(wire) + 1 <= Whole
  <1>1. Len(wire') = Len(wire) + 1 /\ wire' \in Seq(Authors) /\ Len(wire) \in Nat
    BY AppendProperties
  <1>2. \A i \in 1..Len(wire') : wire'[i] = a
    BY <1>1, AppendProperties DEF Begun, By
  <1> QED
    BY <1>1, <1>2 DEF Begun, By, Whole

(* Sending keeps what each place of __call__ stands for. *)
LEMMA SendIInv == ASSUME IInv, Send PROVE IInv'
  <1>0. /\ DOMAIN Author = {"relaying", "refusing", "erring"}
        /\ Author["relaying"] = "app" /\ Author["refusing"] = "timeout" /\ Author["erring"] = "error"
        /\ After["relaying"] = "joining" /\ After["refusing"] = "joining" /\ After["erring"] = "over"
    BY DEF Author, After
  <1>1. mw \in {"relaying", "refusing", "erring"} /\ wire \in Seq(Authors)
    BY <1>0 DEF Send, IInv, Typed
  <1>2. PICK a \in Authors :
           /\ a = Author[mw] /\ Begun(a) /\ wire' = Append(wire, a)
    BY <1>0, <1>1 DEF Send, IInv, Sent, Authors
  <1>3. /\ wire' \in Seq(Authors) /\ By(a)' /\ Len(wire') = Len(wire) + 1
        /\ Len(wire) \in Nat /\ Len(wire) + 1 <= Whole
    BY <1>1, <1>2, OnePartMore
  <1>4. UNCHANGED <<disconnected, app, error>> /\ mw' = IF Len(wire) + 1 = Whole THEN After[mw] ELSE mw
    BY DEF Send, watch
  <1>5. NoOrphanApp'
    BY <1>1, <1>4 DEF IInv, NoOrphanApp
  <1>6. CASE Len(wire) + 1 = Whole
    <2>1. mw' = After[mw] /\ mw' \in {"joining", "over"} /\ Len(wire') = Whole
      BY <1>0, <1>1, <1>3, <1>4, <1>6
    <2>2. Typed'
      BY <1>3, <1>4, <2>1 DEF IInv, Typed, Places
    <2>3. \E b \in Authors : By(b)'
      BY <1>3
    <2>4. mw' = "joining" => error = "none"
      BY <1>0, <1>1, <2>1 DEF IInv, Sent
    <2>5. Sent'
      BY <1>4, <2>1, <2>3, <2>4 DEF Sent
    <2> QED
      BY <1>5, <2>2, <2>5 DEF IInv
  <1>7. CASE Len(wire) + 1 # Whole
    <2>1. Len(wire') < Whole /\ mw' = mw
      BY <1>3, <1>4, <1>7 DEF Whole
    <2>2. Typed'
      BY <1>3, <1>4, <2>1 DEF IInv, Typed
    <2>3. Begun(a)'
      BY <1>3, <2>1 DEF Begun
    <2>4. Sent'
      BY <1>0, <1>1, <1>2, <1>4, <2>1, <2>3 DEF IInv, Sent
    <2> QED
      BY <1>5, <2>2, <2>4 DEF IInv
  <1> QED
    BY <1>6, <1>7

(* Every step preserves the invariant. *)
LEMMA NextIInv == IInv /\ [Next]_vars => IInv'
  <1> SUFFICES ASSUME IInv, [Next]_vars PROVE IInv'
    OBVIOUS
  <1> USE DEF IInv, Typed, NoOrphanApp
  <1>1. CASE \/ ClientLeaves \/ Expire \/ WatchRequest \/ WatchPut \/ AppReceive \/ AppSend
             \/ UNCHANGED vars
    BY <1>1 DEF ClientLeaves, Expire, WatchRequest, WatchPut, AppReceive, AppSend, vars,
                inbound, watch, Sent, Begun, By
  <1>2. CASE WatchDisconnect
    BY <1>2 DEF WatchDisconnect, inbound, Sent, Begun, By
  <1>3. CASE AppEnds
    BY <1>3 DEF AppEnds, AppDone, inbound, watch, Sent, Begun, By
  <1>4. CASE WakeDone
    <2>1. (\E a \in Authors : By(a)') /\ Len(wire') = 0
      BY <1>4 DEF WakeDone, Sent, By, Authors
    <2>2. Begun("app")' /\ wire' = <<>> /\ Len(wire') <= Whole
      BY <1>4 DEF WakeDone, Sent, Begun, By, Whole
    <2> QED
      BY <1>4, <2>1, <2>2 DEF WakeDone, AppDone, inbound, watch, Sent, Places
  <1>5. CASE WakeUndone
    <2>1. (\E a \in Authors : By(a)') /\ Len(wire') = 0
      BY <1>5 DEF WakeUndone, Sent, By, Authors
    <2>2. Begun("timeout")' /\ wire' = <<>> /\ Len(wire') <= Whole
      BY <1>5 DEF WakeUndone, Sent, Begun, By, Whole
    <2> QED
      BY <1>5, <2>1, <2>2 DEF WakeUndone, CancelApp, AppDone, inbound, watch, Sent, Places
  <1>6. CASE Send
    BY <1>6, SendIInv
  <1>7. CASE Cancel
    <2>1. (\E a \in Authors : By(a)') /\ Len(wire') <= Whole
      BY <1>7 DEF Cancel, Sent, Begun, By, Authors, Whole
    <2> QED
      BY <1>7, <2>1 DEF Cancel, CancelApp, AppDone, inbound, watch, Sent, Places
  <1>8. CASE Join
    BY <1>8 DEF Join, inbound, Sent, Begun, By, Whole, Places
  <1> QED
    BY <1>1, <1>2, <1>3, <1>4, <1>5, <1>6, <1>7, <1>8 DEF Next

(* IInv is an invariant of the specification. *)
THEOREM Invariance == Spec => []IInv
  BY InitIInv, NextIInv, PTL DEF Spec

(* One author, never more than one response, and a whole one or none in the *)
(* end unless Uvicorn's cancellation cut it short.                          *)
THEOREM OneAuthor == Spec => []OneResponse
  <1>1. IInv => OneResponse
    BY DEF IInv, Typed, Sent, Begun, By, OneResponse, Places, Authors, Whole
  <1> QED
    BY <1>1, Invariance, PTL

(* A client that stays is answered in full, unless Uvicorn cut it short.    *)
THEOREM EveryoneAnswered == Spec => []Answered
  <1>1. IInv => Answered
    BY DEF IInv, Typed, Sent, Answered
  <1> QED
    BY <1>1, Invariance, PTL

(* The application never works undisturbed once nobody waits for it.        *)
THEOREM NoAppOrphaned == Spec => []NoOrphanApp
  <1>1. IInv => NoOrphanApp
    BY DEF IInv
  <1> QED
    BY <1>1, Invariance, PTL
=============================================================================

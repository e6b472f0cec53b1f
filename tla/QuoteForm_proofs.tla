--------------------------- MODULE QuoteForm_proofs ---------------------------
(***************************************************************************)
(* Safety of the quote form, for every number of submits under way and     *)
(* whatever chains, tokens and lists there are.  That the button is not    *)
(* left disabled depends on the dialog: a submit that shows it again makes *)
(* the call it showed before end without a finally, which is harmless only *)
(* because that call has not sent anything (Showing).                      *)
(***************************************************************************)
EXTENDS QuoteForm, TLAPS

Typed ==
    /\ at \in [Submits -> {"idle", "asking"} \cup Sent]
    /\ asks \in [Submits -> {None} \cup (Tokens \X Chains)]
    /\ chain \in Chains /\ field \in Tokens
    /\ loading \in BOOLEAN

(* The dialog belongs to a call that waits for its answer. *)
Showing ==
    dialog # None => /\ dialog \in Submits /\ at[dialog] = "asking"
                     /\ asks[dialog] \in Tokens \X Chains

(* A result is of a token and a chain, or of none. *)
Results == [of : {None} \cup (Tokens \X Chains), dated : BOOLEAN]

IInv == Typed /\ Showing /\ LockedMeansFetching /\ (result # None => result \in Results) /\ AgeIsOfResult

-----------------------------------------------------------------------------
(* The invariant holds initially: nothing is under way. *)
LEMMA InitIInv == Init => IInv
  <1> SUFFICES ASSUME Init PROVE IInv
    OBVIOUS
  <1>1. Typed
    BY FormAssumption DEF Init, Typed
  <1>2. Showing /\ LockedMeansFetching /\ AgeIsOfResult /\ result = None
    BY DEF Init, Showing, LockedMeansFetching, AgeIsOfResult
  <1> QED
    BY <1>1, <1>2 DEF IInv

(* What clearing leaves is consistent. *)
LEMMA ClearAge == Clear => AgeIsOfResult' /\ result' = None
  BY DEF Clear, ClearResult, AgeIsOfResult

(* A submit fetches, or asks and ends the call that asked before. *)
LEMMA HandleSubmitIInv ==
    ASSUME IInv, NEW s \in Submits, field' \in Tokens, chain' = chain, HandleSubmit(s)
    PROVE  IInv'
  <1>1. s # None /\ (dialog # None => dialog \in Submits)
    BY FormAssumption DEF IInv, Showing
  <1>2. result' = None /\ AgeIsOfResult'
    BY ClearAge DEF HandleSubmit
  <1>3. CASE Ask(s)
    <2>1. /\ at' = [q \in Submits |->
                      IF q = s THEN "asking" ELSE IF q = dialog THEN "idle" ELSE at[q]]
          /\ asks' = [q \in Submits |->
                        IF q = s THEN <<field', chain>> ELSE IF q = dialog THEN None ELSE asks[q]]
          /\ dialog' = s /\ loading' = loading /\ at[s] = "idle"
      BY <1>3 DEF Ask, HandleSubmit
    <2>2. Typed' /\ Showing'
      BY <1>1, <2>1 DEF IInv, Typed, Showing
    <2>3. LockedMeansFetching'
      <3> SUFFICES ASSUME loading PROVE \E q \in Submits : at'[q] \in Sent
        BY <2>1 DEF LockedMeansFetching
      <3>1. PICK q \in Submits : at[q] \in Sent
        BY DEF IInv, LockedMeansFetching
      <3>2. q # s /\ q # dialog
        BY <2>1, <3>1, FormAssumption DEF IInv, Showing, Sent
      <3> QED
        BY <2>1, <3>1, <3>2
    <2> QED
      BY <1>2, <2>2, <2>3 DEF IInv
  <1>4. CASE Fetch(s, field') /\ UNCHANGED dialog
    <2>1. /\ at' = [at EXCEPT ![s] = "fetching"] /\ asks' = [asks EXCEPT ![s] = <<field', chain>>]
          /\ dialog' = dialog /\ loading' = TRUE /\ at[s] = "idle"
      BY <1>4 DEF Fetch, HandleSubmit
    <2>2. Typed' /\ Showing' /\ LockedMeansFetching'
      BY <1>1, <2>1 DEF IInv, Typed, Showing, LockedMeansFetching, Sent
    <2> QED
      BY <1>2, <2>2 DEF IInv
  <1> QED
    BY <1>3, <1>4 DEF HandleSubmit

(* Another chain clears the form. *)
LEMMA SwitchIInv ==
    ASSUME IInv, NEW c \in Chains, Switch(c), UNCHANGED <<at, asks, dialog>>
    PROVE  IInv'
  BY ClearAge, FormAssumption
     DEF Switch, IInv, Typed, Showing, LockedMeansFetching

(* The end of a call that has sent its request ends the lock, too. *)
LEMMA ReturnIInv ==
    ASSUME IInv, NEW s \in Submits, at[s] \in Sent, Return(s), loading' = FALSE,
           result' # None => result' \in Results, AgeIsOfResult'
    PROVE  IInv'
  <1>1. /\ at' = [at EXCEPT ![s] = "idle"] /\ asks' = [asks EXCEPT ![s] = None]
        /\ dialog' = dialog /\ chain' = chain /\ field' = field
    BY DEF Return, form
  <1> QED
    BY <1>1 DEF IInv, Typed, Showing, LockedMeansFetching, Sent

(* Every step preserves the invariant. *)
LEMMA NextIInv == IInv /\ [Next]_vars => IInv'
  <1> SUFFICES ASSUME IInv, [Next]_vars PROVE IInv'
    OBVIOUS
  <1>1. ASSUME NEW c \in Chains \cup {None}, Open(c) PROVE IInv'
    <2>1. CASE c \in {None, chain}
      BY <1>1, <2>1 DEF Open, form, shown, IInv, Typed, Showing, LockedMeansFetching, AgeIsOfResult
    <2>2. CASE c \notin {None, chain}
      BY <1>1, <2>2, SwitchIInv DEF Open
    <2> QED
      BY <2>1, <2>2
  <1>2. ASSUME NEW s \in Submits, NEW t \in Tokens \cup {None}, AutoSubmit(s, t) PROVE IInv'
    <2>1. field' \in Tokens /\ chain' = chain /\ HandleSubmit(s)
      BY <1>2 DEF AutoSubmit, IInv, Typed
    <2> QED
      BY <2>1, HandleSubmitIInv
  <1>3. ASSUME NEW s \in Submits, Submit(s) PROVE IInv'
    <2>1. field' \in Tokens /\ chain' = chain /\ HandleSubmit(s)
      BY <1>3 DEF Submit, IInv, Typed
    <2> QED
      BY <2>1, HandleSubmitIInv
  <1>4. ASSUME NEW s \in Submits, Headers(s) PROVE IInv'
    BY <1>4, FormAssumption
       DEF Headers, form, shown, IInv, Typed, Showing, LockedMeansFetching, AgeIsOfResult, Sent
  <1>5. ASSUME NEW s \in Submits, NEW dated \in BOOLEAN, Answer(s, dated) PROVE IInv'
    <2>1. result' \in Results /\ result' # None /\ result'.dated = dated
      BY <1>5, FormAssumption DEF Answer, IInv, Typed, Results
    <2>2. AgeIsOfResult'
      BY <1>5, <2>1 DEF Answer, AgeIsOfResult
    <2>3. at[s] \in Sent /\ Return(s) /\ loading' = FALSE
      BY <1>5 DEF Answer, Sent
    <2> QED
      BY <2>1, <2>2, <2>3, ReturnIInv
  <1>6. ASSUME NEW s \in Submits, Fail(s) \/ Rejected(s) \/ Garbled(s) PROVE IInv'
    <2>1. /\ at[s] \in Sent /\ Return(s) /\ loading' = FALSE
          /\ result' = result /\ timer' = timer
      BY <1>6 DEF Fail, Rejected, Garbled, Quiet, Sent
    <2>2. AgeIsOfResult' /\ (result' # None => result' \in Results)
      BY <2>1 DEF IInv, AgeIsOfResult
    <2> QED
      BY <2>1, <2>2, ReturnIInv
  <1>7. ASSUME NEW t \in Tokens, ChangeToken(t) PROVE IInv'
    <2>1. CASE loading
      BY <1>7, <2>1, ClearAge
         DEF ChangeToken, CancelIfLoading, IInv, Typed, Showing, LockedMeansFetching
    <2>2. CASE ~loading
      BY <1>7, <2>2
         DEF ChangeToken, CancelIfLoading, shown, IInv, Typed, Showing, LockedMeansFetching, AgeIsOfResult
    <2> QED
      BY <2>1, <2>2
  <1>8. ASSUME NEW c \in Chains, SelectChain(c) PROVE IInv'
    BY <1>8, SwitchIInv DEF SelectChain
  <1>9. ASSUME NEW how \in {"save", "continue", "reject"}, AnswerDialog(how) PROVE IInv'
    <2>1. /\ dialog \in Submits /\ at[dialog] = "asking" /\ dialog' = None
          /\ UNCHANGED <<chain, field, error, result, timer>>
      BY <1>9 DEF AnswerDialog, IInv, Showing, form
    <2>2. Showing' /\ AgeIsOfResult' /\ (result' # None => result' \in Results)
      BY <2>1 DEF Showing, IInv, AgeIsOfResult
    <2>3. CASE how = "reject"
      <3>1. /\ at' = [at EXCEPT ![dialog] = "idle"] /\ asks' = [asks EXCEPT ![dialog] = None]
            /\ loading' = loading
        BY <1>9, <2>3 DEF AnswerDialog
      <3> QED
        BY <2>1, <2>2, <3>1 DEF IInv, Typed, LockedMeansFetching, Sent
    <2>4. CASE how # "reject"
      <3>1. /\ at' = [at EXCEPT ![dialog] = "fetching"]
            /\ asks' = [asks EXCEPT ![dialog] = <<asks[dialog][1], chain>>]
            /\ loading' = TRUE
        BY <1>9, <2>4 DEF AnswerDialog, Fetch
      <3>2. asks[dialog] \in Tokens \X Chains
        BY <1>9 DEF AnswerDialog, IInv, Showing
      <3> QED
        BY <2>1, <2>2, <3>1, <3>2 DEF IInv, Typed, LockedMeansFetching, Sent
    <2> QED
      BY <2>3, <2>4
  <1>10. CASE UNCHANGED vars
    BY <1>10 DEF vars, form, shown, IInv, Typed, Showing, LockedMeansFetching, AgeIsOfResult
  <1> QED
    BY <1>1, <1>2, <1>3, <1>4, <1>5, <1>6, <1>7, <1>8, <1>9, <1>10 DEF Next

(* IInv is an invariant of the specification. *)
THEOREM Invariance == Spec => []IInv
  BY InitIInv, NextIInv, PTL DEF Spec

(* The form is locked only while a price is being fetched.                  *)
THEOREM NeverLeftLocked == Spec => []LockedMeansFetching
  <1>1. IInv => LockedMeansFetching
    BY DEF IInv
  <1> QED
    BY <1>1, Invariance, PTL

(* The age shown is that of the result beside it.                           *)
THEOREM AgeFits == Spec => []AgeIsOfResult
  <1>1. IInv => AgeIsOfResult
    BY DEF IInv
  <1> QED
    BY <1>1, Invariance, PTL
=============================================================================

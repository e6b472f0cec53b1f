----------------------------- MODULE QuoteForm -----------------------------
(***************************************************************************)
(* The quote form of the browser UI, components/QuoteForm.svelte, with the *)
(* token field (Autocomplete), the dialog for unknown tokens, the fetch of *)
(* api.ts and the submit that App.svelte makes when the page has loaded.   *)
(*                                                                         *)
(* An event handler runs to its first await; what an abort rejects is      *)
(* handled in microtasks, that is before any other event.  Whoever uses    *)
(* the keyboard reaches the form while the dialog is shown.  Amount and    *)
(* block are left out: they are read when the fetch starts.                *)
(***************************************************************************)
EXTENDS FiniteSets

CONSTANTS
    Submits,    \* bound: calls of handleSubmit under way at a time
    Chains, First,      \* chains, the one selected at first
    Tokens,     \* what the token field may hold
    Listed,     \* the <<token, chain>> of the enabled token lists
    Pair,       \* the token that a chain starts with
    None

ASSUME FormAssumption ==
    /\ First \in Chains /\ Pair \in [Chains -> Tokens]
    /\ Listed \subseteq Tokens \X Chains /\ None \notin Submits \cup Tokens \cup Chains
    /\ None \notin [of : {None} \cup (Tokens \X Chains), dated : BOOLEAN]

VARIABLES
    page,       \* App: "loading" the lists, "opened", "submitted"
    chain, field, edited,   \* selected chain, token field, wasUserEdited
    index,      \* the <<token, chain>> of the token index
    at,         \* where each call of handleSubmit is
    asks,       \* token and chain that it was made for
    aborted,    \* whether its AbortController has been aborted
    dialog,     \* the call that unknownModalResolve resumes
    controller, \* the call that abortController belongs to
    loading, error, result,
    timer       \* the result whose age ageInterval updates

form  == <<chain, field, edited>>
shown == <<loading, error, result, timer>>
vars  == <<page, form, index, at, asks, aborted, dialog, controller, shown>>

Sent == {"fetching", "reading"}

Init ==
    /\ page = "loading"
    /\ chain = First /\ field = Pair[First] /\ edited = FALSE
    /\ index = {}
    /\ at = [s \in Submits |-> "idle"]
    /\ asks = [s \in Submits |-> None]
    /\ aborted = [s \in Submits |-> FALSE]
    /\ dialog = None /\ controller = None
    /\ loading = FALSE /\ error = FALSE /\ result = None /\ timer = None

(* Every rejection has been handled: the next event may come. *)
Settled == \A s \in Submits : ~aborted[s]

-----------------------------------------------------------------------------
(* Pieces of the handlers. *)

(* abortPending, as it changes aborted: a call that is over is not touched. *)
AbortPending ==
    [s \in Submits |-> aborted[s] \/ (s = controller /\ at[s] \in Sent)]

ClearResult == result' = None /\ error' = FALSE

(* Faulty: the age of the old result is kept up to date. *)
ClearKeepingAge == ClearResult /\ UNCHANGED timer

Clear == ClearResult /\ timer' = None

(* From new AbortController to the await of fetchPrice. *)
Fetch(s, token) ==
    /\ at' = [at EXCEPT ![s] = "fetching"]
    /\ asks' = [asks EXCEPT ![s] = <<token, chain>>]
    /\ controller' = s
    /\ loading' = TRUE

(* checkUnknownToken shows the dialog; a call it showed before is forgotten. *)
Ask(s) ==
    /\ at' = [q \in Submits |-> IF q = s THEN "asking" ELSE IF q = dialog THEN "idle" ELSE at[q]]
    /\ asks' = [q \in Submits |->
                   IF q = s THEN <<field', chain>> ELSE IF q = dialog THEN None ELSE asks[q]]
    /\ dialog' = s /\ controller' = None
    /\ UNCHANGED loading

(* handleSubmit of what is in the field. *)
HandleSubmit(s) ==
    /\ at[s] = "idle"
    /\ aborted' = AbortPending
    /\ Clear
    /\ IF edited' /\ <<field', chain>> \notin index
       THEN Ask(s)
       ELSE Fetch(s, field') /\ UNCHANGED dialog

(* The effect of another chain. *)
Switch(c) ==
    /\ chain' = c /\ field' = Pair[c] /\ edited' = FALSE
    /\ aborted' = AbortPending /\ controller' = None
    /\ loading' = FALSE /\ Clear

-----------------------------------------------------------------------------
(* App.svelte, when the page has loaded. *)

(* initTokenlists is over; the chain of the page's link, c, is selected. *)
Open(c) ==
    /\ Settled /\ page = "loading"
    /\ page' = "opened"
    /\ index' = index \cup Listed
    /\ IF c \in {None, chain}
       THEN UNCHANGED <<form, aborted, controller, shown>>
       ELSE Switch(c)
    /\ UNCHANGED <<at, asks, dialog>>

(* The token of the link, t, is filled in and the form submitted;           *)
(* requestSubmit does not look whether the button is disabled.              *)
AutoSubmit(s, t) ==
    /\ Settled /\ page = "opened"
    /\ page' = "submitted"
    /\ IF t = None THEN UNCHANGED <<field, edited>> ELSE field' = t /\ edited' = FALSE
    /\ HandleSubmit(s)
    /\ UNCHANGED <<chain, index>>

-----------------------------------------------------------------------------
(* The user. *)

Submit(s) ==
    /\ Settled /\ ~loading
    /\ UNCHANGED <<field, edited>>
    /\ HandleSubmit(s)
    /\ UNCHANGED <<page, chain, index>>

CancelIfLoading ==
    IF loading
    THEN /\ aborted' = AbortPending /\ controller' = None
         /\ loading' = FALSE /\ Clear
    ELSE UNCHANGED <<aborted, controller, shown>>

(* Typing or pasting; choosing from the matches leaves wasUserEdited. *)
ChangeToken(t) ==
    /\ Settled
    /\ field' = t
    /\ edited' = TRUE \/ (<<t, chain>> \in index /\ UNCHANGED edited)
    /\ CancelIfLoading
    /\ UNCHANGED <<page, chain, index, at, asks, dialog>>

SelectChain(c) ==
    /\ Settled /\ c # chain
    /\ Switch(c)
    /\ UNCHANGED <<page, index, at, asks, dialog>>

(* Save stores the token for the chain selected by now; save and continue *)
(* go on to the fetch, which aborts nothing.                              *)
AnswerDialog(how) ==
    /\ Settled /\ dialog # None
    /\ dialog' = None
    /\ IF how = "reject"
       THEN /\ at' = [at EXCEPT ![dialog] = "idle"] /\ asks' = [asks EXCEPT ![dialog] = None]
            /\ UNCHANGED <<controller, loading>>
       ELSE Fetch(dialog, asks[dialog][1])
    /\ index' = IF how = "save" THEN index \cup {<<asks[dialog][1], chain>>} ELSE index
    /\ UNCHANGED <<page, form, aborted, error, result, timer>>

-----------------------------------------------------------------------------
(* The fetch.  Its timer, 315 seconds, ends with the headers. *)

Return(s) ==
    /\ at' = [at EXCEPT ![s] = "idle"]
    /\ asks' = [asks EXCEPT ![s] = None]
    /\ aborted' = [aborted EXCEPT ![s] = FALSE]
    /\ UNCHANGED <<page, form, index, dialog, controller>>

Headers(s) ==
    /\ Settled /\ at[s] = "fetching"
    /\ at' = [at EXCEPT ![s] = "reading"]
    /\ UNCHANGED <<page, form, index, asks, aborted, dialog, controller, shown>>

(* The price, with a block timestamp or without. *)
Answer(s, dated) ==
    /\ Settled /\ at[s] = "reading"
    /\ Return(s)
    /\ result' = [of |-> asks[s], dated |-> dated]
    /\ timer' = IF dated THEN result' ELSE timer
    /\ loading' = FALSE
    /\ UNCHANGED error

(* An error status, a broken body or a network error. *)
Fail(s) ==
    /\ Settled /\ at[s] \in Sent
    /\ Return(s)
    /\ error' = TRUE /\ loading' = FALSE
    /\ UNCHANGED <<result, timer>>

(* AbortError is silent, whether the request was aborted or timed out. *)
Quiet(s) == at[s] = "fetching" /\ (aborted[s] \/ Settled)

(* Faulty: the early return leaves loading as it is. *)
RejectedLoading(s) ==
    /\ Quiet(s)
    /\ Return(s)
    /\ UNCHANGED shown

Rejected(s) ==
    /\ Quiet(s)
    /\ Return(s)
    /\ loading' = FALSE
    /\ UNCHANGED <<error, result, timer>>

(* An abort while the body is read ends as "Expected JSON response". *)
Garbled(s) ==
    /\ at[s] = "reading" /\ aborted[s]
    /\ Return(s)
    /\ error' = TRUE /\ loading' = FALSE
    /\ UNCHANGED <<result, timer>>

Next ==
    \/ \E c \in Chains \cup {None} : Open(c)
    \/ \E s \in Submits :
          \/ \E t \in Tokens \cup {None} : AutoSubmit(s, t)
          \/ Submit(s)
          \/ Headers(s) \/ Fail(s) \/ Rejected(s) \/ Garbled(s)
          \/ \E dated \in BOOLEAN : Answer(s, dated)
    \/ \E t \in Tokens : ChangeToken(t)
    \/ \E c \in Chains : SelectChain(c)
    \/ \E how \in {"save", "continue", "reject"} : AnswerDialog(how)

Spec == Init /\ [][Next]_vars

-----------------------------------------------------------------------------
(***************************************************************************)
(* The button is disabled only while a price is being fetched, however     *)
(* submits, the dialog and aborts interleave: a finally that is late or    *)
(* belongs to another request never leaves the form locked.                *)
(***************************************************************************)
LockedMeansFetching == loading => \E s \in Submits : at[s] \in Sent

(***************************************************************************)
(* The age that is shown is that of the result beside it, and no timer     *)
(* goes on for a result that is gone, though two requests may answer in    *)
(* any order and the chain, the token and the page's link intervene.       *)
(***************************************************************************)
AgeIsOfResult ==
    /\ result # None /\ result.dated => timer = result
    /\ timer # None => result # None
=============================================================================

------------------------------ MODULE Deadline ------------------------------
(***************************************************************************)
(* One priced request inside DeadlineMiddleware of src/runtime.py: the     *)
(* application runs in a task of its own and its response is buffered, a   *)
(* second task watches the client, and the middleware waits for whichever  *)
(* is done first or for the budget.  On a timeout it answers 504 at once   *)
(* and leaves the cancelled application to clean up on its own time.       *)
(*                                                                         *)
(* The application, the client, the deadline and Uvicorn's own             *)
(* cancellation (graceful shutdown over) interleave freely.                *)
(***************************************************************************)
EXTENDS Naturals, Sequences

CONSTANT Chunks   \* how many http.request messages the client sends

ASSUME ChunksAssumption == Chunks \in Nat

VARIABLES
    toRead,        \* http.request messages not yet received by the watcher
    left,          \* the client has closed the connection
    watcher,       \* _watch_client: receiving, putting (queue full), over
    incoming,      \* the queue of size one: "empty", "request", "disconnect"
    disconnected,  \* the event
    app,           \* the application's task
    messages,      \* how many messages of its response it has buffered
    expired,       \* the timer of asyncio.wait has fired
    mw,            \* where __call__ is
    error,         \* the exception it is going to raise
    wire           \* what has been sent to the client, by author

inbound == <<toRead, left>>
watch   == <<watcher, incoming, disconnected>>
vars    == <<inbound, watch, app, messages, expired, mw, error, wire>>

Whole   == 2                                   \* start and body
AppDone == {"returned", "raised", "cancelled"}

Init ==
    /\ toRead = Chunks /\ left = FALSE
    /\ watcher = "receiving" /\ incoming = "empty" /\ disconnected = FALSE
    /\ app = "running" /\ messages = 0
    /\ expired = FALSE
    /\ mw = "waiting" /\ error = "none"
    /\ wire = <<>>

-----------------------------------------------------------------------------
(* The client, the timer and the watcher. *)

ClientLeaves ==
    /\ ~left /\ left' = TRUE
    /\ UNCHANGED <<toRead, watch, app, messages, expired, mw, error, wire>>

Expire ==
    /\ mw = "waiting" /\ ~expired /\ expired' = TRUE
    /\ UNCHANGED <<inbound, watch, app, messages, mw, error, wire>>

(* receive() returns a part of the request; put() waits if the queue is full. *)
WatchRequest ==
    /\ watcher = "receiving" /\ toRead > 0
    /\ toRead' = toRead - 1
    /\ IF incoming = "empty"
       THEN incoming' = "request" /\ UNCHANGED watcher
       ELSE watcher' = "putting" /\ UNCHANGED incoming
    /\ UNCHANGED <<left, disconnected, app, messages, expired, mw, error, wire>>

WatchPut ==
    /\ watcher = "putting" /\ incoming = "empty"
    /\ incoming' = "request" /\ watcher' = "receiving"
    /\ UNCHANGED <<inbound, disconnected, app, messages, expired, mw, error, wire>>

(* receive() returns http.disconnect, which replaces what is in the queue. *)
WatchDisconnect ==
    /\ watcher = "receiving" /\ left /\ toRead = 0
    /\ disconnected' = TRUE /\ incoming' = "disconnect" /\ watcher' = "over"
    /\ UNCHANGED <<inbound, app, messages, expired, mw, error, wire>>

-----------------------------------------------------------------------------
(* The application's task.  Cancelled, it still runs its cleanup: it may    *)
(* answer, raise or end as cancelled, and it may never end.                 *)

AppAlive == app \in {"running", "cancelling"}

AppReceive ==
    /\ AppAlive /\ incoming # "empty"
    /\ incoming' = "empty"
    /\ UNCHANGED <<inbound, watcher, disconnected, app, messages, expired, mw, error, wire>>

(* Faulty: the response is not buffered. *)
AppSendsThrough ==
    /\ AppAlive /\ messages < Whole
    /\ messages' = messages + 1
    /\ wire' = Append(wire, "app")
    /\ UNCHANGED <<inbound, watch, app, expired, mw, error>>

(* collect(): a message of the response goes to the buffer. *)
AppSend ==
    /\ AppAlive /\ messages < Whole
    /\ messages' = messages + 1
    /\ UNCHANGED <<inbound, watch, app, expired, mw, error, wire>>

(* A lookup that shutdown cancels ends the application as cancelled, too. *)
AppEnds ==
    /\ AppAlive
    /\ \/ messages = Whole /\ app' = "returned"
       \/ app' \in {"raised", "cancelled"}
    /\ UNCHANGED <<inbound, watch, messages, expired, mw, error, wire>>

CancelApp == app' = IF app = "running" THEN "cancelling" ELSE app

-----------------------------------------------------------------------------
(* __call__. *)

(* asyncio.wait returns and the application is among the done. *)
WakeDone ==
    /\ mw = "waiting" /\ app \in AppDone
    /\ mw' = IF app = "returned" THEN "relaying" ELSE "joining"
    /\ error' = CASE app = "raised"    -> "raised"
                  [] app = "cancelled" -> "cancelled"
                  [] OTHER             -> "none"
    /\ UNCHANGED <<inbound, watch, app, messages, expired, wire>>

(* Faulty: no answer after a timeout. *)
WakeMute ==
    /\ mw = "waiting" /\ app \notin AppDone
    /\ expired \/ watcher = "over"
    /\ CancelApp
    /\ mw' = "joining"
    /\ UNCHANGED <<inbound, watch, messages, expired, error, wire>>

(* Faulty: the application is not cancelled. *)
WakeSparing ==
    /\ mw = "waiting" /\ app \notin AppDone
    /\ expired \/ watcher = "over"
    /\ mw' = IF disconnected THEN "joining" ELSE "refusing"
    /\ UNCHANGED <<inbound, watch, app, messages, expired, error, wire>>

(* Faulty: the cancelled application is awaited, as asyncio.wait_for does. *)
WakeAwaiting ==
    /\ mw = "waiting" /\ app = "running"
    /\ expired \/ watcher = "over"
    /\ CancelApp
    /\ UNCHANGED <<inbound, watch, messages, expired, mw, error, wire>>

(* Faulty: the watcher is not among what asyncio.wait waits for. *)
WakeLate ==
    /\ mw = "waiting" /\ app \notin AppDone /\ expired
    /\ CancelApp
    /\ mw' = IF disconnected THEN "joining" ELSE "refusing"
    /\ UNCHANGED <<inbound, watch, messages, expired, error, wire>>

(* asyncio.wait returns for the deadline or for the client's departure. *)
WakeUndone ==
    /\ mw = "waiting" /\ app \notin AppDone
    /\ expired \/ watcher = "over"
    /\ CancelApp
    /\ mw' = IF disconnected THEN "joining" ELSE "refusing"
    /\ UNCHANGED <<inbound, watch, messages, expired, error, wire>>

(* What is sent in each state of __call__ and of the error middleware. *)
Author == [relaying |-> "app", refusing |-> "timeout", erring |-> "error"]
After  == [relaying |-> "joining", refusing |-> "joining", erring |-> "over"]

Send ==
    /\ mw \in DOMAIN Author
    /\ wire' = Append(wire, Author[mw])
    /\ mw' = IF Len(wire) + 1 = Whole THEN After[mw] ELSE mw
    /\ UNCHANGED <<inbound, watch, app, messages, expired, error>>

(* Uvicorn cancels the request, in whichever await it is. *)
Cancel ==
    /\ mw \in {"waiting", "relaying", "refusing"}
    /\ mw' = "joining" /\ error' = "cancelled"
    /\ CancelApp
    /\ UNCHANGED <<inbound, watch, messages, expired, wire>>

(* finally: cancel the watcher, wait for it, and return or raise.  The      *)
(* error middleware around answers 500 unless a response was begun.         *)
Join ==
    /\ mw = "joining"
    /\ watcher' = "over"
    /\ mw' = IF error = "raised" /\ wire = <<>> THEN "erring" ELSE "over"
    /\ UNCHANGED <<inbound, incoming, disconnected, app, messages, expired, error, wire>>

Next ==
    \/ ClientLeaves \/ Expire \/ Cancel
    \/ WatchRequest \/ WatchPut \/ WatchDisconnect
    \/ AppReceive \/ AppSend \/ AppEnds
    \/ WakeDone \/ WakeUndone \/ Send \/ Join

(***************************************************************************)
(* The loop runs what is ready.  The application owes nothing: a lookup    *)
(* may hang, and so may its cleanup; the timer need not fire either, since *)
(* what follows from it is stated of runs in which it does.                *)
(***************************************************************************)
Fairness ==
    /\ WF_vars(WatchRequest) /\ WF_vars(WatchPut) /\ WF_vars(WatchDisconnect)
    /\ WF_vars(WakeDone) /\ WF_vars(WakeUndone) /\ WF_vars(Send) /\ WF_vars(Join)

Spec     == Init /\ [][Next]_vars
FairSpec == Spec /\ Fairness

-----------------------------------------------------------------------------
(***************************************************************************)
(* "timeout cannot send a second response after a partially written one":  *)
(* all that reaches the client comes from one author, however late the     *)
(* application fills its buffer, and is never more than one response.  It  *)
(* is a whole one or none when the request is over, unless Uvicorn's own   *)
(* cancellation cut it short; then nothing follows what was sent.          *)
(***************************************************************************)
OneResponse ==
    /\ \A i \in DOMAIN wire : wire[i] = wire[1]
    /\ Len(wire) <= Whole
    /\ mw = "over" /\ error # "cancelled" => Len(wire) \in {0, Whole}

(***************************************************************************)
(* Nobody is left without an answer: when the middleware returns normally  *)
(* or with the application's exception, the client that stayed got a whole *)
(* response.  Only a cancellation from outside may cut it short.           *)
(***************************************************************************)
Answered ==
    mw = "over" /\ error # "cancelled" /\ ~disconnected => Len(wire) = Whole

(* Once the middleware has stopped waiting, nothing works undisturbed for  *)
(* this request any more.                                                  *)
NoOrphanApp == mw # "waiting" => app # "running"

(***************************************************************************)
(* When the budget is used up the middleware answers and returns, even if  *)
(* the application hangs and its cancellation never finishes.              *)
(***************************************************************************)
MeetsDeadline == expired ~> mw = "over"

(***************************************************************************)
(* A departed client's application is stopped without waiting for the      *)
(* deadline, unless a part of the request that the application never reads *)
(* keeps the watcher from receiving the disconnect.                        *)
(***************************************************************************)
DepartureStopsApp == left ~> app # "running" \/ watcher = "putting"
=============================================================================

------------------------------ MODULE Backend ------------------------------
(***************************************************************************)
(* One backend process from startup to exit: the lifespan of src/server.py *)
(* with the lookup supervisor and the background warm-up it creates, wired *)
(* as the source wires them: on_active pauses the warm-up, on_idle resumes *)
(* it.  SIGTERM may arrive at any moment; Uvicorn then drains the accepted *)
(* requests until a deadline of its own and runs the teardown.  /health is *)
(* one handler that suspends between its two looks at the readiness.       *)
(* Required initialization comes first: module Startup.                    *)
(***************************************************************************)
EXTENDS Integers, FiniteSets

CONSTANTS Requests, Active, MaxQueued, Prewarms, Fallible, Required

ASSUME PrewarmAssumption == Fallible \subseteq Prewarms
ASSUME LookupAssumption ==
    IsFiniteSet(Requests) /\ Active \in Nat \ {0} /\ MaxQueued \in Nat

VARIABLES
    pc, ahead, value, queued, work, lookupsClosing,           \* app.state.lookups
    paused, warmupClosing, completed, task, prewarm, callback, \* app.state.warmup
    stage, child, gather, noticed,   \* inside _prewarm_with_shutdown
    phase,      \* how far lifespan has come
    ready,      \* app.state.ready
    shutdown,   \* _shutdown_event.is_set()
    health      \* the /health handler: idle, asking the node, its last answer

lookups == <<pc, ahead, value, queued, work, lookupsClosing>>
warmup  == <<paused, warmupClosing, completed, task, prewarm, callback>>
startup == <<stage, child, gather, noticed>>
server  == <<phase, ready, shutdown, startup>>
vars    == <<lookups, warmup, server, health>>

L == INSTANCE LookupSupervisor WITH closing <- lookupsClosing
W == INSTANCE BackgroundWarmup WITH closing <- warmupClosing
S == INSTANCE Startup

(***************************************************************************)
(* starting: required initialization; serving: after the yield; draining:  *)
(* Uvicorn has seen the signal; lookups, warmup: inside lookups.close(),   *)
(* inside warmup.close(); exited: after close_cache().                     *)
(***************************************************************************)
Phases == {"starting", "serving", "draining", "lookups", "warmup", "exited"}

Init ==
    /\ L!Init /\ W!Init /\ S!Init
    /\ phase = "starting" /\ ready = FALSE /\ shutdown = FALSE
    /\ health = "idle"

-----------------------------------------------------------------------------
(* Lookups.  run() calls on_active when it starts a task. *)

(* Faulty: nobody tells the warm-up. *)
AdmitSilently(r) ==
    /\ phase # "starting"
    /\ L!StartAtOnce(r) \/ L!StartWoken(r)
    /\ UNCHANGED <<warmup, server, health>>

Admit(r) ==
    /\ phase # "starting"
    /\ L!StartAtOnce(r) \/ L!StartWoken(r)
    /\ W!Pause
    /\ UNCHANGED <<server, health>>

(* Steps of the supervisor that call nobody. *)
Quiet(r) ==
    /\ phase # "starting"
    /\ \/ L!Enqueue(r) \/ L!Decline(r) \/ L!Cancel(r) \/ L!Abort(r) \/ L!EndWork(r)
    /\ UNCHANGED <<warmup, server, health>>

(* What the signal handler does, the warm-up aside. *)
SignalServer ==
    /\ shutdown' = TRUE
    /\ ready' = FALSE
    /\ phase' = IF phase = "serving" THEN "draining" ELSE phase
    /\ UNCHANGED startup

(* Faulty: only a finished task looks whether the backend is idle. *)
DepartUnnoticed(r) ==
    /\ \/ (L!Leave(r) \/ L!GiveBack(r)) /\ UNCHANGED <<warmup, server>>
       \/ L!Collect(r) /\ L!Idle' /\ W!Resume /\ UNCHANGED server
       \/ L!Collect(r) /\ ~L!Idle' /\ UNCHANGED <<warmup, server>>
    /\ UNCHANGED health

(* Steps that end in _resume_when_idle; the signal may hit resume() there. *)
Depart(r) ==
    /\ L!Leave(r) \/ L!GiveBack(r) \/ L!Collect(r)
    /\ \/ L!Idle' /\ W!Resume /\ UNCHANGED server
       \/ L!Idle' /\ W!ResumePreempted /\ SignalServer
       \/ ~L!Idle' /\ UNCHANGED <<warmup, server>>
    /\ UNCHANGED health

-----------------------------------------------------------------------------
(* The warm-up task on the loop. *)

WarmupStep ==
    /\ \/ W!Begin \/ W!AbortGroup \/ W!End \/ W!Finished
       \/ \E p \in Prewarms, how \in {"over", "failed"} : W!EndPrewarm(p, how)
    /\ UNCHANGED <<lookups, server, health>>

WarmupPreempted ==
    /\ W!FinishedPreempted /\ SignalServer
    /\ UNCHANGED <<lookups, health>>

-----------------------------------------------------------------------------
(* Lifespan. *)

StartupStep ==
    /\ phase = "starting" /\ S!Step
    /\ UNCHANGED <<lookups, warmup, phase, ready, health>>

(* Required initialization has succeeded and no signal came: the test of    *)
(* _shutdown_event.                                                         *)
MayServe == phase = "starting" /\ S!Joined /\ stage = "ok" /\ ~shutdown

(* Create and start the warm-up, become ready; nothing is awaited before    *)
(* the yield.                                                               *)
StartupDone ==
    /\ MayServe
    /\ W!Resume
    /\ phase' = "serving" /\ ready' = TRUE
    /\ UNCHANGED <<lookups, shutdown, startup, health>>

(***************************************************************************)
(* The signal comes between the test and the yield.  The handler finds no  *)
(* warm-up yet, or one inside or after resume(); ready is set all the same.*)
(***************************************************************************)
StartupPreempted ==
    /\ MayServe
    /\ \/ W!Resume
       \/ W!ResumePreempted
       \/ /\ paused' = TRUE /\ warmupClosing' = TRUE /\ task' = "doomed"
          /\ UNCHANGED <<completed, prewarm, callback>>
    /\ phase' = "draining" /\ ready' = TRUE /\ shutdown' = TRUE
    /\ UNCHANGED <<lookups, startup, health>>

(* Connecting fails, a required prewarm has failed, or the signal came. *)
StartupFails ==
    /\ phase = "starting"
    /\ stage = "connecting" \/ (S!Joined /\ ~MayServe)
    /\ L!Close
    /\ phase' = "exited"
    /\ UNCHANGED <<warmup, ready, shutdown, startup, health>>

(* Faulty: the handler closes the supervisor, too. *)
SignalClosing ==
    /\ phase # "exited"
    /\ SignalServer
    /\ L!Close
    /\ IF phase = "starting" THEN UNCHANGED warmup ELSE W!Cancel
    /\ UNCHANGED health

Signal ==
    /\ phase # "exited"
    /\ SignalServer
    /\ IF phase = "starting" THEN UNCHANGED warmup ELSE W!Cancel
    /\ UNCHANGED <<lookups, health>>

(* Faulty: the supervisor is not closed. *)
CloseNothing ==
    /\ phase = "draining"
    /\ phase' = "lookups" /\ ready' = FALSE
    /\ UNCHANGED <<lookups, warmup, shutdown, startup, health>>

(* The drain is over or its deadline has passed: lookups.close() begins. *)
CloseLookups ==
    /\ phase = "draining"
    /\ L!Close
    /\ phase' = "lookups" /\ ready' = FALSE
    /\ UNCHANGED <<warmup, shutdown, startup, health>>

(* Faulty: the signal handler is trusted to have cancelled the warm-up. *)
CloseTrusting ==
    /\ phase = "lookups"
    /\ phase' = "warmup"
    /\ UNCHANGED <<lookups, warmup, ready, shutdown, startup, health>>

(* lookups.close() returns, its tasks done or not within five seconds. *)
CloseWarmup ==
    /\ phase = "lookups"
    /\ W!Cancel
    /\ phase' = "warmup"
    /\ UNCHANGED <<lookups, ready, shutdown, startup, health>>

(* warmup.close() returns, its task done or not within five seconds. *)
Exit ==
    /\ phase = "warmup"
    /\ phase' = "exited"
    /\ UNCHANGED <<lookups, warmup, ready, shutdown, startup, health>>

-----------------------------------------------------------------------------
(* /health. *)

IsReady == ready /\ ~shutdown

HealthAsk ==
    /\ health # "asking"
    /\ health' = IF IsReady THEN "asking" ELSE "unavailable"
    /\ UNCHANGED <<lookups, warmup, server>>

(* Faulty: readiness is not looked at again. *)
ReadyAsBefore == TRUE

(* The node has answered, or five seconds passed: look at readiness again. *)
StillReady == IsReady

HealthAnswer ==
    /\ health = "asking"
    /\ \/ health' = "unhealthy"
       \/ health' = IF StillReady THEN "ok" ELSE "unavailable"
    /\ UNCHANGED <<lookups, warmup, server>>

Next ==
    \/ \E r \in Requests : Admit(r) \/ Quiet(r) \/ Depart(r)
    \/ WarmupStep \/ WarmupPreempted
    \/ StartupStep \/ StartupDone \/ StartupPreempted \/ StartupFails
    \/ Signal \/ CloseLookups \/ CloseWarmup \/ Exit
    \/ HealthAsk \/ HealthAnswer

(***************************************************************************)
(* Fairness: that of the parts, and Uvicorn and lifespan go through the    *)
(* teardown, every wait of which is bounded.  Connecting and the required  *)
(* prewarms may last for ever, but a cancelled prewarm ends.               *)
(***************************************************************************)
Fairness ==
    /\ \A r \in Requests :
          /\ WF_vars(L!StartWoken(r) /\ Admit(r))
          /\ WF_vars((L!Decline(r) \/ L!Abort(r)) /\ Quiet(r))
          /\ WF_vars(pc[r] = "running" /\ L!Cancel(r) /\ Quiet(r))
          /\ WF_vars(work[r] = "cancelling" /\ L!EndWork(r) /\ Quiet(r))
          /\ WF_vars(Depart(r))
    /\ WF_vars((W!Begin \/ W!AbortGroup \/ W!End \/ W!Finished) /\ WarmupStep)
    /\ \A p \in Prewarms :
          WF_vars(prewarm[p] = "stopping" /\ W!EndPrewarm(p, "over") /\ WarmupStep)
    /\ WF_vars((S!Gather \/ S!Notice \/ S!Wake) /\ StartupStep)
    /\ \A c \in Required :
          WF_vars(child[c] = "stopping" /\ S!EndChild(c, "stopped") /\ StartupStep)
    /\ WF_vars(S!Joined /\ StartupFails)
    /\ WF_vars(CloseLookups) /\ WF_vars(CloseWarmup) /\ WF_vars(Exit)

Spec     == Init /\ [][Next]_vars
FairSpec == Spec /\ Fairness

-----------------------------------------------------------------------------
(* Types of the variables. *)
TypeOK ==
    /\ L!TypeOK /\ W!TypeOK /\ S!TypeOK
    /\ phase \in Phases
    /\ {ready, shutdown} \subseteq BOOLEAN
    /\ health \in {"idle", "asking", "ok", "unhealthy", "unavailable"}

(***************************************************************************)
(* "A required initialization failure or shutdown signal aborts startup"   *)
(* (README.md:44): a process that goes on to serve has all it requires,    *)
(* and no required prewarm outlives startup, however it ends.              *)
(***************************************************************************)
StartupSettled ==
    /\ phase # "starting" => \A c \in Required : child[c] \notin S!Live
    /\ phase \notin {"starting", "exited"} \/ ready => \A c \in Required : child[c] = "done"

(* ... and the signal does so though a prewarm hangs, once the tasks exist. *)
SignalAbortsStartup == shutdown /\ phase = "starting" /\ stage # "connecting" ~> phase = "exited"

(***************************************************************************)
(* "Optional warmup yields while owned foreground lookups run": as long as *)
(* any lookup task exists, one still cleaning up after its cancellation    *)
(* included, the warm-up is not running undisturbed; also while the        *)
(* process drains and is torn down.  The task that a signal inside         *)
(* resume() leaves behind (BackgroundWarmup) is created when no lookup     *)
(* exists, and the next one that is admitted pauses it.                    *)
(***************************************************************************)
WarmupYields == L!Tasks # {} => task \notin W!Untouched

(***************************************************************************)
(* "... and resumes when the last active or queued lookup finishes": an    *)
(* idle backend never sits with a paused warm-up, in whatever order        *)
(* lookups end, are cancelled in the line or give their permit back.       *)
(***************************************************************************)
IdleMeansResumed ==
    phase = "serving" /\ L!Tasks = {} /\ queued = 0 => ~paused

(***************************************************************************)
(* ... and is not forgotten: a resumed warm-up that is not over has a task *)
(* that runs or still cleans up after the pause, or a callback to come     *)
(* that will start it again, also if it was resumed while it cleaned up.   *)
(***************************************************************************)
ResumeRemembered == phase \in {"serving", "draining"} => W!ResumeRemembered

(* In a backend that stays idle the warm-up runs in the end, or is over.   *)
IdleMeansWarming ==
    <>[](phase = "serving" /\ L!Tasks = {} /\ queued = 0) => <>[](task = "live" \/ completed)

(***************************************************************************)
(* Accepted requests survive the signal: up to lifespan's teardown only a  *)
(* request that has itself been cancelled takes its lookup with it, and no *)
(* request that is handed a permit gives it back undone.                   *)
(***************************************************************************)
DrainKeepsLookups ==
    [][phase' \in {"serving", "draining"} =>
          \A r \in Requests :
              /\ work[r] = "active" /\ work'[r] = "cancelling" => pc[r] = "aborting"
              /\ pc[r] = "woken" => pc'[r] # "idle"]_vars

(* /health says ok only of a process that, when it answers, has started,   *)
(* has not been signalled and has not begun its teardown, though the node  *)
(* was asked in between.                                                   *)
HealthyMeansServing ==
    [][health' = "ok" /\ health # "ok" => phase = "serving" /\ ~shutdown]_vars

(* When the process leaves lifespan, nothing it owns runs undisturbed.     *)
ExitIsQuiet ==
    phase = "exited" =>
        task \notin W!Untouched /\ \A r \in Requests : work[r] # "active"

(* The signal leads to a process that owns no running work at all, though  *)
(* lookups may still be admitted while it drains.                          *)
ShutdownQuiesces == shutdown ~> L!Tasks = {} /\ L!Line = {} /\ task \in W!Done

=============================================================================

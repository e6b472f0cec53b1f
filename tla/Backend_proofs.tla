---------------------------- MODULE Backend_proofs ----------------------------
(***************************************************************************)
(* Safety of a whole backend process, for every number of requests, every  *)
(* capacity and every set of prewarms.  The supervisor's part is taken     *)
(* over from LookupSupervisor_proofs: the backend only takes steps of L.   *)
(* Above it the invariant has one part for the phases of lifespan, one for *)
(* required initialization, and one for the warm-up, whose steps are       *)
(* sorted by what they mean for it (StepKinds) before their effect on      *)
(* yielding and resuming is looked at.                                     *)
(***************************************************************************)
EXTENDS Backend, TLAPS

LP == INSTANCE LookupSupervisor_proofs WITH closing <- lookupsClosing

-----------------------------------------------------------------------------
(* The lookup supervisor inside the backend. *)

(* The assumptions of LookupSupervisor hold. *)
LEMMA Capacities == LP!IsFiniteSet(Requests) /\ Active \in Nat \ {0} /\ MaxQueued \in Nat
  BY LookupAssumption DEF LP!IsFiniteSet, IsFiniteSet

(* L and LP are instances of one module. *)
LEMMA SameInit == L!Init => LP!Init
  BY DEF L!Init, LP!Init

(* Instantiation renames what LookupSupervisor extends. *)
LEMMA SameCardinality == \A E : L!Cardinality(E) = LP!Cardinality(E)
  BY DEF L!Cardinality, LP!Cardinality

(* The state functions of both instances agree, *)
LEMMA SameSets ==
    /\ L!Line = LP!Line /\ L!Waiting = LP!Waiting /\ L!Refuses = LP!Refuses /\ L!Locked = LP!Locked
    /\ L!InDeque = LP!InDeque /\ L!Granted = LP!Granted
  BY DEF L!Line, LP!Line, L!Waiting, LP!Waiting, L!InDeque, LP!InDeque, L!Granted, LP!Granted,
         L!Refuses, LP!Refuses, L!Locked, LP!Locked

(* so does the end of a suspended acquire(), *)
LEMMA SameLeaveLine ==
    ASSUME NEW r \in Requests, NEW at, NEW v, L!LeaveLine(r, at, v)
    PROVE  LP!LeaveLine(r, at, v)
  BY SameCardinality, SameSets DEF L!LeaveLine, LP!LeaveLine, L!WakeUp, LP!WakeUp, L!Unlink, LP!Unlink

(* and whose turn it is. *)
LEMMA SameTurn == ASSUME NEW r \in Requests PROVE L!MyTurn(r) <=> LP!MyTurn(r)
  BY SameSets DEF L!MyTurn, LP!MyTurn, L!FirstOf, LP!FirstOf

(* A step of one is a step of the other. *)
LEMMA SameNext == [L!Next]_(L!vars) => [LP!Next]_(LP!vars)
  <1> SUFFICES ASSUME [L!Next]_(L!vars) PROVE [LP!Next]_(LP!vars)
    OBVIOUS
  <1>1. ASSUME NEW r \in Requests, L!StartAtOnce(r) PROVE LP!StartAtOnce(r)
    BY <1>1, SameSets DEF L!StartAtOnce, LP!StartAtOnce
  <1>2. ASSUME NEW r \in Requests, L!Enqueue(r) PROVE LP!Enqueue(r)
    BY <1>2, SameSets DEF L!Enqueue, LP!Enqueue, L!Append, LP!Append
  <1>3. ASSUME NEW r \in Requests, L!Cancel(r) PROVE LP!Cancel(r)
    BY <1>3 DEF L!Cancel, LP!Cancel, L!CancelledAt, LP!CancelledAt
  <1>4. ASSUME NEW r \in Requests, L!StartWoken(r) PROVE LP!StartWoken(r)
    BY <1>4, SameLeaveLine, SameTurn DEF L!StartWoken, LP!StartWoken
  <1>5. ASSUME NEW r \in Requests, L!Decline(r) PROVE LP!Decline(r)
    BY <1>5, SameLeaveLine, SameTurn DEF L!Decline, LP!Decline
  <1>6. ASSUME NEW r \in Requests, L!Leave(r) PROVE LP!Leave(r)
    BY <1>6, SameLeaveLine DEF L!Leave, LP!Leave
  <1>7. ASSUME NEW r \in Requests, L!GiveBack(r) PROVE LP!GiveBack(r)
    BY <1>7, SameLeaveLine, SameTurn DEF L!GiveBack, LP!GiveBack
  <1>8. ASSUME NEW r \in Requests, L!Abort(r) PROVE LP!Abort(r)
    BY <1>8 DEF L!Abort, LP!Abort
  <1>9. ASSUME NEW r \in Requests, L!EndWork(r) PROVE LP!EndWork(r)
    BY <1>9 DEF L!EndWork, LP!EndWork
  <1>10. ASSUME NEW r \in Requests, L!Collect(r) PROVE LP!Collect(r)
    BY <1>10, SameSets DEF L!Collect, LP!Collect, L!Release, LP!Release, L!FirstOf, LP!FirstOf
  <1>11. L!Close => LP!Close
    BY DEF L!Close, LP!Close
  <1>12. UNCHANGED L!vars => UNCHANGED LP!vars
    BY DEF L!vars, LP!vars
  <1> QED
    BY <1>1, <1>2, <1>3, <1>4, <1>5, <1>6, <1>7, <1>8, <1>9, <1>10, <1>11, <1>12
       DEF L!Next, LP!Next
-----------------------------------------------------------------------------
(* The backend drives its supervisor only through the steps that            *)
(* LookupSupervisor allows, so all that is proved of them holds here.       *)

(* A step of one request, of the closing, or none. *)
LEMMA LookupStep ==
    [Next]_vars =>
        \/ \E r \in Requests :
              \/ L!StartAtOnce(r) \/ L!StartWoken(r) \/ L!Enqueue(r) \/ L!Decline(r)
              \/ L!Cancel(r) \/ L!Abort(r) \/ L!EndWork(r)
              \/ L!Leave(r) \/ L!GiveBack(r) \/ L!Collect(r)
        \/ L!Close \/ UNCHANGED lookups
  BY DEF Next, Admit, Quiet, Depart, WarmupStep, WarmupPreempted, StartupStep, StartupDone,
         StartupPreempted, StartupFails, Signal, CloseLookups, CloseWarmup, Exit,
         HealthAsk, HealthAnswer, vars

(* The invariant of the supervisor is one of the backend. *)
LEMMA LookupsInv == Spec => []LP!IInv
  <1>1. Init => LP!IInv
    BY SameInit, LP!InitIInv, Capacities DEF Init
  <1>2. [Next]_vars => [L!Next]_(L!vars)
    BY LookupStep DEF L!Next, L!vars, lookups
  <1>3. LP!IInv /\ [Next]_vars => LP!IInv'
    BY <1>2, SameNext, LP!NextIInv, Capacities
  <1> QED
    BY <1>1, <1>3, PTL DEF Spec

(* Admitting leaves a task behind, and happens only before the closing. *)
LEMMA AdmitEffect ==
    ASSUME LP!IInv, NEW r \in Requests, L!StartAtOnce(r) \/ L!StartWoken(r)
    PROVE  L!Tasks' # {} /\ ~lookupsClosing /\ lookupsClosing' = lookupsClosing
  BY DEF L!StartAtOnce, L!StartWoken, L!Refuses, L!Tasks, LP!IInv, LP!Typed

(* The steps that call nobody keep the tasks and do not make the line empty. *)
LEMMA QuietEffect ==
    ASSUME LP!IInv, NEW r \in Requests,
           L!Enqueue(r) \/ L!Decline(r) \/ L!Cancel(r) \/ L!Abort(r) \/ L!EndWork(r)
    PROVE  /\ L!Tasks' = L!Tasks /\ lookupsClosing' = lookupsClosing
           /\ lookupsClosing \/ (queued' = 0 => queued = 0)
  <1>1. queued \in Nat /\ work \in [Requests -> {"none", "active", "cancelling", "ended"}]
    BY Capacities DEF LP!IInv, LP!Typed
  <1>2. CASE L!Enqueue(r) \/ L!Decline(r) \/ L!Cancel(r)
    BY <1>1, <1>2 DEF L!Enqueue, L!Decline, L!Cancel, L!Tasks
  <1>3. CASE L!Abort(r) \/ L!EndWork(r)
    BY <1>1, <1>3 DEF L!Abort, L!EndWork, L!Tasks
  <1> QED
    BY <1>2, <1>3

(* Those that end in _resume_when_idle add no task. *)
LEMMA DepartEffect ==
    ASSUME LP!IInv, NEW r \in Requests, L!Leave(r) \/ L!GiveBack(r) \/ L!Collect(r)
    PROVE  L!Tasks' \subseteq L!Tasks /\ lookupsClosing' = lookupsClosing
  BY DEF L!Leave, L!GiveBack, L!Collect, L!Tasks, LP!IInv, LP!Typed

(* Closing cancels tasks, but keeps them. *)
LEMMA CloseEffect ==
    ASSUME LP!IInv, L!Close
    PROVE  L!Tasks' = L!Tasks /\ lookupsClosing' = TRUE /\ queued' = queued
  BY DEF L!Close, L!Tasks, LP!IInv, LP!Typed

(* Nothing happens to the supervisor. *)
LEMMA UnchangedEffect ==
    ASSUME UNCHANGED lookups
    PROVE  L!Tasks' = L!Tasks /\ lookupsClosing' = lookupsClosing /\ queued' = queued
  BY DEF lookups, L!Tasks

-----------------------------------------------------------------------------
(* The warm-up inside the backend. *)

(* Types of the warm-up's variables, as far as they matter here. *)
WarmTyped ==
    /\ paused \in BOOLEAN /\ warmupClosing \in BOOLEAN /\ completed \in BOOLEAN
    /\ task \in W!States
    /\ callback \in {"none"} \cup W!Outcomes

(* What the signal handler leaves when it comes before there is a task. *)
Doomed ==
    /\ paused' = TRUE /\ warmupClosing' = TRUE /\ task' = "doomed"
    /\ UNCHANGED <<completed, prewarm, callback>>

(* The steps of the warm-up that others cause, and those of its own. *)
Told == W!Pause \/ W!Resume \/ W!Cancel \/ W!ResumePreempted \/ Doomed
Own  == W!Begin \/ W!AbortGroup \/ W!End \/ W!Finished
           \/ \E p \in Prewarms, how \in {"over", "failed"} : W!EndPrewarm(p, how)

(* A resumed warm-up is remembered by every step. *)
LEMMA WarmupRemembers ==
    ASSUME WarmTyped, W!ResumeRemembered,
           Told \/ Own \/ W!FinishedPreempted \/ UNCHANGED warmup
    PROVE  WarmTyped' /\ W!ResumeRemembered'
  <1> USE DEF WarmTyped, W!ResumeRemembered, W!States, W!Done, W!Outcomes, W!Untouched
  <1>1. CASE W!Pause \/ W!Cancel \/ Doomed
    BY <1>1 DEF W!Pause, W!Cancel, Doomed, W!CancelTask
  <1>2. CASE W!Resume
    BY <1>2 DEF W!Resume, W!StartOrComplete, W!MayGoOn
  <1>3. CASE W!ResumePreempted \/ W!FinishedPreempted
    BY <1>3 DEF W!ResumePreempted, W!FinishedPreempted, W!StartPreempted
  <1>4. CASE W!Begin \/ W!AbortGroup
    BY <1>4 DEF W!Begin, W!AbortGroup
  <1>5. CASE W!End
    BY <1>5 DEF W!End, W!Outcome
  <1>6. CASE W!Finished
    BY <1>6 DEF W!Finished, W!StartOrComplete, W!MayGoOn
  <1>7. CASE \E p \in Prewarms, how \in {"over", "failed"} : W!EndPrewarm(p, how)
    BY <1>7 DEF W!EndPrewarm
  <1>8. CASE UNCHANGED warmup
    BY <1>8 DEF warmup
  <1> QED
    BY <1>1, <1>2, <1>3, <1>4, <1>5, <1>6, <1>7, <1>8 DEF Told, Own

(* Nobody but resume() and the signal inside it set an untouched task up,   *)
(* unless the warm-up is wanted.                                            *)
LEMMA OwnEffect ==
    ASSUME WarmTyped, Own
    PROVE  /\ paused' = paused /\ warmupClosing' = warmupClosing
           /\ task' \in W!Untouched => task \in W!Untouched \/ ~(paused \/ warmupClosing)
           /\ task = "absent" /\ callback = "none" => task' = "absent" /\ callback' = "none"
  <1> USE DEF WarmTyped, W!States, W!Done, W!Outcomes, W!Untouched
  <1>1. CASE W!Begin \/ W!AbortGroup
    BY <1>1 DEF W!Begin, W!AbortGroup
  <1>2. CASE W!End
    BY <1>2 DEF W!End, W!Outcome
  <1>3. CASE W!Finished
    BY <1>3 DEF W!Finished, W!StartOrComplete, W!MayGoOn
  <1>4. CASE \E p \in Prewarms, how \in {"over", "failed"} : W!EndPrewarm(p, how)
    BY <1>4 DEF W!EndPrewarm
  <1> QED
    BY <1>1, <1>2, <1>3, <1>4 DEF Own

(* A warm-up that is told to stop is not left untouched. *)
LEMMA StopEffect ==
    ASSUME WarmTyped, W!Pause \/ W!Cancel
    PROVE  /\ paused' = TRUE /\ task' \notin W!Untouched /\ callback' = callback
           /\ W!Cancel => warmupClosing' = TRUE
           /\ W!Pause => warmupClosing' = warmupClosing
  BY DEF WarmTyped, W!States, W!Done, W!Outcomes, W!Untouched, W!Pause, W!Cancel, W!CancelTask

-----------------------------------------------------------------------------
(* The invariant. *)

(* No request has come yet. *)
Unvisited == \A r \in Requests : pc[r] = "idle" /\ work[r] = "none"

(* Where the process is, and what must have been done by then. *)
Phased ==
    /\ phase \in Phases /\ ready \in BOOLEAN /\ shutdown \in BOOLEAN
    /\ phase = "starting" => /\ ~ready /\ Unvisited /\ ~warmupClosing
                             /\ task = "absent" /\ callback = "none"
    /\ phase = "serving" => ~shutdown
    /\ phase \in {"draining", "lookups", "warmup"} => shutdown
    /\ ready => phase \in {"serving", "draining"}
    /\ lookupsClosing <=> phase \in {"lookups", "warmup", "exited"}
    /\ phase \in {"warmup", "exited"} =>
          /\ task \notin W!Untouched
          /\ warmupClosing \/ (task = "absent" /\ callback = "none")

(* How far required initialization is. *)
Started ==
    /\ child \in [Required -> S!Live \cup {"absent", "done", "failed", "stopped"}]
    /\ gather \in {"running", "ok", "failed"}
    /\ stage = "connecting" => gather = "running" /\ \A c \in Required : child[c] = "absent"
    /\ gather = "ok" \/ stage = "ok" => \A c \in Required : child[c] = "done"
    /\ StartupSettled

(* The warm-up yields to lookups and resumes after them. *)
Warm ==
    /\ WarmTyped /\ W!ResumeRemembered
    /\ L!Tasks # {} => paused /\ task \notin W!Untouched
    /\ IdleMeansResumed

(* The invariant holds initially. *)
LEMMA InitIInv == Init => Phased /\ Started /\ Warm
  <1> SUFFICES ASSUME Init PROVE Phased /\ Started /\ Warm
    OBVIOUS
  <1>1. L!Tasks = {} /\ lookupsClosing = FALSE /\ Unvisited
    BY DEF Init, L!Init, L!Tasks, Unvisited
  <1> USE DEF Init, W!Init, W!Done, W!States, W!Outcomes, W!Untouched
  <1>2. Phased
    BY <1>1 DEF Phased, Phases
  <1>3. Started
    BY DEF Started, StartupSettled, S!Init, S!Live
  <1>4. Warm
    BY <1>1 DEF Warm, WarmTyped, W!ResumeRemembered, IdleMeansResumed
  <1> QED
    BY <1>2, <1>3, <1>4

-----------------------------------------------------------------------------
(* What the steps of the whole process do. *)

(* The signal comes while the process starts, serves or is on its way out. *)
LEMMA SignalEffect ==
    ASSUME Phased, SignalServer
    PROVE  /\ ready' = FALSE /\ shutdown' = TRUE
           /\ phase' = phase \/ (phase = "serving" /\ phase' = "draining")
           /\ phase' # "serving" /\ UNCHANGED startup
  BY DEF Phased, Phases, SignalServer

(* A lookup that ends resumes the warm-up only of an open backend. *)
LEMMA DepartCases ==
    ASSUME LP!IInv, Phased, NEW r \in Requests, Depart(r)
    PROVE  /\ phase # "starting" /\ L!Tasks' \subseteq L!Tasks /\ lookupsClosing' = lookupsClosing
           /\ \/ UNCHANGED <<warmup, server>> /\ (lookupsClosing \/ L!Tasks' # {} \/ queued' # 0)
              \/ /\ phase \in {"serving", "draining"} /\ L!Tasks' = {}
                 /\ W!Resume /\ UNCHANGED server
              \/ /\ phase \in {"serving", "draining"} /\ L!Tasks' = {}
                 /\ W!ResumePreempted /\ SignalServer
  <1>1. L!Tasks' \subseteq L!Tasks /\ lookupsClosing' = lookupsClosing
    BY DepartEffect DEF Depart
  <1>2. phase # "starting"
    BY DEF Depart, L!Leave, L!GiveBack, L!Collect, Phased, Unvisited
  <1>3. ~lookupsClosing => phase \in {"serving", "draining"}
    BY <1>2 DEF Phased, Phases
  <1> QED
    BY <1>1, <1>2, <1>3 DEF Depart, L!Idle

(* What is true of the phases stays true. *)
LEMMA PhasedStep == ASSUME LP!IInv, Phased, Warm, [Next]_vars PROVE Phased'
  <1>0. WarmTyped
    BY DEF Warm
  <1> USE DEF Phased, Phases
  <1>1. ASSUME NEW r \in Requests, Admit(r) PROVE Phased'
    <2>1. lookupsClosing' = lookupsClosing /\ ~lookupsClosing
      BY <1>1, AdmitEffect DEF Admit
    <2> QED
      BY <1>1, <2>1 DEF Admit, server
  <1>2. ASSUME NEW r \in Requests, Quiet(r) PROVE Phased'
    <2>1. lookupsClosing' = lookupsClosing
      BY <1>2, QuietEffect DEF Quiet
    <2> QED
      BY <1>2, <2>1 DEF Quiet, server, warmup
  <1>3. ASSUME NEW r \in Requests, Depart(r) PROVE Phased'
    <2>1. /\ phase # "starting" /\ lookupsClosing' = lookupsClosing
          /\ \/ UNCHANGED <<warmup, server>>
             \/ phase \in {"serving", "draining"} /\ UNCHANGED server
             \/ phase \in {"serving", "draining"} /\ SignalServer
      BY <1>3, DepartCases
    <2>2. CASE UNCHANGED <<warmup, server>>
      BY <2>1, <2>2 DEF server, warmup
    <2>3. CASE phase \in {"serving", "draining"} /\ UNCHANGED server
      BY <2>1, <2>3 DEF server
    <2>4. CASE phase \in {"serving", "draining"} /\ SignalServer
      BY <2>1, <2>4, SignalEffect
    <2> QED
      BY <2>1, <2>2, <2>3, <2>4
  <1>4. CASE WarmupStep
    <2>1. Own /\ UNCHANGED <<lookups, server>>
      BY <1>4 DEF WarmupStep, Own
    <2> QED
      BY <1>0, <2>1, OwnEffect DEF lookups, server, Unvisited
  <1>5. CASE WarmupPreempted
    <2>1. /\ callback = "cancelled" /\ ~warmupClosing
          /\ UNCHANGED lookups /\ SignalServer
      BY <1>5 DEF WarmupPreempted, W!FinishedPreempted, W!StartPreempted, W!MayGoOn
    <2> QED
      BY <2>1, SignalEffect DEF lookups
  <1>6. CASE StartupStep \/ StartupDone \/ StartupPreempted
    <2>1. /\ phase = "starting" /\ UNCHANGED lookups
          /\ \/ UNCHANGED <<warmup, phase, ready, shutdown>>
             \/ phase' = "serving" /\ ready' = TRUE /\ ~shutdown /\ UNCHANGED shutdown
             \/ phase' = "draining" /\ ready' = TRUE /\ shutdown' = TRUE
      BY <1>6 DEF StartupStep, StartupDone, StartupPreempted, MayServe, S!Step, S!Enter, S!Gather,
                  S!Notice, S!Wake, S!EndChild
    <2>2. CASE UNCHANGED <<warmup, phase, ready, shutdown>>
      BY <2>1, <2>2 DEF lookups, warmup, Unvisited
    <2>3. CASE phase' # phase
      <3>1. lookupsClosing' = lookupsClosing /\ ready' = TRUE /\ shutdown' \in BOOLEAN
        BY <2>1, <2>3 DEF lookups
      <3>2. phase' = "draining" \/ (phase' = "serving" /\ ~shutdown')
        BY <2>1, <2>3
      <3> QED
        BY <2>1, <3>1, <3>2
    <2> QED
      BY <2>1, <2>2, <2>3
  <1>7. CASE StartupFails
    <2>1. lookupsClosing' = TRUE
      BY <1>7, CloseEffect DEF StartupFails
    <2> QED
      BY <1>7, <2>1 DEF StartupFails, warmup, W!Untouched
  <1>8. CASE Signal
    <2>1. UNCHANGED lookups /\ SignalServer /\ phase # "exited"
          /\ IF phase = "starting" THEN UNCHANGED warmup ELSE W!Cancel
      BY <1>8 DEF Signal
    <2>2. CASE phase = "starting"
      BY <2>1, <2>2, SignalEffect DEF lookups, warmup, Unvisited
    <2>3. CASE phase # "starting"
      BY <1>0, <2>1, <2>3, SignalEffect, StopEffect DEF lookups
    <2> QED
      BY <2>2, <2>3
  <1>9. CASE CloseLookups
    BY <1>9, CloseEffect DEF CloseLookups, warmup
  <1>10. CASE CloseWarmup
    BY <1>0, <1>10, StopEffect DEF CloseWarmup, lookups
  <1>11. CASE Exit \/ HealthAsk \/ HealthAnswer \/ UNCHANGED vars
    BY <1>11 DEF Exit, HealthAsk, HealthAnswer, vars, lookups, warmup, server, Unvisited
  <1> QED
    BY <1>1, <1>2, <1>3, <1>4, <1>5, <1>6, <1>7, <1>8, <1>9, <1>10, <1>11 DEF Next

(* Required initialization settles. *)
LEMMA StartedStep == ASSUME LP!IInv, Phased, Started, [Next]_vars PROVE Started'
  <1>1. CASE StartupStep
    <2> USE <1>1 DEF StartupStep, Started, StartupSettled, Phased
    <2>1. CASE S!Enter
      BY <2>1 DEF S!Enter, S!Live
    <2>2. CASE S!Gather \/ S!Notice
      BY <2>2 DEF S!Gather, S!Notice
    <2>3. CASE S!Wake
      BY <2>3 DEF S!Wake, S!CancelChildren, S!Live
    <2>4. ASSUME NEW c \in Required, NEW how \in {"done", "failed", "stopped"}, S!EndChild(c, how)
          PROVE  Started'
      BY <2>4 DEF S!EndChild, S!Live
    <2> QED
      BY <2>1, <2>2, <2>3, <2>4 DEF S!Step
  <1>2. CASE StartupDone \/ StartupPreempted
    BY <1>2 DEF StartupDone, StartupPreempted, MayServe, startup, Started, StartupSettled, S!Live
  <1>3. CASE StartupFails
    BY <1>3 DEF StartupFails, startup, S!Joined, S!Outcomes, Started, StartupSettled, S!Live, Phased
  <1>4. CASE WarmupPreempted \/ Signal \/ \E r \in Requests : Depart(r)
    <2>1. UNCHANGED <<startup, phase, ready>> \/ SignalServer
      BY <1>4, DepartCases DEF WarmupPreempted, Signal, server
    <2>2. UNCHANGED startup
      BY <2>1 DEF SignalServer
    <2>3. CASE UNCHANGED <<startup, phase, ready>>
      BY <2>3 DEF startup, Started, StartupSettled
    <2>4. CASE SignalServer
      <3>1. ready' = FALSE /\ (phase' = phase \/ (phase = "serving" /\ phase' = "draining"))
        BY <2>4, SignalEffect
      <3> QED
        BY <2>2, <3>1 DEF startup, Started, StartupSettled
    <2> QED
      BY <2>1, <2>3, <2>4
  <1>5. CASE \/ \E r \in Requests : Admit(r) \/ Quiet(r)
             \/ WarmupStep \/ HealthAsk \/ HealthAnswer \/ UNCHANGED vars
    BY <1>5 DEF Admit, Quiet, WarmupStep, HealthAsk, HealthAnswer, vars, server, startup,
                Started, StartupSettled
  <1>6. CASE CloseLookups \/ CloseWarmup \/ Exit
    BY <1>6 DEF CloseLookups, CloseWarmup, Exit, startup, Started, StartupSettled, Phased
  <1> QED
    BY <1>1, <1>2, <1>3, <1>4, <1>5, <1>6 DEF Next

(***************************************************************************)
(* Every step is one of these kinds for the warm-up: it is told to stop,   *)
(* for a new task or for good; it is resumed because no lookup is left,    *)
(* undisturbed or with the signal inside resume(); the signal comes or the *)
(* teardown goes on, and the tasks stay; or it goes on by itself.          *)
(***************************************************************************)
LEMMA StepKinds ==
    ASSUME LP!IInv, Phased, WarmTyped, [Next]_vars
    PROVE  \/ W!Pause /\ L!Tasks' # {}
           \/ W!Cancel /\ phase' # "serving"
           \/ W!Resume /\ L!Tasks' = {}
           \/ (W!ResumePreempted \/ Doomed) /\ L!Tasks' = {} /\ phase' # "serving"
           \/ (W!FinishedPreempted \/ UNCHANGED warmup) /\ L!Tasks' = L!Tasks /\ phase' # "serving"
           \/ /\ Own \/ UNCHANGED warmup
              /\ L!Tasks' \subseteq L!Tasks
              /\ phase' = "serving" /\ L!Tasks' = {} /\ queued' = 0 =>
                    phase = "serving" /\ L!Tasks = {} /\ queued = 0
  <1>1. ASSUME NEW r \in Requests, Admit(r)
        PROVE  W!Pause /\ L!Tasks' # {}
    BY <1>1, AdmitEffect DEF Admit
  <1>2. ASSUME NEW r \in Requests, Quiet(r)
        PROVE  /\ UNCHANGED warmup /\ UNCHANGED <<phase, shutdown>> /\ L!Tasks' = L!Tasks
               /\ phase' = "serving" => (queued' = 0 => queued = 0)
    <2>1. L!Tasks' = L!Tasks /\ (lookupsClosing \/ (queued' = 0 => queued = 0))
      BY <1>2, QuietEffect DEF Quiet
    <2> QED
      BY <1>2, <2>1 DEF Quiet, server, Phased
  <1>3. ASSUME NEW r \in Requests, Depart(r)
        PROVE  \/ /\ UNCHANGED <<warmup, phase, shutdown>> /\ L!Tasks' \subseteq L!Tasks
                  /\ ~(phase' = "serving" /\ L!Tasks' = {} /\ queued' = 0)
               \/ W!Resume /\ L!Tasks' = {}
               \/ W!ResumePreempted /\ L!Tasks' = {} /\ phase' # "serving"
    <2>1. L!Tasks' \subseteq L!Tasks
      BY <1>3, DepartCases
    <2>2. CASE UNCHANGED <<warmup, server>> /\ (lookupsClosing \/ L!Tasks' # {} \/ queued' # 0)
      BY <2>1, <2>2 DEF server, Phased
    <2>3. CASE W!ResumePreempted /\ SignalServer /\ L!Tasks' = {}
      BY <2>3, SignalEffect
    <2> QED
      BY <1>3, <2>2, <2>3, DepartCases
  <1>4. CASE WarmupStep
    <2>1. Own /\ UNCHANGED <<lookups, server>>
      BY <1>4 DEF WarmupStep, Own
    <2> QED
      BY <2>1, UnchangedEffect DEF server
  <1>5. CASE WarmupPreempted
    BY <1>5, SignalEffect, UnchangedEffect DEF WarmupPreempted
  <1>6. CASE StartupStep
    <2>1. UNCHANGED <<lookups, warmup, phase, shutdown>> /\ phase = "starting"
      BY <1>6 DEF StartupStep, S!Step, S!Enter, S!Gather, S!Notice, S!Wake, S!EndChild
    <2> QED
      BY <2>1, UnchangedEffect
  <1>7. CASE StartupDone \/ StartupPreempted
    <2>1. phase = "starting" /\ UNCHANGED lookups
      BY <1>7 DEF StartupDone, StartupPreempted, MayServe
    <2>2. L!Tasks' = {}
      BY <2>1, UnchangedEffect DEF Phased, Unvisited, L!Tasks
    <2> QED
      BY <1>7, <2>2 DEF StartupDone, StartupPreempted, Doomed
  <1>8. CASE StartupFails \/ CloseLookups
    <2>1. UNCHANGED warmup /\ phase' # "serving" /\ L!Close
      BY <1>8 DEF StartupFails, CloseLookups
    <2> QED
      BY <2>1, CloseEffect
  <1>9. CASE Signal
    <2>1. /\ SignalServer /\ UNCHANGED lookups
          /\ W!Cancel \/ UNCHANGED warmup
      BY <1>9 DEF Signal
    <2> QED
      BY <2>1, SignalEffect, UnchangedEffect
  <1>10. CASE CloseWarmup
    BY <1>10 DEF CloseWarmup
  <1>11. CASE Exit \/ HealthAsk \/ HealthAnswer \/ UNCHANGED vars
    <2>1. /\ UNCHANGED <<lookups, warmup, shutdown>>
          /\ phase' = "serving" => phase = "serving"
      BY <1>11 DEF Exit, HealthAsk, HealthAnswer, vars, server
    <2> QED
      BY <2>1, UnchangedEffect
  <1> QED
    BY <1>1, <1>2, <1>3, <1>4, <1>5, <1>6, <1>7, <1>8, <1>9, <1>10, <1>11 DEF Next

(* The warm-up goes on yielding and is resumed. *)
LEMMA WarmStep == ASSUME LP!IInv, Phased, Warm, [Next]_vars PROVE Warm'
  <1> DEFINE
      Yields  == L!Tasks # {} => paused /\ task \notin W!Untouched
      Resumes == phase = "serving" /\ L!Tasks = {} /\ queued = 0 => ~paused
  <1>0. WarmTyped /\ W!ResumeRemembered /\ Yields /\ Resumes
    BY DEF Warm, IdleMeansResumed
  <1>1. CASE W!Pause /\ L!Tasks' # {}
    <2>1. Told /\ paused' = TRUE /\ task' \notin W!Untouched
      BY <1>0, <1>1, StopEffect DEF Told
    <2> QED
      BY <1>0, <1>1, <2>1, WarmupRemembers DEF Warm, IdleMeansResumed
  <1>2. CASE W!Cancel /\ phase' # "serving"
    <2>1. Told /\ paused' = TRUE /\ task' \notin W!Untouched
      BY <1>0, <1>2, StopEffect DEF Told
    <2> QED
      BY <1>0, <1>2, <2>1, WarmupRemembers DEF Warm, IdleMeansResumed
  <1>3. CASE W!Resume /\ L!Tasks' = {}
    <2>1. Told /\ paused' = FALSE
      BY <1>3 DEF Told, W!Resume
    <2> QED
      BY <1>0, <1>3, <2>1, WarmupRemembers DEF Warm, IdleMeansResumed
  <1>4. CASE (W!ResumePreempted \/ Doomed) /\ L!Tasks' = {} /\ phase' # "serving"
    BY <1>0, <1>4, WarmupRemembers DEF Told, Warm, IdleMeansResumed
  <1>5. CASE (W!FinishedPreempted \/ UNCHANGED warmup) /\ L!Tasks' = L!Tasks /\ phase' # "serving"
    <2>1. CASE W!FinishedPreempted
      <3>1. ~paused
        BY <2>1 DEF W!FinishedPreempted
      <3>2. L!Tasks' = {}
        BY <1>0, <1>5, <3>1
      <3> QED
        BY <1>0, <1>5, <2>1, <3>2, WarmupRemembers DEF Warm, IdleMeansResumed
    <2>2. CASE UNCHANGED warmup
      <3>1. Yields'
        BY <1>0, <1>5, <2>2 DEF warmup, W!Untouched
      <3> QED
        BY <1>0, <1>5, <2>2, <3>1, WarmupRemembers DEF Warm, IdleMeansResumed
    <2> QED
      BY <1>5, <2>1, <2>2
  <1>6. CASE /\ Own \/ UNCHANGED warmup
             /\ L!Tasks' \subseteq L!Tasks
             /\ phase' = "serving" /\ L!Tasks' = {} /\ queued' = 0 =>
                   phase = "serving" /\ L!Tasks = {} /\ queued = 0
    <2>1. paused' = paused
      BY <1>0, <1>6, OwnEffect DEF warmup
    <2>2. task' \in W!Untouched => task \in W!Untouched \/ ~paused
      BY <1>0, <1>6, OwnEffect DEF warmup, W!Untouched
    <2>3. Yields' /\ Resumes'
      BY <1>0, <1>6, <2>1, <2>2 DEF W!Untouched
    <2> QED
      BY <1>0, <1>6, <2>3, WarmupRemembers DEF Warm, IdleMeansResumed
  <1> QED
    BY <1>0, <1>1, <1>2, <1>3, <1>4, <1>5, <1>6, StepKinds

(* The parts together. *)
IInv == LP!IInv /\ Phased /\ Started /\ Warm

(* IInv is an invariant of the specification. *)
THEOREM Invariance == Spec => []IInv
  <1>1. LP!IInv /\ Phased /\ Started /\ Warm /\ [Next]_vars => Phased' /\ Started' /\ Warm'
    BY PhasedStep, StartedStep, WarmStep
  <1> QED
    BY <1>1, InitIInv, LookupsInv, PTL DEF Spec, IInv

-----------------------------------------------------------------------------
(* A process that serves has all it requires, and no required prewarm       *)
(* outlives startup.                                                        *)
THEOREM StartupSettles == Spec => []StartupSettled
  <1>1. IInv => StartupSettled
    BY DEF IInv, Started
  <1> QED
    BY <1>1, Invariance, PTL

(* While a lookup task exists the warm-up does not run undisturbed, in       *)
(* every phase: the drain after a signal and the teardown included.          *)
THEOREM WarmupAlwaysYields == Spec => []WarmupYields
  <1>1. IInv => WarmupYields
    BY DEF IInv, Warm, WarmupYields
  <1> QED
    BY <1>1, Invariance, PTL

(* An idle backend never sits with a paused warm-up.                        *)
THEOREM IdleResumes == Spec => []IdleMeansResumed
  <1>1. IInv => IdleMeansResumed
    BY DEF IInv, Warm
  <1> QED
    BY <1>1, Invariance, PTL

(* A resumed warm-up is not forgotten.                                      *)
THEOREM Remembers == Spec => []ResumeRemembered
  <1>1. IInv => ResumeRemembered
    BY DEF IInv, Warm, ResumeRemembered
  <1> QED
    BY <1>1, Invariance, PTL

(* Nothing the process owns runs undisturbed once it has left lifespan.     *)
THEOREM ExitsQuietly == Spec => []ExitIsQuiet
  <1>1. IInv => ExitIsQuiet
    BY DEF IInv, Phased, ExitIsQuiet, LP!IInv, LP!ClosingCancelsAll
  <1> QED
    BY <1>1, Invariance, PTL

(* /health says ok only of a process that serves when it answers.           *)
THEOREM HealthyServes == Spec => HealthyMeansServing
  <1> DEFINE Honest == health' = "ok" /\ health # "ok" => phase = "serving" /\ ~shutdown
  <1>1. IInv /\ Next => Honest
    <2>1. ASSUME NEW r \in Requests, Admit(r) \/ Quiet(r) \/ Depart(r) PROVE UNCHANGED health
      BY <2>1 DEF Admit, Quiet, Depart
    <2>2. CASE \/ WarmupStep \/ WarmupPreempted
               \/ StartupStep \/ StartupDone \/ StartupPreempted \/ StartupFails
               \/ Signal \/ CloseLookups \/ CloseWarmup \/ Exit
      BY <2>2 DEF WarmupStep, WarmupPreempted, StartupStep, StartupDone, StartupPreempted,
                  StartupFails, Signal, CloseLookups, CloseWarmup, Exit
    <2>3. IInv /\ IsReady => phase = "serving" /\ ~shutdown
      BY DEF IInv, Phased, IsReady
    <2>4. IInv /\ (HealthAsk \/ HealthAnswer) => Honest
      BY <2>3 DEF HealthAsk, HealthAnswer, StillReady
    <2> QED
      BY <2>1, <2>2, <2>4 DEF Next
  <1> HIDE DEF Honest
  <1>2. IInv /\ [Next]_vars => [Honest]_vars
    BY <1>1
  <1>3. Spec => [][Honest]_vars
    BY <1>2, Invariance, PTL DEF Spec
  <1> QED
    BY <1>3 DEF HealthyMeansServing, Honest

(* The signal does not take accepted lookups with it before the teardown.   *)
THEOREM DrainSpares == Spec => DrainKeepsLookups
  <1> DEFINE
      Spared ==
        phase' \in {"serving", "draining"} =>
          \A r \in Requests :
              /\ work[r] = "active" /\ work'[r] = "cancelling" => pc[r] = "aborting"
              /\ pc[r] = "woken" => pc'[r] # "idle"
  <1>1. ASSUME IInv, IInv', [Next]_vars PROVE Spared
    <2> SUFFICES ASSUME phase' \in {"serving", "draining"}, NEW q \in Requests
                 PROVE  /\ work[q] = "active" /\ work'[q] = "cancelling" => pc[q] = "aborting"
                        /\ pc[q] = "woken" => pc'[q] # "idle"
      OBVIOUS
    <2>1. ~lookupsClosing'
      BY <1>1 DEF IInv, Phased
    <2>2. /\ work \in [Requests -> {"none", "active", "cancelling", "ended"}]
          /\ pc \in [Requests -> LP!InDeque \cup {"idle", "running", "aborting"}]
      BY <1>1 DEF IInv, LP!IInv, LP!Typed
    <2>3. ASSUME NEW r \in Requests, L!StartAtOnce(r) \/ L!Enqueue(r)
          PROVE  UNCHANGED <<work[q], pc[q]>> \/ (q = r /\ pc[q] = "idle" /\ work[q] = "none")
      BY <2>2, <2>3 DEF L!StartAtOnce, L!Enqueue
    <2>4. ASSUME NEW r \in Requests, L!StartWoken(r) \/ L!Leave(r) \/ L!GiveBack(r)
          PROVE  /\ work'[q] \in {work[q], "active"}
                 /\ pc[q] = "woken" => pc'[q] \in {"woken", "running"}
      BY <2>2, <2>4 DEF L!StartWoken, L!Leave, L!GiveBack, L!LeaveLine, L!WakeUp
    <2>5. ASSUME NEW r \in Requests, L!Decline(r) PROVE FALSE
      BY <2>1, <2>5 DEF L!Decline
    <2>6. ASSUME NEW r \in Requests, L!Cancel(r)
          PROVE  UNCHANGED work /\ (pc'[q] = pc[q] \/ pc'[q] # "idle")
      BY <2>2, <2>6 DEF L!Cancel, L!CancelledAt
    <2>7. ASSUME NEW r \in Requests, L!Abort(r) \/ L!EndWork(r)
          PROVE  \/ UNCHANGED <<work[q], pc[q]>> \/ pc[q] = "aborting"
                 \/ (work'[q] = "ended" /\ UNCHANGED pc)
      BY <2>2, <2>7 DEF L!Abort, L!EndWork
    <2>8. ASSUME NEW r \in Requests, L!Collect(r)
          PROVE  /\ work'[q] \in {work[q], "none"}
                 /\ pc[q] = "woken" => pc'[q] = "woken"
      BY <2>2, <2>8 DEF L!Collect, L!Release
    <2>9. ~L!Close
      BY <2>1 DEF L!Close
    <2>10. UNCHANGED lookups => UNCHANGED <<work, pc>>
      BY DEF lookups
    <2> QED
      BY <1>1, <2>3, <2>4, <2>5, <2>6, <2>7, <2>8, <2>9, <2>10, LookupStep
  <1> HIDE DEF Spared
  <1>2. IInv /\ IInv' /\ [Next]_vars => [Spared]_vars
    BY <1>1
  <1>3. Spec => [][Spared]_vars
    BY <1>2, Invariance, PTL DEF Spec
  <1> QED
    BY <1>3 DEF DrainKeepsLookups, Spared

(* Inside the backend, too, no permit leaks and nothing runs for a request  *)
(* that is gone, whenever the signal and the teardown come.                 *)
THEOREM LookupsStaySound == Spec => [](L!PermitConservation /\ L!NoOrphanWork)
  <1>1. LP!IInv => L!PermitConservation
    <2>1. L!Holders = LP!Holders
      BY DEF L!Holders, LP!Holders, L!Granted, LP!Granted
    <2> QED
      BY <2>1, SameCardinality DEF LP!IInv, LP!PermitConservation, L!PermitConservation
  <1>2. LP!IInv => L!NoOrphanWork
    BY DEF LP!IInv, LP!NoOrphanWork, L!NoOrphanWork
  <1> QED
    BY <1>1, <1>2, LookupsInv, PTL

(* Every behaviour of the whole process is one of the abstract admission    *)
(* queue: startup, signal, warm-up and teardown do not disturb the order.   *)
THEOREM AdmitsInOrder == Spec => LP!ImplementsAdmissionQueue
  <1>1. Init => LP!Init
    BY SameInit DEF Init
  <1>2. [Next]_vars => [LP!Next]_(LP!vars)
    <2>1. [Next]_vars => [L!Next]_(L!vars)
      BY LookupStep DEF L!Next, L!vars, lookups
    <2> QED
      BY <2>1, SameNext
  <1>3. Spec => LP!Spec
    BY <1>1, <1>2, PTL DEF Spec, LP!Spec
  <1>4. LP!Spec => LP!ImplementsAdmissionQueue
    BY LP!Implements, Capacities
  <1> QED
    BY <1>3, <1>4
=============================================================================

-------------------------- MODULE BackgroundWarmup --------------------------
(***************************************************************************)
(* The optional initialization that runs only while no lookup does: class  *)
(* BackgroundWarmup of src/runtime.py with the work _background_prewarm of *)
(* src/server.py.  pause() and resume() are called synchronously by the    *)
(* lookup supervisor, cancel() by the signal handler and by close(), and   *)
(* _finished by the event loop some time after the task has ended.         *)
(*                                                                         *)
(* A callback that is still queued when resume() replaces the task runs    *)
(* before the first step of the new task, so at most one is queued.        *)
(***************************************************************************)

CONSTANTS
    Prewarms,   \* the parallel prewarms of the TaskGroup
    Fallible    \* those that may raise: _prewarm_uniswap reads the head block
                \* outside its try, the others catch and log everything

VARIABLES
    paused, closing, completed,   \* the attributes of those names
    task,       \* state of self.task, see States
    prewarm,    \* state of each child task of the TaskGroup
    callback    \* the queued call of _finished: "none", or how its task ended

vars == <<paused, closing, completed, task, prewarm, callback>>

(***************************************************************************)
(* absent: None; created: before its first step; live: running;            *)
(* cancelling: running with a cancellation requested; cancelled, ended:    *)
(* done, by cancellation or by returning or raising.                       *)
(***************************************************************************)
Outcomes  == {"cancelled", "ended"}
Done      == {"absent"} \cup Outcomes
Untouched == {"created", "live"}
States    == Done \cup Untouched \cup {"doomed", "cancelling"}

Init ==
    /\ paused = TRUE /\ closing = FALSE /\ completed = FALSE
    /\ task = "absent"
    /\ prewarm = [p \in Prewarms |-> "over"]
    /\ callback = "none"

(* task.cancel(): a task that has not started will never run ("doomed"). *)
CancelTask ==
    task' = CASE task = "created" -> "doomed"
              [] task = "live"    -> "cancelling"
              [] OTHER            -> task

Pause == paused' = TRUE /\ CancelTask /\ UNCHANGED <<closing, completed, prewarm, callback>>

(* Past the early return of resume(). *)
MayGoOn == ~closing /\ ~completed /\ task \in Done

(* The body of resume() after that: a task that ended is not run again. *)
StartOrComplete ==
    /\ task' = IF MayGoOn /\ task # "ended" THEN "created" ELSE task
    /\ completed' = (completed \/ (MayGoOn /\ task = "ended"))

Resume == paused' = FALSE /\ StartOrComplete /\ UNCHANGED <<closing, prewarm, callback>>

Cancel ==
    /\ paused' = TRUE /\ closing' = TRUE /\ CancelTask
    /\ UNCHANGED <<completed, prewarm, callback>>

(***************************************************************************)
(* The signal handler runs between two bytecodes of the main thread, also  *)
(* inside resume(): after the test of closing, cancel() finds no task to   *)
(* cancel, and resume() goes on to create one.                             *)
(***************************************************************************)
StartPreempted ==
    /\ MayGoOn /\ task # "ended"
    /\ paused' = TRUE /\ closing' = TRUE
    /\ task' = "created"
    /\ UNCHANGED <<completed, prewarm>>

ResumePreempted == StartPreempted /\ UNCHANGED callback

(* The first step of the task; callbacks queued earlier have run. *)
Begin ==
    /\ task = "created" /\ callback = "none"
    /\ task' = "live"
    /\ prewarm' = [p \in Prewarms |-> "running"]
    /\ UNCHANGED <<paused, closing, completed, callback>>

(* A prewarm finishes, finishes its cancellation, or raises. *)
EndPrewarm(p, how) ==
    /\ \/ prewarm[p] = "running" /\ (how = "over" \/ p \in Fallible)
       \/ prewarm[p] = "stopping" /\ how = "over"
    /\ prewarm' = [prewarm EXCEPT ![p] = how]
    /\ UNCHANGED <<paused, closing, completed, task, callback>>

Failed == \E p \in Prewarms : prewarm[p] = "failed"

(* The TaskGroup learns of its own cancellation or of a child that raised. *)
AbortGroup ==
    /\ task = "cancelling" \/ (task = "live" /\ Failed)
    /\ \E p \in Prewarms : prewarm[p] = "running"
    /\ prewarm' = [p \in Prewarms |-> IF prewarm[p] = "running" THEN "stopping" ELSE prewarm[p]]
    /\ UNCHANGED <<paused, closing, completed, task, callback>>

(***************************************************************************)
(* The task is done when its prewarms are.  The exceptions of children     *)
(* have priority over a cancellation of the group: they leave it as an     *)
(* ExceptionGroup, which _background_prewarm logs and swallows.            *)
(***************************************************************************)
Outcome == IF task = "doomed" \/ (task = "cancelling" /\ ~Failed) THEN "cancelled" ELSE "ended"

End ==
    /\ \/ task \in {"live", "cancelling"} /\ \A p \in Prewarms : prewarm[p] \in {"over", "failed"}
       \/ task = "doomed" /\ callback = "none"
    /\ task' = Outcome
    /\ callback' = Outcome
    /\ prewarm' = [p \in Prewarms |-> "over"]
    /\ UNCHANGED <<paused, closing, completed>>

(* Faulty: a cancelled task is not started again. *)
FinishedForgetting ==
    /\ callback # "none"
    /\ callback' = "none"
    /\ completed' = (completed \/ callback = "ended")
    /\ UNCHANGED <<paused, closing, task, prewarm>>

(* _finished: a cancelled task is started again unless paused. *)
Finished ==
    /\ callback # "none"
    /\ callback' = "none"
    /\ \/ callback = "ended" /\ completed' = TRUE /\ UNCHANGED task
       \/ callback = "cancelled" /\ ~paused /\ StartOrComplete
       \/ callback = "cancelled" /\ paused /\ UNCHANGED <<completed, task>>
    /\ UNCHANGED <<paused, closing, prewarm>>

FinishedPreempted ==
    /\ callback = "cancelled" /\ ~paused
    /\ callback' = "none"
    /\ StartPreempted

(* What the loop does with the task on its own account. *)
Step ==
    \/ Begin \/ AbortGroup \/ End \/ Finished \/ FinishedPreempted
    \/ \E p \in Prewarms, how \in {"over", "failed"} : EndPrewarm(p, how)

Next == Pause \/ Resume \/ Cancel \/ ResumePreempted \/ Step

(***************************************************************************)
(* Fairness: the loop runs what is ready and a cancelled prewarm ends; a   *)
(* prewarm nobody cancels may run for ever.                                *)
(***************************************************************************)
Fairness ==
    /\ WF_vars(Begin) /\ WF_vars(AbortGroup) /\ WF_vars(End) /\ WF_vars(Finished)
    /\ \A p \in Prewarms : WF_vars(prewarm[p] = "stopping" /\ EndPrewarm(p, "over"))

Spec     == Init /\ [][Next]_vars
FairSpec == Spec /\ Fairness

-----------------------------------------------------------------------------
(* Types of the variables. *)
TypeOK ==
    /\ {paused, closing, completed} \subseteq BOOLEAN
    /\ task \in States
    /\ prewarm \in [Prewarms -> {"running", "stopping", "over", "failed"}]
    /\ callback \in {"none"} \cup Outcomes

(***************************************************************************)
(* A resume() that comes while the paused task still cleans up is not      *)
(* forgotten: whenever the warm-up is wanted and not over, its task runs,  *)
(* or a callback that will start it again is still to come.                *)
(***************************************************************************)
ResumeRemembered ==
    ~paused /\ ~closing /\ ~completed =>
        task \in Untouched \/ task \in {"doomed", "cancelling"} \/ callback # "none"

(***************************************************************************)
(* Claims of docs/validation/2026-10-01-pricing-repair.md.                 *)
(*                                                                         *)
(* Lines 347-348, "yields while owned foreground lookups run and resumes": *)
(* a task cut short by a pause is started again if resumed for good.       *)
CutShortIsResumed ==
    <>[](~paused /\ ~closing) => (task = "cancelling" ~> task = "created")
=============================================================================

------------------------------- MODULE Startup -------------------------------
(***************************************************************************)
(* Required initialization, _prewarm_with_shutdown of src/server.py: the   *)
(* Curve registry and, on Base, the USDC pools are loaded by tasks that    *)
(* _run_prewarm gathers in another task, while a third waits for the       *)
(* shutdown event.  lifespan goes on when the gathering or the waiting is  *)
(* over, and, whatever the reason, not before every task has ended.        *)
(***************************************************************************)

CONSTANT Required   \* the required prewarms of this chain

VARIABLES
    shutdown,   \* _shutdown_event.is_set(), set by the signal handler
    stage,      \* how far lifespan is, see Stages
    child,      \* state of each of prewarm_tasks
    gather,     \* prewarm_task: running, ok, failed
    noticed     \* shutdown_waiter is done

tasks == <<child, gather, noticed>>
vars  == <<shutdown, stage, tasks>>

(***************************************************************************)
(* connecting: before the tasks are created, no one looks at the event;    *)
(* waiting: inside asyncio.wait; ok, failed, shutdown: in the finally      *)
(* block, which joins all tasks, with this outcome.                        *)
(***************************************************************************)
Outcomes == {"ok", "failed", "shutdown"}
Stages   == {"connecting", "waiting"} \cup Outcomes
Live     == {"running", "stopping"}

Init ==
    /\ stage = "connecting"
    /\ child = [c \in Required |-> "absent"]
    /\ gather = "running" /\ noticed = FALSE

(* The node is connected and the head block known: create the tasks. *)
Enter ==
    /\ stage = "connecting"
    /\ stage' = "waiting"
    /\ child' = [c \in Required |-> "running"]
    /\ UNCHANGED <<shutdown, gather, noticed>>

(* A prewarm finishes or raises; cancelled, it may also end as that. *)
EndChild(c, how) ==
    /\ \/ child[c] = "running" /\ how \in {"done", "failed"}
       \/ child[c] = "stopping" /\ how \in {"done", "failed", "stopped"}
    /\ child' = [child EXCEPT ![c] = how]
    /\ UNCHANGED <<shutdown, stage, gather, noticed>>

(* gather() ends with the last child, or with the first that raises, whose  *)
(* siblings run on.                                                         *)
Gather ==
    /\ stage = "waiting" /\ gather = "running"
    /\ \/ gather' = "ok" /\ \A c \in Required : child[c] = "done"
       \/ gather' = "failed" /\ \E c \in Required : child[c] = "failed"
    /\ UNCHANGED <<shutdown, stage, child, noticed>>

Notice ==
    /\ stage = "waiting" /\ shutdown /\ ~noticed
    /\ noticed' = TRUE
    /\ UNCHANGED <<shutdown, stage, child, gather>>

CancelChildren ==
    child' = [c \in Required |-> IF child[c] = "running" THEN "stopping" ELSE child[c]]

(* Faulty: the result of the gathering is not awaited. *)
WakeUnchecked ==
    /\ stage = "waiting" /\ (gather # "running" \/ noticed)
    /\ stage' = IF noticed THEN "shutdown" ELSE "ok"
    /\ CancelChildren
    /\ UNCHANGED <<shutdown, gather, noticed>>

(* Faulty: only the gathering is waited for. *)
WakeDeaf ==
    /\ stage = "waiting" /\ gather # "running"
    /\ stage' = IF noticed THEN "shutdown" ELSE gather
    /\ CancelChildren
    /\ UNCHANGED <<shutdown, gather, noticed>>

(* asyncio.wait returns; if both are done, the shutdown counts. *)
Wake ==
    /\ stage = "waiting" /\ (gather # "running" \/ noticed)
    /\ stage' = IF noticed THEN "shutdown" ELSE gather
    /\ CancelChildren
    /\ UNCHANGED <<shutdown, gather, noticed>>

(* The finally block is through. *)
Joined == stage \in Outcomes /\ \A c \in Required : child[c] \notin Live

Step ==
    \/ Enter \/ Gather \/ Notice \/ Wake
    \/ \E c \in Required, how \in {"done", "failed", "stopped"} : EndChild(c, how)

-----------------------------------------------------------------------------
TypeOK ==
    /\ stage \in Stages
    /\ child \in [Required -> Live \cup {"absent", "done", "failed", "stopped"}]
    /\ gather \in {"running", "ok", "failed"}
    /\ noticed \in BOOLEAN
=============================================================================

------------------------------ MODULE RunStates ------------------------------
(***************************************************************************)
(* The tables of domain/run.py, domain/run_attempt.py and                  *)
(* domain/queue_outbox.py that every other module shares: the statuses of  *)
(* a Run, the transitions RunStatus allows, the Events that announce a     *)
(* status, and the statuses of an Attempt and of an Outbox record.         *)
(***************************************************************************)
EXTENDS Naturals, FiniteSets

RunStatus ==
  {"queued", "running", "retry_wait", "waiting_input", "waiting_dependency",
   "cancel_requested", "succeeded", "failed", "cancelled"}

FinalRunStatus == {"succeeded", "failed", "cancelled"}

\* A Run that was not inserted yet has no row; "absent" stands for that.
RunRowStatus == RunStatus \cup {"absent"}

\* The statuses in which an Attempt may still be executing.
ExecutingStatus == {"running", "cancel_requested"}

Transitions ==
  {"queued"} \X {"running", "cancelled"}
    \cup {"running"} \X {"succeeded", "failed", "retry_wait", "waiting_input",
                         "waiting_dependency", "cancel_requested"}
    \cup {"retry_wait"} \X {"queued", "cancelled"}
    \cup {"waiting_input"} \X {"queued", "cancelled"}
    \cup {"waiting_dependency"} \X {"queued", "failed", "cancelled"}
    \cup {"cancel_requested"} \X {"cancelled"}

\* Every Event type that is written together with a change of status, and
\* the status it announces. All other Event types are notes ("progress").
Announces ==
  [run_created |-> "queued",
   run_started |-> "running",
   run_requeued |-> "queued",
   run_retry_scheduled |-> "retry_wait",
   result_committed |-> "succeeded",
   run_failed |-> "failed",
   run_cancel_requested |-> "cancel_requested",
   run_cancelled |-> "cancelled",
   dependency_wait_started |-> "waiting_dependency",
   dependency_wait_completed |-> "queued",
   human_input_requested |-> "waiting_input",
   human_input_submitted |-> "queued"]

Announcement == DOMAIN Announces
Note == "progress"
EventType == Announcement \cup {Note}

AttemptStatus == {"running", "paused", "succeeded", "failed", "cancelled"}

OutboxStatus == {"pending", "dispatched", "failed"}
=============================================================================

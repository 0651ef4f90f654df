------------------------------ MODULE RunDomain ------------------------------
(***************************************************************************)
(* What a Run promises to whoever follows it, the clients of the Event     *)
(* stream above all: it moves only along the transitions of domain/run.py, *)
(* each move appends exactly one Event that announces the new status, and  *)
(* Events are numbered without gaps. RunLifecycle implements it.           *)
(***************************************************************************)
EXTENDS RunStates, Sequences

VARIABLES
  status,  \* the status of the Run
  log      \* its Events in the order of their sequence numbers

Init == status = "absent" /\ log = << >>

Create ==
  /\ status = "absent"
  /\ status' = "queued"
  /\ log' = Append(log, "run_created")

\* Run.transition_to followed by create_event.
Transition ==
  \E type \in Announcement :
    /\ <<status, Announces[type]>> \in Transitions
    /\ status' = Announces[type]
    /\ log' = Append(log, type)

\* A note leaves the status alone.
TakeNote ==
  /\ status # "absent"
  /\ log' = Append(log, Note)
  /\ UNCHANGED status

Next == Create \/ Transition \/ TakeNote

Spec == Init /\ [][Next]_<<status, log>>
=============================================================================

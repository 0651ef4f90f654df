------------------------------- MODULE RunMoves -------------------------------
(***************************************************************************)
(* Abstract: one Run as a row that only makes the moves of RunRow.         *)
(* RunLifecycle implements it, with its Outbox, queue, leases and Events   *)
(* hidden, and so does the Run of each business module: what is true of    *)
(* every behaviour of this module is true of all of them.                  *)
(***************************************************************************)
EXTENDS RunRow

VARIABLE row

\* A row of Runs, whatever the step before: claimed by a worker, paused and
\* resumed, and no longer waiting because too few papers became ready.
Claim == row.status = "queued" /\ row' = Started(row)
Pause == Running(row) /\ row' = Paused(row)
Resume == row.status = "waiting" /\ row' = Resumed(row)
GiveUp == row.status = "waiting" /\ row' = [row EXCEPT !.status = "failed"]

\* The executor's result, and its failure: committed by the executor itself,
\* by _fail, which then closes the Attempt, or by both in one action.
Succeed == Running(row) /\ row' = Succeeded(row)
MarkFailed == \E final \in BOOLEAN : row' = AfterFailure(row, final)
Fail == \E final \in BOOLEAN : row' = FailedRun(row, row.attempts, final)

\* A cancellation, and its end by the worker or by a second request.
Cancel == Cancellable(row) /\ row' = Cancelled(row)

Close == row' = Closed(row, row.attempts)
Reclaim == Reclaimable(row) /\ \E final \in BOOLEAN : row' = Reclaimed(row, final)

TypeOK == row \in RunRow

Init == row = NewRun

Next ==
  \/ Claim \/ Pause \/ Resume \/ GiveUp \/ Succeed \/ MarkFailed \/ Fail
  \/ Cancel \/ Close \/ Reclaim

Spec == Init /\ [][Next]_row

-----------------------------------------------------------------------------
(* What follows for every Run *)

\* Of one step: a final status is final, a requested cancellation is never turned
\* into a result or a retry, Attempts are numbered without a gap, and an error
\* is retried only while Attempts are left.
Promise ==
  /\ row.status \in Terminal => row'.status = row.status
  /\ row.status = "cancel_requested" => row'.status \in {"cancel_requested", "cancelled"}
  /\ row'.attempts # row.attempts =>
       row.status = "queued" /\ row'.status = "running" /\ row'.attempts = row.attempts + 1
  /\ Running(row) /\ row'.status = "queued" => row.attempts < MaxAttempts

PromisesKept == [][Promise]_row
=============================================================================

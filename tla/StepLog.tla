------------------------------- MODULE StepLog -------------------------------
(***************************************************************************)
(* The step log of one process (table process_steps) and the pure          *)
(* functions the engine computes from it: the algebra of step outcomes     *)
(* (class Process in workflow.py), how a new outcome is written            *)
(* (_get_current_step_to_update) and how a process is recovered from what  *)
(* was written (_recoverwf).                                               *)
(*                                                                         *)
(* A row keeps what recovery and the engine look at: the name of the step, *)
(* its status, and the position inside a step group that the stored state  *)
(* carries under __sub_step (with __step_group).  The rest of the state is *)
(* payload and left out.                                                   *)
(***************************************************************************)
EXTENDS Integers, Sequences, FiniteSets

StepStatus == {"success", "skipped", "suspend", "waiting",
               "awaiting_callback", "failed", "abort", "complete"}

ProcessStatus == {"created", "running", "suspended", "waiting",
                  "awaiting_callback", "aborted", "failed", "api_unavailable",
                  "inconsistent_data", "completed", "resumed"}

\* Faulty: an aborted process can be resumed.
RESUMABLE_STATUSES_Aborted == {"suspended", "waiting", "awaiting_callback",
                               "failed", "resumed", "aborted"}

RESUMABLE_STATUSES == {"suspended", "waiting", "awaiting_callback", "failed",
                       "api_unavailable", "inconsistent_data", "resumed"}

\* Which process status a step outcome stands for.
OverallStatus ==
  [success |-> "running", skipped |-> "running", suspend |-> "suspended",
   waiting |-> "waiting", awaiting_callback |-> "awaiting_callback",
   failed |-> "failed", abort |-> "aborted", complete |-> "completed"]

\* Faulty: the status of the step is stored instead of the overall status.
StoredStatuses_OfStep(s, isTask) == {s}

\* The statuses _update_process may store: a failed task is classified by the
\* class of its error.
StoredStatuses(s, isTask) ==
  IF s = "failed" /\ isTask
  THEN {"failed", "inconsistent_data", "api_unavailable"}
  ELSE {OverallStatus[s]}

\* Faulty: a retryable failure does not stop the loop.
Continues_PastWaiting(s) == s \in {"success", "skipped", "waiting"}

\* A step is executed, and the loop goes on, only after one of these.
Continues(s) == s \in {"success", "skipped"}

\* Process.resume, before resume_suspend is applied.
ResumeStatus(s) == IF s \in {"abort", "complete"} THEN s ELSE "success"

\* What a step of each kind can return (the decorators of workflow.py).
Outcomes ==
  [init   |-> {"success"},
   plain  |-> {"success", "failed"},
   retry  |-> {"success", "waiting"},
   cond   |-> {"success", "skipped", "failed"},
   input  |-> {"suspend"},
   await  |-> {"awaiting_callback"},
   enter  |-> {"success"},
   exit   |-> {"success"},
   done   |-> {"complete"}]

Kinds == DOMAIN Outcomes

-----------------------------------------------------------------------------
(* A step is named by its position: <<i, 0>> is step i of the workflow and   *)
(* <<i, j>> is sub step j of the step group at i.                            *)
Position == Nat \X Nat

\* The state carries no __sub_step.
NoSub == <<0, 0>>

\* The step abort_wf logs; no workflow contains it.
UserAborted == <<0, 0>>

LogRow == [step : Position, status : StepStatus, sub : Position]

Row(step, status, sub) == [step |-> step, status |-> status, sub |-> sub]

\* An error outcome equal to the last row's is counted as a retry in that row.
\* "same" stands for: same user, same error, same details.
IsRepeat(log, row, same) ==
  /\ same
  /\ log # <<>>
  /\ row.status \in {"failed", "waiting"}
  /\ log[Len(log)].status = row.status
  /\ log[Len(log)].step = row.step

\* Faulty: replacing a row updates its state and not its status.
WriteRow_StateOnly(log, row, replace, same) ==
  IF log # <<>> /\ (replace \/ IsRepeat(log, row, same))
  THEN [log EXCEPT ![Len(log)].sub = row.sub]
  ELSE Append(log, row)

\* The log after an outcome has been written.  A replaced row keeps its name.
WriteRow(log, row, replace, same) ==
  IF log # <<>> /\ (replace \/ IsRepeat(log, row, same))
  THEN [log EXCEPT ![Len(log)] = Row(@.step, row.status, row.sub)]
  ELSE Append(log, row)

-----------------------------------------------------------------------------
(* Recovery *)

\* Faulty: rows of failed steps count as done.
IsCleared_Failed(row) ==
  row.status \notin {"suspend", "waiting", "awaiting_callback"}

\* Faulty: rows of suspended steps count as done.
IsCleared_Suspended(row) ==
  row.status \notin {"failed", "waiting", "awaiting_callback"}

IsCleared(row) ==
  row.status \notin {"failed", "suspend", "waiting", "awaiting_callback"}

ClearedRows(log) == {i \in DOMAIN log : IsCleared(log[i])}

StepCount(log) == Cardinality(ClearedRows(log))

\* The last cleared row.
LastCleared(log) ==
  CHOOSE i \in ClearedRows(log) : \A j \in ClearedRows(log) : j <= i

IsHalted(log) ==
  /\ log # <<>>
  /\ log[Len(log)].status \in {"suspend", "awaiting_callback"}

\* Status and position of the state a recovered process starts from.
RecoveredStatus(log) ==
  IF IsHalted(log) THEN log[Len(log)].status
  ELSE IF ClearedRows(log) # {} THEN log[LastCleared(log)].status
  ELSE "success"

RecoveredSub(log) ==
  IF IsHalted(log) THEN log[Len(log)].sub
  ELSE IF ClearedRows(log) # {} THEN log[LastCleared(log)].sub
  ELSE NoSub

\* Faulty: resumes at the last step that was done.
RestFrom_AtLastDone(log, n) ==
  IF RecoveredStatus(log) = "complete" \/ StepCount(log) >= n
  THEN n + 1
  ELSE IF StepCount(log) = 0 THEN 1 ELSE StepCount(log)

\* Index of the first step that is still to be executed, of a workflow of n
\* steps; n + 1 when there is none.
RestFrom(log, n) ==
  IF RecoveredStatus(log) = "complete" \/ StepCount(log) >= n
  THEN n + 1
  ELSE StepCount(log) + 1
=============================================================================

------------------------------- MODULE Callback -------------------------------
(***************************************************************************)
(* A process that waits for an external service: the step group made by    *)
(* callback_step (workflow.py), the callback and its progress reports      *)
(* (services/processes.py, called by the API), and the scheduled task that *)
(* fails processes which have waited too long                              *)
(* (workflows/tasks/validate_awaiting_callbacks.py).  Celery executes.     *)
(*                                                                         *)
(* The workflow is the group and the step "done".  Every action is one     *)
(* transaction; what a call, a worker or the task read in an earlier one   *)
(* is kept in its record and may be stale by the time it is used.          *)
(***************************************************************************)
EXTENDS StepLog

CONSTANTS
  Callbacks, Reports,  \* calls of the external service handled at the same time
  Workers,   \* Celery workers
  Timeout,   \* seconds of callback_step
  MaxToken,  \* bound: how often the group may be started
  MaxQueue   \* bound: nobody resumes a process with this many messages pending

ASSUME CallbackAssumption ==
  /\ Timeout \in Nat
  /\ MaxToken \in Nat \ {0}
  /\ MaxQueue \in Nat

\* The sub steps of the group; Enter and Exit belong to the first and the last.
Stages == <<"endpoint", "action", "await", "validate", "cleanup">>

Tokens == 1..MaxToken

\* What the stored state carries: the sub step it comes from, the token that the
\* external service has to present, and the token under which data was posted
\* (0: none).
State == [stage : 0..Len(Stages), token : 0..MaxToken, data : 0..MaxToken]
NoState == [stage |-> 0, token |-> 0, data |-> 0]

Calls == Callbacks \cup Reports

VARIABLES
  status,    \* ProcessTable.last_status
  rows,      \* process_steps: status and state of the group's rows and of "done"
  queue,     \* messages that ask for the process to be resumed
  call,      \* what each call of the external service is doing
  worker,    \* what each worker is doing
  sweep,     \* what the scheduled task is doing
  token,     \* the last token that was generated
  age,       \* time since started_at of the last row, at most Timeout + 1
  accepted,  \* history: how many callbacks were accepted for a token (2: more)
  seen,      \* history: token and data of every state that was validated
  raced      \* history: something was written from a copy that was out of date

vars == <<status, rows, queue, call, worker, sweep, token, age,
          accepted, seen, raced>>
history == <<accepted, seen>>  \* what no action reads

NoCall == [pc |-> "idle", row |-> 0, copy |-> NoState]
Free == [pc |-> "idle", todo |-> 1, st |-> "success", state |-> NoState,
         replace |-> FALSE, age |-> 0]
NoSweep == [pc |-> "idle", copy |-> NoState]

\* The steps before the group have been executed; a worker is about to go on.
Init ==
  /\ status = "resumed"
  /\ rows = <<>>
  /\ queue = 1
  /\ call = [c \in Calls |-> NoCall]
  /\ worker = [w \in Workers |-> Free]
  /\ sweep = NoSweep
  /\ token = 0
  /\ age = 0
  /\ accepted = [t \in Tokens |-> 0]
  /\ seen = {}
  /\ raced = FALSE

LastRow == rows[Len(rows)]
Put(s, state) == [status |-> s, state |-> state]

\* The log after a row has been written, over the last one or after it.
Written(row, replace) ==
  IF replace /\ rows # <<>> THEN [rows EXCEPT ![Len(rows)] = row]
  ELSE Append(rows, row)

\* The state load_process recovers.
RecoveredState ==
  IF IsHalted(rows) THEN LastRow.state
  ELSE IF ClearedRows(rows) # {} THEN rows[LastCleared(rows)].state
  ELSE NoState

\* The process no longer waits as it did when the state was copied.
Overtaken(copy) ==
  \/ status # "awaiting_callback"
  \/ rows = <<>> \/ LastRow # Put("awaiting_callback", copy)

-----------------------------------------------------------------------------
(* Calls of the external service *)

\* Faulty: any token is good for a process that waits.
Read_AnyToken(c, t) ==
  /\ call[c].pc = "idle"
  /\ status = "awaiting_callback"
  /\ rows # <<>>
  /\ call' = [call EXCEPT ![c] =
       [pc |-> "read", row |-> Len(rows), copy |-> [RecoveredState EXCEPT !.data = t]]]
  /\ UNCHANGED <<status, rows, queue, worker, sweep, token, age, history, raced>>

\* Both endpoints read the process, its status and the token of its state; any
\* other call is refused.
Read(c, t) ==
  /\ call[c].pc = "idle"
  /\ status = "awaiting_callback"
  /\ RecoveredState.token = t
  /\ call' = [call EXCEPT ![c] =
       [pc |-> "read", row |-> Len(rows), copy |-> RecoveredState]]
  /\ UNCHANGED <<status, rows, queue, worker, sweep, token, age, history, raced>>

\* Faulty: the process is resumed, and the data is not stored.
CommitCallback_NotStored(c) ==
  LET copy == call[c].copy IN
    /\ c \in Callbacks
    /\ call[c].pc = "read"
    /\ status' = "resumed"
    /\ queue' = queue + 1
    /\ accepted' = [accepted EXCEPT ![copy.token] = IF @ = 0 THEN 1 ELSE 2]
    /\ raced' = (raced \/ Overtaken(copy))
    /\ call' = [call EXCEPT ![c] = NoCall]
    /\ UNCHANGED <<rows, worker, sweep, token, age, seen>>

\* continue_awaiting_process: the data goes into the row that was read, together
\* with the state as it was read; the process is marked, whatever its status is
\* by now, and its message is sent.
CommitCallback(c) ==
  LET copy == call[c].copy IN
    /\ c \in Callbacks
    /\ call[c].pc = "read"
    /\ rows' = [rows EXCEPT ![call[c].row].state = [copy EXCEPT !.data = copy.token]]
    /\ status' = "resumed"
    /\ queue' = queue + 1
    /\ accepted' = [accepted EXCEPT ![copy.token] = IF @ = 0 THEN 1 ELSE 2]
    /\ raced' = (raced \/ Overtaken(copy))
    /\ call' = [call EXCEPT ![c] = NoCall]
    /\ UNCHANGED <<worker, sweep, token, age, seen>>

\* Faulty: a report is a sign of life and starts the clock anew.
CommitProgress_Extends(c) ==
  /\ c \in Reports
  /\ call[c].pc = "read"
  /\ rows' = [rows EXCEPT ![call[c].row].state = call[c].copy]
  /\ raced' = (raced \/ Overtaken(call[c].copy))
  /\ call' = [call EXCEPT ![c] = NoCall]
  /\ age' = 0
  /\ UNCHANGED <<status, queue, worker, sweep, token, history>>

\* update_awaiting_process_progress stores the report with the whole state as it
\* was read.  (What it reports is left out.)
CommitProgress(c) ==
  /\ c \in Reports
  /\ call[c].pc = "read"
  /\ rows' = [rows EXCEPT ![call[c].row].state = call[c].copy]
  /\ raced' = (raced \/ Overtaken(call[c].copy))
  /\ call' = [call EXCEPT ![c] = NoCall]
  /\ UNCHANGED <<status, queue, worker, sweep, token, age, history>>

-----------------------------------------------------------------------------
(* Users *)

\* A retry of a failed process, or the resume of one that still waits.
Resume ==
  /\ status \in RESUMABLE_STATUSES \ {"resumed"}
  /\ RestFrom(rows, 2) <= 2
  /\ queue < MaxQueue
  /\ status' = "resumed"
  /\ queue' = queue + 1
  /\ UNCHANGED <<rows, call, worker, sweep, token, age, history, raced>>

\* (Aborting a process that a worker executes is modelled by WorkflowRun.)
Abort ==
  /\ \A w \in Workers : worker[w].pc = "idle"
  /\ status # "aborted"
  /\ RecoveredStatus(rows) # "complete"
  /\ rows' = Append(rows, Put("abort", RecoveredState))
  /\ status' = "aborted"
  /\ UNCHANGED <<queue, call, worker, sweep, token, age, history, raced>>

-----------------------------------------------------------------------------
(* Workers *)

\* resume_process of tasks.py: a message is obeyed if the process is RESUMED.
Take(w) ==
  /\ worker[w].pc = "idle"
  /\ queue > 0
  /\ queue' = queue - 1
  /\ worker' = [worker EXCEPT ![w] =
       IF status = "resumed" THEN [Free EXCEPT !.pc = "load"] ELSE Free]
  /\ UNCHANGED <<status, rows, call, sweep, token, age, history, raced>>

\* thread_resume_process loads the process ...
Load(w) ==
  /\ worker[w].pc = "load"
  /\ worker' = [worker EXCEPT ![w] =
       [Free EXCEPT !.pc = "claim", !.todo = RestFrom(rows, 2),
                    !.st = RecoveredStatus(rows), !.state = RecoveredState]]
  /\ UNCHANGED <<status, rows, queue, call, sweep, token, age, history, raced>>

\* ... and marks it in the next transaction.
Claim(w) ==
  /\ worker[w].pc = "claim"
  /\ status' = "running"
  /\ worker' = [worker EXCEPT ![w].pc = "claimed"]
  /\ UNCHANGED <<rows, queue, call, sweep, token, age, history, raced>>

\* Faulty: the last step follows whatever the group returned.
Loop_Regardless(record) ==
  IF record.todo > 2 THEN Free
  ELSE [record EXCEPT !.pc = IF record.todo = 1 THEN "group" ELSE "done"]

\* The loop of _exec_steps: a worker goes on with the group or the last step, or
\* leaves.
Loop(record) ==
  IF ~ Continues(record.st) \/ record.todo > 2 THEN Free
  ELSE [record EXCEPT !.pc = IF record.todo = 1 THEN "group" ELSE "done"]

\* Faulty: the answered step starts from an empty state.
Answer_Empty(w) ==
  /\ worker[w].pc = "claimed"
  /\ worker[w].st = "awaiting_callback"
  /\ rows' = Append(rows, Put("success", [worker[w].state EXCEPT !.data = 0]))
  /\ status' = "running"
  /\ age' = 0
  /\ worker' = [worker EXCEPT ![w] =
       Loop([@ EXCEPT !.st = "success", !.replace = TRUE, !.state.data = 0])]
  /\ UNCHANGED <<queue, call, sweep, token, history, raced>>

\* resume_suspend: the answered step is logged as a success, in a row of its own,
\* and the group goes on behind the sub step that waited.
Answer(w) ==
  /\ worker[w].pc = "claimed"
  /\ worker[w].st = "awaiting_callback"
  /\ rows' = Append(rows, Put("success", worker[w].state))
  /\ status' = "running"
  /\ age' = 0
  /\ worker' = [worker EXCEPT ![w] =
       Loop([@ EXCEPT !.st = "success", !.replace = TRUE])]
  /\ UNCHANGED <<queue, call, sweep, token, history, raced>>

\* Process.resume for every other status.
Continue(w) ==
  /\ worker[w].pc = "claimed"
  /\ worker[w].st # "awaiting_callback"
  /\ worker' = [worker EXCEPT ![w] = Loop([worker[w] EXCEPT !.st = ResumeStatus(@)])]
  /\ UNCHANGED <<status, rows, queue, call, sweep, token, age, history, raced>>

\* A sub step and its outcome, written over the row of the sub step before it.
\* (The step and the log of its outcome are told apart in WorkflowRun.)
SubStep(w, stage) == worker[w].pc = "group" /\ worker[w].state.stage = stage

WriteSub(w, s, state) ==
  /\ rows' = Written(Put(s, state), worker[w].replace)
  /\ status' = OverallStatus[s]
  /\ age' = 0
  /\ worker' = [worker EXCEPT
       ![w].pc = IF s = "success" /\ state.stage # 0 THEN "group" ELSE "leave",
       ![w].st = s, ![w].state = state, ![w].replace = TRUE]
  /\ UNCHANGED <<queue, call, sweep, raced>>

CreateEndpoint(w) ==
  /\ SubStep(w, 0)
  /\ token < MaxToken
  /\ token' = token + 1
  /\ WriteSub(w, "success", [worker[w].state EXCEPT !.stage = 1, !.token = token'])
  /\ UNCHANGED history

\* The service is called and told the route.
CallService(w) ==
  /\ SubStep(w, 1)
  /\ \/ WriteSub(w, "success", [worker[w].state EXCEPT !.stage = 2])
     \/ WriteSub(w, "failed", NoState)
  /\ UNCHANGED <<token, history>>

Await(w) ==
  /\ SubStep(w, 2)
  /\ WriteSub(w, "awaiting_callback", [worker[w].state EXCEPT !.stage = 3])
  /\ UNCHANGED <<token, history>>

Validate(w) ==
  /\ SubStep(w, 3)
  /\ \/ WriteSub(w, "success", [worker[w].state EXCEPT !.stage = 4])
     \/ WriteSub(w, "failed", NoState)
  /\ seen' = seen \cup {<<worker[w].state.token, worker[w].state.data>>}
  /\ UNCHANGED <<token, accepted>>

\* The token is removed, and with the end of the group its position in it.
Cleanup(w) ==
  /\ SubStep(w, 4)
  /\ WriteSub(w, "success", [worker[w].state EXCEPT !.stage = 0, !.token = 0])
  /\ UNCHANGED <<token, history>>

\* What the group returns is written over its row in a transaction of its own,
\* whatever the row has become; started_at is now the time the group began.
LeaveGroup(w) ==
  LET row == Put(worker[w].st, worker[w].state) IN
    /\ worker[w].pc = "leave"
    /\ rows' = Written(row, TRUE)
    /\ status' = OverallStatus[row.status]
    /\ age' = worker[w].age
    /\ raced' = (raced \/ LastRow # row \/ status # status')
    /\ worker' = [worker EXCEPT ![w] = Loop([@ EXCEPT !.todo = 2, !.age = 0])]
    /\ UNCHANGED <<queue, call, sweep, token, history>>

Finish(w) ==
  /\ worker[w].pc = "done"
  /\ rows' = Append(rows, Put("complete", worker[w].state))
  /\ status' = "completed"
  /\ age' = 0
  /\ worker' = [worker EXCEPT ![w] = Free]
  /\ UNCHANGED <<queue, call, sweep, token, history, raced>>

-----------------------------------------------------------------------------
(* The task task_validate_awaiting_callbacks *)

\* find_timed_out_callbacks: the process awaits, and its last row is old enough
\* and carries a timeout.
SweepFind ==
  /\ sweep.pc = "idle"
  /\ status = "awaiting_callback"
  /\ rows # <<>> /\ LastRow.state.stage >= 3
  /\ age > Timeout
  /\ sweep' = [sweep EXCEPT !.pc = "found"]
  /\ UNCHANGED <<status, rows, queue, call, worker, token, age, history, raced>>

\* _fail_if_still_awaiting: the status is checked again, and fail_awaiting_wf
\* checks the state that was loaded with it.
SweepLoad ==
  /\ sweep.pc = "found"
  /\ sweep' = IF status = "awaiting_callback" /\ IsHalted(rows)
              THEN [pc |-> "loaded", copy |-> LastRow.state]
              ELSE NoSweep
  /\ UNCHANGED <<status, rows, queue, call, worker, token, age, history, raced>>

\* The last row becomes a failure, whatever it is by now.
SweepFail ==
  /\ sweep.pc = "loaded"
  /\ rows' = Written(Put("failed", sweep.copy), TRUE)
  /\ status' = "failed"
  /\ age' = 0
  /\ raced' = (raced \/ Overtaken(sweep.copy))
  /\ sweep' = NoSweep
  /\ UNCHANGED <<queue, call, worker, token, history>>

-----------------------------------------------------------------------------
Later(time) == IF time > Timeout THEN time ELSE time + 1

\* A second passes.  Time is only told where it is looked at: in a row that awaits
\* and in a group that will write one.
Tick ==
  /\ age' = IF status = "awaiting_callback" THEN Later(age) ELSE age
  /\ worker' = [w \in Workers |->
       IF worker[w].pc \in {"group", "leave"}
       THEN [worker[w] EXCEPT !.age = Later(@)] ELSE worker[w]]
  /\ UNCHANGED <<status, rows, queue, call, sweep, token, accepted, seen, raced>>

WorkerStep(w) ==
  \/ Take(w) \/ Load(w) \/ Claim(w) \/ Answer(w) \/ Continue(w)
  \/ CreateEndpoint(w) \/ CallService(w) \/ Await(w) \/ Validate(w) \/ Cleanup(w)
  \/ LeaveGroup(w) \/ Finish(w)

Commit(c) == CommitCallback(c) \/ CommitProgress(c)

Sweep == SweepFind \/ SweepLoad \/ SweepFail

Next ==
  \/ \E c \in Calls, t \in Tokens : Read(c, t)
  \/ \E c \in Calls : Commit(c)
  \/ Resume \/ Abort
  \/ \E w \in Workers : WorkerStep(w)
  \/ Sweep
  \/ Tick

Spec == Init /\ [][Next]_vars

\* Workers go on, the task is scheduled again and again, time passes; the external
\* service and the users owe nothing.
FairSpec ==
  /\ Spec
  /\ \A w \in Workers : WF_vars(WorkerStep(w))
  /\ WF_vars(Sweep)
  /\ WF_vars(Tick)

-----------------------------------------------------------------------------
TypeOK ==
  /\ status \in ProcessStatus
  /\ rows \in Seq([status : StepStatus, state : State])
  /\ queue \in Nat
  /\ call \in [Calls -> [pc : {"idle", "read"}, row : Nat, copy : State]]
  /\ worker \in [Workers -> [pc : {"idle", "load", "claim", "claimed", "group", "leave", "done"},
                             todo : 1..3, st : StepStatus, state : State,
                             replace : BOOLEAN, age : 0..(Timeout + 1)]]
  /\ sweep \in [pc : {"idle", "found", "loaded"}, copy : State]
  /\ token \in 0..MaxToken
  /\ age \in 0..(Timeout + 1)
  /\ accepted \in [Tokens -> 0..2]
  /\ seen \in SUBSET (Tokens \X (0..MaxToken))
  /\ raced \in BOOLEAN

\* Whatever races: data that reaches the validating step was posted with the token
\* of the very execution of the group that is validated, never with one of an
\* earlier attempt.
DataMatchesToken == \A s \in seen : s[2] \in {0, s[1]}

\* "At that point, the callback URL is disabled (so further triggers will not
\* result in a repeat), a validation step is performed": no token is accepted
\* twice, and what is validated under an accepted token is its data; only a
\* transaction that writes from an outdated copy can break this.
CallbackUsedOnce ==
  ~ raced => \A t \in Tokens :
    /\ accepted[t] <= 1
    /\ accepted[t] = 1 => <<t, 0>> \notin seen

\* A callback that was accepted is validated in the end, or the process aborted,
\* unless a transaction wrote from an outdated copy.
AcceptedIsValidated ==
  \A t \in Tokens :
    accepted[t] > 0 ~> (<<t, t>> \in seen \/ status = "aborted" \/ raced)

Outcome == IF status \in {"completed", "aborted"} THEN status ELSE "open"

Route ==
  INSTANCE OneTimeRoute WITH issued <- token, used <- seen, outcome <- Outcome,
                             broken <- raced

\* The attempts of the group implement OneTimeRoute.  Until a transaction writes from
\* an outdated copy: an answer is accepted once and on the last route only; nothing
\* starts the group anew while that answer is pending; it is validated once, with the
\* data that was posted; and the process is only completed after the last route was
\* validated.
ImplementsRoute == Route!Spec

\* A process does not wait for ever: reports do not extend the time, and the task
\* fails it although callbacks, reports and users come in between.
AwaitEnds == status = "awaiting_callback" ~> status # "awaiting_callback"
=============================================================================

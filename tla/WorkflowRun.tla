----------------------------- MODULE WorkflowRun -----------------------------
(***************************************************************************)
(* One process and the engine that executes it: runwf and _exec_steps of   *)
(* workflow.py with the logging callback safe_logstep of                   *)
(* services/processes.py, and what users and operators do to the process   *)
(* meanwhile (resume, abort, pause and unpause the engine).                *)
(*                                                                         *)
(* At most one executor works on the process at a time: that this is so is *)
(* the business of the executors and is modelled by ProcessDispatch.       *)
(* Every action is one database transaction or one step in memory; the     *)
(* variables of the executor are lost when it crashes.                     *)
(***************************************************************************)
EXTENDS StepLog

CONSTANTS
  N,        \* number of steps of the workflow
  Kind,     \* Kind[i]: what sort of step i is
  Subs,     \* Subs[i]: the kinds of the sub steps of group i, <<>> otherwise
  IsTask,   \* the process is a task, whose failures are classified
  Faults,   \* which of AllFaults may happen
  MaxRows   \* bound: nobody resumes or aborts once the log is this long

\* "form" is not a fault: the forms of input steps have required fields.
AllFaults == {"crash", "pause", "abort_running", "log", "form"}

ASSUME WorkflowAssumption ==
  /\ N \in Nat \ {0}
  /\ Kind \in [1..N -> Kinds \cup {"group"}]
  /\ Subs \in [1..N -> Seq(Kinds)]
  /\ Kind[N] = "done"
  /\ \A i \in 1..(N - 1) : Kind[i] # "done"
  /\ \A i \in 1..N : \A j \in 1..Len(Subs[i]) : Subs[i][j] # "done"
  /\ IsTask \in BOOLEAN
  /\ Faults \subseteq AllFaults
  /\ MaxRows \in Nat

\* _extend_step_group_steps puts an exit step, and only one, at the end of a group.
ASSUME GroupsAssumption ==
  \A i \in 1..N : Kind[i] = "group" =>
    /\ Subs[i] # <<>>
    /\ \A j \in 1..Len(Subs[i]) : Subs[i][j] = "exit" <=> j = Len(Subs[i])

\* Everything a complete execution has to run, step by step.
WorkOf(i) ==
  IF Kind[i] = "group" THEN {<<i, j>> : j \in 1..Len(Subs[i])} ELSE {<<i, 0>>}

Work == UNION {WorkOf(i) : i \in 1..N}

VARIABLES
  log,         \* the rows of process_steps, oldest first
  lastStatus,  \* ProcessTable.last_status
  lock,        \* EngineSettingsTable.global_lock
  pc,          \* where the executor is
  todo,        \* index of the step at the head of the remaining steps
  st,          \* status of the process the executor holds in memory
  sub,         \* __sub_step of the state the executor holds in memory
  pend,        \* outcome that is not logged yet
  repl,        \* __replace_last_state of that outcome
  idx,         \* in a group: index of the next sub step
  had,         \* in a group: the initial state had a __sub_step
  ran          \* history: the steps and sub steps that have been executed

database == <<log, lastStatus, lock>>
memory   == <<todo, st, sub, pend, repl, idx, had>>
vars     == <<log, lastStatus, lock, pc, todo, st, sub, pend, repl, idx, had, ran>>

Locations == {"idle", "loaded", "loop", "step", "write",
              "group", "substep", "subwrite"}

Init ==
  /\ log = <<>>
  /\ lastStatus = "created"
  /\ lock = FALSE
  /\ pc = "idle"
  /\ todo = 1
  /\ st = "success"
  /\ sub = NoSub
  /\ pend = "success"
  /\ repl = FALSE
  /\ idx = 1
  /\ had = FALSE
  /\ ran = {}

-----------------------------------------------------------------------------
(* The executor *)

\* A worker takes the task of a created or resumed process, loads the process
\* and marks it RUNNING.
Begin ==
  /\ pc = "idle"
  /\ lastStatus \in {"created", "resumed"}
  /\ lastStatus' = "running"
  /\ st' = RecoveredStatus(log)
  /\ sub' = RecoveredSub(log)
  /\ todo' = RestFrom(log, N)
  /\ pc' = "loaded"
  /\ UNCHANGED <<log, lock, pend, repl, idx, had, ran>>

\* Faulty: the executor waits for the end of the pause.
LoopHead_Waits(status, next) ==
  IF lock THEN "loop"
  ELSE IF Continues(status) /\ next <= N THEN "step" ELSE "idle"

\* The head of the loop of _exec_steps: go on to a step, or leave.
LoopHead(status, next) ==
  IF Continues(status) /\ next <= N /\ ~lock THEN "step" ELSE "idle"

\* Faulty: the answered step stays at the head of the remaining steps.
ResumeHalted_NoPop ==
  /\ pc = "loaded"
  /\ st \in {"suspend", "awaiting_callback"}
  /\ todo <= N
  /\ log' = WriteRow(log, Row(<<todo, 0>>, "success", sub), FALSE, FALSE)
  /\ lastStatus' = "running"
  /\ st' = "success"
  /\ ran' = ran \cup {IF sub = NoSub THEN <<todo, 0>> ELSE sub}
  /\ pc' = LoopHead("success", todo)
  /\ UNCHANGED <<lock, todo, sub, pend, repl, idx, had>>

\* resume_suspend: the answer to a suspended step is logged as a success.  The
\* row is committed by the transaction of the first lock check.
ResumeHalted ==
  /\ pc = "loaded"
  /\ st \in {"suspend", "awaiting_callback"}
  /\ todo <= N
  /\ log' = WriteRow(log, Row(<<todo, 0>>, "success", sub), FALSE, FALSE)
  /\ lastStatus' = "running"
  /\ st' = "success"
  /\ todo' = IF sub = NoSub THEN todo + 1 ELSE todo
  /\ ran' = ran \cup {IF sub = NoSub THEN <<todo, 0>> ELSE sub}
  /\ pc' = LoopHead("success", todo')
  /\ UNCHANGED <<lock, sub, pend, repl, idx, had>>

\* Process.resume for every other status.
ResumeOther ==
  /\ pc = "loaded"
  /\ st \notin {"suspend", "awaiting_callback"}
  /\ st' = ResumeStatus(st)
  /\ pc' = LoopHead(ResumeStatus(st), todo)
  /\ UNCHANGED <<log, lastStatus, lock, todo, sub, pend, repl, idx, had, ran>>

Check ==
  /\ pc = "loop"
  /\ pc' = LoopHead(st, todo)
  /\ UNCHANGED <<database, memory, ran>>

\* The state an outcome carries: an error replaces the state.
Carries(outcome, position) ==
  IF outcome \in {"failed", "waiting"} THEN NoSub ELSE position

\* Only a step that returned counts as executed; an input step is executed
\* when it is answered.
Executed(outcome, position) ==
  IF outcome \in {"success", "skipped", "complete"} THEN {position} ELSE {}

\* The step runs in a transaction of its own.
RunStep ==
  /\ pc = "step"
  /\ Kind[todo] # "group"
  /\ \E outcome \in Outcomes[Kind[todo]] :
       /\ pend' = outcome
       /\ sub' = Carries(outcome, sub)
       /\ ran' = ran \cup Executed(outcome, <<todo, 0>>)
  /\ repl' = FALSE
  /\ pc' = "write"
  /\ UNCHANGED <<database, todo, st, idx, had>>

\* The outcome is written in a second transaction.
WriteStep ==
  /\ pc = "write"
  /\ \E same \in BOOLEAN :
       log' = WriteRow(log, Row(<<todo, 0>>, pend, sub), repl, same)
  /\ lastStatus' \in StoredStatuses(pend, IsTask)
  /\ st' = pend
  /\ todo' = todo + 1
  /\ pc' = "loop"
  /\ UNCHANGED <<lock, sub, pend, repl, idx, had, ran>>

\* Logging raises and the failure is logged instead.
WriteFails ==
  /\ "log" \in Faults
  /\ pc = "write"
  /\ \E same \in BOOLEAN :
       log' = WriteRow(log, Row(<<todo, 0>>, "failed", NoSub), FALSE, same)
  /\ lastStatus' \in StoredStatuses("failed", IsTask)
  /\ st' = "failed"
  /\ sub' = NoSub
  /\ todo' = todo + 1
  /\ pc' = "loop"
  /\ UNCHANGED <<lock, pend, repl, idx, had, ran>>

\* Logging the failure raises as well: _db_log_process_ex ends the run.
WriteGivesUp ==
  /\ "log" \in Faults
  /\ pc = "write"
  /\ lastStatus' = IF lastStatus = "waiting" THEN "waiting" ELSE "failed"
  /\ pc' = "idle"
  /\ UNCHANGED <<log, lock, memory, ran>>

-----------------------------------------------------------------------------
(* A step group runs its sub steps in a loop of its own. *)

\* Faulty: one sub step too far.
FirstSub_TooFar(i, position) ==
  IF position = NoSub THEN 1
  ELSE IF position[1] = i THEN position[2] + 2 ELSE Len(Subs[i]) + 1

\* The first sub step to run: the one after __sub_step, or the first one.
\* A __sub_step of another group leaves nothing to run.
FirstSub(i, position) ==
  IF position = NoSub THEN 1
  ELSE IF position[1] = i THEN position[2] + 1 ELSE Len(Subs[i]) + 1

EnterGroup ==
  /\ pc = "step"
  /\ Kind[todo] = "group"
  /\ st' = "success"
  /\ had' = (sub # NoSub)
  /\ idx' = FirstSub(todo, sub)
  /\ pc' = "group"
  /\ UNCHANGED <<database, todo, sub, pend, repl, ran>>

\* The head of the inner loop.
CheckSub ==
  /\ pc = "group"
  /\ Continues(st) /\ idx <= Len(Subs[todo]) /\ ~lock
  /\ pc' = "substep"
  /\ UNCHANGED <<database, memory, ran>>

\* The inner loop ends, whatever the reason, and the group returns what it
\* holds, to be written over the row of its last sub step.
LeaveGroup ==
  /\ pc = "group"
  /\ ~ (Continues(st) /\ idx <= Len(Subs[todo]) /\ ~lock)
  /\ pend' = st
  /\ repl' = TRUE
  /\ pc' = "write"
  /\ UNCHANGED <<database, todo, st, sub, idx, had, ran>>

RunSub ==
  /\ pc = "substep"
  /\ \E outcome \in Outcomes[Subs[todo][idx]] :
       /\ pend' = outcome
       /\ ran' = ran \cup Executed(outcome, <<todo, idx>>)
  /\ pc' = "subwrite"
  /\ UNCHANGED <<database, todo, st, sub, repl, idx, had>>

\* Faulty: the exit step leaves __sub_step in the state.
WriteSub_KeepsSub ==
  /\ pc = "subwrite"
  /\ sub' = <<todo, idx>>
  /\ log' = WriteRow(log, Row(<<todo, 0>>, pend, sub'), had \/ idx # 1, FALSE)
  /\ lastStatus' \in StoredStatuses(pend, IsTask)
  /\ st' = pend
  /\ idx' = idx + 1
  /\ pc' = "group"
  /\ UNCHANGED <<lock, todo, pend, repl, had, ran>>

\* dblogstep of step_group: the exit step removes __sub_step again.
WriteSub ==
  /\ pc = "subwrite"
  /\ sub' = IF Subs[todo][idx] = "exit" THEN NoSub ELSE <<todo, idx>>
  /\ log' = WriteRow(log, Row(<<todo, 0>>, pend, sub'), had \/ idx # 1, FALSE)
  /\ lastStatus' \in StoredStatuses(pend, IsTask)
  /\ st' = pend
  /\ idx' = idx + 1
  /\ pc' = "group"
  /\ UNCHANGED <<lock, todo, pend, repl, had, ran>>

\* Logging the sub step raises; the failure is a row under the sub step's name.
WriteSubFails ==
  /\ "log" \in Faults
  /\ pc = "subwrite"
  /\ log' = WriteRow(log, Row(<<todo, idx>>, "failed", NoSub), FALSE, FALSE)
  /\ lastStatus' \in StoredStatuses("failed", IsTask)
  /\ st' = "failed"
  /\ sub' = NoSub
  /\ idx' = idx + 1
  /\ pc' = "group"
  /\ UNCHANGED <<lock, todo, pend, repl, had, ran>>

\* Logging that failure raises as well: the group as a whole fails.
WriteSubGivesUp ==
  /\ "log" \in Faults
  /\ pc = "subwrite"
  /\ pend' = "failed"
  /\ repl' = FALSE
  /\ sub' = NoSub
  /\ pc' = "write"
  /\ UNCHANGED <<database, todo, st, idx, had, ran>>

Crash ==
  /\ "crash" \in Faults
  /\ pc # "idle"
  /\ pc' = "idle"
  /\ UNCHANGED <<database, memory, ran>>

-----------------------------------------------------------------------------
(* Users and operators *)

Resume ==
  /\ ~lock
  /\ lastStatus \in RESUMABLE_STATUSES \ {"resumed"}
  /\ RestFrom(log, N) <= N
  /\ Len(log) < MaxRows
  /\ lastStatus' = "resumed"
  /\ UNCHANGED <<log, lock, pc, memory, ran>>

Abort ==
  /\ pc = "idle" \/ "abort_running" \in Faults
  /\ Len(log) < MaxRows
  /\ RecoveredStatus(log) # "complete"
  /\ log' = WriteRow(log, Row(UserAborted, "abort", RecoveredSub(log)), FALSE, FALSE)
  /\ lastStatus' = "aborted"
  /\ UNCHANGED <<lock, pc, memory, ran>>

Pause ==
  /\ "pause" \in Faults
  /\ ~lock
  /\ lock' = TRUE
  /\ UNCHANGED <<log, lastStatus, pc, memory, ran>>

\* post_form accepts an empty answer for the step that is to be run next.
EmptyAnswerAccepted ==
  /\ RestFrom(log, N) <= N
  /\ "form" \in Faults => Kind[RestFrom(log, N)] # "input"

\* marshall_processes: the lock is released, then a RUNNING process is resumed
\* with an empty answer; when the form rejects that, nothing is resumed.
\* The operator waits until the engine is PAUSED, so no executor is at work.
Unpause ==
  /\ lock
  /\ pc = "idle"
  /\ lock' = FALSE
  /\ lastStatus' = IF lastStatus = "running" /\ EmptyAnswerAccepted
                   THEN "resumed" ELSE lastStatus
  /\ UNCHANGED <<log, pc, memory, ran>>

-----------------------------------------------------------------------------
RunGroup == EnterGroup \/ CheckSub \/ LeaveGroup \/ RunSub \/ WriteSub
WriteFault == WriteFails \/ WriteGivesUp \/ WriteSubFails \/ WriteSubGivesUp

Executor ==
  Begin \/ ResumeHalted \/ ResumeOther \/ Check \/ RunStep \/ WriteStep \/ RunGroup

User == Resume \/ Abort \/ Pause \/ Unpause

Next == Executor \/ WriteFault \/ Crash \/ User

Spec == Init /\ [][Next]_vars

\* A worker that holds the process, or finds its task in the queue, goes on.
FairSpec == Spec /\ WF_vars(Executor)
-----------------------------------------------------------------------------
(* Properties *)

\* The log, the process row and what the executor holds have their types; in
\* particular _recoverwf never positions an executor beyond the workflow's end.
TypeOK ==
  /\ log \in Seq(LogRow)
  /\ lastStatus \in ProcessStatus
  /\ lock \in BOOLEAN
  /\ pc \in Locations
  /\ todo \in 1..(N + 1)
  /\ st \in StepStatus
  /\ sub \in Position
  /\ pend \in StepStatus
  /\ repl \in BOOLEAN
  /\ idx \in Nat \ {0}
  /\ had \in BOOLEAN
  /\ ran \in SUBSET Position

\* A process is only reported as completed when every step of the workflow,
\* and every sub step of its groups, has been executed or skipped by its own
\* condition, however often the engine was paused, killed or resumed between.
NothingSkipped == lastStatus = "completed" => Work \subseteq ran

WasAborted == \E i \in DOMAIN log : log[i].status = "abort"

\* What _recoverwf counts as done has been done: when no executor is at work,
\* the steps before the one the next resume starts with were all executed.
RecoveryExact ==
  pc = "idle" /\ ~WasAborted =>
    \A i \in 1..StepCount(log) : i <= N /\ WorkOf(i) \subseteq ran

\* The position of a running executor is the one _recoverwf would compute from
\* the log, so that a crash repeats at most the step in progress.
PositionMatchesLog ==
  pc \in {"loop", "step", "write"} /\ Continues(st) /\ ~repl =>
    todo = StepCount(log) + 1

\* ProcessTable.last_status and the last row of process_steps tell the same
\* story whenever the process is at rest.
StatusMatchesLog ==
  pc = "idle" /\ lastStatus \notin {"created", "running", "resumed"} =>
    log # <<>> /\ lastStatus \in StoredStatuses(log[Len(log)].status, IsTask)

\* "This is irreversible": no step writes over the status of an aborted process.
AbortIsFinal == [][lastStatus = "aborted" => lastStatus' = "aborted"]_vars

\* An executor that started always comes to rest.
ExecutorStops == (pc # "idle") ~> (pc = "idle")

\* The sub steps of a group are executed in order: none is executed before its
\* predecessors, even in executions that leave some of them out.
SubStepsInOrder ==
  \A w \in ran : w[2] > 1 => <<w[1], w[2] - 1>> \in ran

\* A resume that was accepted is not forgotten: the process stays RESUMED until
\* a worker takes it up or a user aborts it.
ResumeKept ==
  [][lastStatus = "resumed" =>
       lastStatus' \in {"resumed", "running", "aborted"}]_vars

\* The engine implements AtLeastOnce: rows of a group in progress do not count.
RecordedRows ==
  {i \in ClearedRows(log) : log[i].status # "abort" /\ log[i].sub = NoSub}

Outcome ==
  IF lastStatus \in {"completed", "aborted"} THEN lastStatus ELSE "open"

Promise ==
  INSTANCE AtLeastOnce WITH pos <- Cardinality(RecordedRows), outcome <- Outcome

\* The steps of a workflow are executed in order, at least once, and never
\* again once they are recorded.
ImplementsPromise == Promise!Spec
=============================================================================

---------------------------- MODULE StepComposition ----------------------------
(***************************************************************************)
(* What the combinators of workflow.py do with the state of a process:     *)
(* step lists, `conditional', `focussteps', input steps and step groups,   *)
(* interrupted by failures and by suspending, stored row by row, recovered *)
(* and resumed.  WorkflowRun is about which step is executed when; this    *)
(* module is about the state that the steps see and return.                *)
(*                                                                         *)
(* Of a state the model keeps which steps have contributed to it, at the   *)
(* top level and below the key that `focussteps' zooms in on, and the keys *)
(* by which a step group talks to the writer of the log.                   *)
(***************************************************************************)
EXTENDS Integers, Sequences, SequencesExt

NoName == ""

\* The sub steps of a group are told apart by their kind and name.
NoSubStep == <<NoName, NoName>>

\* A dictionary: by whom it was made, __step_group, __sub_step, __replace_last_state, and
\* whether __remove_keys lists the keys of the group.
Nothing == [made |-> <<>>, group |-> NoName, sub_step |-> NoSubStep, replace |-> FALSE, remove |-> FALSE]

\* The state: the top level and the dictionary below the key.
NoState == [top |-> Nothing, key |-> Nothing]

\* The subclasses of Process: a status and a state.
Process(status, state) == [status |-> status, state |-> state]

\* map, once the function has been applied: the same status with another state.
WithState(process, state) == Process(process.status, state)

\* issuspend, iswaiting and the rest of them.
Is(process, status) == process.status = status

HasFailed(process) == Is(process, "failed")

GoesOn(process) == Is(process, "success") \/ Is(process, "skipped")

-----------------------------------------------------------------------------
(* The log *)

\* _get_current_step_to_update: internal keys are not stored.
Stored(state) ==
  LET top == [state.top EXCEPT !.replace = FALSE, !.remove = FALSE]
  IN  [state EXCEPT !.top = IF state.top.remove
                            THEN [top EXCEPT !.group = NoName, !.sub_step = NoSubStep] ELSE top]

\* _db_log_step returns the process as it is stored.
LogStep(rows, process) ==
  LET row == Process(process.status, Stored(process.state))
  IN  [process |-> row,
       rows |-> IF process.state.top.replace /\ rows # <<>>
                THEN ReplaceAt(rows, Len(rows), row) ELSE Append(rows, row)]

IsCleared(row) == row.status \in {"success", "skipped"}

\* from_status: what the row of a step says is the process.
FromStatus(row) == Process(row.status, row.state)

\* _recoverwf and load_process
Recovered(workflow, rows) ==
  LET persistent == SelectSeq(rows, IsCleared)
      process == IF rows # <<>> /\ Last(rows).status = "suspend" THEN FromStatus(Last(rows))
                 ELSE IF persistent # <<>> THEN FromStatus(Last(persistent))
                 ELSE Process("success", NoState)
  IN  [process |-> process, rest |-> SubSeq(workflow, Len(persistent) + 1, Len(workflow))]

-----------------------------------------------------------------------------
(* Steps *)

\* Steps are records: kind is "plain", "input", "enter", "exit" or "group"; when is the
\* condition of `conditional', focus says whether `focussteps' zooms in, and steps are
\* those of a group.
Step(kind, name, when, focus, steps) ==
  [kind |-> kind, name |-> name, when |-> when, focus |-> focus, steps |-> steps]

\* The conditions: always, or as long as few steps have contributed.
Holds(condition, state) == condition = "always" \/ Len(state.top.made) < 2

\* conditional: the condition is evaluated for each step.
Conditional(step, state) == Holds(step.when, state)

\* focussteps: get and set.
Get(state) == [top |-> state.key, key |-> Nothing]
Set(state, substate) == [state EXCEPT !.key = substate.top]

\* steplens: the error of a failed step stays at the top level.
Zoomed(step, state, result) ==
  IF ~step.focus \/ HasFailed(result) \/ Is(result, "waiting") THEN result
  ELSE WithState(result, Set(state, result.state))

\* step, inputstep and the two steps that _extend_step_group_steps adds.
Executed(step, state, failing) ==
  CASE step.kind = "plain" /\ step.name \in failing -> Process("failed", NoState)
    [] step.kind = "plain" /\ step.name \notin failing ->
         Process("success", [state EXCEPT !.top.made = Append(@, step.name)])
    [] step.kind = "input" -> Process("suspend", state)
    [] step.kind = "enter" -> Process("success", [state EXCEPT !.top.group = step.name])
    [] step.kind = "exit" -> Process("success", [state EXCEPT !.top.remove = TRUE])

\* A wrapped step that is not a group.
Single(step, state, failing) ==
  IF ~Conditional(step, state) THEN Process("skipped", state)
  ELSE Zoomed(step, state, Executed(step, IF step.focus THEN Get(state) ELSE state, failing))

\* _extend_step_group_steps
SubSteps(group) ==
  <<Step("enter", group.name, "always", FALSE, <<>>)>> \o group.steps \o
  <<Step("exit", group.name, "always", FALSE, <<>>)>>

\* The sub steps after the one in __sub_step, or all.
SubStepsLeft(group, state) ==
  LET steps == SubSteps(group)
      passed == SelectInSeq(steps, LAMBDA s : <<s.kind, s.name>> = state.top.sub_step)
  IN  IF state.top.sub_step = NoSubStep THEN steps
      ELSE IF passed = 0 THEN <<>> ELSE SubSeq(steps, passed + 1, Len(steps))

\* step_group: every sub step after the first replaces the row of the one before, and so
\* does the row of the group.
Group(group, state, rows, failing) ==
  LET left == SubStepsLeft(group, state)
      Next(done, i) ==
        IF ~GoesOn(done.process) THEN done
        ELSE LET result == Single(left[i], done.process.state, failing)
             IN  LogStep(done.rows,
                   [result EXCEPT !.state.top.sub_step = <<left[i].kind, left[i].name>>,
                                  !.state.top.replace = i # 1 \/ state.top.sub_step # NoSubStep])
      done == FoldLeft(Next, [process |-> Process("success", state), rows |-> rows],
                       [i \in DOMAIN left |-> i])
  IN  [done EXCEPT !.process.state.top.replace = TRUE]

\* _exec_steps
Exec(steps, process, rows, failing) ==
  LET Next(done, step) ==
        IF ~GoesOn(done.process) THEN done
        ELSE IF step.kind = "group"
             THEN LET result == Group(step, done.process.state, done.rows, failing)
                  IN  LogStep(result.rows, result.process)
             ELSE LogStep(done.rows, Single(step, done.process.state, failing))
  IN  FoldLeft(Next, [process |-> process, rows |-> rows], steps)

\* Faulty: the group that is resumed is taken off the list like an input step.
ResumeSuspend_Pops(steps, process) == Tail(steps)

\* runwf.resume_suspend: an input step is done, a group goes on.
ResumeSuspend(steps, process) == IF process.state.top.group = NoName THEN Tail(steps) ELSE steps

\* runwf, after load_process
Resumed(workflow, rows, failing) ==
  LET loaded == Recovered(workflow, rows)
      next   == Process("success", loaded.process.state)
  IN  IF Is(loaded.process, "suspend")
      THEN LET logged == LogStep(rows, next)
           IN  Exec(ResumeSuspend(loaded.rest, next), logged.process, logged.rows, failing)
      ELSE Exec(loaded.rest, next, rows, failing)

-----------------------------------------------------------------------------
(* The reference: what a workflow means when nothing interrupts it *)

Meaning(workflow) ==
  LET Contribute(state, step) ==
        IF step.kind # "plain" \/ ~Holds(step.when, state) THEN state
        ELSE IF step.focus THEN [state EXCEPT !.key.made = Append(@, step.name)]
        ELSE [state EXCEPT !.top.made = Append(@, step.name)]
      Flat == FlattenSeq([i \in DOMAIN workflow |->
                IF workflow[i].kind = "group" THEN workflow[i].steps ELSE <<workflow[i]>>])
  IN  FoldLeft(Contribute, NoState, Flat)

\* Plain and input steps with every wrapper.
Leaves(name) ==
  {Step(kind, name, when, focus, <<>>) :
     kind \in {"plain", "input"}, when \in {"always", "few"}, focus \in BOOLEAN}

\* Groups are neither conditional nor focussed: both lose track of their sub steps.
Groups(name, a, b, c) ==
  {Step("group", name, "always", FALSE, <<p, q, r>>) :
     p \in {l \in Leaves(a) : l.kind = "plain"}, q \in Leaves(b),
     r \in {l \in Leaves(c) : l.kind = "plain" /\ ~l.focus}}

Workflows ==
  {<<x, y, z>> : x \in Leaves("a"), y \in Groups("g", "b", "c", "d"),
                 z \in {l \in Leaves("e") : ~l.focus} \cup
                       {Step("group", "h", "always", FALSE, <<Step("input", "e", "always", FALSE, <<>>)>>)}}

Attempts == 6

\* A workflow of which these steps fail in the first two attempts.
Interrupted(workflow, failing) ==
  LET after[n \in 1..Attempts] ==
        IF n = 1 THEN Exec(workflow, Process("success", NoState), <<>>, failing)
        ELSE IF GoesOn(after[n - 1].process) THEN after[n - 1]
        ELSE Resumed(workflow, after[n - 1].rows, IF n = 2 THEN failing ELSE {})
  IN  after[Attempts]

\* However a workflow is interrupted by failing and suspended steps, resuming it ends in the
\* state that its steps mean, with one cleared row per step and no internal key left.
CompositionExact(workflows) ==
  \A workflow \in workflows : \A failing \in SUBSET {"b", "d"} :
    LET done == Interrupted(workflow, failing)
    IN  /\ GoesOn(done.process)
        /\ done.process.state = Meaning(workflow)
        /\ Len(SelectSeq(done.rows, IsCleared)) = Len(workflow)
=============================================================================

------------------------------ MODULE StoredInput ------------------------------
(***************************************************************************)
(* Which input a step gets to see.  What users enter is stored in rows of  *)
(* input_states (services/input_state.py) by whoever creates or resumes a  *)
(* process (services/processes.py); the worker that executes the process   *)
(* merges the newest row into the state (services/executors/threadpool.py) *)
(* whoever stored it, and whichever step it was entered for.               *)
(*                                                                         *)
(* Requests and workers are those of the Celery executor: a request stores *)
(* its row together with the status, and a message for the worker.         *)
(***************************************************************************)
EXTENDS Integers, Sequences, SequencesExt

\* The kinds of steps: every workflow starts with "init"; an input step asks for a value, the
\* next "compute" changes it, "await" awaits a callback.
Kinds == {"init", "input", "plain", "compute", "await"}

\* The values under the key of an input step: none, those that users entered, the one in an
\* empty form, the one a step computed.
NoValue == 0
Default == 8
Computed == 9

\* A state: whether the initial state is in it, and the value of every input step.
NoState(workflow) == [started |-> FALSE, value |-> [i \in DOMAIN workflow |-> NoValue]]

\* InputStateTable
Input(type, step, value) == [type |-> type, step |-> step, value |-> value]

NoRun == [at |-> 0, state |-> NoState(<<>>), answered |-> FALSE]

NoRequest == Input("none", 0, NoValue)

Hazards == {"none", "lenient", "overlap", "unlogged"}

\* create_process: the process and its initial state are stored, its message is on the way.
\* hazard is "lenient" if forms accept an empty answer, "overlap" if other requests come
\* between the reading and the writing of one, "unlogged" if the row of the first step may
\* not be written; left bounds what may happen.
CreateProcess(workflow, hazard) ==
  [workflow |-> workflow, hazard |-> hazard, status |-> "created", rows |-> <<>>, inputs |-> <<Input("initial_state", 0, NoValue)>>,
   messages |-> <<"start">>, run |-> NoRun, request |-> NoRequest,
   left |-> [answer |-> 2, resume |-> 2, crash |-> 1, failure |-> 2]]

-----------------------------------------------------------------------------
(* The rows of inputs *)

\* store_input_state
StoreInputState(w, input) == [w EXCEPT !.inputs = Append(@, input)]

\* Faulty: the oldest of them.
RetrieveInputState_Oldest(w, type) ==
  LET found == SelectSeq(w.inputs, LAMBDA x : x.type = type)
  IN  IF found = <<>> THEN NoRequest ELSE Head(found)

\* retrieve_input_state: the newest of a type, or an empty one.
RetrieveInputState(w, type) ==
  LET found == SelectSeq(w.inputs, LAMBDA x : x.type = type)
  IN  IF found = <<>> THEN NoRequest ELSE Last(found)

\* StateMerger.merge
Merged(state, input) ==
  CASE input.type = "initial_state" -> [state EXCEPT !.started = TRUE]
    [] input.type = "user_input" /\ input.value # NoValue -> [state EXCEPT !.value[input.step] = input.value]
    [] OTHER -> state

-----------------------------------------------------------------------------
(* What is read back *)

IsCleared(row) == row.status = "success"

IsAnswered(row) == row.status \in {"suspend", "awaiting_callback"}

\* load_process: the state, and the step to go on with.
LoadedState(w) ==
  LET cleared == SelectSeq(w.rows, IsCleared)
  IN  IF w.rows # <<>> /\ IsAnswered(Last(w.rows)) THEN Last(w.rows).state
      ELSE IF cleared # <<>> THEN Last(cleared).state
      ELSE NoState(w.workflow)

LoadedStep(w) == Len(SelectSeq(w.rows, IsCleared)) + 1

KindOf(w, step) == IF step > Len(w.workflow) THEN "done" ELSE w.workflow[step]

-----------------------------------------------------------------------------
(* Requests *)

Resumable == {"suspended", "failed", "awaiting_callback", "resumed"}

\* The rest of resume_process: the input is stored in the transaction that sets the status.
Accepted(w, input) ==
  [StoreInputState(w, input) EXCEPT !.status = "resumed", !.messages = Append(@, "resume")]

\* resume_process_endpoint: a user answers the form of the step that is to be run next.
Answers(w) ==
  IF w.left.answer = 0 \/ w.status \notin {"suspended", "resumed"} \/ KindOf(w, LoadedStep(w)) # "input" THEN {}
  ELSE {Input("user_input", LoadedStep(w), w.left.answer)}

\* resume_process without input: retries, resume-all, the task that resumes what is stuck, and
\* unpausing.  A step without form needs no input.
EmptyAnswers(w) ==
  IF w.left.resume = 0 \/ w.status \notin {"failed", "resumed", "running"} \/ w.run # NoRun THEN {}
  ELSE IF KindOf(w, LoadedStep(w)) # "input" THEN {Input("user_input", LoadedStep(w), NoValue)}
  ELSE IF w.hazard = "lenient" THEN {Input("user_input", LoadedStep(w), Default)}
  ELSE {}

Counted(w, input) ==
  IF input.value \in {NoValue, Default} THEN [w EXCEPT !.left.resume = @ - 1]
  ELSE [w EXCEPT !.left.answer = @ - 1]

Request(w) == {Accepted(Counted(w, input), input) : input \in Answers(w) \cup EmptyAnswers(w)}

\* restart_process
Restart(w) ==
  IF w.left.resume = 0 \/ w.status # "created" THEN {}
  ELSE {[w EXCEPT !.messages = Append(@, "start"), !.left.resume = @ - 1]}

\* A request in two steps: the process is loaded and the form validated; then the row of the
\* process is locked and only its status checked again.
BeginRequest(w) ==
  IF w.hazard # "overlap" \/ w.request # NoRequest THEN {}
  ELSE {[Counted(w, input) EXCEPT !.request = input] : input \in Answers(w) \cup EmptyAnswers(w)}

EndRequest(w) ==
  IF w.request = NoRequest THEN {}
  ELSE IF w.status \in Resumable THEN {[Accepted(w, w.request) EXCEPT !.request = NoRequest]}
  ELSE {[w EXCEPT !.request = NoRequest]}

\* continue_awaiting_process: the result is put into the row of the step, nothing is stored.
Callback(w) ==
  IF w.status # "awaiting_callback" THEN {}
  ELSE {[w EXCEPT !.status = "resumed", !.messages = Append(@, "resume")]}

-----------------------------------------------------------------------------
(* The worker *)

\* thread_start_process and thread_resume_process: a process that has no rows yet is given
\* its initial state also when it is resumed.
InputType(w, message) == IF message = "start" \/ w.rows = <<>> THEN "initial_state" ELSE "user_input"

Claimed(w, message) ==
  [w EXCEPT !.status = "running", !.messages = Tail(@),
            !.run = [at |-> LoadedStep(w),
                     state |-> Merged(LoadedState(w), RetrieveInputState(w, InputType(w, message))),
                     answered |-> w.rows # <<>> /\ IsAnswered(Last(w.rows))]]

\* start_process and resume_process of services/tasks.py: one message at a time.
Take(w) ==
  IF w.messages = <<>> \/ w.run # NoRun THEN {}
  ELSE IF w.status = (IF Head(w.messages) = "start" THEN "created" ELSE "resumed")
  THEN {Claimed(w, Head(w.messages))}
  ELSE {[w EXCEPT !.messages = Tail(@)]}

\* _db_log_step
Logged(w, status, state) ==
  [w EXCEPT !.rows = Append(@, [step |-> w.run.at, status |-> status, state |-> state])]

GoesOn(w, state) ==
  [Logged(w, "success", state) EXCEPT !.run = [at |-> @.at + 1, state |-> state, answered |-> FALSE]]

Stops(w, row, status) == [Logged(w, row, w.run.state) EXCEPT !.run = NoRun, !.status = status]

\* A step that changes what was entered in the input step before it.
Result(w) ==
  LET input == SelectLastInSubSeq(w.workflow, 1, w.run.at, LAMBDA kind : kind = "input")
  IN  [w.run.state EXCEPT !.value[input] = Computed]

\* runwf: an input step that was answered, or a callback that came, is logged first.
Execute(w) ==
  IF w.run = NoRun THEN {}
  ELSE IF w.run.answered THEN {GoesOn(w, w.run.state)}
  ELSE CASE KindOf(w, w.run.at) = "done"    -> {[w EXCEPT !.run = NoRun, !.status = "completed"]}
         [] KindOf(w, w.run.at) = "input"   -> {Stops(w, "suspend", "suspended")}
         [] KindOf(w, w.run.at) = "await"   -> {Stops(w, "awaiting_callback", "awaiting_callback")}
         [] KindOf(w, w.run.at) = "compute" -> {GoesOn(w, Result(w))}
         [] OTHER                           -> {GoesOn(w, w.run.state)}

\* A step fails, or its row cannot be written (safe_logstep).
Fail(w) ==
  IF w.left.failure = 0 \/ w.run = NoRun \/ w.run.answered THEN {}
  ELSE IF KindOf(w, w.run.at) \notin {"plain", "compute"} \cup (IF w.hazard = "unlogged" THEN {"init"} ELSE {}) THEN {}
  ELSE {[Stops(w, "failed", "failed") EXCEPT !.left.failure = @ - 1]}

\* A worker dies with the process it executes, or with the message it has taken.
Crash(w) ==
  IF w.left.crash = 0 THEN {}
  ELSE {[w EXCEPT !.run = NoRun, !.left.crash = @ - 1]} \cup
       (IF w.messages = <<>> THEN {} ELSE {[w EXCEPT !.messages = Tail(@), !.left.crash = @ - 1]})

Successors(w) ==
  UNION {Request(w), Restart(w), BeginRequest(w), EndRequest(w), Callback(w), Take(w), Execute(w), Fail(w), Crash(w)}

RECURSIVE Reachable(_, _)
More(seen, found) == IF found = {} THEN seen ELSE Reachable(seen \cup found, found)
Reachable(seen, frontier) == More(seen, UNION {Successors(w) : w \in frontier} \ seen)

Worlds(w) == Reachable({w}, {w})

-----------------------------------------------------------------------------
(* What a step may rely on *)

\* The last value that a user entered for a step.
LastAnswer(w, step) ==
  LET answers == SelectSeq(w.inputs, LAMBDA x : x.step = step /\ x.value \notin {NoValue, Default})
  IN  IF answers = <<>> THEN NoValue ELSE Last(answers).value

\* Input steps that were done when nothing had changed their value yet.
Answered(w) ==
  \A i \in DOMAIN w.rows :
    w.rows[i].status = "success" /\ KindOf(w, w.rows[i].step) = "input" =>
      /\ w.rows[i].state.value[w.rows[i].step] = LastAnswer(w, w.rows[i].step)
      /\ LastAnswer(w, w.rows[i].step) # NoValue

\* The rows of failures hold the error only.
Started(w) == \A i \in DOMAIN w.rows : w.rows[i].status # "failed" => w.rows[i].state.started

\* No step after a computation finds what was entered before it.
Kept(w) ==
  \A i, j \in DOMAIN w.rows :
    /\ i < j /\ IsCleared(w.rows[i]) /\ KindOf(w, w.rows[i].step) = "compute"
    /\ w.rows[j].status # "failed"
    => Computed \in ToSet(w.rows[j].state.value)

\* An input step goes on with the value that was entered for it last, whatever is retried,
\* resumed, restarted, lost or fails, exactly if requests do not overlap and no form accepts
\* an empty answer.  Every step finds the initial state, exactly if the row of the first step
\* is written: a row of its failure hides that it never ran.
AnswersExact(workflows) ==
  \A workflow \in workflows, hazard \in Hazards :
    LET worlds == Worlds(CreateProcess(workflow, hazard))
    IN  /\ (\A w \in worlds : Answered(w)) <=> hazard \notin {"lenient", "overlap"}
        /\ (\A w \in worlds : Started(w)) <=> hazard # "unlogged"

\* What a step computes from an answer is there for the steps after it, also when they are
\* retried, exactly if no callback makes the worker merge the answer once more.
KeptExact(workflows) ==
  \A workflow \in workflows :
    (\A w \in Worlds(CreateProcess(workflow, "none")) : Kept(w)) <=> "await" \notin ToSet(workflow)

Workflows == {<<"init", "input", "plain", "input">>}

Computing == {<<"init", "input", "compute", "plain">>, <<"init", "input", "compute", "await", "plain">>}
=============================================================================

------------------------------ MODULE HouseKeeping ------------------------------
(***************************************************************************)
(* Two tasks of the orchestrator whose single step does many things that   *)
(* are not undone when it is repeated.                                     *)
(*                                                                         *)
(* task_validate_subscriptions and task_validate_product_type start the    *)
(* validation workflows of subscriptions (services/workflows.py), each in  *)
(* a process of its own, which runs while the step goes on.                *)
(*                                                                         *)
(* task_clean_up_tasks deletes old tasks in one step, and in the next the  *)
(* rows that the search index keeps of them (workflows/tasks/              *)
(* cleanup_tasks_log.py); the list of what was deleted is in the state.    *)
(***************************************************************************)
EXTENDS Integers, Sequences, FiniteSets, SequencesExt

-----------------------------------------------------------------------------
(* Validation of subscriptions *)

\* A validation workflow: whether it is a task in the database, and whether its predicate
\* refuses to run it.
Workflow(name, is_task, refuses) == [name |-> name, is_task |-> is_task, refuses |-> refuses]

\* The workflows are those of the product that have the target VALIDATE.
Subscription(status, product_type, workflows) ==
  [status |-> status, product_type |-> product_type, workflows |-> workflows]

TARGET_DEFAULT_USABLE_MAP == {"active"}

\* WF_USABLE_MAP names the statuses of a workflow that is usable at other times.
UsableWhen(workflow, usable_map) ==
  IF workflow.name \in DOMAIN usable_map THEN usable_map[workflow.name] ELSE TARGET_DEFAULT_USABLE_MAP

\* get_subscription_validations: subscriptions without validation workflows are left out.
get_subscription_validations(subscriptions, wanted) ==
  SelectSeq([i \in DOMAIN subscriptions |-> i], LAMBDA i : i \in wanted /\ subscriptions[i].workflows # <<>>)

\* start_subscription_validations: what it starts of one subscription.
IsStarted(subscription, workflow, usable_map, filter) ==
  /\ subscription.status \in UsableWhen(workflow, usable_map)
  /\ filter = "all" \/ subscription.product_type = filter

StartedOf(subscription, i, usable_map, filter) ==
  LET usable == SelectSeq(subscription.workflows, LAMBDA wf : IsStarted(subscription, wf, usable_map, filter))
  IN  [k \in DOMAIN usable |-> <<i, usable[k]>>]

\* The validations to start, each a subscription and a workflow, in the order of the loops.
ToStart(w, wanted) ==
  LET infos == get_subscription_validations(w.subscriptions, wanted)
  IN  FlattenSeq([k \in DOMAIN infos |-> StartedOf(w.subscriptions[infos[k]], infos[k], w.usable_map, w.filter)])

\* The task before its step: everything is in sync; related subscriptions depend on each
\* other; out_of_sync is VALIDATE_OUT_OF_SYNC_SUBSCRIPTIONS.  todo is what the loops still have to do, validating the validations under way,
\* attempts bounds how often the step is run.
Task(subscriptions, related, usable_map, filter, out_of_sync) ==
  [subscriptions |-> subscriptions, related |-> related, out_of_sync |-> out_of_sync, usable_map |-> usable_map, filter |-> filter,
   outcome |-> "none", todo |-> <<>>, started |-> <<>>, waiting |-> {}, validating |-> {}, attempts |-> 2]

InSync(w, i) == i \notin {v[1] : v \in w.validating}

\* validate_subscriptions, validate_product_type: the subscriptions, or those that are in sync,
\* are listed once; the step is run again when it has failed and is retried.
Begin(w) ==
  IF w.outcome \notin {"none", "failed"} \/ w.attempts = 0 THEN {}
  ELSE {[w EXCEPT !.outcome = "running", !.attempts = @ - 1,
                  !.todo = ToStart(w, {i \in DOMAIN w.subscriptions : w.out_of_sync \/ InSync(w, i)})]}

\* Faulty: a related subscription is not looked at.
FormRefuses_OwnOnly(w, i, workflow) == ~workflow.is_task /\ ~InSync(w, i)

\* _generate_modify_form with subscription_workflows: tasks may be started in any case.
FormRefuses(w, i, workflow) ==
  /\ ~workflow.is_task
  /\ ~InSync(w, i) \/ (w.related /\ \E other \in DOMAIN w.subscriptions \ {i} : ~InSync(w, other))

\* create_process: the predicate is asked first, then the form; what it raises fails the
\* step.  The commit stores the process although the step has not ended.
StartNext(w) ==
  IF w.outcome # "running" THEN {}
  ELSE IF w.todo = <<>> THEN {[w EXCEPT !.outcome = "success"]}
  ELSE LET i == Head(w.todo)[1]
           workflow == Head(w.todo)[2]
       IN  IF workflow.refuses \/ FormRefuses(w, i, workflow)
           THEN {[w EXCEPT !.outcome = "failed", !.todo = <<>>]}
           ELSE {[w EXCEPT !.todo = Tail(@), !.started = Append(@, Head(w.todo)),
                           !.waiting = @ \cup {<<i, Len(w.started)>>}]}

\* A worker runs a validation: unsync_unchecked locks the subscription, resync unlocks it.
Validate(w) ==
  {[w EXCEPT !.waiting = @ \ {v}, !.validating = @ \cup {v}] : v \in w.waiting} \cup
  {[w EXCEPT !.validating = @ \ {v}] : v \in w.validating}

TaskSteps(w) == Begin(w) \cup StartNext(w) \cup Validate(w)

RECURSIVE TaskReachable(_, _)
MoreOfTask(seen, found) == IF found = {} THEN seen ELSE TaskReachable(seen \cup found, found)
TaskReachable(seen, frontier) == MoreOfTask(seen, UNION {TaskSteps(w) : w \in frontier} \ seen)

Tasks(w) == TaskReachable({w}, {w})

-----------------------------------------------------------------------------
(* Clean-up of tasks *)

\* Two completed tasks and their rows in the index.  old are those beyond the retention
\* time; state is the list that remove_tasks returned, row the one that is logged; reading is
\* a task that is being indexed.  hazard is "crash" if the worker may die, or the row of a step
\* may not be written, and "index" if a task may be indexed at any time.
OldTasks == 1..2

Nobody == 0

CleanUp(hazard) ==
  [hazard |-> hazard, pc |-> "remove", stored |-> OldTasks, old |-> {1}, indexed |-> OldTasks,
   state |-> {}, row |-> {}, reading |-> Nobody, left |-> 1]

\* remove_tasks in its transaction
remove_tasks(w) ==
  IF w.pc # "remove" THEN {}
  ELSE {[w EXCEPT !.pc = "logRemoved", !.state = w.old \cap w.stored, !.stored = @ \ w.old]}

\* _db_log_step in the next one
LogRemoved(w) == IF w.pc # "logRemoved" THEN {} ELSE {[w EXCEPT !.pc = "clean", !.row = w.state]}

cleanup_ai_search_index(w) ==
  IF w.pc # "clean" THEN {} ELSE {[w EXCEPT !.pc = "logCleaned", !.indexed = @ \ w.row]}

LogCleaned(w) == IF w.pc # "logCleaned" THEN {} ELSE {[w EXCEPT !.pc = "done"]}

\* The step that was not logged is run again, with the state of the last row.
Crash(w) ==
  IF w.hazard # "crash" \/ w.left = 0 THEN {}
  ELSE CASE w.pc \in {"remove", "logRemoved"} -> {[w EXCEPT !.pc = "remove", !.left = 0]}
         [] w.pc \in {"clean", "logCleaned"}  -> {[w EXCEPT !.pc = "clean", !.left = 0]}
         [] OTHER                             -> {}

\* Time passes.
Age(w) == IF w.old = OldTasks THEN {} ELSE {[w EXCEPT !.old = OldTasks]}

\* run_indexing_for_entity reads the task, and writes its rows later: PATCH of a process.
Index(w) ==
  IF w.hazard # "index" THEN {}
  ELSE IF w.reading # Nobody THEN {[w EXCEPT !.indexed = @ \cup {w.reading}, !.reading = Nobody]}
  ELSE IF w.left = 0 THEN {}
  ELSE {[w EXCEPT !.reading = task, !.left = 0] : task \in w.stored}

CleanUpSteps(w) ==
  UNION {remove_tasks(w), LogRemoved(w), cleanup_ai_search_index(w), LogCleaned(w), Crash(w), Age(w), Index(w)}

RECURSIVE CleanUpReachable(_, _)
MoreOfCleanUp(seen, found) == IF found = {} THEN seen ELSE CleanUpReachable(seen \cup found, found)
CleanUpReachable(seen, frontier) == MoreOfCleanUp(seen, UNION {CleanUpSteps(w) : w \in frontier} \ seen)

CleanUps(w) == CleanUpReachable({w}, {w})

-----------------------------------------------------------------------------
(* What the tasks may be relied on *)

All(w) == ToStart(w, DOMAIN w.subscriptions)

\* A validation of the subscription, or of one it is related to, was started before.
Disturbed(w, k) ==
  \E j \in 1..(k - 1) : w.related \/ All(w)[j][1] = All(w)[k][1]

\* Where the step may fail.
MayFail(w) ==
  {k \in DOMAIN All(w) : All(w)[k][2].refuses \/ (~All(w)[k][2].is_task /\ Disturbed(w, k))}

Count(list, x) == Cardinality({k \in DOMAIN list : list[k] = x})

Done(w) == w.outcome = "success"

\* A retry leaves out a subscription whose first validation is still under way.
Escapes(task, all, k, later) ==
  ~task.out_of_sync /\ all[later][1] # all[k][1] /\ \E j \in 1..(k - 1) : all[j][1] = all[k][1]

\* The step may fail exactly if a validation refuses, or is no task and another validation may
\* hold its subscription or a related one.  If it cannot fail, it starts every validation
\* once, whatever those that it has started do meanwhile.  A retry may start again what was
\* started before, but nothing behind a validation that always refuses, unless it finds that
\* subscription locked.
ValidationExact(tasks) ==
  \A task \in tasks :
    LET worlds == Tasks(task)
        all    == All(task)
        always == {k \in DOMAIN all : all[k][2].refuses}
    IN  /\ (\E w \in worlds : w.outcome = "failed") <=> (MayFail(task) # {})
        /\ MayFail(task) = {} => \A w \in worlds : Done(w) => w.started = all
        /\ (\E w \in worlds : \E k \in DOMAIN all : Count(w.started, all[k]) > 1)
             <=> (MayFail(task) # {} /\ 1 \notin MayFail(task))
        /\ \A k \in always : \A later \in (k + 1)..Len(all) \ always :
             (\E w \in worlds : all[later] \in ToSet(w.started))
               <=> \A j \in always : j < later => Escapes(task, all, j, later)

\* The index keeps nothing of deleted tasks once the clean-up is through, exactly if the step
\* that deletes them is never repeated and none of them is being indexed.
CleanUpExact(hazards) ==
  \A hazard \in hazards :
    (\A w \in CleanUps(CleanUp(hazard)) : w.pc = "done" /\ w.reading = Nobody => w.indexed \subseteq w.stored)
      <=> hazard = "none"

CleanUpHazards == {"none", "crash", "index"}

\* Up to three validations of two subscriptions.
Products ==
  {<<>>} \cup {<<Workflow("v", t, r)>> : t, r \in BOOLEAN} \cup
  {<<Workflow("v", t, FALSE), Workflow("u", TRUE, r)>> : t, r \in BOOLEAN}

Subscriptions == {Subscription(s, "T", p) : s \in {"active", "provisioning"}, p \in Products}

\* The filter and VALIDATE_OUT_OF_SYNC_SUBSCRIPTIONS of both tasks.
Modes == {<<"all", FALSE>>, <<"all", TRUE>>, <<"T", FALSE>>}

SmallTasks ==
  {Task(<<a, b>>, related, usable, mode[1], mode[2]) :
     a \in Subscriptions,
     b \in {Subscription("active", t, <<Workflow("x", task, FALSE)>>) : t \in {"T", "U"}, task \in BOOLEAN},
     related \in BOOLEAN, usable \in {<<>>, [n \in {"u"} |-> {"provisioning"}]}, mode \in Modes}
=============================================================================

------------------------------ MODULE Schedules ------------------------------
(***************************************************************************)
(* Schedules of tasks: the API and the command load-initial-schedule put   *)
(* items into a Redis queue (schedules/service.py, cli/scheduler.py); the  *)
(* scheduler process takes them out one by one, changes APScheduler's job  *)
(* store and then, in another transaction, the linker table; meanwhile     *)
(* APScheduler's own thread, and its executor with one thread, fire jobs,  *)
(* which start processes.                                                  *)
(*                                                                         *)
(* The linker table refers to the job store with ON DELETE CASCADE         *)
(* (db/models.py): a row cannot outlive its job.                           *)
(***************************************************************************)
EXTENDS Integers, Sequences, FiniteSets, SequencesExt

CONSTANTS
  Workflows,  \* tasks that can be scheduled; no_uncompleted_instance is their predicate
  Initial,    \* those that only load-initial-schedule schedules
  Ids,        \* bound: ids of schedules; one is used again when nothing refers to it
  MaxQueue,   \* bound: items in the queue
  None        \* no workflow, no id

ASSUME SchedulesAssumption ==
  /\ Initial \subseteq Workflows
  /\ None \notin Workflows \cup Ids
  /\ MaxQueue \in Nat

Item == [op : {"create", "update", "delete"}, workflow : Workflows \cup {None},
         id : Ids \cup {None}, once : BOOLEAN]

VARIABLES
  queue,     \* the list scheduler:queue: in Redis, oldest item first
  jobs,      \* apscheduler_jobs: workflow of each job, and whether its trigger is a date
  rows,      \* workflows_apscheduler_jobs
  item,      \* the item the scheduler process has taken
  pc,        \* what it has to do with it
  firing,    \* workflow of the job on the executor's thread
  checked,   \* its predicate has been evaluated
  instances, \* processes of each workflow that are neither completed nor aborted
  hidden,    \* history: jobs whose row a crash kept from being written
  lost       \* history: a crash has lost an item

vars == <<queue, jobs, rows, item, pc, firing, checked, instances, hidden, lost>>
store == <<jobs, rows>>
executor == <<firing, checked, instances>>
history == <<hidden, lost>>

NoJob == [workflow |-> None, once |-> FALSE]
NoItem == [op |-> "create", workflow |-> None, id |-> None, once |-> FALSE]

Init ==
  /\ queue = <<>>
  /\ jobs = [i \in Ids |-> NoJob]
  /\ rows = {}
  /\ item = NoItem
  /\ pc = "idle"
  /\ firing = None /\ checked = FALSE
  /\ instances = [w \in Workflows |-> 0]
  /\ hidden = {} /\ lost = FALSE

Exists(i) == jobs[i] # NoJob
JobsOf(w) == {i \in Ids : jobs[i].workflow = w}
RowsOf(w) == {r \in rows : r[1] = w}

\* The ids something refers to, and those that creates in the queue will need.
Used == {i \in Ids : Exists(i)} \cup {item.id} \cup {queue[k].id : k \in DOMAIN queue}
Pending == Cardinality({k \in DOMAIN queue : queue[k].op = "create"})
           + IF item.op = "create" /\ pc = "add" THEN 1 ELSE 0
RoomFor(n) == Cardinality(Ids \cap Used) + Pending + n <= Cardinality(Ids)

-----------------------------------------------------------------------------
(* The API and the command line *)

Push(items) ==
  /\ Len(queue) + Len(items) <= MaxQueue
  /\ queue' = queue \o items

Create(w, once) == [op |-> "create", workflow |-> w, id |-> None, once |-> once]
Delete(w, i) == [op |-> "delete", workflow |-> w, id |-> i, once |-> FALSE]

ApiCreate(w, once) ==
  /\ w \notin Initial
  /\ RoomFor(1)
  /\ Push(<<Create(w, once)>>)
  /\ UNCHANGED <<store, item, pc, executor, history>>

\* Only a schedule with a row can be updated.
ApiUpdate(i, once) ==
  /\ \E r \in rows : r[2] = i
  /\ Push(<<[op |-> "update", workflow |-> None, id |-> i, once |-> once]>>)
  /\ UNCHANGED <<store, item, pc, executor, history>>

\* Nobody checks that schedule and workflow belong together.
ApiDelete(w, i) ==
  /\ i \in Used
  /\ Push(<<Delete(w, i)>>)
  /\ UNCHANGED <<store, item, pc, executor, history>>

\* Faulty: existing schedules are not deleted first.
AddUnique_KeepsOld(w, recreate) ==
  /\ queue = <<>> /\ pc = "idle"
  /\ RowsOf(w) = {} \/ recreate
  /\ RoomFor(1)
  /\ Push(<<Create(w, FALSE)>>)
  /\ UNCHANGED <<store, item, pc, executor, history>>

\* add_unique_scheduled_task_to_queue.  It "is not safe for concurrent usage and
\* when the scheduler is not running": whoever calls it waits until the items
\* before it have been handled.
AddUnique(w, recreate) ==
  /\ queue = <<>> /\ pc = "idle"
  /\ RowsOf(w) = {} \/ recreate
  /\ RoomFor(1)
  /\ Push([k \in 1..Cardinality(RowsOf(w)) |-> Delete(w, SetToSeq(RowsOf(w))[k][2])]
          \o <<Create(w, FALSE)>>)
  /\ UNCHANGED <<store, item, pc, executor, history>>

-----------------------------------------------------------------------------
(* The scheduler process: its loop *)

Entry(op) == CASE op = "create" -> "add" [] op = "update" -> "get" [] op = "delete" -> "remove"

Pop ==
  /\ pc = "idle"
  /\ queue # <<>>
  /\ item' = Head(queue)
  /\ queue' = Tail(queue)
  /\ pc' = Entry(Head(queue).op)
  /\ UNCHANGED <<store, executor, history>>

\* Whatever is raised is logged, and the loop goes on with the next item.
Done == item' = NoItem /\ pc' = "idle"

AddJob ==
  /\ pc = "add"
  /\ \/ \E i \in Ids \ Used :
          /\ jobs' = [jobs EXCEPT ![i] = [workflow |-> item.workflow, once |-> item.once]]
          /\ item' = [item EXCEPT !.id = i]
          /\ pc' = "link"
          /\ hidden' = hidden \ {i}
     \/ Done /\ UNCHANGED <<jobs, hidden>>
  /\ UNCHANGED <<queue, rows, executor, lost>>

\* The row is refused when the job is gone.
Link ==
  /\ pc = "link"
  /\ rows' = IF Exists(item.id) THEN rows \cup {<<item.workflow, item.id>>} ELSE rows
  /\ Done
  /\ UNCHANGED <<queue, jobs, executor, history>>

GetJob ==
  /\ pc = "get"
  /\ IF Exists(item.id) THEN pc' = "modify" /\ UNCHANGED item ELSE Done
  /\ UNCHANGED <<queue, store, executor, history>>

\* Faulty: the job is stored again even if it is gone.
Modify_Revives ==
  /\ pc = "modify"
  /\ jobs' = [jobs EXCEPT ![item.id] =
       [workflow |-> IF @ = NoJob THEN CHOOSE w \in Workflows : TRUE ELSE @.workflow,
        once |-> item.once]]
  /\ Done
  /\ UNCHANGED <<queue, rows, executor, history>>

\* reschedule raises when the job has been fired for the last time meanwhile.
Modify ==
  /\ pc = "modify"
  /\ jobs' = IF Exists(item.id) THEN [jobs EXCEPT ![item.id].once = item.once] ELSE jobs
  /\ Done
  /\ UNCHANGED <<queue, rows, executor, history>>

\* The job and, by the cascade, its row.
Gone(i) ==
  /\ jobs' = [jobs EXCEPT ![i] = NoJob]
  /\ rows' = {r \in rows : r[2] # i}

\* Faulty: the job is only removed for the workflow that the request names.
RemoveJob_OfWorkflow ==
  /\ pc = "remove"
  /\ IF Exists(item.id) /\ jobs[item.id].workflow = item.workflow
     THEN Gone(item.id) /\ pc' = "unlink" /\ UNCHANGED item
     ELSE Done /\ UNCHANGED store
  /\ UNCHANGED <<queue, executor, history>>

\* remove_job raises when there is no such job.
RemoveJob ==
  /\ pc = "remove"
  /\ IF Exists(item.id) THEN Gone(item.id) /\ pc' = "unlink" /\ UNCHANGED item
                        ELSE Done /\ UNCHANGED store
  /\ UNCHANGED <<queue, executor, history>>

Unlink ==
  /\ pc = "unlink"
  /\ rows' = rows \ {<<item.workflow, item.id>>}
  /\ Done
  /\ UNCHANGED <<queue, jobs, executor, history>>

-----------------------------------------------------------------------------
(* The scheduler process: its other threads *)

\* A job is due.  One with a date is removed; it runs on the only thread of the
\* executor.  (A job that waits for the thread is one that fires later.)
Fire(i) ==
  /\ firing = None
  /\ Exists(i)
  /\ firing' = jobs[i].workflow
  /\ checked' = FALSE
  /\ IF jobs[i].once THEN Gone(i) ELSE UNCHANGED store
  /\ UNCHANGED <<queue, item, pc, instances, history>>

\* Faulty: there is no predicate.
CheckPredicate_Always ==
  /\ firing # None /\ ~checked
  /\ checked' = TRUE
  /\ UNCHANGED <<queue, store, item, pc, firing, instances, history>>

\* create_process evaluates the predicate ...
CheckPredicate ==
  /\ firing # None /\ ~checked
  /\ IF instances[firing] = 0
     THEN checked' = TRUE /\ UNCHANGED firing
     ELSE firing' = None /\ UNCHANGED checked
  /\ UNCHANGED <<queue, store, item, pc, instances, history>>

\* ... and stores the process in a later transaction.
StartProcess ==
  /\ firing # None /\ checked
  /\ instances' = [instances EXCEPT ![firing] = @ + 1]
  /\ firing' = None /\ checked' = FALSE
  /\ UNCHANGED <<queue, store, item, pc, history>>

ProcessEnds(w) ==
  /\ instances[w] > 0
  /\ instances' = [instances EXCEPT ![w] = @ - 1]
  /\ UNCHANGED <<queue, store, item, pc, firing, checked, history>>

\* The scheduler process is killed and started again: what it had taken out of the
\* queue is lost.
Restart ==
  /\ pc # "idle" \/ firing # None
  /\ hidden' = IF pc = "link" THEN hidden \cup {item.id} ELSE hidden
  /\ lost' = (lost \/ pc # "idle")
  /\ item' = NoItem /\ pc' = "idle"
  /\ firing' = None /\ checked' = FALSE
  /\ UNCHANGED <<queue, store, instances>>

-----------------------------------------------------------------------------
Handle == AddJob \/ Link \/ GetJob \/ Modify \/ RemoveJob \/ Unlink

Call ==
  \/ \E w \in Workflows, once \in BOOLEAN : ApiCreate(w, once)
  \/ \E i \in Ids, once \in BOOLEAN : ApiUpdate(i, once)
  \/ \E w \in Workflows, i \in Ids : ApiDelete(w, i)
  \/ \E w \in Initial, recreate \in BOOLEAN : AddUnique(w, recreate)

Next ==
  \/ Call
  \/ Pop \/ Handle
  \/ \E i \in Ids : Fire(i)
  \/ CheckPredicate \/ StartProcess
  \/ \E w \in Workflows : ProcessEnds(w)
  \/ Restart

Spec == Init /\ [][Next]_vars

\* The scheduler process handles its queue.
FairSpec == Spec /\ WF_vars(Pop \/ Handle)

-----------------------------------------------------------------------------
TypeOK ==
  /\ queue \in Seq(Item)
  /\ jobs \in [Ids -> [workflow : Workflows \cup {None}, once : BOOLEAN]]
  /\ rows \subseteq Workflows \X Ids
  /\ item \in Item
  /\ pc \in {"idle", "add", "link", "get", "modify", "remove", "unlink"}
  /\ firing \in Workflows \cup {None} /\ checked \in BOOLEAN
  /\ instances \in [Workflows -> Nat]
  /\ hidden \subseteq Ids /\ lost \in BOOLEAN

\* Every job that fires can be found, changed and deleted through the API, which
\* only knows the linker table; a job is out of reach only between the two
\* transactions that add it, or when the scheduler was killed between them.
NoHiddenJobs ==
  \A i \in Ids : Exists(i) =>
    \/ <<jobs[i].workflow, i>> \in rows
    \/ pc = "link" /\ item.id = i
    \/ i \in hidden

\* "The schedules are only created when they do not already exist": however often
\* load-initial-schedule is called, with or without recreate, while users update
\* and delete schedules and jobs fire, a workflow has one schedule, unless the
\* scheduler was killed while it handled an item.
UniqueSchedule == ~ lost => \A w \in Initial : Cardinality(JobsOf(w)) <= 1

\* "Predicate that prevents starting if an uncompleted instance of the workflow
\* exists": the schedules of a task, several of which may be due at the same time,
\* never have two of its processes at work.
OneInstance == \A w \in Workflows : instances[w] <= 1

\* A schedule whose deletion was accepted does not exist any more in the end, if
\* no item was lost in a crash.
DeletedInTheEnd ==
  \A i \in Ids : (\E k \in DOMAIN queue : queue[k].op = "delete" /\ queue[k].id = i)
                   ~> (~ Exists(i) \/ lost)
=============================================================================

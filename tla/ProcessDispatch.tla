--------------------------- MODULE ProcessDispatch ---------------------------
(***************************************************************************)
(* Who executes a process, and when: the API, the scheduled clean-up task  *)
(* and the operator submit processes to a Celery queue                     *)
(* (executors/celery.py), workers take them from it (services/tasks.py),   *)
(* claim them (executors/threadpool.py) and execute them.                  *)
(*                                                                         *)
(* The database is shared.  Every action is one transaction or one call of *)
(* the broker; what a client or worker read in an earlier transaction is   *)
(* kept in its record and may be stale.  Inside a worker the loop of       *)
(* WorkflowRun is followed step by step, without step groups.              *)
(***************************************************************************)
EXTENDS StepLog

CONSTANTS
  Procs,       \* the processes
  Tasks,       \* those that are tasks: only they may be deleted
  NoProc,      \* no process
  Workers,     \* Celery workers
  Users,       \* API calls that are handled at the same time
  N, Kind,     \* the steps of the workflow, as in WorkflowRun
  Events,      \* which of AllEvents may happen
  MaxRows,     \* bound: nobody submits or aborts a process with a log this long
  MaxQueue     \* bound: copies of a message in the queue

\* "eager": the operator unpauses before the engine is PAUSED; "form": input
\* forms have required fields; the others are failures of a component, calls of
\* the API and the scheduled clean-up task.
AllEvents == {"worker_crash", "client_crash", "sweeper_crash", "broker",
              "eager", "form", "abort", "delete", "pause", "sweep"}

ASSUME DispatchAssumption ==
  /\ Tasks \subseteq Procs
  /\ NoProc \notin Procs
  /\ N \in Nat \ {0}
  /\ Kind \in [1..N -> Kinds]
  /\ Kind[N] = "done"
  /\ \A i \in 1..(N - 1) : Kind[i] # "done"
  /\ Events \subseteq AllEvents
  /\ MaxRows \in Nat /\ MaxQueue \in Nat
  /\ {"sweeper", "operator"} \cap Users = {}

\* Everyone who submits processes.
Clients == Users \cup {"sweeper", "operator"}

Messages == {"start", "resume"} \X Procs

VARIABLES
  status,   \* ProcessTable.last_status of each process
  log,      \* the rows of process_steps of each process
  lock,     \* EngineSettingsTable.global_lock
  queue,    \* how many copies of each message are in the queue
  client,   \* what each client is doing
  worker    \* what each worker is doing

vars == <<status, log, lock, queue, client, worker>>

DispatchStatus == ProcessStatus \cup {"absent", "deleted"}

\* "failed": the call ended with an error of the broker; "blocked": the clean-up
\* task was killed, and its own process keeps new instances from being started.
ClientPlaces == {"idle", "failed", "blocked", "mark", "publish", "abort",
                 "find", "next"}

WorkerPlaces == {"idle", "load", "claim", "claimed", "loop", "write"}

Resting(place) == [pc |-> place, msg |-> "resume", proc |-> NoProc,
                   snap |-> "absent", left |-> {}]

Free == [pc |-> "idle", proc |-> NoProc, todo |-> 1, st |-> "success",
         snap |-> "absent", pend |-> "success"]

Exists(p) == status[p] \notin {"absent", "deleted"}

Init ==
  /\ status = [p \in Procs |-> "absent"]
  /\ log = [p \in Procs |-> <<>>]
  /\ lock = FALSE
  /\ queue = [m \in Messages |-> 0]
  /\ client = [c \in Clients |-> Resting("idle")]
  /\ worker = [w \in Workers |-> Free]

SetStatus(p, s) == status' = [status EXCEPT ![p] = s]
GoTo(c, place) == client' = [client EXCEPT ![c].pc = place]
Rest(c, place) == client' = [client EXCEPT ![c] = Resting(place)]

\* Where a client goes when it has submitted a process.
AfterSubmit(c) ==
  IF c \in Users THEN Rest(c, "idle") ELSE GoTo(c, "next")

-----------------------------------------------------------------------------
(* Calls of the API *)

Ready(u) == client[u].pc \in {"idle", "failed"}

\* create_process commits the new process before it is submitted.
Create(u, p) ==
  /\ Ready(u)
  /\ ~lock
  /\ status[p] = "absent"
  /\ SetStatus(p, "created")
  /\ client' = [client EXCEPT ![u] =
       [Resting("publish") EXCEPT !.msg = "start", !.proc = p]]
  /\ UNCHANGED <<log, lock, queue, worker>>

\* A resume, or the callback that is the resume of an awaiting process: the
\* process is read and found to be resumable.
ReadResumable(u, p) ==
  /\ Ready(u)
  /\ ~lock
  /\ status[p] \in RESUMABLE_STATUSES
  /\ RestFrom(log[p], N) <= N
  /\ Len(log[p]) < MaxRows
  /\ client' = [client EXCEPT ![u] =
       [Resting("mark") EXCEPT !.proc = p, !.snap = status[p]]]
  /\ UNCHANGED <<status, log, lock, queue, worker>>

\* Faulty: the message is sent before the status is committed.
MarkResumed_SendsFirst(c) ==
  /\ client[c].pc = "mark"
  /\ LET p == client[c].proc IN
       \/ /\ queue[<<"resume", p>>] < MaxQueue
          /\ client[c].msg = "resume"
          /\ queue' = [queue EXCEPT ![<<"resume", p>>] = @ + 1]
          /\ client' = [client EXCEPT ![c].msg = "start"]
          /\ UNCHANGED status
       \/ /\ client[c].msg = "start"
          /\ SetStatus(p, "resumed")
          /\ AfterSubmit(c)
          /\ UNCHANGED queue
  /\ UNCHANGED <<log, lock, worker>>

\* _celery_set_process_status_resumed locks the row and checks the status again,
\* but on the object the session already holds: the status it sees is the one
\* that was read before.  An unchanged value is not written.
MarkResumed(c) ==
  /\ client[c].pc = "mark"
  /\ LET p == client[c].proc IN
       IF Exists(p)
       THEN /\ SetStatus(p, IF client[c].snap = "resumed" THEN status[p]
                            ELSE "resumed")
            /\ GoTo(c, "publish")
       ELSE AfterSubmit(c) /\ UNCHANGED status
  /\ UNCHANGED <<log, lock, queue, worker>>

Publish(c) ==
  /\ client[c].pc = "publish"
  /\ LET m == <<client[c].msg, client[c].proc>> IN
       /\ queue[m] < MaxQueue
       /\ queue' = [queue EXCEPT ![m] = @ + 1]
  /\ AfterSubmit(c)
  /\ UNCHANGED <<status, log, lock, worker>>

\* The broker is unreachable.  A process that was to be started is deleted; the
\* status of one that was to be resumed stays as it is, because the attempt to
\* set it back fails as well.  The clean-up task goes on with the next process,
\* the other clients report the error.
BrokerFails(c) ==
  /\ "broker" \in Events
  /\ client[c].pc = "publish"
  /\ LET p == client[c].proc IN
       IF client[c].msg = "start" /\ Exists(p)
       THEN SetStatus(p, "deleted") /\ log' = [log EXCEPT ![p] = <<>>]
       ELSE UNCHANGED <<status, log>>
  /\ IF c = "sweeper" THEN GoTo(c, "next") ELSE Rest(c, "failed")
  /\ UNCHANGED <<lock, queue, worker>>

ReadAbortable(u, p) ==
  /\ "abort" \in Events
  /\ Ready(u)
  /\ Exists(p)
  /\ RecoveredStatus(log[p]) # "complete"
  /\ Len(log[p]) < MaxRows
  /\ client' = [client EXCEPT ![u] = [Resting("abort") EXCEPT !.proc = p]]
  /\ UNCHANGED <<status, log, lock, queue, worker>>

Abort(u) ==
  /\ client[u].pc = "abort"
  /\ LET p == client[u].proc IN
       IF Exists(p)
       THEN /\ log' = [log EXCEPT ![p] =
                 WriteRow(@, Row(UserAborted, "abort", NoSub), FALSE, FALSE)]
            /\ SetStatus(p, "aborted")
       ELSE UNCHANGED <<status, log>>
  /\ Rest(u, "idle")
  /\ UNCHANGED <<lock, queue, worker>>

Delete(p) ==
  /\ "delete" \in Events
  /\ p \in Tasks
  /\ Exists(p)
  /\ SetStatus(p, "deleted")
  /\ log' = [log EXCEPT ![p] = <<>>]
  /\ UNCHANGED <<lock, queue, client, worker>>

-----------------------------------------------------------------------------
(* The scheduled task task_resume_workflows *)

\* Faulty: only processes that never started are found.
Stuck_CreatedOnly ==
  {<<"start", p>> : p \in {q \in Procs : status[q] = "created"}}

\* find_waiting_workflows: what is to be resumed and what is to be restarted.
Stuck ==
  {<<"resume", p>> : p \in {q \in Procs : status[q] \in {"waiting", "resumed"}}}
  \cup {<<"start", p>> : p \in {q \in Procs : status[q] = "created"}}

FindStuck ==
  /\ "sweep" \in Events
  /\ client["sweeper"].pc = "idle"
  /\ Stuck # {}
  /\ client' = [client EXCEPT !["sweeper"] = [Resting("next") EXCEPT !.left = Stuck]]
  /\ UNCHANGED <<status, log, lock, queue, worker>>

\* post_form accepts an empty answer for the step that is to be run next.
EmptyAnswerAccepted(p) ==
  /\ RestFrom(log[p], N) <= N
  /\ "form" \in Events => Kind[RestFrom(log[p], N)] # "input"

\* Client c goes on with process p of its list.
Take(c, m, place) ==
  client' = [client EXCEPT ![c] =
    [pc |-> place, msg |-> m[1], proc |-> m[2], snap |-> status[m[2]],
     left |-> @.left \ {m}]]

Skip(c, m) == client' = [client EXCEPT ![c].left = @ \ {m}]

\* resume_found_workflows: the process is read again; errors are logged and the
\* next process is tried.
SweepResume(p) ==
  LET m == <<"resume", p>> IN
    /\ client["sweeper"].pc = "next"
    /\ m \in client["sweeper"].left
    /\ IF status[p] \in RESUMABLE_STATUSES /\ EmptyAnswerAccepted(p)
       THEN Take("sweeper", m, "mark")
       ELSE Skip("sweeper", m)
    /\ UNCHANGED <<status, log, lock, queue, worker>>

\* restart_created_workflows: submitted whatever the status is by now.
SweepRestart(p) ==
  LET m == <<"start", p>> IN
    /\ client["sweeper"].pc = "next"
    /\ m \in client["sweeper"].left
    /\ IF Exists(p) THEN Take("sweeper", m, "publish") ELSE Skip("sweeper", m)
    /\ UNCHANGED <<status, log, lock, queue, worker>>

-----------------------------------------------------------------------------
(* The operator *)

Pause ==
  /\ "pause" \in Events
  /\ ~lock
  /\ \A p \in Procs : Len(log[p]) < MaxRows
  /\ lock' = TRUE
  /\ UNCHANGED <<status, log, queue, client, worker>>

\* The lock is released and the release committed.
Unlock ==
  /\ lock
  /\ Ready("operator")
  /\ "eager" \notin Events => \A w \in Workers : worker[w].pc = "idle"
  /\ lock' = FALSE
  /\ GoTo("operator", "find")
  /\ UNCHANGED <<status, log, queue, worker>>

FindRunning ==
  /\ client["operator"].pc = "find"
  /\ client' = [client EXCEPT !["operator"] =
       [Resting("next") EXCEPT !.left =
          {<<"resume", p>> : p \in {q \in Procs : status[q] = "running"}}]]
  /\ UNCHANGED <<status, log, lock, queue, worker>>

\* set_process_status and resume_process, which commits: whatever the status of
\* the process is by now.  An error ends the loop.
UnpauseNext(p) ==
  LET m == <<"resume", p>> IN
    /\ client["operator"].pc = "next"
    /\ m \in client["operator"].left
    /\ IF Exists(p) /\ EmptyAnswerAccepted(p)
       THEN SetStatus(p, "resumed") /\ Take("operator", m, "publish")
       ELSE UNCHANGED status /\ Rest("operator", "failed")
    /\ UNCHANGED <<log, lock, queue, worker>>

\* The list of a client has been worked off.
Finish(c) ==
  /\ client[c].pc = "next"
  /\ client[c].left = {}
  /\ Rest(c, "idle")
  /\ UNCHANGED <<status, log, lock, queue, worker>>

-----------------------------------------------------------------------------
(* Workers *)

Receive(w, m) ==
  /\ worker[w].pc = "idle"
  /\ queue[m] > 0
  /\ queue' = [queue EXCEPT ![m] = @ - 1]

\* A worker's record when it has loaded process p.
Loaded(p, place) ==
  [pc |-> place, proc |-> p, todo |-> RestFrom(log[p], N),
   st |-> RecoveredStatus(log[p]), snap |-> status[p], pend |-> "success"]

\* start_process of tasks.py: one transaction checks the status and loads.
TakeStart(w, p) ==
  /\ Receive(w, <<"start", p>>)
  /\ worker' = [worker EXCEPT ![w] =
       IF status[p] = "created" THEN Loaded(p, "claim") ELSE Free]
  /\ UNCHANGED <<status, log, lock, client>>

\* resume_process of tasks.py: one transaction checks the status ...
TakeResume(w, p) ==
  /\ Receive(w, <<"resume", p>>)
  /\ worker' = [worker EXCEPT ![w] =
       IF status[p] = "resumed" THEN [Free EXCEPT !.pc = "load", !.proc = p]
       ELSE Free]
  /\ UNCHANGED <<status, log, lock, client>>

\* ... and the next one loads the process.
Load(w) ==
  /\ worker[w].pc = "load"
  /\ worker' = [worker EXCEPT ![w] =
       IF Exists(@.proc) THEN Loaded(@.proc, "claim") ELSE Free]
  /\ UNCHANGED <<status, log, lock, queue, client>>

\* _set_process_status_running compares a string with "is not", so it never
\* finds that the process is running already.  A status that was read as running
\* in this transaction is not written again.
Claim(w) ==
  /\ worker[w].pc = "claim"
  /\ LET p == worker[w].proc IN
       IF Exists(p)
       THEN /\ SetStatus(p, IF worker[w].snap = "running" THEN status[p]
                            ELSE "running")
            /\ worker' = [worker EXCEPT ![w].pc = "claimed"]
       ELSE /\ worker' = [worker EXCEPT ![w] = Free]
            /\ UNCHANGED status
  /\ UNCHANGED <<log, lock, queue, client>>

Halted(w) == worker[w].st \in {"suspend", "awaiting_callback"}

\* runwf: the answer of a halted step is logged as its success.
Answer(w) ==
  LET p == worker[w].proc
      i == worker[w].todo IN
    /\ worker[w].pc = "claimed"
    /\ Halted(w) /\ i <= N /\ Exists(p)
    /\ log' = [log EXCEPT ![p] =
         WriteRow(@, Row(<<i, 0>>, "success", NoSub), FALSE, FALSE)]
    /\ SetStatus(p, "running")
    /\ worker' = [worker EXCEPT
         ![w].pc = "loop", ![w].todo = i + 1, ![w].st = "success"]
    /\ UNCHANGED <<lock, queue, client>>

\* There is no step the answer could belong to, or no process: the run ends
\* with an exception, which _db_log_process_ex stores.
AnswerFails(w) ==
  LET p == worker[w].proc IN
    /\ worker[w].pc = "claimed"
    /\ Halted(w) /\ (worker[w].todo > N \/ ~ Exists(p))
    /\ SetStatus(p, IF Exists(p) /\ status[p] # "waiting" THEN "failed" ELSE status[p])
    /\ worker' = [worker EXCEPT ![w] = Free]
    /\ UNCHANGED <<log, lock, queue, client>>

\* Process.resume for every other status.
Continue(w) ==
  /\ worker[w].pc = "claimed"
  /\ ~ Halted(w)
  /\ worker' = [worker EXCEPT ![w].pc = "loop", ![w].st = ResumeStatus(@)]
  /\ UNCHANGED <<status, log, lock, queue, client>>

MayGoOn(w) == Continues(worker[w].st) /\ worker[w].todo <= N /\ ~lock

RunStep(w) ==
  /\ worker[w].pc = "loop"
  /\ MayGoOn(w)
  /\ \E outcome \in Outcomes[Kind[worker[w].todo]] :
       worker' = [worker EXCEPT ![w].pc = "write", ![w].pend = outcome]
  /\ UNCHANGED <<status, log, lock, queue, client>>

\* The outcome is written, or cannot be because the process is gone.  (The errors
\* of a step are taken to be alike: its retries share a row.)
WriteStep(w) ==
  /\ worker[w].pc = "write"
  /\ LET p == worker[w].proc
         row == Row(<<worker[w].todo, 0>>, worker[w].pend, NoSub) IN
       IF Exists(p)
       THEN /\ log' = [log EXCEPT ![p] = WriteRow(@, row, FALSE, TRUE)]
            /\ \E s \in StoredStatuses(row.status, p \in Tasks) : SetStatus(p, s)
            /\ worker' = [worker EXCEPT
                 ![w].pc = "loop", ![w].todo = @ + 1, ![w].st = row.status]
       ELSE /\ worker' = [worker EXCEPT ![w] = Free]
            /\ UNCHANGED <<status, log>>
  /\ UNCHANGED <<lock, queue, client>>

Leave(w) ==
  /\ worker[w].pc = "loop"
  /\ ~ MayGoOn(w)
  /\ worker' = [worker EXCEPT ![w] = Free]
  /\ UNCHANGED <<status, log, lock, queue, client>>

-----------------------------------------------------------------------------
(* Crashes: a killed process of the operating system loses what it held. *)

WorkerCrash(w) ==
  /\ "worker_crash" \in Events
  /\ worker[w].pc # "idle"
  /\ worker' = [worker EXCEPT ![w] = Free]
  /\ UNCHANGED <<status, log, lock, queue, client>>

ClientCrash(c) ==
  /\ "client_crash" \in Events
  /\ c # "sweeper"
  /\ client[c].pc \notin {"idle", "failed"}
  /\ Rest(c, "idle")
  /\ UNCHANGED <<status, log, lock, queue, worker>>

\* The clean-up task is a process itself: killed, it stays RUNNING, and
\* no_uncompleted_instance lets no other one start.
SweeperCrash ==
  /\ "sweeper_crash" \in Events
  /\ client["sweeper"].pc \in {"mark", "publish", "next"}
  /\ Rest("sweeper", "blocked")
  /\ UNCHANGED <<status, log, lock, queue, worker>>

-----------------------------------------------------------------------------
UserCall(u) ==
  \/ \E p \in Procs : Create(u, p) \/ ReadResumable(u, p) \/ ReadAbortable(u, p)
  \/ Abort(u)

Submit(c) == MarkResumed(c) \/ Publish(c)

Sweep ==
  \/ FindStuck
  \/ \E p \in Procs : SweepResume(p) \/ SweepRestart(p)
  \/ Submit("sweeper")
  \/ Finish("sweeper")

Operator ==
  \/ Pause
  \/ Unlock
  \/ FindRunning
  \/ \E p \in Procs : UnpauseNext(p)
  \/ Publish("operator")
  \/ Finish("operator")

Work(w) ==
  \/ \E p \in Procs : TakeStart(w, p) \/ TakeResume(w, p)
  \/ Load(w) \/ Claim(w) \/ Answer(w) \/ AnswerFails(w) \/ Continue(w)
  \/ RunStep(w) \/ WriteStep(w) \/ Leave(w)

Failure ==
  \/ \E c \in Clients : BrokerFails(c) \/ ClientCrash(c)
  \/ \E w \in Workers : WorkerCrash(w)
  \/ SweeperCrash

Next ==
  \/ \E u \in Users : UserCall(u) \/ Submit(u)
  \/ \E p \in Procs : Delete(p)
  \/ Sweep
  \/ Operator
  \/ \E w \in Workers : Work(w)
  \/ Failure

Spec == Init /\ [][Next]_vars

\* Workers go on and are not killed for ever just when they take a task; calls of
\* the API are handled to the end; the scheduler starts the clean-up task again
\* and again.
FairSpec ==
  /\ Spec
  /\ \A w \in Workers :
       WF_vars(Work(w)) /\ SF_vars(Load(w)) /\ SF_vars(Claim(w))
  /\ \A u \in Users : WF_vars(Submit(u) \/ Abort(u))
  /\ WF_vars(Sweep)

-----------------------------------------------------------------------------
(* Properties *)

ClientRecords ==
  [pc : ClientPlaces, msg : {"start", "resume"}, proc : Procs \cup {NoProc},
   snap : DispatchStatus, left : SUBSET Messages]

WorkerRecords ==
  [pc : WorkerPlaces, proc : Procs \cup {NoProc}, todo : 1..(N + 1),
   st : StepStatus, snap : DispatchStatus, pend : StepStatus]

\* The processes, their logs, the queue and the records of clients and workers
\* have their types, whatever was submitted twice, deleted or recovered.
TypeOK ==
  /\ status \in [Procs -> DispatchStatus]
  /\ log \in [Procs -> Seq(LogRow)]
  /\ lock \in BOOLEAN
  /\ queue \in [Messages -> Nat]
  /\ client \in [Clients -> ClientRecords]
  /\ worker \in [Workers -> WorkerRecords]

Executing(w, p) ==
  worker[w].pc \in {"claimed", "loop", "write"} /\ worker[w].proc = p

\* Someone is about to take process p up.
Pending(p) ==
  \/ \E c \in Clients : client[c].pc = "publish" /\ client[c].proc = p
  \/ \E m \in Messages : m[2] = p /\ queue[m] > 0
  \/ \E w \in Workers : worker[w].pc \in {"load", "claim"} /\ worker[w].proc = p

\* While nothing crashes, a process that waits for a worker is not lost,
\* whatever users, the clean-up task and the operator do to it concurrently:
\* each of them leaves a message behind for every CREATED or RESUMED process.
NotLost == \A p \in Procs : status[p] \in {"created", "resumed"} => Pending(p)

\* The rows of a process are those of the steps, in order and once: no step is
\* counted twice and none left out, however often the process was submitted.
LogInOrder ==
  \A p \in Procs : \A i \in ClearedRows(log[p]) :
    log[p][i].step = <<Cardinality({j \in ClearedRows(log[p]) : j <= i}), 0>>

\* Process p waits for a worker and has steps left to run.
Waits(p) == status[p] \in {"created", "resumed"} /\ RestFrom(log[p], N) <= N

\* A process that waits for a worker and has steps left to run is taken up in the
\* end, even if messages and workers are lost: the clean-up task submits it again.
TaskTaken == \A p \in Procs : Waits(p) ~> ~ Waits(p)

\* "prevent worker from running an already running process": no two workers
\* execute the same process (the docstring of _set_process_status_running).
SingleExecutor ==
  \A p \in Procs : \A v, w \in Workers :
    Executing(v, p) /\ Executing(w, p) => v = w
=============================================================================

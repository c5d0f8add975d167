------------------------------ MODULE ResumeAll ------------------------------
(***************************************************************************)
(* EXECUTOR=threadpool: the pool of threads of one API process that takes  *)
(* the place of Celery's queue and workers (executors/threadpool.py and    *)
(* _run_process_async), its users, and the request to resume all failed    *)
(* tasks (_async_resume_processes), which holds a lock of the in-memory    *)
(* lock manager (managers/memory_distlock_manager.py) while a job in the   *)
(* same pool resumes them one by one.                                      *)
(*                                                                         *)
(* Of a process only its status is kept; what happens inside a run is      *)
(* modelled by WorkflowRun.  "failed" stands for all four statuses that    *)
(* resume-all looks for.  The processes are tasks.                         *)
(***************************************************************************)
EXTENDS Integers, Sequences, FiniteSets

CONSTANTS
  Processes,  \* tasks that have failed
  Removed,    \* those whose workflow does not exist any more
  Requests,   \* calls of the resume-all endpoint handled at the same time
  Users,      \* calls of the resume endpoint handled at the same time
  Threads,    \* threads of the pool (MAX_WORKERS)
  MaxPool,    \* bound: nobody calls while the work queue is this long
  None        \* no process, no request

ASSUME ResumeAllAssumption ==
  /\ Removed \subseteq Processes
  /\ None \notin Processes \cup Requests
  /\ Processes \cap Requests = {}
  /\ MaxPool \in Nat

Statuses == {"failed", "suspended", "running", "completed", "aborted"}

VARIABLES
  status,    \* last_status of every process
  buried,    \* processes whose log ends with an abort
  entry,     \* locks["resume-all"] of the manager: the request it was made for
  locked,    \* whether the Lock made for a request is locked
  request,   \* what each resume-all request, or its job, is doing
  user,      \* what each resume request is doing
  pool,      \* the work queue of the pool: processes and resume-all jobs
  thread,    \* what each thread of the pool is executing
  handled,   \* history: the processes resumed, aborted or refused since a request
             \* in progress listed them
  raced      \* history: a process was marked that had changed since it was read

vars == <<status, buried, entry, locked, request, user, pool, thread, handled, raced>>
lock == <<entry, locked>>
base == <<status, buried>>

NoRequest == [pc |-> "idle", todo |-> {}, process |-> None, copy |-> "failed"]
NoUser == [process |-> None, copy |-> "failed"]

Init ==
  /\ status = [p \in Processes |-> "failed"]
  /\ buried = {}
  /\ entry = None
  /\ locked = [r \in Requests |-> FALSE]
  /\ request = [r \in Requests |-> NoRequest]
  /\ user = [u \in Users |-> NoUser]
  /\ pool = <<>>
  /\ thread = [t \in Threads |-> None]
  /\ handled = [r \in Requests |-> {}]
  /\ raced = FALSE

-----------------------------------------------------------------------------
(* The lock manager.  A call of get_lock makes a Lock of its own when there is *)
(* no entry; everything happens under manager_lock.                            *)

GetLock(r) ==
  /\ entry = None
  /\ entry' = r
  /\ locked' = [locked EXCEPT ![r] = TRUE]

\* Faulty: the entry is removed by its name, whoever's it is.
ReleaseLock_ByName(r) ==
  /\ locked' = [locked EXCEPT ![r] = FALSE]
  /\ entry' = None

\* A Lock that has expired was released: releasing it again raises and changes
\* nothing.  Otherwise its entry is found by identity and deleted.
ReleaseLock(r) ==
  IF locked[r]
  THEN /\ locked' = [locked EXCEPT ![r] = FALSE]
       /\ entry' = IF entry = r THEN None ELSE entry
  ELSE UNCHANGED lock

\* Faulty: the entry is removed and its Lock stays locked.
Expire_KeepsLocked ==
  /\ entry # None
  /\ entry' = None
  /\ UNCHANGED <<locked, base, request, user, pool, thread, handled, raced>>

\* The thread of the manager finds that the time of the entry is over.
Expire ==
  /\ entry # None
  /\ locked' = [locked EXCEPT ![entry] = FALSE]
  /\ entry' = None
  /\ UNCHANGED <<base, request, user, pool, thread, handled, raced>>

-----------------------------------------------------------------------------
(* Resuming a process: thread_resume_process.  Its first transaction reads the *)
(* process, the second marks it and the run is submitted.                      *)

\* resume_process raises for a removed workflow, when no step remains, and when
\* the form of the step does not accept an empty answer.
Resumable(p, s, answered) ==
  /\ p \notin Removed
  /\ s # "completed"
  /\ s = "suspended" => answered

Handled(p) ==
  [r \in Requests |-> IF request[r].pc = "idle" THEN {} ELSE handled[r] \cup {p}]

\* Faulty: the process is marked and the run is not submitted.
Submit_Forgotten(p, copy) ==
  /\ status' = [status EXCEPT ![p] = "running"]
  /\ raced' = (raced \/ status[p] # copy)
  /\ handled' = Handled(p)
  /\ UNCHANGED <<buried, pool>>

\* _set_process_status_running compares by identity and never refuses.
Submit(p, copy) ==
  /\ status' = [status EXCEPT ![p] = "running"]
  /\ pool' = Append(pool, p)
  /\ raced' = (raced \/ status[p] # copy)
  /\ handled' = Handled(p)
  /\ UNCHANGED buried

\* resume_process_endpoint
UserRead(u, p) ==
  /\ user[u].process = None
  /\ Len(pool) < MaxPool
  /\ status[p] \in {"failed", "suspended"}
  /\ p \notin Removed
  /\ user' = [user EXCEPT ![u] = [process |-> p, copy |-> status[p]]]
  /\ UNCHANGED <<base, lock, request, pool, thread, handled, raced>>

UserSubmit(u) ==
  /\ user[u].process # None
  /\ Submit(user[u].process, user[u].copy)
  /\ user' = [user EXCEPT ![u] = NoUser]
  /\ UNCHANGED <<lock, request, thread>>

\* abort_process_endpoint.  (Aborting while a thread executes the process is
\* modelled by WorkflowRun.)
Abort(p) ==
  /\ status[p] \in {"failed", "suspended"}
  /\ status' = [status EXCEPT ![p] = "aborted"]
  /\ buried' = buried \cup {p}
  /\ handled' = Handled(p)
  /\ UNCHANGED <<lock, request, user, pool, thread, raced>>

-----------------------------------------------------------------------------
(* resume_all_processes_endpoint *)

List(r) ==
  /\ request[r].pc = "idle"
  /\ Len(pool) < MaxPool
  /\ request' = [request EXCEPT ![r] =
       [NoRequest EXCEPT !.pc = "listed",
                         !.todo = {p \in Processes : status[p] = "failed"}]]
  /\ UNCHANGED <<base, lock, user, pool, thread, handled, raced>>

\* The lock is taken and the job submitted, or the request is refused.
Accept(r) ==
  /\ request[r].pc = "listed"
  /\ \/ /\ GetLock(r)
        /\ request' = [request EXCEPT ![r].pc = "queued"]
        /\ pool' = Append(pool, r)
        /\ UNCHANGED handled
     \/ /\ entry # None
        /\ request' = [request EXCEPT ![r] = NoRequest]
        /\ handled' = [handled EXCEPT ![r] = {}]
        /\ UNCHANGED <<lock, pool>>
  /\ UNCHANGED <<base, user, thread, raced>>

\* Faulty: what was listed is resumed without looking again.
JobRead_NotAgain(r, p) ==
  /\ request[r].pc = "loop"
  /\ p \in request[r].todo
  /\ request' = [request EXCEPT ![r].pc = "resume", ![r].process = p, ![r].copy = status[p]]
  /\ UNCHANGED <<base, lock, user, pool, thread, handled, raced>>

\* Faulty: the first process that cannot be resumed ends the job.
JobRead_GivesUp(r, p) ==
  /\ request[r].pc = "loop"
  /\ p \in request[r].todo
  /\ \E answered \in BOOLEAN :
       IF status[p] # "running" /\ Resumable(p, status[p], answered)
       THEN request' = [request EXCEPT ![r].pc = "resume", ![r].process = p, ![r].copy = status[p]]
       ELSE request' = [request EXCEPT ![r].todo = {}]
  /\ UNCHANGED <<base, lock, user, pool, thread, handled, raced>>

\* One process of the list: skipped when something else runs it, or when
\* resuming it raises; whether it may be resumed at all is not asked.
JobRead(r, p) ==
  /\ request[r].pc = "loop"
  /\ p \in request[r].todo
  /\ \E answered \in BOOLEAN :
       IF status[p] # "running" /\ Resumable(p, status[p], answered)
       THEN /\ request' = [request EXCEPT ![r].pc = "resume", ![r].process = p,
                                          ![r].copy = status[p]]
            /\ UNCHANGED handled
       ELSE /\ request' = [request EXCEPT ![r].todo = @ \ {p}]
            /\ handled' = [handled EXCEPT ![r] =
                 IF Resumable(p, status[p], answered) THEN @ ELSE @ \cup {p}]
  /\ UNCHANGED <<base, lock, user, pool, thread, raced>>

JobSubmit(r) ==
  /\ request[r].pc = "resume"
  /\ Submit(request[r].process, request[r].copy)
  /\ request' = [request EXCEPT ![r] =
       [NoRequest EXCEPT !.pc = "loop", !.todo = request[r].todo \ {request[r].process}]]
  /\ UNCHANGED <<lock, user, thread>>

\* The lock is released, and the thread is free again.
JobEnd(r) ==
  /\ request[r].pc = "loop"
  /\ request[r].todo = {}
  /\ ReleaseLock(r)
  /\ request' = [request EXCEPT ![r] = NoRequest]
  /\ thread' = [t \in Threads |-> IF thread[t] = r THEN None ELSE thread[t]]
  /\ handled' = [handled EXCEPT ![r] = {}]
  /\ UNCHANGED <<base, user, pool, raced>>

-----------------------------------------------------------------------------
(* The pool *)

Take(t) ==
  /\ thread[t] = None
  /\ pool # <<>>
  /\ thread' = [thread EXCEPT ![t] = Head(pool)]
  /\ pool' = Tail(pool)
  /\ request' = IF Head(pool) \in Requests
                THEN [request EXCEPT ![Head(pool)].pc = "loop"] ELSE request
  /\ UNCHANGED <<base, lock, user, handled, raced>>

\* A run ends: an aborted process is left as it is, with the status it was given.
EndRun(t) ==
  /\ thread[t] \in Processes
  /\ thread' = [thread EXCEPT ![t] = None]
  /\ \E s \in {"failed", "suspended", "completed"} :
       status' = [status EXCEPT ![thread[t]] = IF thread[t] \in buried THEN @ ELSE s]
  /\ UNCHANGED <<buried, lock, request, user, pool, handled, raced>>

-----------------------------------------------------------------------------
Job(r) == JobSubmit(r) \/ JobEnd(r) \/ \E p \in Processes : JobRead(r, p)

UserCall(u) == UserSubmit(u) \/ \E p \in Processes : UserRead(u, p)

Next ==
  \/ Expire
  \/ \E r \in Requests : List(r) \/ Accept(r) \/ Job(r)
  \/ \E u \in Users : UserCall(u)
  \/ \E p \in Processes : Abort(p)
  \/ \E t \in Threads : Take(t) \/ EndRun(t)

Spec == Init /\ [][Next]_vars

\* Threads go on with what they execute, and runs end.
FairSpec ==
  /\ Spec
  /\ \A r \in Requests : WF_vars(Job(r))
  /\ \A t \in Threads : WF_vars(Take(t)) /\ WF_vars(EndRun(t))

-----------------------------------------------------------------------------
TypeOK ==
  /\ status \in [Processes -> Statuses]
  /\ buried \subseteq Processes
  /\ entry \in Requests \cup {None}
  /\ locked \in [Requests -> BOOLEAN]
  /\ request \in [Requests -> [pc : {"idle", "listed", "queued", "loop", "resume"},
                               todo : SUBSET Processes,
                               process : Processes \cup {None}, copy : Statuses]]
  /\ user \in [Users -> [process : Processes \cup {None}, copy : Statuses]]
  /\ pool \in Seq(Processes \cup Requests)
  /\ thread \in [Threads -> Processes \cup Requests \cup {None}]
  /\ handled \in [Requests -> SUBSET Processes]
  /\ raced \in BOOLEAN

\* The manager implements a lease: the job that outlives its lock cannot give back
\* the lock of the job after it, and the thread of the manager never stumbles over
\* a Lock that is not locked.
Claims == {r \in Requests : request[r].pc \in {"queued", "loop", "resume"}}
Promise == INSTANCE Lease WITH Owners <- Requests, Nobody <- None,
                               holder <- entry, claims <- Claims
ImplementsLease == Promise!Spec

\* The thread of the manager releases the Lock of every entry that is over, and
\* dies of the exception if one is not locked: each entry's Lock is, and no other.
EntryIsLocked == \A r \in Requests : locked[r] <=> entry = r

\* Runs of a process in the pool or on a thread.
Runs(p) ==
  Cardinality({i \in DOMAIN pool : pool[i] = p})
  + Cardinality({t \in Threads : thread[t] = p})

\* "Process has been started by something else in the meantime": as long as nobody
\* marks a process that changed after it was read, no two threads get the same one,
\* although the lock expires under the job and users resume by hand meanwhile.
OneRun == ~ raced => \A p \in Processes : Runs(p) <= 1

\* One process that cannot be resumed does not keep the others from being resumed:
\* when a job ends, all that it listed were resumed, aborted or found to be
\* impossible to resume since then, or are running.
NoneForgotten ==
  [][\A r \in Requests, p \in Processes :
       request[r].pc \in {"loop", "resume"} /\ p \in request[r].todo \ request'[r].todo =>
         p \in handled'[r] \/ status[p] = "running"]_vars

\* A process that is marked RUNNING is executed, unless it is an aborted one; jobs
\* that occupy threads of the pool do not keep it waiting for ever.
Executed ==
  \A p \in Processes :
    status[p] = "running" ~> (status[p] # "running" \/ p \in buried)
=============================================================================

--------------------------- MODULE SubscriptionLock ---------------------------
(***************************************************************************)
(* The sync state of subscriptions, the lock that keeps two workflows from *)
(* changing one subscription: the check when a workflow is started         *)
(* (services/subscriptions.py), the lock and unlock steps                  *)
(* (workflows/steps.py) in the step lists of workflows/utils.py, the       *)
(* domain model that a step loads and saves (domain/base.py), and the      *)
(* endpoint that sets a subscription in sync by hand.                      *)
(*                                                                         *)
(* A step loads the subscription without locking its row, and what it      *)
(* returns is saved as a whole: every column is written from the copy.     *)
(* Loading, the commit of the step and the commit of its log row are three *)
(* actions.  set_in_sync locks the row; its question about processes and   *)
(* its commit are two actions.                                             *)
(***************************************************************************)
EXTENDS Naturals, Sequences, FiniteSets

CONSTANTS
  Subscriptions,
  Processes,
  Targets,   \* the kinds of workflows that are started
  Related,   \* pairs <<u, s>>: subscription u uses subscription s
  Faults     \* which of AllFaults may happen

AllTargets == {"modify", "terminate", "validate", "reconcile", "modify_note"}

AllFaults == {"step", "log", "crash", "abort"}

ASSUME LockAssumption ==
  /\ Subscriptions # {}
  /\ Targets \subseteq AllTargets
  /\ Related \subseteq Subscriptions \X Subscriptions
  /\ Faults \subseteq AllFaults

Tasks == {"validate"}

\* These run for a subscription that is out of sync or has such relations.
UsableWhileOutOfSync == {"validate", "reconcile", "modify_note"}

TARGET_DEFAULT_USABLE_MAP == [t \in AllTargets |->
  IF t = "terminate" THEN {"active", "provisioning"} ELSE {"active"}]

\* Faulty: the process is related to its subscription after locking it.
Locked_StoreLate(lock, steps) == <<lock, "store">> \o steps \o <<"resync">>

\* Faulty: the own steps of the workflow come after the unlock step.
Locked_UnlockEarly(lock, steps) == <<"store", lock, "resync">> \o steps

\* What the workflow decorators put around the steps of a workflow.
Locked(lock, steps) == <<"store", lock>> \o steps \o <<"resync">>

\* The step lists, without the steps that only refresh a search index.
StepsOf(target) ==
  CASE target = "modify" -> Locked("unsync", <<"work">>)
    [] target = "terminate" -> Locked("unsync", <<"work", "set_terminated">>)
    [] target \in {"validate", "reconcile"} -> Locked("unsync_unchecked", <<"work">>)
    [] target = "modify_note" -> <<"store", "note">>

VARIABLES
  row,        \* row[s]: insync and status of SubscriptionTable
  proc,       \* proc[p]: what the database knows of the process
  exec,       \* exec[p]: where the executor of the process is
  copy,       \* copy[p]: the domain model its step has loaded
  unlocking,  \* set_in_sync has locked these rows and found no process
  holds,      \* history: processes between the commits of unsync and resync
  stale,      \* history: subscriptions saved from a copy that was out of date
  forced,     \* history: subscriptions unlocked by a process that did not hold them
  aborted     \* history: processes that have been aborted

vars == <<row, proc, exec, copy, unlocking, holds, stale, forced, aborted>>

Rows == [insync : BOOLEAN, status : {"active", "provisioning", "terminated"}]

NoCopy == [insync |-> TRUE, status |-> "active"]

\* related: the ProcessSubscriptionTable row has been committed.
NoProcess(s) ==
  [target |-> "modify", on |-> s, step |-> 1, status |-> "none", related |-> FALSE]

Init ==
  /\ row \in [Subscriptions -> {[insync |-> TRUE, status |-> "active"]}]
  /\ proc = [p \in Processes |-> NoProcess(CHOOSE s \in Subscriptions : TRUE)]
  /\ exec = [p \in Processes |-> "off"]
  /\ copy = [p \in Processes |-> NoCopy]
  /\ unlocking = {}
  /\ holds = {}
  /\ stale = {}
  /\ forced = {}
  /\ aborted = {}

\* Faulty: the relation is read in the wrong direction.
InUseBy_Dependencies(s) == {u \in Subscriptions \ {s} : <<s, u>> \in Related}

InUseBy(s) == {u \in Subscriptions \ {s} : <<u, s>> \in Related}

DependsOn(s) == {d \in Subscriptions \ {s} : <<s, d>> \in Related}

-----------------------------------------------------------------------------
(* Starting a workflow *)

\* subscription_workflows: no reason stands in the way of the workflow.
Startable(s, target) ==
  /\ target \notin UsableWhileOutOfSync =>
       \A r \in {s} \cup InUseBy(s) \cup DependsOn(s) : row[r].insync
  /\ row[s].status \in TARGET_DEFAULT_USABLE_MAP[target]
  /\ target = "terminate" => \A u \in InUseBy(s) : row[u].status = "terminated"

Start(p, s, target) ==
  /\ proc[p].status = "none"
  /\ Startable(s, target)
  /\ proc' = [proc EXCEPT ![p] = [target |-> target, on |-> s, step |-> 1,
                                  status |-> "running", related |-> FALSE]]
  /\ exec' = [exec EXCEPT ![p] = "ready"]
  /\ UNCHANGED <<row, copy, unlocking, holds, stale, forced, aborted>>

-----------------------------------------------------------------------------
(* One step of a workflow *)

AtEnd(p) == proc[p].step > Len(StepsOf(proc[p].target))

StepOf(p) == StepsOf(proc[p].target)[proc[p].step]

Load(p) ==
  /\ exec[p] = "ready"
  /\ ~AtEnd(p)
  /\ exec' = [exec EXCEPT ![p] = "loaded"]
  /\ copy' = [copy EXCEPT ![p] = row[proc[p].on]]
  /\ UNCHANGED <<row, proc, unlocking, holds, stale, forced, aborted>>

\* Faulty: locking a subscription that is out of sync succeeds.
Raises_NotAtUnsync(p) ==
  /\ StepOf(p) = "set_terminated"
  /\ \E u \in InUseBy(proc[p].on) : row[u].status # "terminated"

\* unsync refuses a subscription that is out of sync, and
\* validate_lifecycle_change one that others still use.
Raises(p) ==
  \/ StepOf(p) = "unsync" /\ ~copy[p].insync
  \/ /\ StepOf(p) = "set_terminated"
     /\ \E u \in InUseBy(proc[p].on) : row[u].status # "terminated"

\* The models the step may return; one that is returned is saved.
Returned(p) ==
  CASE StepOf(p) \in {"store", "note"} -> {}
    [] StepOf(p) = "work" -> {copy[p]}
    [] StepOf(p) \in {"unsync", "unsync_unchecked"} ->
         {[copy[p] EXCEPT !.insync = FALSE]}
    [] StepOf(p) = "set_terminated" -> {[copy[p] EXCEPT !.status = "terminated"]}
    [] StepOf(p) = "resync" -> {[copy[p] EXCEPT !.insync = TRUE]}

\* SubscriptionModel.save writes every column.  The row waits for set_in_sync,
\* unless nothing changes.
Save(p, model) ==
  LET s == proc[p].on
  IN  /\ s \in unlocking => model = row[s]
      /\ row' = [row EXCEPT ![s] = model]
      /\ stale' = IF copy[p] = row[s] THEN stale ELSE stale \cup {s}

\* The step's transaction; "store" adds the relation to the subscription.
Commit(p) ==
  /\ exec[p] = "loaded"
  /\ ~Raises(p)
  /\ \/ \E model \in Returned(p) : Save(p, model)
     \/ /\ StepOf(p) \in {"store", "note", "work"}
        /\ UNCHANGED <<row, stale>>
  /\ proc' = [proc EXCEPT ![p].related = @ \/ StepOf(p) = "store"]
  /\ holds' = CASE StepOf(p) = "unsync" -> holds \cup {p}
                [] StepOf(p) = "resync" -> holds \ {p}
                [] OTHER -> holds
  /\ forced' = IF StepOf(p) = "resync" /\ p \notin holds \ aborted
               THEN forced \cup {proc[p].on} ELSE forced
  /\ exec' = [exec EXCEPT ![p] = "committed"]
  /\ copy' = [copy EXCEPT ![p] = NoCopy]
  /\ UNCHANGED <<unlocking, aborted>>

\* The step is rolled back and its failure is logged.
Raise(p) ==
  /\ exec[p] = "loaded"
  /\ Raises(p) \/ "step" \in Faults
  /\ proc' = [proc EXCEPT ![p].status = "failed"]
  /\ exec' = [exec EXCEPT ![p] = "off"]
  /\ copy' = [copy EXCEPT ![p] = NoCopy]
  /\ UNCHANGED <<row, unlocking, holds, stale, forced, aborted>>

\* The log row and the status of the process are a transaction of their own.
Log(p) ==
  /\ exec[p] = "committed"
  /\ proc' = [proc EXCEPT ![p].step = @ + 1, ![p].status = "running"]
  /\ exec' = [exec EXCEPT ![p] = "ready"]
  /\ UNCHANGED <<row, copy, unlocking, holds, stale, forced, aborted>>

\* When that transaction fails, a failure of the step is logged instead.
LogFails(p) ==
  /\ "log" \in Faults
  /\ exec[p] = "committed"
  /\ proc' = [proc EXCEPT ![p].status = "failed"]
  /\ exec' = [exec EXCEPT ![p] = "off"]
  /\ UNCHANGED <<row, copy, unlocking, holds, stale, forced, aborted>>

Done(p) ==
  /\ exec[p] = "ready"
  /\ AtEnd(p)
  /\ proc' = [proc EXCEPT ![p].status = "completed"]
  /\ exec' = [exec EXCEPT ![p] = "off"]
  /\ UNCHANGED <<row, copy, unlocking, holds, stale, forced, aborted>>

Crash(p) ==
  /\ "crash" \in Faults
  /\ exec[p] # "off"
  /\ exec' = [exec EXCEPT ![p] = "off"]
  /\ copy' = [copy EXCEPT ![p] = NoCopy]
  /\ UNCHANGED <<row, proc, unlocking, holds, stale, forced, aborted>>

-----------------------------------------------------------------------------
(* Users and operators *)

\* A failed process is retried; one whose executor crashed is taken up again.
Resume(p) ==
  /\ exec[p] = "off"
  /\ proc[p].status \in {"failed", "running"}
  /\ proc' = [proc EXCEPT ![p].status = "running"]
  /\ exec' = [exec EXCEPT ![p] = "ready"]
  /\ UNCHANGED <<row, copy, unlocking, holds, stale, forced, aborted>>

\* The executor of a running process is not told.
Abort(p) ==
  /\ "abort" \in Faults
  /\ proc[p].status \in {"failed", "running"}
  /\ proc' = [proc EXCEPT ![p].status = "aborted"]
  /\ aborted' = aborted \cup {p}
  /\ UNCHANGED <<row, exec, copy, unlocking, holds, stale, forced>>

\* The processes that keep set_in_sync from unlocking the subscription.
FailedProcesses(s) ==
  {p \in Processes :
     /\ proc[p].related
     /\ proc[p].on = s
     /\ proc[p].target \notin Tasks
     /\ proc[p].status \notin {"completed", "aborted"}}

SetInSync(s) ==
  /\ s \notin unlocking
  /\ ~row[s].insync
  /\ FailedProcesses(s) = {}
  /\ unlocking' = unlocking \cup {s}
  /\ UNCHANGED <<row, proc, exec, copy, holds, stale, forced, aborted>>

CommitInSync(s) ==
  /\ s \in unlocking
  /\ row' = [row EXCEPT ![s].insync = TRUE]
  /\ unlocking' = unlocking \ {s}
  /\ UNCHANGED <<proc, exec, copy, holds, stale, forced, aborted>>

-----------------------------------------------------------------------------
Execute(p) == Load(p) \/ Commit(p) \/ Raise(p) \/ Log(p) \/ Done(p)

Next ==
  \/ \E p \in Processes :
       \/ \E s \in Subscriptions, target \in Targets : Start(p, s, target)
       \/ Execute(p)
       \/ LogFails(p)
       \/ Crash(p)
       \/ Resume(p)
       \/ Abort(p)
  \/ \E s \in Subscriptions : SetInSync(s) \/ CommitInSync(s)

Spec == Init /\ [][Next]_vars
-----------------------------------------------------------------------------
(* Properties *)

\* Rows, processes and copies have their types.
TypeOK ==
  /\ row \in [Subscriptions -> Rows]
  /\ proc \in [Processes ->
       [target : AllTargets, on : Subscriptions, step : 1..6,
        status : {"none", "running", "failed", "completed", "aborted"},
        related : BOOLEAN]]
  /\ exec \in [Processes -> {"off", "ready", "loaded", "committed"}]
  /\ copy \in [Processes -> Rows]
  /\ unlocking \subseteq Subscriptions
  /\ holds \subseteq Processes
  /\ stale \subseteq Subscriptions
  /\ forced \subseteq Subscriptions
  /\ aborted \subseteq Processes

HoldersOf(s) == {p \in holds : proc[p].on = s}

\* "This prevents multiple workflows from manipulating the same subscription
\* concurrently."
OneWorkflow == \A s \in Subscriptions : Cardinality(HoldersOf(s)) <= 1

\* Whatever fails, crashes or is set in sync by hand, two workflows hold one
\* subscription only after one of two things: a step saved a copy that was out of
\* date, or one unlocked it whose process did not hold it (a workflow that never
\* asked for the lock, one that was aborted, or one that repeats its last step).
Exclusive ==
  \A s \in Subscriptions \ (stale \cup forced) :
    Cardinality(HoldersOf(s) \ aborted) <= 1

\* Completed workflows leave no lock behind: a subscription is only out of sync
\* because of a process that has not completed.
NotLeftLocked ==
  \A s \in Subscriptions : ~row[s].insync =>
    \E p \in Processes :
      proc[p].on = s /\ proc[p].status \notin {"none", "completed"}

\* Without lost updates, a terminated subscription is used by terminated ones only.
TerminatedUnused ==
  \A s \in Subscriptions :
    row[s].status = "terminated" /\ stale = {} =>
      \A u \in Subscriptions \ {s} :
        <<u, s>> \in Related => row[u].status = "terminated"

\* Setting a subscription in sync by hand never takes the lock of a process that
\* was not aborted, be it running, failed or crashed, and however the steps of
\* that process and the two halves of the request interleave.
SetInSyncSafe ==
  [][\A s \in Subscriptions :
       s \in unlocking /\ s \notin unlocking' => HoldersOf(s) \subseteq aborted]_vars
=============================================================================

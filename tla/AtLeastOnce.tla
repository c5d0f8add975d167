----------------------------- MODULE AtLeastOnce -----------------------------
(***************************************************************************)
(* What the engine promises about one process, whatever is paused, killed, *)
(* retried or resumed: the steps of the workflow are executed in order,    *)
(* each at least once and none again after it was recorded, until the      *)
(* last one is recorded or a user gives up.                                *)
(***************************************************************************)
EXTENDS Integers

CONSTANTS N,          \* number of steps
          WorkOf(_)   \* WorkOf(i): what has to be executed for step i

VARIABLES ran,        \* what has been executed at least once
          pos,        \* number of steps recorded as done
          outcome     \* open, completed or aborted

vars == <<ran, pos, outcome>>

Init == ran = {} /\ pos = 0 /\ outcome = "open"

\* The parts of a step are executed in order.
Before(w) == {v \in WorkOf(w[1]) : v[2] < w[2]}

Execute(w) ==
  /\ outcome = "open"
  /\ Before(w) \subseteq ran
  /\ ran' = ran \cup {w}

\* A part of the step at hand is executed, perhaps not for the first time.
Try ==
  /\ pos < N
  /\ \E w \in WorkOf(pos + 1) : Execute(w)
  /\ UNCHANGED <<pos, outcome>>

\* The step at hand is recorded, with its last part.
Record ==
  /\ pos < N
  /\ \E w \in WorkOf(pos + 1) : Execute(w)
  /\ WorkOf(pos + 1) \subseteq ran'
  /\ pos' = pos + 1
  /\ outcome' = IF pos' = N THEN "completed" ELSE "open"

GiveUp ==
  /\ outcome = "open"
  /\ outcome' = "aborted"
  /\ UNCHANGED <<ran, pos>>

Next == Try \/ Record \/ GiveUp

Spec == Init /\ [][Next]_vars
=============================================================================

---------------------------- MODULE OneTimeRoute ----------------------------
(***************************************************************************)
(* What waiting for an external service promises ("At that point, the      *)
(* callback URL is disabled (so further triggers will not result in a      *)
(* repeat), a validation step is performed", docs/reference-docs/workflows *)
(* /callbacks.md).  The service is told a route with a token of its own.   *)
(* An answer is accepted once and only on the last route; it is validated  *)
(* once, with the data that was posted, and not thrown away for a new      *)
(* route; and a process is only completed after its last route was         *)
(* validated.                                                              *)
(***************************************************************************)
EXTENDS Integers

CONSTANT MaxToken   \* bound: number of routes

VARIABLES
  issued,     \* the last token
  accepted,   \* how many answers were accepted for a token
  used,       \* tokens that were validated, each with the data it had (0: none)
  outcome,    \* open, completed or aborted
  broken      \* the process was written from a copy that was out of date

vars == <<issued, accepted, used, outcome, broken>>

Tokens == 1..MaxToken

Init ==
  /\ issued = 0
  /\ accepted = [t \in Tokens |-> 0]
  /\ used = {}
  /\ outcome = "open"
  /\ broken = FALSE

Answered == issued # 0 /\ accepted[issued] # 0
Validated == \E s \in used : s[1] = issued

\* A new route takes the place of the last one, whose answer is not pending.
Issue ==
  /\ issued < MaxToken
  /\ Answered => Validated
  /\ issued' = issued + 1
  /\ UNCHANGED <<accepted, used, outcome>>

Accept ==
  /\ issued # 0
  /\ ~ Answered /\ ~ Validated
  /\ accepted' = [accepted EXCEPT ![issued] = 1]
  /\ UNCHANGED <<issued, used, outcome>>

\* A user may go on without an answer.
Validate ==
  /\ issued # 0
  /\ ~ Validated
  /\ used' = used \cup {<<issued, IF Answered THEN issued ELSE 0>>}
  /\ UNCHANGED <<issued, accepted, outcome>>

Complete ==
  /\ issued # 0 /\ Validated
  /\ outcome' = "completed"
  /\ UNCHANGED <<issued, accepted, used>>

GiveUp ==
  /\ outcome' = "aborted"
  /\ UNCHANGED <<issued, accepted, used>>

Step == Issue \/ Accept \/ Validate \/ Complete \/ GiveUp

\* Whatever is broken, tokens are new and data is only used for its own token.
Break ==
  /\ issued' \in {issued, issued + 1}
  /\ used \subseteq used'
  /\ \A s \in used' : s[2] \in {0, s[1]}
  /\ broken' = TRUE

Next == \/ outcome = "open" /\ Step /\ broken' = broken /\ ~ broken
        \/ Break

Spec == Init /\ [][Next]_vars
=============================================================================

-------------------------------- MODULE Lease --------------------------------
(***************************************************************************)
(* What a lock of the distributed lock manager promises                    *)
(* (distlock_manager.py: "Creating a lock is non-blocking, it succeeds or  *)
(* fails immediately.  Locks are to be created with an expiration period   *)
(* after which the backend implementation must release it."): a lease.  It *)
(* may end while its owner still believes to hold it, and then the owner   *)
(* can give back nothing any more, least of all the lease of another.      *)
(***************************************************************************)
CONSTANTS Owners, Nobody

VARIABLES
  holder,   \* whose lease it is
  claims    \* those who were granted it and have not given it back

vars == <<holder, claims>>

Init == holder = Nobody /\ claims = {}

Grant(o) ==
  /\ holder = Nobody
  /\ o \notin claims
  /\ holder' = o
  /\ claims' = claims \cup {o}

Expire ==
  /\ holder # Nobody
  /\ holder' = Nobody
  /\ UNCHANGED claims

GiveBack(o) ==
  /\ o \in claims
  /\ claims' = claims \ {o}
  /\ holder' = IF holder = o THEN Nobody ELSE holder

Next == Expire \/ \E o \in Owners : Grant(o) \/ GiveBack(o)

Spec == Init /\ [][Next]_vars
=============================================================================
